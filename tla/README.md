# Verification of m92_testbed

TLA+ models, model-checking runs and machine-checked proofs for the programs of
this repository: a test program that runs on an Irem M92 arcade board (V30 main
CPU, V30 sound CPU), the host library that talks to it through a PicoROM in the
program ROM socket, and the Pico that serves as its hardware clock.
Paths below are relative to the root of the repository.

## The system

| Component | Source | State | Operations |
|---|---|---|---|
| serial link driver | `src/comms.c` | `magic_valid`, `comms_active`, `comms_in_seq`, `comms_out_seq`; the PicoROM's `CommsRegisters` | `comms_update`, `comms_read`, `comms_write`, `comms_status` |
| command server | `src/main.c` 9-177, 304, 346-350, `src/util.h` | `active_cmd`, all of memory | `update_cmd`, `process_cmd` |
| host client | `bin/comms.py` | the session, the request in progress | `do_cmd`, the methods of `Pico`, two memory views |
| vertical blank, timing tests | `src/main.c` 244-262, 387-396, `src/timing_tests.*`, `src/timing.asm` | `vblank_count`, `vblank_tick`, `prev_vblank_tick`, test results | interrupt handler, `wait_vblank`, `run_timing_test` |
| main loop and display | `src/main.c` 264-401 | page, page delay, current test, results, text memory | test rotation, paging, `draw_pf_text` |
| sound program | `src/audio.asm`, `set_timer_interval` of `src/main.c` | timer latch, `low_n`, `tick_count`, the YM2151 | start-up, `p0`/`p1` handlers, `ym_write` |
| hardware clock | `hwclock/main.cpp`, `hwclock/counter.pio` | two PIO state machines, 16 data pins | count clock cycles, answer bus reads |
| start-up | `src/entry.S`, `src/init.c`, `src/interrupts*` | bss, data, vectors, interrupt controller | reset code |
| ROM splitter | `bin/split_rom.py` | one file | split, pad, repeat |
| printf | `src/printf/` (third party) | format position, conversion buffer, output gadget | `snprintf` and its family |

How they interact:

- The host writes a request (header and payload) into the session; PicoROM shows
  it byte by byte in `in_byte`; `comms_read` fetches it. The board cannot write to
  the ROM socket: it acknowledges by *reading* `in_byte` and sends the byte b by
  *reading* `out_area[b]`.
- `main` polls `comms_update` once per round, then calls `update_cmd` (finish the
  command, start the next one, read at most one buffer of payload) and
  `process_cmd` (carry out what the buffer allows). The round then runs one timing
  test, draws, and waits for the vertical blank.
- When a command is complete, `update_cmd` sends its number as the *tail*; `do_cmd`
  waits for the response and the tail.

- `set_timer_interval` (main CPU) puts two tagged bytes into a one-byte latch, which
  interrupts the sound CPU; the sound CPU counts the ticks of the sound chip's timer
  and shows the count to the main CPU, whose vertical blank handler samples it.
- A timing test reads the hardware clock before and after an instruction, with
  interrupts off; the display formats its result with `snprintf`.

What is hard in it: the link is two lock-free mailboxes polled from both sides
with 8-bit counters; sessions come and go under the board, which has nothing but
the register `active` to notice; a command lives across many rounds of the main
loop, in counters kept by two functions; the client has a timeout the board knows
nothing of; sizes cross from Python integers over `uint32_t` into 16-bit `int` and
`size_t`; interrupts update 32-bit data on a 16-bit CPU; two sound interrupts and the
main program share a chip with an address port; PIO programs must keep up with
two inputs that they only poll. `PROJECT.json` lists these hazards at their lines, with
the properties that cover them.

What makes each component correct:

- *link*: per session and direction, what arrives is an initial part of what was
  sent; writes are synchronous; no call polls for ever; ROM contents are never
  mistaken for a session.
- *command server and client*: a request changes exactly the memory it names, and
  returns only when that is done, with what is there; payload counters never part.
- *vertical blank*: no frame is lost, `wait_vblank` returns after a vertical blank and
  promptly, whatever halves of `vblank_count` the interrupt falls between; a test
  measures its instruction and nothing else.
- *display*: the screen shows the current page and nothing else; every page comes up.
- *sound*: what `set_timer_interval` encodes is what the sound chip's timer gets; no
  `ym_write` is torn; the ticks never stop.
- *hardware clock*: every cycle is counted once and shown before the next; the data
  pins are driven during reads only.
- *printf*: the text is the one the C standard prescribes, and nothing is written
  outside the buffers.
- *views*: indices and slices of a window behave as those of an array of bytes, and touch
  nothing around it.

## Modules

| Module | What it is |
|---|---|
| `ByteStream` | abstract specification of the link: two lossless streams per session |
| `Comms` | `comms.c`, one register access per step, and the PicoROM around it |
| `MCComms` | instance for TLC, two configurations |
| `CommsProofs` | type correctness, the inductive invariant, the safety properties and the refinement of `ByteStream` |
| `FarMemory` | far pointers, and the copy and fill loops of `util.h` as operators |
| `PicoApi` | the requests of class `Pico`: what is sent, written, returned |
| `RemoteMemory` | abstract specification of what a user of `bin/comms.py` relies on |
| `CmdServer` | `main`'s poll, `update_cmd`, `process_cmd` and `do_cmd` over byte streams |
| `MCCmdServer` | instances for TLC, seven configurations |
| `FarMemoryProofs` | lemmas on far pointers, blocks within and across segments, and the loops of `util.h` |
| `CmdServerProofs` | payload bookkeeping, types, framing, what requests do to memory within a segment and across segments, the refinement of `RemoteMemory` |
| `ViewArray` | abstract specification of the memory views: an array of bytes |
| `Views`, `MCViews` | `MemoryByteView` and `MemoryWordView` on top of `PicoApi` |
| `ViewsProofs` | their operations on a window refine `ViewArray` and stay in it |
| `Vblank`, `MCVblank` | start-up, interrupts, `run_timing_test`, `wait_vblank`, `frame_ticks` |
| `VblankProofs` | types, no lost frame, undisturbed measurements, no early and no late return, the ticks of a frame |
| `TimingTests` | the table of `timing_tests_desc.h` |
| `Display`, `MCDisplay` | the main loop's tests, pages and text |
| `DisplayProofs` | the screen shows exactly the page, with results of the last round; `printf.c` stays in its buffer and in the format |
| `Audio`, `MCAudio` | the sound program, `set_timer_interval` and the sound chip |
| `AudioProofs` | types, writes of the chip whole, the timer never stuck, the interval that was asked for |
| `ClockCounter` | abstract specification of the hardware clock: a counter of cycles |
| `HwClock`, `MCHwClock` | the two PIO programs, one instruction per cycle |
| `HwClockProofs` | they keep up, drive and release the bus in time, refine `ClockCounter` |
| `Printf`, `MCPrintf` | `printf.c` part by part, and calls with the text they must give |

### Comms

The statics and `CommsRegisters` are variables under their own names. `pc` says
which register access is next, because every one of them can see a different
PicoROM: `comms_update` is one step (`Update`: it reads `active` and, until they
have matched once, the magic bytes, which do not change during a session);
`comms_read` is `ReadActive`, `ReadSeq`, `ReadPending` (the loop condition, left to
right with its short cuts), `TestSeq` (the second look at `in_seq`) and `TakeByte`;
`comms_write` is `SendByte`, `PollAck`, `PollActive`, `WriteDone`. Local variables
(`len`, `sent`, the argument) are variables too. `TakeByte` merges `in_byte`'s read
with the updates of local state after it, which nobody else sees.

The PicoROM and the host are the environment, marked external: their firmware is
not in the repository. What is assumed of them is what `comms.c` needs: the next
byte is shown only once the last one was fetched; `in_seq` moves with `in_byte`;
`out_seq` moves when a byte was taken; a new session starts with both counters at
zero. `GapSeen` says whether the host leaves a closed session alone until the board
has noticed. `clean` records, for the present session, whether the board had left
the previous one when it began: the code has no way to notice otherwise, so that
is the condition under which it can promise anything, and the safety properties
say so. `hSent`, `rcvd`, `tSent`, `hRcvd` are history.

### CmdServer

The fields of `active_cmd` are variables (`bytes_avail` is the length of `buffer`;
`is_new` is only used in commented-out code). A step is a piece of code around one
call of `comms_read` or `comms_write`; such a call is atomic here, which `Comms` and
the refinement theorem justify, and it is also what starts with `comms_update`:
`READ_WORDS` makes one call per word and so one step per word. A stream item is the
command byte, a header field or a payload byte; the header loop can therefore be
interrupted between any two fields and mixed from two sessions. All items are
numbers below the same bound, so that a shifted stream is read as commands,
addresses and counts, as on the board. The conversions of the counts to `int` and
`size_t`, and the two kinds of address arithmetic (carry into the segment for the
chunks of a write, wrap inside the segment in all loops), are modelled with their
widths. The overflow of `int ofs` in `READ_WORDS` is a choice of its outcomes. `comms_read` compares
its length with `maxlen` after it has stored a byte, so a `maxlen` of 0 is no limit (`Readable`); that
`update_cmd` never passes one is its own doing (`WantMore`), and `PayloadAccounted` fails without.

`RemoteMemory` has one variable for the request, and `CmdServer` implements it
under the mapping `op <- req`. It lets the bytes of a write appear in any order, so
it does not fix chunking, but it forbids returning early, changing another byte
and returning anything but the contents.

The board does not check a request. `Servable` says what it has to be for the board to
serve it: the block lies within a segment, so that both kinds of address arithmetic
agree, and the counts are values of an `int` or a `size_t`. Findings 3 and 4 are what
becomes of other counts. `CleanSteps` is about the steps on
such a request (`Fits`), whatever the other requests are; only `ImplementsRemoteMemory` and `WritesAsRequested`
have the hypothesis `AllServable` (all requests are). The instance of `cmd_stable` has one more kind: reads whose
count an `int` does not hold (`NarrowedReads`), which the board may answer with less than the host waits for.
`RemoteSpec` is checked for them too: such an answer is never taken for the whole one. `ServableReturns`
says which requests are answered.

`StoresInPlace` says what the board does with the other blocks, those that run out of their
segment. `Places` gives for each byte of a request where it may go. A fill is one loop, so it
wraps to the beginning of its segment. For a write `process_cmd` adds the number of bytes consumed so
far to the packed pointer, which carries into the next segment field (on the V30, 16 bytes further on), and
`memcpyb` or `memcpyw` then moves the pointer, which wraps: a byte goes where the sum says, but if its
chunk began before a segment boundary and it comes after, it goes one segment lower. A chunk is what one
`comms_read` found, so only the host's timing decides which. At most the first `BufSize - 1` bytes (31 on
the board) behind a boundary are affected; the bound is tight.

`CmdServerAssumption` has, for this, that a pointer fills an item (`uint32_t`) and that the buffer is not longer than a
segment; and it says of the requests what `comms.py` makes of them: a read has no payload, a fill
has one byte (line 58) or the two of one word (line 62).

### Views

An operation on a view (`Call`) is refused (`Refuse`) or becomes one request of
`PicoApi` (`Send`), which `Return` serves as `RemoteMemory` says. The abstract `ViewArray`
has no requests, only an array of bytes; the map takes the bytes from the memory at
`base_addr`. The views count the words of a slice with `int(x / 2)`, add an index to a
packed far pointer and check less than a Python list does: what is refused is part
of the refinement. They do not check where a slice ends, where one that is written begins, and
how many bytes are written to it (`comms.py:83-92`, `114-123`): `b[Length:Length+1] = x` changes
memory outside the window. `Legal` says which operations are on the window, and `ArraySpec` and
`Untouched` are about the steps of these; the model has the others too (`Beyond` in `MCViews`), and they may
change the window and what is around it, in between, as they like.

### Vblank

One step is one instruction of the program, or a run of them that no interrupt can be
told apart in; `Interrupt(i)` may come before every step while `ie` is set and the
controller requests it. The steps follow `main`: start-up from power-on (`Cli` to
`EnableInterrupts`, with the controller's ports written one by one and the vector table of
`init.c`), then per round `Comms`, `run_timing_test` (`Disable`, `CallFunction`, `Enable`), `Draw`,
`wait_vblank` and the computation of `frame_ticks`. `vblank_count` is read in two halves in
`Cnt1`, `Cnt2`, `While1`, `While2`, in either order (`lowFirst`), as the compiler may choose.
The controller is an 8259 (external): priorities, mask, automatic end of interrupt. The
cost of the timed instruction is any element of `Costs`, also one that does not fit the byte a test
function returns: `MeasuredAlone` says that the result is the cost modulo a byte.

### Display

One step measures a test, formats a line, takes a colour or draws a glyph of it
(`TakeColor` and `PutGlyph`, the two branches of `draw_pf_text`), ends the line, or waits for the
frame; the text memory is a function from cells to glyph and colour, so that what an earlier line left
behind is seen. `snprintf` appears as the text it must give, which is `Printf`'s subject.
`test_results` starts with `Garbage`: it is an array on the stack.

### Audio

The sound CPU's place is `spc`; the calls of `ym_write` that a piece of the program makes
are the sequence `todo`, and each one is `Wait1`, `WriteAddress`, `Wait2`, `WriteData` with an interrupt
possible before each, which saves the place in `saved`. The requests `req0` and `req1` are
latched on edges: of timer A's flag, and of the latch being written. The sound chip
(external) has an address register, a busy flag, timer A and its flag. The main CPU runs
`set_timer_interval` beside it. `Delay` stands for its delay loops and holds until the sound
CPU has served the last byte, which is what the loops are there for; the loops are far
longer than the handler.

### HwClock

`Cycle` is one cycle of the Pico, in which both state machines execute one
instruction; `counter` and `oe_check` have one action per instruction of `counter.pio`. The clock and
the output enable change between any two cycles, but keep a level for at least
`MinLow`, `MinHigh` and `MinOe` cycles: the assumption says how few are enough.

### Printf

`stage` follows `format_string_loop` from one part of a conversion specification to the next
(flags, width, precision, length, conversion) and `print_integer` through its stages
(digits, zeros, prefix, sign, output), which share the conversion buffer `buf`. Flags and
the digits of a width or a precision are read one per step, as `parse_flags` and `atou_` do. All
arithmetic has 16 bits. The specification is `PrintfSpec`, with names of its own because
`DisplayProofs` extends this module beside `Display`. A character is a string, an argument a tagged record. Each
call of `MCPrintf` carries the text that the C standard prescribes for it, built
from its items and not from the format.

## Runs

All runs use 2 workers and finish within three minutes.

| Run | Shows |
|---|---|
| `comms_stream` | `Comms` implements `ByteStream` (`StreamSpec`), and every call returns (`CallsReturn`). |
| `comms_reopen` | With sessions closed and reopened at any step: `InOrder`, `WriteSynchronous`, `NoSpuriousSession`, `NoOverrun`, and the inductive invariant `IndInv`. |
| `cmd_stable` | In a session that lasts, `CmdServer` implements `RemoteMemory` (`RemoteSpec`), also for reads whose counts are narrowed; every request that fits is answered (`ServableReturns`). |
| `cmd_faults` | With sessions lost anywhere and answers abandoned: `PayloadAccounted` holds in every state; a session begun between two commands behaves as `RemoteMemory` until an answer is abandoned (`CleanSteps`) and never sees a wrong tail (`CleanTail`). One of the requests is a write that begins at the last byte of a segment; whichever requests are under way, and also after answers went astray, every store is where `Places` allows for one of them (`StoresInPlace`). |
| `cmd_reconnect` | *violated*: a session begun inside a command gets a wrong tail. |
| `cmd_late` | *violated*: after a timeout an answer is accepted for the wrong request. |
| `hwclock` | `HwClock` implements `ClockCounter` (`CounterSpec`); neither program falls behind (`InStep`); the pins are driven and released in time; a clock that stops leaves its last count on the pins (`LastCountShown`). |
| `vblank` | No frame is lost (`FramesCounted`), tests are measured alone (`MeasuredAlone`), `wait_vblank` returns after a vertical blank (`WaitedForFrame`), with the second at the latest (`WaitIsPrompt`) and always (`WaitReturns`); `frame_ticks` is exact but in the pass that clears the screen (`FrameTicksExact`). |
| `audio` | Every `ym_write` arrives whole (`WrittenWhole`), the timer gets the interval asked for (`IntervalSet`), the tick interrupt is never stuck (`NeverStuck`) and goes on for ever (`TicksGoOn`). |
| `display` | From the first page change on the screen shows exactly the page (`ScreenExact`) with results of the last round (`ResultsFresh`); every test comes up (`EveryTestShown`). |
| `printf` | About 10,000 calls give the prescribed text, length, terminator and `%n` (`Conforms`); the conversion buffer (`WithinBuffer`) and the format (`WithinFormat`) are never left. A call that stops before it returns would be a deadlock. |
| `views` | Operations on a window (`Legal`) implement `ViewArray` (`ArraySpec`) and change nothing outside it (`Untouched`), with operations that reach around it among them. |

Further configurations, which show the other findings below or repeat a run on
another instance: `MCCmdServer_large_read.cfg`, `MCCmdServer_large_fill.cfg`, `MCAudio_flags.cfg`,
`MCPrintf_incomplete.cfg`, `MCPrintf_precision.cfg` (all violated), `MCDisplay_real.cfg`, the display with
the real table of 34 tests (holds), and `MCCmdServer_boundary.cfg`, writes and fills that run out of their segment by
less and by more than a segment and beyond the last far pointer (`StoresInPlace` holds).

Bounds, and why they are enough:

- `Comms`: two byte values tell any two bytes apart; `U8 = 3` is the least width at
  which "one ahead" and "one behind" differ, and with up to 3 bytes (2 in `comms_reopen`)
  per direction and session the counters wrap within a session. Sessions are not
  bounded. The theorems cover the real width of 256.
- `CmdServer`: a buffer of 2 items splits a payload of 3 or 4 into chunks at every
  place, words included. Segments of 4 bytes begin 2 bytes apart, so segments
  overlap as they do on the V30. 16-bit numbers have 8 values (4 in `cmd_faults`) and items 16 (8): an
  item may exceed a 16-bit number. The reads of `cmd_stable` have counts at the limit of an `int`, one
  beyond it (negative), one that is cut and one that `ofs` does not reach. `MaxBacklog` bounds what the host puts
  on the wire ahead of the board (more than one request, which it needs only after
  a timeout); `HostBuffer` bounds what is acknowledged and not yet read by the host,
  after which `comms_write` waits, as it does on the board. `MaxSessions = 3`: one to break off
  in mid-command, one to be misread, one to recover. Payload
  values are chosen so that they read as commands when the framing is off. Late answers
  do occur within these bounds: `AcceptedMeansDone` is violated under them as in `cmd_late`. The requests of
  `cmd_faults` are a write and a read within a segment and a write whose first byte is the last of its segment, which
  the buffer of 2 may split there or not. In `MCCmdServer_boundary.cfg` the segments begin 1 byte apart, all bytes written are different, and the buffer holds 3, so that a
  chunk has one byte before the boundary and two after it: a byte in any wrong place is seen, and `Places` with
  one byte less is refuted.
- `Blank = {0}`: memory starts with one known value; what is read is then told apart by
  what was written.
- `HwClock`: 4 values on the pins, so the count wraps; every level as short as the
  assumption allows (2, 3 and 4 cycles), which is the hardest case, and longer ones up to
  a bound after which nothing changes.
- `Vblank`: halves of 3 values, so that carries into the high half and wraps of the
  whole count occur; `FramePace = 13` steps is the shortest frame for which `wait_vblank` can be
  on time at all, and tests, drawing and page changes may last longer; a test costs less than the 2
  values of a byte, or more.
- `Audio`: intervals at every edge of the two 7-bit parts, of the timer's 10 bits and of
  16 bits; `tick_count` has 2 values.
- `Display`: three tests on two pages, results of one, three and five digits (so that a
  longer number can be left behind), pages of 4 frames.
- `Printf`: buffers of 0, 1, 4 and 64 characters; every subset of the flags; widths none, 2
  and 5, precisions none, 0 and 3, and values at the edges of their types: each is shorter,
  equal and longer than the digits for some value. Widths and precisions of 40 exceed the
  conversion buffer of 32, which is real.
- `Views`: a window of 4 bytes in a segment of 8, with 2 bytes of it on either side, in a memory of
  16; all indices and slices in it, those just outside that the views look at, and nine operations that
  reach around it in each of the ways the views do not check. An `ASSUME` of `MCViews` has TLC see that
  some of these write on either side.

Deadlock is checked except in `cmd_faults`, `cmd_reconnect` and `cmd_late`, where the
board may wait for ever for a header or for an acknowledgement that the host never
gives.

Fairness: the board's CPU runs its loop without ever stopping, and every one of its
steps is always followed by another (weak fairness of `Board`); the PicoROM and the
link deliver (`ShowByte`, `AckByte`, `Arrive`); `do_cmd` blocks in `read_exact` and
sees what arrives (`Answer`). Nothing is assumed of when the host starts requests,
or opens or closes sessions. `CallsReturn` needs `GapSeen`: a session that is
reopened unseen leaves `comms_write` waiting. `Vblank`: the program runs (`Program`), the CPU takes the
interrupts it is asked to (`TakeInterrupt`), the display scans out frame after frame (`NewFrame`).
`Audio`: both CPUs run (`SoundCpu`, `set_timer_interval`), the chip's busy period ends (`NotBusy`) and its
enabled timer overflows (`Overflow`). `HwClock`: the Pico's cycles go on (`Cycle`); the board's
clock may stop. `Display`: the main loop goes on, which `WaitReturns` of `Vblank` and `CallsReturn` of
`Comms` justify.

Assumptions on the environment that the source does not show: the sound CPU is out of
reset before `main` has cleared the screen (`SoundReady`), and the delay loops of
`set_timer_interval` outlast the handling of a byte; a frame is at least `FramePace` steps long; the
levels of the clock and of the read strobe last the cycles of `HwClockAssumption`; what the user of
`Views` accesses lies within the segment of `base_addr` (`ViewsAssumption`).

## Findings

1. `update_cmd` does not drop a command when its session ends (`main.c:54`, `:74`);
   the next session's first bytes are swallowed by it (`cmd_reconnect`).
2. `do_cmd` gives up after five seconds without the board knowing; the tail is only
   the command number and cannot tell a late answer from the right one (`cmd_late`).
3. A read of more than 32767 bytes or words overflows `int` (`MCCmdServer_large_read.cfg`).
4. A fill of 65536 bytes or words, a whole segment, is acknowledged and does nothing
   (`MCCmdServer_large_fill.cfg`).
5. The comment at `audio.asm:94` gives the value 00110101; the code writes 00010101, which
   leaves timer B's flag alone (`MCAudio_flags.cfg`).
6. A format that ends after flags, a width or the digits of a precision is read
   beyond its terminator, against `printf.c:125` (`MCPrintf_incomplete.cfg`). No format of
   the program does.
7. A negative precision argument counts as 0 instead of as omitted
   (`MCPrintf_precision.cfg`). No call of the program passes one.

## Proofs

Checked by TLAPS, for every value of the constants that satisfies the named
assumptions (`CommsAssumption`, `CmdServerAssumption`, `FarMemoryAssumption`, `HwClockAssumption`,
`AudioAssumption`, `VblankAssumption`, `ViewsAssumption`, `DisplayAssumption`, `PrintfAssumption`).

`CommsProofs`. `TypeCorrect` first. The safety properties are not inductive: that a
byte is read once depends on `comms_in_seq` being equal to `in_seq` or one behind,
and that depends on what the PicoROM had shown when the board joined. `IndInv` adds

- `ShownInv`: the PicoROM shows one byte at a time, and only what was sent;
- `LoopInv`: the board is in a loop only while `comms_active`, and at `TakeByte` only
  with an unfetched byte; so a session that begins with `comms_active` false begins
  with the board outside all loops;
- `FreshInv`: a clean session the board has not joined is untouched, but for the
  first byte being shown, so that resetting both counters puts them in step;
- `InSync`, `SendInv`: in step, or one apart with exactly one byte under way;
- `ReceiveInv`: what was read is the fetched part of what was sent.

There is one lemma per action or group of actions, with one step per conjunct.
`ReadsInOrder`, `WritesSynchronously`, `NeverSpurious` and `NeverOverruns` follow from
`IndInvHolds`. `ImplementsByteStream` maps each action: joining and leaving are
`Attach` and `Detach`, `TakeByte` is `BoardReceive`, `SendByte` is `BoardSend` (or
nothing, once the session is gone), `AckByte` is `HostReceive`; all other steps of
the board leave the streams alone.

`CmdServerProofs`. `PayloadAlwaysAccounted`: with the types it rests on it is
inductive; the reads are bounded by `ReadableProperties`, which needs that something is asked for
(`HeaderLacks`, and `WantMore`), and the memcpy by `CutProperties`. It holds for any stream of items, so it needs no assumption on
sessions, timeouts or the host.

`ServerTypes` extends that to all variables. A store takes the last place of a block that
falls on an address, so it needs that a non-empty set of places has a greatest one
(`LeastExists` in `FarMemoryProofs`, from the well-foundedness of < on the naturals). `NoWrongTail`
rests on `Framing`: that no request is pending and nothing is under way without a session
(`Down`), where `active_cmd` is idle (`Place`), and, in a clean session, `Phase`: the one
request that `do_cmd` waits for is

- not there, and all queues are empty (`Quiet`);
- on its way as a whole, with the board idle (`Sent`);
- partly in `buf`, which with the rest of the stream is the request without its command
  (`Heading`);
- under way in `active_cmd`, with what is still to come being what the header announced
  and what was not read yet, and no more answered than the response (`Working`);
- done, with nothing under way to the board and its command as the last item of the
  answer (`Answered`).

Without it a tail could be the payload of another request. It uses that reads carry no
payload, as `read_bytes` and `read_words` of `comms.py` pass none (`CmdServerAssumption`): so the command is
complete in the very next round, and the response is not sent twice.

`StoresLand` and `WritesAsRequested` are about sessions in which answers are abandoned, so that several
requests are under way. `WholeInv` says that the stream is `Framed`, one whole request after
the other, but for its head, which is what is left of the request that `active_cmd` is about (`Stage`).

`StoresLand` proves `StoresInPlace` from it, for all requests: it needs neither `AllServable`
nor that a count fits its type. In `Stage` the buffer holds the items of `r.data` that follow the
consumed ones, so item x of a chunk is item `total_bytes_consumed + x` of the request (`ChunkLands`), and a fill whose
count is cut to 16 bits stores the first items of the block that was asked for (`FillLands`, `BlockLands`). What is
left is arithmetic (`WritePlace`, from `CarryOrWrap`). Where blocks overlap themselves, as one that wraps does,
`StoreHits` says that the last item stored is one of those that belong there. `WritesAsRequested` is the corollary for
requests that fit: each of their bytes has one place (`OnePlace`), the one where a store of the whole block puts it, so
that memory only changes to what the request is to leave there (`OnlyRequestedWrites`, which is proved and not run:
`StoresInPlace` says more).

`CleanSessionsRefine` adds to `Framing` what memory and the answer hold (`Recorded`): the bytes of the
request that the chunks have covered so far are in place (`InPlace`, `Covered`, kept by `Stores`: the chunks
of a block within a segment fall where a store of the whole block puts them, `StorePart`), what was answered is an
initial part of what memory holds (`Replied`), and an answer that is complete is that of a request
that is `Done`. All this is said of the request under way if it fits, and nothing is assumed of the others.
`RemoteMemory` allows any change towards the request and returns only when
nothing is left of it, which is what the last of these gives. `ImplementsRemoteMemory` follows: in the
one session of a run without loss and timeouts (`Lossless`), all steps are clean.

`FarMemoryProofs`. The bytes of a block that lies within a segment and is no longer than memory
have addresses of their own (`BlockOwnsBytes`), the chunked and the looping arithmetic agree on
them (`FarAddTwice`, `StaysInSegment`), and so a store in parts is the store of the whole (`StorePart`) and a
load in parts the load of the whole (`LoadMore`). For blocks that run on, `CutSum` takes a sum on the packed
pointer, cut to 32 bits, apart into segment and offset, which needs that segments divide the range of the sum; and
`CarryOrWrap` compares the loop with the sum: they agree until the offset reaches the end of the segment, and then the
loop is one segment lower, at an offset below the number of steps it has made.

`ViewsProofs`. `ViewInv`: the memory has its type, and a request under way is the one made of the
operation under way. `RefusedOutside` and `ServedInside` compare what the views refuse with what the
array does; `RequestCases` and `WrittenValue` give the bytes of each kind of request, with the
halving of counts (`Halves`) and the odd lengths it drops; `Window` says that the places of the window have
addresses of their own. `ImplementsArray` then compares the two memories place by place, and
`StaysInWindow` is the same computation outside the window. Both are about the steps in which the
operation under way is `Legal`; `ViewsAssumption` lets there be others, of which only the types are needed
(`WrittenType`).

`HwClockProofs`. `InStep` is inductive together with the types: it says for every
instruction of both programs how long the input may have had its level, and how
the number on the pins and the count then differ. From it follow `Released`, `Driven`, and
that every step of `HwClock` is one of `ClockCounter` or a stutter (`CountsEveryCycle`), for every
width of the pins and all times that `HwClockAssumption` allows.

`VblankProofs`. `NoFrameLost`, `TimesAlone` and `WaitsForFrame` rest on the types and on

- `Configured`: what the controller has been told at each place of the start-up, so
  that after it the vertical blank goes to its handler and ends by itself;
- a bound on how long a vertical blank may stay latched, from `FramePace`: it is taken
  before the next one comes, also after a timing test;
- `Measuring`: between the readings of a test interrupts are off and no time is added;
- `Watching`: how the two halves read so far relate to `vblank_count` and the interrupts since,
  for either order of the halves. `cnt` and the second look can only differ if a
  vertical blank came.

`WaitsPromptly` and `TicksAreExact` need that no second vertical blank comes within the steps
after a first one (`Recent`), which `FramePace` gives. `Prompt` says at each place of `wait_vblank` what has
been read and how long ago a vertical blank was that is not in it yet: after it the count
differs from `cnt` for at least two frames, whatever carries it has. `Ticking` follows the reads of
the two ticks, which stay the same from the return of `wait_vblank` to `frame_ticks`, and
`Difference` says what they are.

`AudioProofs`. `WritesWhole`, `TimerNeverStuck` and `IntervalArrives` rest on the types and on

- `Control`: where the sound CPU is, with its stack and the calls of `ym_write` it still
  has to do. Interrupts are on in `loop_forever` only, so no handler interrupts `ym_write`;
- `Writing`: from its first to its second wait the chip holds the address of the write;
- `Transfer`: how far the two bytes have come. Each is in the latch until `p1_handler` has
  taken it, and the second is sent when the first is in `low_n`;
- `NeverStuck` itself, which with `Control` is inductive.

That the two bytes hold the low 10 bits of 1024 - n is `TwoBytes`, for every integer n.
The assumption is `AudioAssumption`: 16-bit arguments, and a counter of at least one value.

`DisplayProofs`, for any table of tests whose pages fit on the screen. `ResultsAreFresh`: the age of a
result is how far its test is behind `current_test` in the round (`OfThisRound`), once the first round is
over (`InTurn`), which it is at the first page change because a page stays for at least as many
frames as there are tests. `ScreenIsExact` rests on `ScreenInv`, which holds from the first clearing on:

- `NoStray`: only the cells of the lines of the page are in use, each as far as its own text
  goes, and no cell belongs to two lines (`CellUnique`);
- `LinesDone`: the lines of the tests before `i` show their present text;
- `LinesLeft`: `y` is the number of lines drawn, which makes the next one that of the next test;
- `InLine`: while a line is drawn its first glyphs are in place, and the place in the text is one
  that these glyphs and the colour belong to (`StopAt`, `Reaches`).

A line always has the same number of glyphs, because a result that was measured has at
most three digits and is padded to three (`TextShape`, `RowShape`): so a new text covers the old
one. This is where the five digits of an unmeasured result would break it, and why
`ScreenExact` is about the time after the first page change (`ResultsAreFresh` in the invariant).

`DisplayProofs`, for `printf.c`. `StaysInFormat`: `ADVANCE_IN_FORMAT_STRING` looks for the terminator, while
`parse_flags` and `atou_` step over characters they have looked at and leave it to the next one. So
the invariant (`InFormat`) has `RunEnds`: while flags or digits are being read, a character that is neither
still comes before the terminator; and `InSpecifier`: up to the precision only flags and a width
have been read since the `%`. The hypothesis `AllComplete` says of the formats that such runs end, and TLC
evaluates it for every call of `MCPrintf`; Finding 6 shows that it cannot be dropped. Formats
that end after a `%`, a dot, a star or a length modifier satisfy it. `StaysInBuffer`: with
every place that adds to the buffer comparing the length with its size, the invariant (`BufferInv`) is
that the buffer is within its size from its digits to its output, and that the widths are integers. The hypothesis `ArgumentsFit`
says that the caller passes an `int` where the code takes one, without which C itself promises nothing;
the calls of `MCPrintf` all do, or TLC could not evaluate the steps that use them.

Only model-checked: liveness (`CallsReturn`, `ServableReturns`, `WaitReturns`, `TicksGoOn`, `LastCountShown`,
`EveryTestShown`), which is out of the prover's reach; `RemoteSpec` for reads whose counts do not fit; and `Conforms` of `Printf`, which compares with the
text that each call of the instance carries: that text is built by recursion over the call's
items, and what a recursive definition gives for every input is out of the prover's reach too.

## Not modelled

- The inside of PicoROM and pypicorom: not in the repository; see the assumptions
  above.
- `comms_status`, the palette and the playfield registers: written or printed, never read.
- Floating-point conversions, `long long` and the MSVC lengths of `printf.c`: not compiled.
- What a read that runs past its segment returns: the model wraps it, as the loops do, and no property is about it.
- `bin/split_rom.py`: a sequential script of the build. One thing in it is worth a look: it
  cuts the data to the size of the ROM (line 18) before it tests whether they fit
  (line 23), so an image that is too large is shortened and never refused.
- Build files, linker scripts and board designs: no run-time state.
- A request that overwrites the test program's own variables or stack.

## Plan

1. *Done*: all modules above.
2. `Testbed`: `CmdServer`'s calls carried out by `Comms`, refining `CmdServer`, for
   requests whose bytes interleave with the register accesses.
   The refinement of `ByteStream` by `Comms` is what there is of it: `CmdServer` takes each call as one step.
