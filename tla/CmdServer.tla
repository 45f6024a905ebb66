----------------------------- MODULE CmdServer ------------------------------
(***************************************************************************)
(* The command server of src/main.c (the main loop's poll, update_cmd and  *)
(* process_cmd) and its client, do_cmd in bin/comms.py, over the byte      *)
(* streams of ByteStream.                                                  *)
(*                                                                         *)
(* A step of the board is a piece of code around one call of comms_read or *)
(* comms_write; the call itself is atomic here (Comms has its inside).     *)
(* The stream carries items: the command byte, each field of the header,   *)
(* and each payload byte is one item, so a header can arrive in parts but  *)
(* a field cannot.                                                         *)
(***************************************************************************)
EXTENDS PicoApi

CONSTANTS
  ItemMax,          \* an item is a number up to this (2^32 - 1)
  WordMod,          \* values of a 16-bit int, size_t or uint16_t (2^16)
  BufSize,          \* size of Cmd.buffer (32)
  Request,          \* the requests the users of comms.py make
  NoRequest,        \* not a request
  Blank,            \* what memory may hold at reset
  MaxBacklog,       \* bound on the items under way to the board
  HostBuffer,       \* items that are taken from the board before the host
                    \* side stops acknowledging; an answer must fit
  MaxSessions,      \* bound on the sessions; the last one is not closed
  AllowTimeout      \* read_exact may give up on an answer (timeout=5)

Item == 0 .. ItemMax

ASSUME CmdServerAssumption ==
  /\ ItemMax \in Nat /\ ItemMax > CMD_FILL_WORDS
  /\ WordMod \in Nat /\ WordMod > 1
  /\ BufSize \in Nat /\ 1 < BufSize /\ BufSize < WordMod
  \* an item holds a far pointer, and the buffer is no longer than a segment
  /\ (ItemMax + 1) % OffMod = 0 /\ BufSize <= OffMod
  /\ \A r \in Request :
       /\ r.cmd \in 1 .. CMD_FILL_WORDS
       /\ r.arg0 \in Item /\ r.arg1 \in Item
       /\ r.data \in Seq(Item) /\ Len(r.data) < WordMod /\ Len(r.data) \in Item
       /\ r.cmd \in {CMD_READ_BYTES, CMD_READ_WORDS} => r.data = << >>
       /\ r.cmd = CMD_FILL_BYTES => Len(r.data) = 1
       /\ r.cmd = CMD_FILL_WORDS => Len(r.data) = 2
  /\ NoRequest \notin Request
  /\ Blank \subseteq Item /\ Blank # {}
  /\ MaxBacklog \in Nat /\ HostBuffer \in Nat
  /\ MaxSessions \in Nat
  /\ AllowTimeout \in BOOLEAN

VARIABLES
  \* the link: a session is open, the board takes part; items on their way
  \* to the board, items it can read, items the host can read
  up, comms_active, wire, toTarget, toHost,
  \* active_cmd of main.c (bytes_avail is the length of `buffer')
  cmd, arg0, arg1, total_bytes, total_bytes_read, total_bytes_consumed,
  bytes_consumed, buffer,
  \* the board: where it is, the header read so far, the words still to send
  \* in a READ_WORDS and their position, and the memory
  pc, buf, rounds, ofs, mem,
  \* the host: the request do_cmd is working on, how the last one ended, and
  \* what the last one that succeeded returned
  req, outcome, result,
  \* history: how many sessions there were; the present one began between
  \* two commands (whole) and no answer is late in it either (clean)
  sessions, whole, clean

link   == <<up, wire, toTarget, toHost>>
header == <<cmd, arg0, arg1, total_bytes>>
counts == <<total_bytes_read, total_bytes_consumed, bytes_consumed, buffer>>
words  == <<rounds, ofs>>
host   == <<req, outcome, result>>
history == <<sessions, whole, clean>>
vars   == <<link, comms_active, header, counts, pc, buf, words, mem, host, history>>

PC == {"poll", "consume", "command", "header", "fill", "process", "words"}

bytes_avail == Len(buffer)

IntMax == (WordMod \div 2) - 1

\* uint32_t to int, and to size_t
ToInt(n) == IF n % WordMod > IntMax THEN (n % WordMod) - WordMod ELSE n % WordMod
ToSize(n) == n % WordMod

Least(m, n) == IF m < n THEN m ELSE n

Init ==
  /\ up = FALSE /\ comms_active = FALSE
  /\ wire = << >> /\ toTarget = << >> /\ toHost = << >>
  \* main clears active_cmd
  /\ cmd = CMD_IDLE /\ arg0 = 0 /\ arg1 = 0 /\ total_bytes = 0
  /\ total_bytes_read = 0 /\ total_bytes_consumed = 0
  /\ bytes_consumed = 0 /\ buffer = << >>
  /\ pc = "poll" /\ buf = << >> /\ rounds = 0 /\ ofs = 0
  /\ mem \in [Phys -> Blank]
  /\ req = NoRequest /\ outcome = "none" /\ result = << >>
  /\ sessions = 0 /\ whole = FALSE /\ clean = FALSE

-----------------------------------------------------------------------------
(***************************************************************************)
(* comms_read and comms_write.  Both begin with comms_update.              *)
(***************************************************************************)
comms_update == comms_active' = up

\* What comms_read(.., maxlen) stores now: what is there, up to maxlen.  The
\* length is compared with maxlen after a byte is stored: 0 is no limit.
Readable(maxlen) ==
  IF ~up THEN << >>
  ELSE IF maxlen = 0 THEN toTarget
  ELSE SubSeq(toTarget, 1, Least(maxlen, Len(toTarget)))

comms_read(maxlen) ==
  /\ comms_update
  /\ toTarget' = SubSeq(toTarget, Len(Readable(maxlen)) + 1, Len(toTarget))
  /\ UNCHANGED <<up, wire, toHost>>

\* While a session is open comms_write waits until all is acknowledged.
comms_write(s) ==
  /\ up => Len(toHost) + Len(s) <= HostBuffer
  /\ comms_update
  /\ toHost' = IF up THEN toHost \o s ELSE toHost
  /\ UNCHANGED <<up, wire, toTarget>>

-----------------------------------------------------------------------------
(***************************************************************************)
(* main: nothing is done for active_cmd while there is no session.  The    *)
(* timing tests, the display and wait_vblank at the end of the loop body   *)
(* do not touch this state.                                                *)
(***************************************************************************)
Poll ==
  /\ pc = "poll"
  /\ comms_update
  /\ pc' = IF up THEN "consume" ELSE "poll"
  /\ UNCHANGED <<link, header, counts, buf, words, mem, host, history>>

(***************************************************************************)
(* update_cmd: drop what process_cmd consumed, finish the command, begin   *)
(* the next, read more payload.                                            *)
(***************************************************************************)
Complete == total_bytes_consumed' = total_bytes /\ cmd # CMD_IDLE

ConsumeForgetsTotal ==       \* mutant: the total is not advanced
  /\ buffer' = SubSeq(buffer, bytes_consumed + 1, bytes_avail)
  /\ UNCHANGED total_bytes_consumed
  /\ bytes_consumed' = 0

Consume ==
  /\ buffer' = SubSeq(buffer, bytes_consumed + 1, bytes_avail)
  /\ total_bytes_consumed' = total_bytes_consumed + bytes_consumed
  /\ bytes_consumed' = 0

FinishTailLate ==            \* mutant: the tail written after the reset
  /\ pc = "consume"
  /\ Consume
  /\ Complete
  /\ comms_write(<<CMD_IDLE>>)
  /\ cmd' = CMD_IDLE
  /\ pc' = "command"
  /\ UNCHANGED <<arg0, arg1, total_bytes, total_bytes_read,
                 buf, words, mem, host, history>>

Finish ==
  /\ pc = "consume"
  /\ Consume
  /\ Complete
  /\ comms_write(<<cmd>>)
  /\ cmd' = CMD_IDLE
  /\ pc' = "command"
  /\ UNCHANGED <<arg0, arg1, total_bytes, total_bytes_read,
                 buf, words, mem, host, history>>

Continue ==
  /\ pc = "consume"
  /\ Consume
  /\ ~Complete
  /\ pc' = IF cmd = CMD_IDLE THEN "command" ELSE "fill"
  /\ UNCHANGED <<link, comms_active, header, total_bytes_read,
                 buf, words, mem, host, history>>

\* Reading a CMD_IDLE is the same as reading nothing.
ReadCommand ==
  /\ pc = "command"
  /\ comms_read(1)
  /\ IF Readable(1) \in {<< >>, <<CMD_IDLE>>}
       THEN pc' = "process" /\ UNCHANGED <<cmd, buf>>
       ELSE pc' = "header" /\ cmd' = Readable(1)[1] /\ buf' = << >>
  /\ UNCHANGED <<arg0, arg1, total_bytes, counts, words, mem, host, history>>

HeaderLen == 3

HeaderRead(s) ==
  /\ arg0' = s[1] /\ arg1' = s[2]
  /\ total_bytes' = ToSize(s[3])
  /\ buffer' = << >> /\ bytes_consumed' = 0
  /\ total_bytes_read' = 0 /\ total_bytes_consumed' = 0

\* The loop waits for the whole header, through lost sessions if need be.
ReadHeader ==
  /\ pc = "header"
  /\ comms_read(HeaderLen - Len(buf))
  /\ LET got == buf \o Readable(HeaderLen - Len(buf))
     IN  IF Len(got) = HeaderLen
           THEN HeaderRead(got) /\ pc' = "fill" /\ buf' = << >>
           ELSE buf' = got /\ UNCHANGED <<pc, arg0, arg1, total_bytes, counts>>
  /\ UNCHANGED <<cmd, words, mem, host, history>>

max_readSpaceOnly == BufSize - bytes_avail   \* mutant: `remaining' forgotten

max_read == Least(BufSize - bytes_avail, total_bytes - total_bytes_read)

WantMore == total_bytes_read < total_bytes /\ bytes_avail < BufSize

Fill ==
  /\ pc = "fill" /\ WantMore
  /\ comms_read(max_read)
  /\ total_bytes_read' = total_bytes_read + Len(Readable(max_read))
  /\ buffer' = buffer \o Readable(max_read)
  /\ pc' = "process"
  /\ UNCHANGED <<header, total_bytes_consumed, bytes_consumed,
                 buf, words, mem, host, history>>

NoFill ==
  /\ pc = "fill" /\ ~WantMore
  /\ pc' = "process"
  /\ UNCHANGED <<link, comms_active, header, counts, buf, words, mem, host, history>>

-----------------------------------------------------------------------------
(***************************************************************************)
(* process_cmd.  The cases that only touch memory and bytes_consumed:      *)
(***************************************************************************)
Processed(m, consumed) ==
  /\ mem' = m
  /\ bytes_consumed' = consumed
  /\ pc' = "poll"
  /\ UNCHANGED <<link, comms_active, header, total_bytes_read,
                 total_bytes_consumed, buffer, buf, words, host, history>>

ChunkAddrWraps ==              \* mutant: the pointer is moved, not the number
  FarAdd(arg0, total_bytes_consumed)

\* A chunk of a write goes where the bytes before it end, the sum being taken
\* on the packed address, a uint32_t.
ChunkAddr == (arg0 + total_bytes_consumed) % (ItemMax + 1)

ProcessWriteBytes ==
  /\ pc = "process" /\ cmd = CMD_WRITE_BYTES
  /\ Processed(Store(mem, ChunkAddr, buffer), bytes_avail)

\* An odd byte stays in the buffer until the next one arrives.
EvenPart == bytes_avail - (bytes_avail % 2)

ProcessWriteWordsDropOdd ==    \* mutant: the odd byte is consumed as well
  /\ pc = "process" /\ cmd = CMD_WRITE_WORDS
  /\ Processed(Store(mem, ChunkAddr, SubSeq(buffer, 1, EvenPart)), bytes_avail)

ProcessWriteWords ==
  /\ pc = "process" /\ cmd = CMD_WRITE_WORDS
  /\ Processed(Store(mem, ChunkAddr, SubSeq(buffer, 1, EvenPart)), EvenPart)

ProcessFillBytes ==
  /\ pc = "process" /\ cmd = CMD_FILL_BYTES
  /\ IF bytes_avail > 0
       THEN Processed(Store(mem, arg0, Bytes(buffer[1], ToSize(arg1))), bytes_avail)
       ELSE Processed(mem, bytes_consumed)

ProcessFillWords ==
  /\ pc = "process" /\ cmd = CMD_FILL_WORDS
  /\ IF bytes_avail > 1
       THEN Processed(Store(mem, arg0, Words(buffer, ToSize(arg1))), bytes_avail)
       ELSE Processed(mem, bytes_consumed)

ProcessOther ==
  /\ pc = "process"
  /\ cmd \notin 1 .. CMD_FILL_WORDS
  /\ Processed(mem, IF cmd = CMD_IDLE THEN bytes_consumed ELSE bytes_avail)

(***************************************************************************)
(* The reads answer at once.  comms_write takes its length as an int: a    *)
(* count above IntMax is cut or becomes negative, and then nothing is      *)
(* sent.  The loop of READ_WORDS overflows its int index at IntMax + 1:    *)
(* it ends there or goes on, as the compiler likes.                        *)
(***************************************************************************)
ProcessReadBytes ==
  /\ pc = "process" /\ cmd = CMD_READ_BYTES
  /\ comms_write(Load(mem, arg0, ToInt(arg1)))
  /\ pc' = "poll"
  /\ UNCHANGED <<header, counts, buf, words, mem, host, history>>

ProcessReadWords ==
  /\ pc = "process" /\ cmd = CMD_READ_WORDS
  /\ rounds' \in (IF arg1 <= IntMax THEN {arg1} ELSE {IntMax + 1, arg1})
  /\ ofs' = 0
  /\ pc' = "words"
  /\ UNCHANGED <<link, comms_active, header, counts, buf, mem, host, history>>

SendWord ==
  /\ pc = "words" /\ ofs < rounds
  /\ comms_write(Load(mem, FarAdd(arg0, 2 * ofs), 2))
  /\ ofs' = ofs + 1
  /\ UNCHANGED <<header, counts, pc, buf, rounds, mem, host, history>>

WordsDone ==
  /\ pc = "words" /\ ofs >= rounds
  /\ pc' = "poll"
  /\ rounds' = 0 /\ ofs' = 0
  /\ UNCHANGED <<link, comms_active, header, counts, buf, mem, host, history>>

-----------------------------------------------------------------------------
(***************************************************************************)
(* The host.  do_cmd writes the header and the payload in one go, then     *)
(* waits for the response and the tail, which repeats the command.         *)
(***************************************************************************)
Backlog == Len(wire) + Len(toTarget)

Packed(r) == <<r.cmd, r.arg0, r.arg1, Len(r.data)>> \o r.data

DoCmd(r) ==
  /\ up /\ req = NoRequest
  /\ Backlog + Len(Packed(r)) <= MaxBacklog
  /\ wire' = wire \o Packed(r)
  /\ req' = r
  /\ outcome' = "none" /\ result' = << >>
  /\ UNCHANGED <<up, comms_active, toTarget, toHost, header, counts, pc, buf,
                 words, mem, history>>

\* The answer is there: n items of response and the tail after them.
TakeAnswer(n) ==
  /\ toHost' = SubSeq(toHost, n + 2, Len(toHost))
  /\ IF toHost[n + 1] = req.cmd
       THEN outcome' = "ok" /\ result' = SubSeq(toHost, 1, n)
       ELSE outcome' = "badtail" /\ UNCHANGED result

Answer ==
  /\ up /\ req # NoRequest
  /\ Len(toHost) > ResponseSize(req)
  /\ TakeAnswer(ResponseSize(req))
  /\ req' = NoRequest
  /\ UNCHANGED <<up, comms_active, wire, toTarget, header, counts, pc, buf,
                 words, mem, history>>

\* Giving up leaves what is under way where it is; pypicorom may or may not
\* keep the part of the answer that it already has.
Timeout ==
  /\ AllowTimeout
  /\ up /\ req # NoRequest
  /\ Len(toHost) <= ResponseSize(req)
  /\ toHost' \in {toHost, << >>}
  /\ req' = NoRequest
  /\ outcome' = "timeout"
  /\ clean' = FALSE
  /\ UNCHANGED <<up, comms_active, wire, toTarget, header, counts, pc, buf,
                 words, mem, result, sessions, whole>>

(***************************************************************************)
(* The serial link and its sessions (external; see ByteStream).            *)
(***************************************************************************)
Arrive ==
  /\ up /\ wire # << >>
  /\ toTarget' = Append(toTarget, Head(wire))
  /\ wire' = Tail(wire)
  /\ UNCHANGED <<up, comms_active, toHost, header, counts, pc, buf, words,
                 mem, host, history>>

BeginSession ==
  /\ ~up /\ ~comms_active
  /\ up' = TRUE
  /\ sessions' = sessions + 1
  /\ whole' = (cmd = CMD_IDLE) /\ clean' = whole'
  /\ UNCHANGED <<comms_active, wire, toTarget, toHost, header, counts, pc, buf,
                 words, mem, host>>

EndSession ==
  /\ sessions < MaxSessions
  /\ up
  /\ up' = FALSE
  /\ wire' = << >> /\ toTarget' = << >> /\ toHost' = << >>
  /\ req' = NoRequest /\ outcome' = "none" /\ result' = << >>
  /\ whole' = FALSE /\ clean' = FALSE
  /\ UNCHANGED <<comms_active, header, counts, pc, buf, words, mem, sessions>>

-----------------------------------------------------------------------------
update_cmd ==
  Finish \/ Continue \/ ReadCommand \/ ReadHeader \/ Fill \/ NoFill

process_cmd ==
  \/ ProcessWriteBytes \/ ProcessWriteWords
  \/ ProcessReadBytes \/ ProcessReadWords \/ SendWord \/ WordsDone
  \/ ProcessFillBytes \/ ProcessFillWords
  \/ ProcessOther

Board == Poll \/ update_cmd \/ process_cmd

Pico == (\E r \in Request : DoCmd(r)) \/ Answer \/ Timeout

Next == Board \/ Pico \/ Arrive \/ BeginSession \/ EndSession

Spec == Init /\ [][Next]_vars

\* The board runs its loop, the link delivers, do_cmd looks at what arrives.
Fairness == WF_vars(Board) /\ WF_vars(Arrive) /\ WF_vars(Answer)

FairSpec == Spec /\ Fairness

-----------------------------------------------------------------------------
(***************************************************************************)
(* Properties                                                              *)
(***************************************************************************)
TypeOK ==
  /\ up \in BOOLEAN /\ comms_active \in BOOLEAN
  /\ whole \in BOOLEAN /\ clean \in BOOLEAN
  /\ sessions \in Nat
  /\ wire \in Seq(Item) /\ toTarget \in Seq(Item) /\ toHost \in Seq(Item)
  /\ cmd \in Item /\ arg0 \in Item /\ arg1 \in Item
  /\ total_bytes \in 0 .. WordMod - 1
  /\ total_bytes_read \in 0 .. WordMod - 1
  /\ total_bytes_consumed \in 0 .. WordMod - 1
  /\ bytes_consumed \in 0 .. WordMod - 1 /\ buffer \in Seq(Item)
  /\ pc \in PC /\ buf \in Seq(Item) /\ Len(buf) < HeaderLen
  /\ rounds \in Nat /\ ofs \in Nat
  /\ mem \in [Phys -> Item]
  /\ req \in Request \cup {NoRequest}
  /\ outcome \in {"none", "ok", "badtail", "timeout"}
  /\ result \in Seq(Item)

\* The payload is accounted for: what was read is in the buffer or consumed,
\* never more than the header announced and never more than the buffer holds,
\* and memcpy never moves a negative number of bytes.  This holds for any
\* stream of items, whatever lost sessions have done to the framing.
PayloadAccounted ==
  /\ bytes_consumed <= bytes_avail
  /\ bytes_avail <= BufSize
  /\ total_bytes_consumed + bytes_avail = total_bytes_read
  /\ total_bytes_read <= total_bytes

\* A request that fits the board's types: its bytes lie in one segment, and
\* its counts are values of an int or a size_t.
Servable(r) ==
  LET n == Len(Written(r)) + ResponseSize(r) IN
  /\ Offset(r.arg0) + n <= OffMod /\ n <= PhysSize
  /\ r.arg0 + n <= ItemMax + 1
  /\ r.cmd \in {CMD_READ_BYTES, CMD_READ_WORDS} => r.arg1 <= IntMax
  /\ r.cmd \in {CMD_FILL_BYTES, CMD_FILL_WORDS} => r.arg1 < WordMod

AllServable == \A r \in Request : Servable(r)

\* In an orderly session every step on a request that fits is a step of
\* RemoteMemory: it changes exactly what it is to change, in time, and returns
\* what is there, whatever the requests before it did.
Remote == INSTANCE RemoteMemory WITH op <- req
Fits == req \in Request => Servable(req)
CleanSteps == [][clean /\ clean' /\ Fits => [Remote!Next]_(Remote!vars)]_vars

\* comms.py:33-34: the answer ends with the command it answers.
CorrectTail == outcome # "badtail"

\* An orderly session never sees a wrong tail.
CleanTail == clean => CorrectTail

\* A late answer may be taken for another one's, but the board still carries
\* out whole requests, one after the other, if the session began between two
\* commands: each change of memory is part of a request that was made.  For
\* requests that fit; StoresInPlace is about all of them.
OnlyRequestedWrites ==
  [][whole /\ whole' =>
      \E r \in Request : \A a \in Phys : mem'[a] \in {mem[a], Remote!Goal(r)[a]}]_mem

\* Where byte i of a request may go.  A fill wraps in the segment.  A write
\* carries into the next one; only a byte that comes less than BufSize - 1 bytes
\* after its begin may be in a chunk begun before it, which puts it one segment
\* lower (on the V30 this is 16 bytes).
Places(r, i) ==
  LET q == r.arg0 + i - 1
      Carried(sum) == Address(sum % (ItemMax + 1))
  IN  CASE r.cmd \in {CMD_FILL_BYTES, CMD_FILL_WORDS} -> {Address(FarAdd(r.arg0, i - 1))}
        [] OTHER -> {Carried(q)} \cup
                    (IF Offset(q) < BufSize - 1 /\ r.arg0 < q - Offset(q) THEN {Carried(q - OffMod)} ELSE {})

\* process_cmd, main.c:113 and :123: whatever segments the block of a request
\* runs through, and whatever chunks it arrives in, a store puts one of its
\* bytes into one of these places.
StoresInPlace ==
  [][whole /\ whole' =>
      \E r \in Request : \A a \in Phys :
        mem'[a] # mem[a] =>
          \E i \in 1 .. Len(Written(r)) : a \in Places(r, i) /\ mem'[a] = Written(r)[i]]_mem

\* comms.py:33-36: a response whose tail is right is the response to the
\* command, which the board has then carried out.
AcceptedMeansDone == [][outcome # "ok" /\ outcome' = "ok" => Remote!Return]_vars

\* Without loss and timeouts the server implements RemoteMemory.  That includes
\* the reads whose counts main.c:133 and :140 narrow: an answer of another
\* length than do_cmd waits for is never taken for the right one.
RemoteSpec == Remote!Spec

\* main.c:54-56 and comms.py:31: every request that fits is answered, up to the
\* largest counts that do.
ServableReturns == (req \in Request /\ Servable(req)) ~> (req = NoRequest)

\* ... which is not so of every request that comms.py:39 sends.
EveryRequestReturns == (req # NoRequest) ~> (req = NoRequest)
=============================================================================
