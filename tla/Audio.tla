------------------------------- MODULE Audio --------------------------------
(***************************************************************************)
(* The sound program (audio.asm): it keeps the timer of the sound chip     *)
(* running, counts its ticks for the main CPU, and sets the interval that  *)
(* the main CPU sends with set_timer_interval (main.c) as two tagged bytes *)
(* through the one-byte sound latch.                                       *)
(*                                                                         *)
(* The sound chip has one address and one data port: ym_write waits until  *)
(* the chip is not busy, writes the address, waits again and writes the    *)
(* data.  The handlers and the main program use it, so an interrupt        *)
(* between the two writes would send the data to another register.         *)
(***************************************************************************)
EXTENDS Integers, Sequences

CONSTANTS
  B,             \* number of values of tick_count (2^8)
  Intervals      \* arguments of set_timer_interval

ASSUME AudioAssumption ==
  /\ B \in Nat \ {0}
  /\ Intervals \subseteq 0 .. 65535

VARIABLES
  n, mpc,                   \* main CPU: set_timer_interval
  latch, unread,            \* sound latch, its interrupt line
  spc, todo, after, saved,  \* sound CPU: place, calls of ym_write to do, the
                            \* place after them, the interrupted place
  ie, serving,              \* interrupt flag, the handler in service
  req0, req1,               \* requests latched: timer, sound latch
  tick_count, low_n,
  address, busy,            \* sound chip: address latched, busy
  clka,                     \* timer A: CLKA1 and CLKA2
  irqEn, flagA, flagB       \* its interrupt enable and the timers' flags

main   == <<n, mpc>>
link   == <<latch, unread, req1>>
place  == <<spc, todo, after, saved>>
cpu    == <<ie, serving>>
ram    == <<tick_count, low_n>>
chip   == <<address, busy, clka, irqEn, flagA, flagB>>
vars   == <<main, link, place, cpu, req0, ram, chip>>

Byte == 0 .. 255
Write(reg, val) == [reg |-> reg, val |-> val]

\* Reset; RAM, the timer and the flags are what they were.
Init ==
  /\ n \in Intervals /\ mpc = "low"
  /\ latch = 0 /\ unread = FALSE
  /\ spc = "entry" /\ todo = <<>> /\ after = "entry" /\ saved = <<>>
  /\ ie = FALSE /\ serving = "none"
  /\ req1 = FALSE
  /\ tick_count = 0 /\ low_n \in {0, 127}
  /\ address = 0 /\ busy = FALSE
  /\ clka \in [hi : {255}, lo : {3}]
  /\ irqEn \in BOOLEAN /\ flagA \in BOOLEAN /\ flagB \in BOOLEAN
  /\ (flagA => irqEn) /\ req0 = flagA

-----------------------------------------------------------------------------
(***************************************************************************)
(* The main CPU: set_timer_interval.  The delay loops are far longer than  *)
(* the sound CPU takes for a byte, and it is ready long before main has    *)
(* cleared the screen.                                                     *)
(***************************************************************************)
Encoded == (1024 - n) % 65536
LowByte == Encoded % 128
HighByte == 128 + ((Encoded \div 128) % 128)

Out(v) ==
  /\ latch' = v
  /\ unread' = TRUE
  /\ req1' = (req1 \/ ~unread)
  /\ UNCHANGED <<n, place, cpu, req0, ram, chip>>

SoundReady == after \notin {"entry", "sti"}

OutLow == mpc = "low" /\ SoundReady /\ mpc' = "delay1" /\ Out(LowByte)

NoDelay(from, to) ==                \* mutant: the loop is optimised away
  /\ mpc = from /\ mpc' = to
  /\ UNCHANGED <<n, link, place, cpu, req0, ram, chip>>

Delay(from, to) ==
  /\ mpc = from /\ mpc' = to
  /\ ~unread /\ serving # "p1_handler"
  /\ UNCHANGED <<n, link, place, cpu, req0, ram, chip>>

OutHigh == mpc = "high" /\ mpc' = "delay2" /\ Out(HighByte)

set_timer_interval == OutLow \/ Delay("delay1", "high") \/ OutHigh \/ Delay("delay2", "done")

-----------------------------------------------------------------------------
(***************************************************************************)
(* The sound chip (external).                                              *)
(***************************************************************************)
NotBusy == busy /\ busy' = FALSE /\ UNCHANGED <<main, link, place, cpu, req0, ram, address, clka, irqEn, flagA, flagB>>

\* Timer A overflows; its interrupt line falls if the flag was reset.
Overflow ==
  /\ irqEn
  /\ flagA' = TRUE
  /\ req0' = (req0 \/ ~flagA)
  /\ UNCHANGED <<main, link, place, cpu, ram, address, busy, clka, irqEn, flagB>>

Bit(v, i) == (v \div CASE i = 2 -> 4 [] i = 4 -> 16 [] i = 5 -> 32) % 2 = 1

Register(reg, val) ==
  /\ clka' = CASE reg = 16 -> [clka EXCEPT !.hi = val]
               [] reg = 17 -> [clka EXCEPT !.lo = val % 4]
               [] OTHER -> clka
  /\ IF reg = 20
     THEN /\ irqEn' = Bit(val, 2)
          /\ flagA' = (flagA /\ ~Bit(val, 4))
          /\ flagB' = (flagB /\ ~Bit(val, 5))
     ELSE UNCHANGED <<irqEn, flagA, flagB>>

-----------------------------------------------------------------------------
(***************************************************************************)
(* ym_write, for the first of the calls to do.                             *)
(***************************************************************************)
Wait1 ==
  /\ spc = "wait_1" /\ ~busy
  /\ spc' = "address"
  /\ UNCHANGED <<main, link, todo, after, saved, cpu, req0, ram, chip>>

WriteAddress ==
  /\ spc = "address" /\ spc' = "wait_2"
  /\ address' = Head(todo).reg
  /\ UNCHANGED <<main, link, todo, after, saved, cpu, req0, ram, busy, clka, irqEn, flagA, flagB>>

Wait2 ==
  /\ spc = "wait_2" /\ ~busy
  /\ spc' = "data"
  /\ UNCHANGED <<main, link, todo, after, saved, cpu, req0, ram, chip>>

WriteData ==
  /\ spc = "data"
  /\ Register(address, Head(todo).val)
  /\ busy' = TRUE
  /\ todo' = Tail(todo)
  /\ spc' = IF Len(todo) > 1 THEN "wait_1" ELSE after
  /\ UNCHANGED <<main, link, after, saved, cpu, req0, ram, address>>

ym_write == Wait1 \/ WriteAddress \/ Wait2 \/ WriteData

(***************************************************************************)
(* entry                                                                   *)
(***************************************************************************)
ClearRequests == req0' = FALSE /\ req1' = FALSE

\* EXIC0 and EXIC1 are written with the request flag clear.
config_system ==
  /\ spc = "entry" /\ spc' = "config_timer"
  /\ ClearRequests
  /\ UNCHANGED <<main, latch, unread, todo, after, saved, cpu, ram, chip>>

TimerSetup == << Write(17, 2), Write(16, 36), Write(18, 0), Write(20, 21) >>

StiFirst ==                         \* mutant: sti before call config_timer
  /\ spc = "config_timer" /\ spc' = "wait_1"
  /\ todo' = TimerSetup /\ after' = "sti"
  /\ ie' = TRUE
  /\ UNCHANGED <<main, link, saved, serving, req0, ram, chip>>

config_timer ==
  /\ spc = "config_timer" /\ spc' = "wait_1"
  /\ todo' = TimerSetup /\ after' = "sti"
  /\ UNCHANGED <<main, link, saved, cpu, req0, ram, chip>>

RequestsClearedLate ==              \* mutant: config_system after config_timer
  /\ spc = "sti" /\ spc' = "loop_forever"
  /\ ie' = TRUE /\ after' = "loop_forever"
  /\ req0' = FALSE
  /\ UNCHANGED <<main, link, todo, saved, serving, ram, chip>>

Sti ==
  /\ spc = "sti" /\ spc' = "loop_forever"
  /\ ie' = TRUE /\ after' = "loop_forever"
  /\ UNCHANGED <<main, link, todo, saved, serving, req0, ram, chip>>

(***************************************************************************)
(* Interrupts: vectored, equal priorities, the timer first; the handler    *)
(* runs with interrupts off and ends with FINI and iret.                   *)
(***************************************************************************)
Handle(handler) ==
  /\ ie /\ serving = "none"
  /\ ie' = FALSE /\ serving' = handler
  /\ saved' = Append(saved, [spc |-> spc, todo |-> todo, after |-> after])
  /\ spc' = handler /\ todo' = <<>> /\ after' = "fini"
  /\ UNCHANGED <<main, latch, unread, ram, chip>>

TakeP0 == req0 /\ req0' = FALSE /\ UNCHANGED req1 /\ Handle("p0_handler")
TakeP1 == req1 /\ ~req0 /\ req1' = FALSE /\ UNCHANGED req0 /\ Handle("p1_handler")

NoReset ==                          \* mutant: the flag is not reset
  /\ spc = "p0_handler" /\ spc' = "fini"
  /\ tick_count' = (tick_count + 1) % B
  /\ UNCHANGED <<main, link, todo, after, saved, cpu, req0, low_n, chip>>

\* The count goes to 0x8046 for the main CPU; then the flag is reset.
p0_handler ==
  /\ spc = "p0_handler" /\ spc' = "wait_1"
  /\ tick_count' = (tick_count + 1) % B
  /\ todo' = << Write(20, 21) >>
  /\ UNCHANGED <<main, link, after, saved, cpu, req0, low_n, chip>>

Joined(high, low) == (high % 128) * 128 + low

LowPart ==                          \* no tag: keep the low byte
  /\ spc = "p1_handler" /\ latch < 128
  /\ spc' = "fini"
  /\ low_n' = latch
  /\ unread' = FALSE
  /\ UNCHANGED <<main, latch, req1, todo, after, saved, cpu, req0, tick_count, chip>>

HighPart ==                         \* .update_timer
  /\ spc = "p1_handler" /\ latch >= 128
  /\ spc' = "wait_1"
  /\ unread' = FALSE
  /\ LET ax == Joined(latch, low_n)
     IN  todo' = << Write(17, ax % 4), Write(16, (ax \div 4) % 256) >>
  /\ UNCHANGED <<main, latch, req1, after, saved, cpu, req0, ram, chip>>

p1_handler == LowPart \/ HighPart

Fini ==
  /\ spc = "fini"
  /\ LET back == saved[Len(saved)] IN
       spc' = back.spc /\ todo' = back.todo /\ after' = back.after
  /\ saved' = SubSeq(saved, 1, Len(saved) - 1)
  /\ ie' = TRUE /\ serving' = "none"
  /\ UNCHANGED <<main, link, req0, ram, chip>>

Interrupted == ie /\ serving = "none" /\ (req0 \/ req1)

\* An interrupt is taken before the next instruction.
Program ==
  /\ ~Interrupted
  /\ ym_write \/ config_system \/ config_timer \/ Sti \/ p0_handler \/ p1_handler \/ Fini

SoundCpu == Program \/ TakeP0 \/ TakeP1

Next == set_timer_interval \/ NotBusy \/ Overflow \/ SoundCpu

Spec == Init /\ [][Next]_vars

\* The CPUs run, and the chip's timer and its busy period come to an end.
FairSpec ==
  /\ Spec
  /\ WF_vars(SoundCpu) /\ WF_vars(set_timer_interval)
  /\ WF_vars(NotBusy) /\ WF_vars(Overflow)

-----------------------------------------------------------------------------
(***************************************************************************)
(* Properties                                                              *)
(***************************************************************************)
Writes == {Write(17, v) : v \in 0 .. 3} \cup {Write(16, v) : v \in Byte} \cup {Write(18, 0), Write(20, 21)}
InYmWrite == {"wait_1", "address", "wait_2", "data"}
Places == {"entry", "config_timer", "sti", "loop_forever", "p0_handler", "p1_handler", "fini"} \cup InYmWrite

TypeOK ==
  /\ n \in Intervals /\ mpc \in {"low", "delay1", "high", "delay2", "done"}
  /\ latch \in Byte /\ unread \in BOOLEAN
  /\ spc \in Places /\ todo \in Seq(Writes) /\ Len(todo) <= 4
  /\ (spc \in InYmWrite => todo # <<>>)
  /\ after \in {"entry", "sti", "loop_forever", "fini"}
  /\ Len(saved) <= 1 /\ (saved = <<>> <=> serving = "none")
  /\ ie \in BOOLEAN /\ serving \in {"none", "p0_handler", "p1_handler"} /\ req0 \in BOOLEAN /\ req1 \in BOOLEAN
  /\ tick_count \in 0 .. B - 1 /\ low_n \in 0 .. 127
  /\ address \in Byte /\ busy \in BOOLEAN
  /\ clka \in [hi : Byte, lo : 0 .. 3]
  /\ irqEn \in BOOLEAN /\ flagA \in BOOLEAN /\ flagB \in BOOLEAN

\* ym_write: the data goes to the register it is meant for, and the chip is
\* not busy, whatever interrupts come during the writes.
WrittenWhole == spc = "data" => address = Head(todo).reg /\ ~busy

\* set_timer_interval and p1_handler: the timer has the interval asked for,
\* for every argument, the ones beyond 1024 included (modulo its 10 bits).
IntervalSet == mpc = "done" => 4 * clka.hi + clka.lo = (1024 - n) % 1024

\* An overflow is never left standing: when the flag is set, its interrupt is
\* requested or its handler has yet to reset it.  Else the timer's line would
\* stay low and no interrupt come again.
NeverStuck ==
  flagA /\ spc \notin {"entry", "config_timer"} =>
    req0 \/ spc = "p0_handler" \/ (\E i \in DOMAIN todo : todo[i].reg = 20)

\* p0_handler: the ticks go on for ever.
TicksGoOn == []<>(spc = "p0_handler")

\* audio.asm:94 on the value 0x15: "00110101 F Reset, IRQ A EN, LOAD A", by
\* which the flags of both timers are reset when interrupts go on.
FlagsReset == spc = "sti" => ~flagB
=============================================================================
