---------------------------- MODULE AudioProofs -----------------------------
(***************************************************************************)
(* Proofs about Audio, for every set of intervals and every width of the   *)
(* tick counter: types, WrittenWhole, NeverStuck and IntervalSet.          *)
(***************************************************************************)
EXTENDS Audio, TLAPS

-----------------------------------------------------------------------------
(***************************************************************************)
(* The inductive invariant.                                                *)
(***************************************************************************)
\* What config_timer has left to write.
Setups == { << Write(17, 2), Write(16, 36), Write(18, 0), Write(20, 21) >>,
            << Write(16, 36), Write(18, 0), Write(20, 21) >>,
            << Write(18, 0), Write(20, 21) >>,
            << Write(20, 21) >> }

\* Where the sound CPU can be: interrupts are on in loop_forever only.
Starting ==
  /\ serving = "none" /\ saved = <<>> /\ ie = FALSE /\ after = "entry"
  /\ spc \in {"entry", "config_timer"} /\ todo = <<>>

SettingUp ==
  /\ serving = "none" /\ saved = <<>> /\ ie = FALSE /\ after = "sti"
  /\ \/ spc = "sti" /\ todo = <<>>
     \/ spc \in InYmWrite /\ todo \in Setups

Idle ==
  /\ serving = "none" /\ saved = <<>> /\ ie = TRUE /\ after = "loop_forever"
  /\ spc = "loop_forever" /\ todo = <<>>

AtLoop == << [spc |-> "loop_forever", todo |-> <<>>, after |-> "loop_forever"] >>

Ticking ==
  /\ serving = "p0_handler" /\ saved = AtLoop /\ ie = FALSE /\ after = "fini"
  /\ \/ spc \in {"p0_handler", "fini"} /\ todo = <<>>
     \/ spc \in InYmWrite /\ todo = << Write(20, 21) >>

Both(l, h) == << Write(17, l), Write(16, h) >>
High(h) == << Write(16, h) >>

Receiving ==
  /\ serving = "p1_handler" /\ saved = AtLoop /\ ie = FALSE /\ after = "fini"
  /\ \/ spc \in {"p1_handler", "fini"} /\ todo = <<>>
     \/ /\ spc \in InYmWrite
        /\ \E l \in 0 .. 3, h \in Byte : todo = Both(l, h) \/ todo = High(h)

Control == Starting \/ SettingUp \/ Idle \/ Ticking \/ Receiving

\* Between its two waits ym_write has its address at the chip, and after
\* each wait the chip is not busy.
Writing ==
  /\ spc \in {"wait_2", "data"} => address = Head(todo).reg
  /\ spc \in {"address", "data"} => busy = FALSE

\* The timer's 10 bits as p1_handler gets them from the two bytes.
Asked == Joined(HighByte, LowByte)

\* How far the two bytes have come: a byte is in the latch until p1_handler
\* takes it, and main waits for that.
InLatch(byte) ==
  /\ latch = byte /\ unread = TRUE
  /\ \/ req1 = TRUE /\ serving # "p1_handler"
     \/ req1 = FALSE /\ serving = "p1_handler" /\ spc = "p1_handler"

Taken == unread = FALSE /\ req1 = FALSE

\* lo and hi are the bytes, l and h the parts of the interval.
Moved(lo, hi, l, h) ==
  /\ mpc # "low" => after \in {"loop_forever", "fini"}
  /\ mpc = "low" => Taken /\ serving # "p1_handler"
  /\ mpc = "delay1" => \/ InLatch(lo)
                       \/ Taken /\ low_n = lo /\ (serving = "p1_handler" => spc = "fini")
  /\ mpc = "high" => Taken /\ low_n = lo /\ serving # "p1_handler"
  /\ mpc = "delay2" =>
       \/ InLatch(hi) /\ low_n = lo
       \/ /\ Taken /\ serving = "p1_handler" /\ spc \in InYmWrite
          /\ \/ todo = Both(l, h)
             \/ todo = High(h) /\ clka.lo = l
       \/ Taken /\ (serving = "p1_handler" => spc = "fini") /\ clka.lo = l /\ clka.hi = h
  /\ mpc = "done" => Taken /\ serving # "p1_handler" /\ clka.lo = l /\ clka.hi = h

Transfer == Moved(LowByte, HighByte, Asked % 4, (Asked \div 4) % 256)

\* Types of what Control does not say.
Types ==
  /\ n \in Intervals /\ mpc \in {"low", "delay1", "high", "delay2", "done"}
  /\ latch \in Byte /\ unread \in BOOLEAN
  /\ req0 \in BOOLEAN /\ req1 \in BOOLEAN
  /\ tick_count \in 0 .. B - 1 /\ low_n \in 0 .. 127
  /\ address \in Byte /\ busy \in BOOLEAN
  /\ clka \in [hi : Byte, lo : 0 .. 3]
  /\ irqEn \in BOOLEAN /\ flagA \in BOOLEAN /\ flagB \in BOOLEAN

Inv == Types /\ Control /\ Writing /\ Transfer /\ NeverStuck

-----------------------------------------------------------------------------
(***************************************************************************)
(* The calls of ym_write to do.                                            *)
(***************************************************************************)
LEMMA Queues ==
  /\ \A w : /\ Head(<<w>>) = w /\ Len(<<w>>) = 1 /\ Tail(<<w>>) = <<>>
            /\ <<w>> # <<>>
  /\ \A v, w : /\ Head(<<v, w>>) = v /\ Len(<<v, w>>) = 2 /\ Tail(<<v, w>>) = <<w>>
               /\ <<v, w>> # <<>>
  /\ \A u, v, w : Head(<<u, v, w>>) = u /\ Len(<<u, v, w>>) = 3 /\ Tail(<<u, v, w>>) = <<v, w>>
  /\ \A t, u, v, w : Head(<<t, u, v, w>>) = t /\ Len(<<t, u, v, w>>) = 4 /\ Tail(<<t, u, v, w>>) = <<u, v, w>>
OBVIOUS

\* The two bytes that set_timer_interval sends are below the tag or have it;
\* what p1_handler makes of them are the low 10 bits of 1024 - n.
LEMMA TwoBytes ==
  ASSUME n \in Int
  PROVE  /\ LowByte \in 0 .. 127
         /\ HighByte \in 128 .. 255
         /\ Asked % 4 \in 0 .. 3 /\ (Asked % 4) % 4 = Asked % 4
         /\ (Asked \div 4) % 256 \in 0 .. 255
         /\ (4 * ((Asked \div 4) % 256)) + (Asked % 4) = (1024 - n) % 1024
<1> DEFINE k == 1024 - n
           q == (Encoded \div 128) % 128
<1>1. k \in Int
  BY SMT
<1>2. Encoded = k % 65536
  BY DEF Encoded
<1>3. LowByte = Encoded % 128
  BY DEF LowByte
<1>4. q = (Encoded \div 128) % 128
  OBVIOUS
<1>5. HighByte = 128 + q
  BY DEF HighByte
<1>6. Asked = (((128 + q) % 128) * 128) + LowByte
  BY ONLY <1>5 DEF Asked, Joined
<1>7. k % 1024 = (1024 - n) % 1024
  OBVIOUS
<1> HIDE DEF k, q
<1>8. Encoded \in Nat
  BY ONLY <1>1, <1>2, SMTT(10)
<1>9. Encoded % 1024 = k % 1024
  BY ONLY <1>1, <1>2, SMTT(10)
<1>10. LowByte \in 0 .. 127 /\ q \in 0 .. 127
  BY ONLY <1>8, <1>3, <1>4, SMTT(10)
<1>11. (128 + q) % 128 = q
  BY ONLY <1>10, SMTT(10)
<1>12. Asked = (q * 128) + LowByte
  BY ONLY <1>11, <1>6, SMTT(10)
<1>13. Asked \in Nat
  BY ONLY <1>10, <1>12, SMTT(10)
<1>14. Asked % 1024 = Encoded % 1024
  BY ONLY <1>8, <1>12, <1>3, <1>4, SMTT(10)
<1>15. Asked % 4 \in 0 .. 3 /\ (Asked \div 4) % 256 \in 0 .. 255 /\ (Asked % 4) % 4 = Asked % 4
  BY ONLY <1>13, SMTT(10)
<1>16. (4 * ((Asked \div 4) % 256)) + (Asked % 4) = Asked % 1024
  BY ONLY <1>13, SMTT(10)
<1>17. HighByte \in 128 .. 255
  BY ONLY <1>5, <1>10, SMTT(10)
<1>18. (4 * ((Asked \div 4) % 256)) + (Asked % 4) = (1024 - n) % 1024
  BY ONLY <1>7, <1>9, <1>14, <1>16, SMTT(10)
<1> QED
  BY ONLY <1>10, <1>15, <1>17, <1>18, SMTT(10)

\* The bits of 0x15 that matter to the timer: its interrupt goes on, its flag
\* is reset.
LEMMA Flags == Bit(21, 2) /\ Bit(21, 4)
BY DEF Bit

\* What Fini takes off the stack, and what an interrupt puts there.
LEMMA Stack ==
  \A r : Append(<<>>, r) = <<r>> /\ Len(<<r>>) = 1 /\ <<r>>[1] = r /\ <<r>> # <<>> /\ SubSeq(<<r>>, 1, 0) = <<>>
OBVIOUS

LEMMA Kept ==
  ASSUME n' = n
  PROVE  LowByte' = LowByte /\ HighByte' = HighByte /\ Asked' = Asked
BY DEF LowByte, HighByte, Asked, Encoded, Joined

\* The parts that p1_handler makes of two bytes.
LEMMA Parts ==
  ASSUME NEW h \in Int, NEW l \in 0 .. 127
  PROVE  /\ Joined(h, l) % 4 \in 0 .. 3
         /\ (Joined(h, l) \div 4) % 256 \in Byte
<1>1. h % 128 \in 0 .. 127
  BY ONLY h \in Int, SMTT(10)
<1> DEFINE m == h % 128
           ax == Joined(h, l)
<1>2. m \in 0 .. 127
  BY <1>1
<1>3. ax = (m * 128) + l
  BY DEF Joined
<1> HIDE DEF m, ax
<1>4. ax \in Nat
  BY ONLY <1>2, <1>3, l \in 0 .. 127, SMTT(10)
<1>5. ax % 4 \in 0 .. 3 /\ (ax \div 4) % 256 \in 0 .. 255
  BY ONLY <1>4, SMTT(10)
<1> QED
  BY ONLY <1>5 DEF ax, Byte

-----------------------------------------------------------------------------
(***************************************************************************)
(* Control and Types: one step per action.                                 *)
(***************************************************************************)
LEMMA InitInv == Init => Inv
<1> SUFFICES ASSUME Init PROVE Inv
  OBVIOUS
<1>1. Types
  <2>1. tick_count = 0 /\ latch = 0 /\ address = 0 /\ low_n \in {0, 127} /\ B \in Nat \ {0}
    BY AudioAssumption DEF Init
  <2>2. tick_count \in 0 .. B - 1 /\ latch \in Byte /\ address \in Byte /\ low_n \in 0 .. 127
    BY ONLY <2>1 DEF Byte
  <2>3. clka \in [hi : Byte, lo : 0 .. 3]
    BY DEF Init, Byte
  <2> QED BY <2>2, <2>3 DEF Init, Types
<1>2. Control /\ Writing /\ Transfer /\ NeverStuck
  BY DEF Init, Control, Starting, Writing, Transfer, Moved, Taken, NeverStuck
<1> QED BY <1>1, <1>2 DEF Inv

\* Interrupts are on in the loop only, so it is the loop that one interrupts.
LEMMA Interrupts ==
  ASSUME Control, NEW h \in {"p0_handler", "p1_handler"}, Handle(h)
  PROVE  /\ Idle
         /\ serving' = h /\ saved' = AtLoop /\ ie' = FALSE /\ after' = "fini"
         /\ spc' = h /\ todo' = <<>>
<1>1. Idle
  BY DEF Control, Handle, Starting, SettingUp, Idle, Ticking, Receiving
<1>2. saved' = AtLoop
  BY <1>1, Stack DEF Idle, Handle, AtLoop
<1> QED BY <1>1, <1>2 DEF Handle

\* The handlers return to the loop.
LEMMA Returns ==
  ASSUME Control, Fini
  PROVE  (Ticking \/ Receiving) /\ Idle'
<1>1. Ticking \/ Receiving
  BY DEF Control, Fini, Starting, SettingUp, Idle, InYmWrite
<1>2. saved = AtLoop
  BY <1>1 DEF Ticking, Receiving
<1>3. Len(saved) = 1 /\ saved[1] = [spc |-> "loop_forever", todo |-> <<>>, after |-> "loop_forever"]
  BY <1>2, Stack DEF AtLoop
<1>4. SubSeq(saved, 1, Len(saved) - 1) = <<>>
  BY <1>2, Stack DEF AtLoop
<1> QED BY <1>1, <1>3, <1>4 DEF Fini, Idle

\* The writes that can be the next, and what remains after each.
LEMMA Calls ==
  ASSUME Control, spc \in InYmWrite
  PROVE  \/ /\ SettingUp
            /\ \/ Head(todo) \in {Write(17, 2), Write(16, 36), Write(18, 0)} /\ Len(todo) > 1 /\ Tail(todo) \in Setups
               \/ Head(todo) = Write(20, 21) /\ Len(todo) = 1 /\ Tail(todo) = <<>>
         \/ Ticking /\ Head(todo) = Write(20, 21) /\ Len(todo) = 1 /\ Tail(todo) = <<>>
         \/ /\ Receiving
            /\ \/ \E l \in 0 .. 3, h \in Byte : /\ todo = Both(l, h) /\ Head(todo) = Write(17, l)
                                                /\ Len(todo) = 2 /\ Tail(todo) = High(h)
               \/ \E h \in Byte : /\ todo = High(h) /\ Head(todo) = Write(16, h)
                                  /\ Len(todo) = 1 /\ Tail(todo) = <<>>
<1>1. CASE SettingUp
  <2>1. todo \in Setups
    BY <1>1 DEF SettingUp, InYmWrite
  <2>2. CASE todo = << Write(17, 2), Write(16, 36), Write(18, 0), Write(20, 21) >>
    BY <1>1, <2>2, Queues DEF Setups
  <2>3. CASE todo = << Write(16, 36), Write(18, 0), Write(20, 21) >>
    BY <1>1, <2>3, Queues DEF Setups
  <2>4. CASE todo = << Write(18, 0), Write(20, 21) >>
    BY <1>1, <2>4, Queues DEF Setups
  <2>5. CASE todo = << Write(20, 21) >>
    BY <1>1, <2>5, Queues DEF Setups
  <2> QED BY <2>1, <2>2, <2>3, <2>4, <2>5 DEF Setups
<1>2. CASE Ticking
  BY <1>2, Queues DEF Ticking, InYmWrite
<1>3. CASE Receiving
  <2>1. PICK l \in 0 .. 3, h \in Byte : todo = Both(l, h) \/ todo = High(h)
    BY <1>3 DEF Receiving, InYmWrite
  <2>2. CASE todo = Both(l, h)
    <3>1. Head(todo) = Write(17, l) /\ Len(todo) = 2 /\ Tail(todo) = High(h)
      BY <2>2, Queues DEF Both, High
    <3> QED BY <1>3, <2>2, <3>1, Zenon
  <2>3. CASE todo = High(h)
    <3>1. Head(todo) = Write(16, h) /\ Len(todo) = 1 /\ Tail(todo) = <<>>
      BY <2>3, Queues DEF High
    <3> QED BY <1>3, <2>3, <3>1, Zenon
  <2> QED BY <2>1, <2>2, <2>3
<1> QED BY <1>1, <1>2, <1>3 DEF Control, Starting, Idle, InYmWrite

LEMMA ControlStep ==
  ASSUME Types, Control, [Next]_vars
  PROVE  Control'
<1> DEFINE Same == UNCHANGED <<place, cpu>>
<1>1. CASE Same
  BY <1>1 DEF place, cpu, Control, Starting, SettingUp, Idle, Ticking, Receiving
<1>2. ASSUME spc \in InYmWrite, spc' \in InYmWrite, UNCHANGED <<todo, after, saved, cpu>>
      PROVE  Control'
  BY <1>2 DEF cpu, Control, Starting, SettingUp, Idle, Ticking, Receiving, InYmWrite
<1>3. CASE Wait1
  BY <1>2, <1>3 DEF Wait1, InYmWrite
<1>4. CASE WriteAddress
  BY <1>2, <1>4 DEF WriteAddress, InYmWrite
<1>5. CASE Wait2
  BY <1>2, <1>5 DEF Wait2, InYmWrite
<1>6. CASE WriteData
  <2>1. spc \in InYmWrite
    BY <1>6 DEF WriteData, InYmWrite
  <2>2. /\ todo' = Tail(todo) /\ spc' = (IF Len(todo) > 1 THEN "wait_1" ELSE after)
        /\ UNCHANGED <<after, saved, cpu>>
    BY <1>6 DEF WriteData
  <2>3. CASE SettingUp /\ Len(todo) > 1 /\ Tail(todo) \in Setups
    <3>1. SettingUp'
      BY <2>2, <2>3 DEF SettingUp, InYmWrite, cpu
    <3> QED BY <3>1 DEF Control
  <2>4. CASE SettingUp /\ Len(todo) = 1 /\ Tail(todo) = <<>>
    <3>1. SettingUp'
      BY <2>2, <2>4 DEF SettingUp, InYmWrite, cpu
    <3> QED BY <3>1 DEF Control
  <2>5. CASE Ticking /\ Len(todo) = 1 /\ Tail(todo) = <<>>
    <3>1. Ticking'
      BY <2>2, <2>5 DEF Ticking, InYmWrite, cpu
    <3> QED BY <3>1 DEF Control
  <2>6. ASSUME Receiving, NEW h \in Byte, Len(todo) = 2, Tail(todo) = High(h)
        PROVE  Control'
    <3>1. Receiving'
      BY <2>2, <2>6 DEF Receiving, InYmWrite, cpu
    <3> QED BY <3>1 DEF Control
  <2>7. CASE Receiving /\ Len(todo) = 1 /\ Tail(todo) = <<>>
    <3>1. Receiving'
      BY <2>2, <2>7 DEF Receiving, InYmWrite, cpu
    <3> QED BY <3>1 DEF Control
  <2> QED BY <2>1, <2>3, <2>4, <2>5, <2>6, <2>7, Calls
<1>7. CASE config_system
  BY <1>7 DEF config_system, cpu, Control, Starting, SettingUp, Idle, Ticking, Receiving, InYmWrite
<1>8. CASE config_timer
  <2>1. Starting
    BY <1>8 DEF config_timer, Control, Starting, SettingUp, Idle, Ticking, Receiving, InYmWrite
  <2>2. SettingUp'
    BY <1>8, <2>1 DEF config_timer, TimerSetup, Setups, cpu, Starting, SettingUp, InYmWrite
  <2> QED BY <2>2 DEF Control
<1>9. CASE Sti
  <2>1. SettingUp /\ todo = <<>>
    BY <1>9 DEF Sti, Control, Starting, SettingUp, Idle, Ticking, Receiving, InYmWrite
  <2>2. Idle'
    BY <1>9, <2>1 DEF Sti, SettingUp, Idle
  <2> QED BY <2>2 DEF Control
<1>10. CASE p0_handler
  <2>1. Ticking
    BY <1>10 DEF p0_handler, Control, Starting, SettingUp, Idle, Ticking, Receiving, InYmWrite
  <2>2. Ticking'
    BY <1>10, <2>1 DEF p0_handler, cpu, Ticking, InYmWrite
  <2> QED BY <2>2 DEF Control
<1>11. CASE LowPart
  <2>1. Receiving /\ todo = <<>>
    BY <1>11 DEF LowPart, Control, Starting, SettingUp, Idle, Ticking, Receiving, InYmWrite
  <2>2. Receiving'
    BY <1>11, <2>1 DEF LowPart, cpu, Receiving
  <2> QED BY <2>2 DEF Control
<1>12. CASE HighPart
  <2>1. Receiving
    BY <1>12 DEF HighPart, Control, Starting, SettingUp, Idle, Ticking, Receiving, InYmWrite
  <2>2. PICK l \in 0 .. 3, h \in Byte : todo' = Both(l, h)
    <3>1. latch \in Int /\ low_n \in 0 .. 127
      BY DEF Types, Byte
    <3> QED BY <1>12, <3>1, Parts DEF HighPart, Both
  <2>3. Receiving'
    BY <1>12, <2>1, <2>2 DEF HighPart, cpu, Receiving, InYmWrite
  <2> QED BY <2>3 DEF Control
<1>13. CASE Fini
  BY <1>13, Returns DEF Control
<1>14. CASE TakeP0
  <2>1. Ticking'
    BY <1>14, Interrupts DEF TakeP0, Ticking
  <2> QED BY <2>1 DEF Control
<1>15. CASE TakeP1
  <2>1. Receiving'
    BY <1>15, Interrupts DEF TakeP1, Receiving
  <2> QED BY <2>1 DEF Control
<1>16. CASE set_timer_interval \/ NotBusy \/ Overflow \/ UNCHANGED vars
  <2>1. Same
    BY <1>16 DEF set_timer_interval, OutLow, OutHigh, Delay, Out, NotBusy, Overflow, vars
  <2> QED BY <1>1, <2>1
<1> QED
  BY <1>3, <1>4, <1>5, <1>6, <1>7, <1>8, <1>9, <1>10, <1>11, <1>12, <1>13, <1>14, <1>15, <1>16
     DEF Next, SoundCpu, Program, ym_write, p1_handler

\* What arrives at the chip fits its register.
LEMMA WritesFit ==
  ASSUME Control, spc \in InYmWrite
  PROVE  \/ Head(todo) \in {Write(17, l) : l \in 0 .. 3}
         \/ Head(todo) \in {Write(16, h) : h \in Byte}
         \/ Head(todo) = Write(18, 0)
         \/ Head(todo) = Write(20, 21)
<1>1. 2 \in 0 .. 3 /\ 36 \in Byte
  BY DEF Byte
<1> QED BY <1>1, Calls

LEMMA RegisterWritten ==
  ASSUME Types, Control, Writing, WriteData
  PROVE  /\ clka' \in [hi : Byte, lo : 0 .. 3]
         /\ irqEn' \in BOOLEAN /\ flagA' \in BOOLEAN /\ flagB' \in BOOLEAN
<1>1. spc \in InYmWrite /\ address = Head(todo).reg /\ Register(address, Head(todo).val)
  BY DEF WriteData, Writing, InYmWrite
<1>2. clka \in [hi : Byte, lo : 0 .. 3] /\ irqEn \in BOOLEAN /\ flagA \in BOOLEAN /\ flagB \in BOOLEAN
  BY DEF Types
<1>3. ASSUME NEW l \in 0 .. 3, Head(todo) = Write(17, l)
      PROVE  clka' \in [hi : Byte, lo : 0 .. 3] /\ UNCHANGED <<irqEn, flagA, flagB>>
  <2>1. Register(17, l)
    BY <1>1, <1>3 DEF Write
  <2>2. l % 4 \in 0 .. 3
    BY ONLY l \in 0 .. 3, SMTT(10)
  <2> QED BY ONLY <1>2, <2>1, <2>2 DEF Register
<1>4. ASSUME NEW h \in Byte, Head(todo) = Write(16, h)
      PROVE  clka' \in [hi : Byte, lo : 0 .. 3] /\ UNCHANGED <<irqEn, flagA, flagB>>
  <2>1. Register(16, h)
    BY <1>1, <1>4 DEF Write
  <2> QED BY ONLY <1>2, <1>4, <2>1 DEF Register
<1>5. CASE Head(todo) = Write(18, 0)
  <2>1. Register(18, 0)
    BY <1>1, <1>5 DEF Write
  <2> QED BY ONLY <1>2, <2>1 DEF Register
<1>6. CASE Head(todo) = Write(20, 21)
  <2>1. Register(20, 21)
    BY <1>1, <1>6 DEF Write
  <2>2. clka' = clka /\ irqEn' = Bit(21, 2) /\ flagA' = (flagA /\ ~Bit(21, 4)) /\ flagB' = (flagB /\ ~Bit(21, 5))
    BY ONLY <2>1 DEF Register
  <2>3. Bit(21, 2) \in BOOLEAN
    BY DEF Bit
  <2> QED BY <1>2, <2>2, <2>3
<1> QED BY <1>1, <1>2, <1>3, <1>4, <1>5, <1>6, WritesFit

LEMMA Sent ==
  ASSUME Types
  PROVE  n \in Int /\ LowByte \in 0 .. 127 /\ HighByte \in 128 .. 255
<1>1. n \in Int
  BY AudioAssumption DEF Types
<1> QED BY <1>1, TwoBytes

LEMMA TypesStep ==
  ASSUME Types, Control, Writing, [Next]_vars
  PROVE  Types'
<1> DEFINE MainTypes == n \in Intervals /\ mpc \in {"low", "delay1", "high", "delay2", "done"}
           LatchTypes == latch \in Byte /\ unread \in BOOLEAN
           RequestTypes == req0 \in BOOLEAN /\ req1 \in BOOLEAN
           RamTypes == tick_count \in 0 .. B - 1 /\ low_n \in 0 .. 127
           PortTypes == address \in Byte /\ busy \in BOOLEAN
           TimerTypes == /\ clka \in [hi : Byte, lo : 0 .. 3]
                         /\ irqEn \in BOOLEAN /\ flagA \in BOOLEAN /\ flagB \in BOOLEAN
<1>1. MainTypes /\ LatchTypes /\ RequestTypes /\ RamTypes /\ PortTypes /\ TimerTypes
  BY DEF Types
<1>2. MainTypes'
  BY <1>1 DEF main, vars, Next, set_timer_interval, OutLow, OutHigh, Delay, Out, NotBusy, Overflow,
     SoundCpu, Program, ym_write, Wait1, WriteAddress, Wait2, WriteData, config_system, config_timer,
     Sti, p0_handler, p1_handler, LowPart, HighPart, Fini, TakeP0, TakeP1, Handle
<1>3. LatchTypes'
  <2>1. LowByte \in Byte /\ HighByte \in Byte
    BY Sent DEF Byte
  <2>2. CASE OutLow \/ OutHigh
    BY <2>1, <2>2 DEF OutLow, OutHigh, Out
  <2>3. CASE UNCHANGED latch /\ unread' \in {unread, FALSE}
    BY <1>1, <2>3
  <2> QED
    BY <2>2, <2>3 DEF vars, link, Next, set_timer_interval, Delay, NotBusy, Overflow,
     SoundCpu, Program, ym_write, Wait1, WriteAddress, Wait2, WriteData, config_system, config_timer,
     Sti, p0_handler, p1_handler, LowPart, HighPart, Fini, TakeP0, TakeP1, Handle
<1>4. RequestTypes'
  BY <1>1 DEF link, vars, Next, set_timer_interval, OutLow, OutHigh, Delay, Out, NotBusy, Overflow,
     SoundCpu, Program, ym_write, Wait1, WriteAddress, Wait2, WriteData, config_system, config_timer,
     Sti, p0_handler, p1_handler, LowPart, HighPart, Fini, TakeP0, TakeP1, Handle, ClearRequests
<1>5. RamTypes'
  <2>1. (tick_count + 1) % B \in 0 .. B - 1
    <3>1. tick_count \in Int /\ B \in Nat \ {0}
      BY <1>1, AudioAssumption
    <3> QED BY ONLY <3>1, SMTT(10)
  <2>2. CASE LowPart
    <3>1. latch \in 0 .. 127
      BY <1>1, <2>2 DEF LowPart, Byte
    <3> QED BY <1>1, <2>2, <3>1 DEF LowPart
  <2>3. CASE p0_handler
    BY <1>1, <2>1, <2>3 DEF p0_handler
  <2>4. CASE UNCHANGED ram
    BY <1>1, <2>4 DEF ram
  <2> QED
    BY <2>2, <2>3, <2>4 DEF vars, Next, set_timer_interval, OutLow, OutHigh, Delay, Out, NotBusy, Overflow,
     SoundCpu, Program, ym_write, Wait1, WriteAddress, Wait2, WriteData, config_system, config_timer,
     Sti, p1_handler, HighPart, Fini, TakeP0, TakeP1, Handle
<1>6. PortTypes'
  <2>1. CASE WriteAddress
    <3>1. Head(todo).reg \in {16, 17, 18, 20}
      <4>1. spc \in InYmWrite
        BY <2>1 DEF WriteAddress, InYmWrite
      <4>2. \A r, v : Write(r, v).reg = r
        BY DEF Write
      <4> QED BY <4>1, <4>2, WritesFit
    <3>2. \A r \in {16, 17, 18, 20} : r \in Byte
      BY DEF Byte
    <3> QED BY <1>1, <2>1, <3>1, <3>2 DEF WriteAddress
  <2>2. CASE UNCHANGED address /\ busy' \in {busy, FALSE, TRUE}
    BY <1>1, <2>2
  <2> QED
    BY <2>1, <2>2 DEF vars, chip, Next, set_timer_interval, OutLow, OutHigh, Delay, Out, NotBusy, Overflow,
     SoundCpu, Program, ym_write, Wait1, Wait2, WriteData, config_system, config_timer,
     Sti, p0_handler, p1_handler, LowPart, HighPart, Fini, TakeP0, TakeP1, Handle
<1>7. TimerTypes'
  <2>1. CASE WriteData
    BY <2>1, RegisterWritten
  <2>2. CASE UNCHANGED <<clka, irqEn, flagB>> /\ flagA' \in {flagA, TRUE}
    BY <1>1, <2>2
  <2> QED
    BY <2>1, <2>2 DEF vars, chip, Next, set_timer_interval, OutLow, OutHigh, Delay, Out, NotBusy, Overflow,
     SoundCpu, Program, ym_write, Wait1, WriteAddress, Wait2, config_system, config_timer,
     Sti, p0_handler, p1_handler, LowPart, HighPart, Fini, TakeP0, TakeP1, Handle
<1> QED BY <1>2, <1>3, <1>4, <1>5, <1>6, <1>7 DEF Types

-----------------------------------------------------------------------------
(***************************************************************************)
(* Writing and NeverStuck.                                                 *)
(***************************************************************************)
\* No interrupt comes within ym_write: it is called with interrupts off.
LEMMA WritingStep ==
  ASSUME Control, Writing, [Next]_vars
  PROVE  Writing'
<1>1. CASE Wait1
  BY <1>1 DEF Wait1, chip, Writing
<1>2. CASE WriteAddress
  BY <1>2 DEF WriteAddress, Writing
<1>3. CASE Wait2
  BY <1>3 DEF Wait2, Writing, chip
<1>4. CASE WriteData
  <2>1. after \in {"entry", "sti", "loop_forever", "fini"}
    BY DEF Control, Starting, SettingUp, Idle, Ticking, Receiving
  <2> QED BY <1>4, <2>1 DEF WriteData, Writing
<1>5. CASE Fini
  BY <1>5, Returns DEF Idle, Writing
<1>6. CASE TakeP0 \/ TakeP1
  BY <1>6, Interrupts DEF TakeP0, TakeP1, Writing
<1>7. CASE config_system \/ config_timer \/ Sti \/ p0_handler \/ p1_handler
  BY <1>7 DEF config_system, config_timer, Sti, p0_handler, p1_handler, LowPart, HighPart, Writing
<1>8. CASE NotBusy
  BY <1>8 DEF NotBusy, place, Writing
<1>9. CASE UNCHANGED <<spc, todo, address, busy>>
  BY <1>9 DEF Writing
<1> QED
  BY <1>1, <1>2, <1>3, <1>4, <1>5, <1>6, <1>7, <1>8, <1>9
     DEF vars, place, chip, Next, set_timer_interval, OutLow, OutHigh, Delay, Out, Overflow, SoundCpu, Program, ym_write

\* A call that resets the flag is among those to do.
Resets(calls) == \E i \in DOMAIN calls : calls[i].reg = 20

LEMMA SetupsReset ==
  ASSUME NEW calls \in Setups
  PROVE  Resets(calls)
<1>1. CASE calls = << Write(17, 2), Write(16, 36), Write(18, 0), Write(20, 21) >>
  <2>1. 4 \in DOMAIN calls /\ calls[4].reg = 20
    BY <1>1 DEF Write
  <2> QED BY <2>1 DEF Resets
<1>2. CASE calls = << Write(16, 36), Write(18, 0), Write(20, 21) >>
  <2>1. 3 \in DOMAIN calls /\ calls[3].reg = 20
    BY <1>2 DEF Write
  <2> QED BY <2>1 DEF Resets
<1>3. CASE calls = << Write(18, 0), Write(20, 21) >>
  <2>1. 2 \in DOMAIN calls /\ calls[2].reg = 20
    BY <1>3 DEF Write
  <2> QED BY <2>1 DEF Resets
<1>4. CASE calls = << Write(20, 21) >>
  <2>1. 1 \in DOMAIN calls /\ calls[1].reg = 20
    BY <1>4 DEF Write
  <2> QED BY <2>1 DEF Resets
<1> QED BY <1>1, <1>2, <1>3, <1>4 DEF Setups

LEMMA ResetNone ==
  ASSUME todo = <<>> \/ Receiving
  PROVE  ~Resets(todo)
<1>1. CASE todo = <<>>
  BY <1>1 DEF Resets
<1>2. ASSUME NEW l \in 0 .. 3, NEW h \in Byte, todo = Both(l, h)
      PROVE  ~Resets(todo)
  <2>1. DOMAIN todo = {1, 2} /\ todo[1].reg = 17 /\ todo[2].reg = 16
    BY <1>2 DEF Both, Write
  <2> QED BY <2>1 DEF Resets
<1>3. ASSUME NEW h \in Byte, todo = High(h)
      PROVE  ~Resets(todo)
  <2>1. DOMAIN todo = {1} /\ todo[1].reg = 16
    BY <1>3 DEF High, Write
  <2> QED BY <2>1 DEF Resets
<1> QED BY <1>1, <1>2, <1>3 DEF Receiving

\* Setting up and ticking end with the write that resets the flag; receiving
\* leaves it alone.
LEMMA NeverStuckStep ==
  ASSUME Types, Control, Writing, NeverStuck, [Next]_vars
  PROVE  NeverStuck'
<1>1. ASSUME UNCHANGED <<flagA, req0>>, ~Resets(todo), spc \notin {"entry", "config_timer", "p0_handler"}
      PROVE  NeverStuck'
  BY <1>1 DEF NeverStuck, Resets
<1>2. CASE UNCHANGED <<spc, todo, flagA, req0>>
  BY <1>2 DEF NeverStuck
<1>3. CASE Overflow
  <2>1. CASE flagA
    BY <1>3, <2>1 DEF Overflow, place, NeverStuck
  <2>2. CASE ~flagA
    BY <1>3, <2>2 DEF Overflow, place, NeverStuck
  <2> QED BY <2>1, <2>2
<1>4. CASE Wait1 \/ WriteAddress \/ Wait2
  BY <1>4 DEF Wait1, WriteAddress, Wait2, NeverStuck, chip
<1>5. CASE WriteData
  <2>1. /\ spc \in InYmWrite /\ spc = "data" /\ Register(Head(todo).reg, Head(todo).val)
        /\ todo' = Tail(todo) /\ req0' = req0
    BY <1>5 DEF WriteData, Writing, InYmWrite
  <2>2. CASE Head(todo) = Write(20, 21)
    <3>1. Register(20, 21)
      BY <2>1, <2>2 DEF Write
    <3>2. flagA' = FALSE
      BY <3>1, Flags DEF Register
    <3> QED BY <3>2 DEF NeverStuck
  <2>3. CASE Tail(todo) \in Setups
    <3>1. Resets(todo')
      BY <2>1, <2>3, SetupsReset
    <3> QED BY <3>1 DEF NeverStuck, Resets
  <2>4. ASSUME Receiving, NEW v, Head(todo) \in {Write(16, v), Write(17, v)}
        PROVE  NeverStuck'
    <3>1. Register(16, v) \/ Register(17, v)
      BY <2>1, <2>4 DEF Write
    <3>2. UNCHANGED <<flagA, req0>>
      BY <2>1, <3>1 DEF Register
    <3> QED BY <1>1, <2>1, <2>4, <3>2, ResetNone
  <2> QED BY <2>1, <2>2, <2>3, <2>4, Calls
<1>6. CASE config_system
  BY <1>6 DEF config_system, NeverStuck
<1>7. CASE config_timer
  <2>1. todo' \in Setups
    BY <1>7 DEF config_timer, TimerSetup, Setups
  <2>2. Resets(todo')
    BY <2>1, SetupsReset
  <2> QED BY <2>2 DEF NeverStuck, Resets
<1>8. CASE Sti
  BY <1>8 DEF Sti, NeverStuck, chip
<1>9. CASE p0_handler
  <2>1. 1 \in DOMAIN todo' /\ todo'[1].reg = 20
    BY <1>9 DEF p0_handler, Write
  <2> QED BY <2>1 DEF NeverStuck
<1>10. CASE p1_handler
  <2>1. spc = "p1_handler" /\ UNCHANGED <<flagA, req0>>
    BY <1>10 DEF p1_handler, LowPart, HighPart, chip
  <2>2. Receiving
    BY <2>1 DEF Control, Starting, SettingUp, Idle, Ticking, Receiving, InYmWrite
  <2> QED BY <1>1, <2>1, <2>2, ResetNone
<1>11. CASE Fini
  <2>1. spc = "fini" /\ todo = <<>> /\ UNCHANGED <<flagA, req0>>
    BY <1>11, Returns DEF Fini, chip, Ticking, Receiving, InYmWrite
  <2> QED BY <1>1, <2>1, ResetNone
<1>12. CASE TakeP0
  BY <1>12, Interrupts DEF TakeP0, NeverStuck
<1>13. CASE TakeP1
  <2>1. Idle /\ UNCHANGED <<flagA, req0>>
    BY <1>13, Interrupts DEF TakeP1, Handle, chip
  <2> QED BY <1>1, <2>1, ResetNone DEF Idle
<1> QED
  BY <1>2, <1>3, <1>4, <1>5, <1>6, <1>7, <1>8, <1>9, <1>10, <1>11, <1>12, <1>13
     DEF vars, place, chip, Next, set_timer_interval, OutLow, OutHigh, Delay, Out, NotBusy, SoundCpu, Program, ym_write

-----------------------------------------------------------------------------
(***************************************************************************)
(* Transfer: the main CPU waits for each byte to be taken, and p1_handler  *)
(* runs once for each.                                                     *)
(***************************************************************************)
LEMMA MovedStep ==
  ASSUME NEW lo, NEW hi, NEW l, NEW h,
         LowByte = lo, HighByte = hi, Asked % 4 = l, (Asked \div 4) % 256 = h,
         lo < 128, hi >= 128, l % 4 = l,
         Types, Control, Writing, Moved(lo, hi, l, h), [Next]_vars
  PROVE  Moved(lo, hi, l, h)'
<1>1. CASE OutLow
  BY <1>1 DEF OutLow, Out, SoundReady, place, cpu, Moved, InLatch, Taken, Control, Starting, SettingUp, Idle, Ticking, Receiving
<1>2. CASE Delay("delay1", "high") \/ Delay("delay2", "done")
  BY <1>2 DEF Delay, link, place, cpu, ram, chip, Moved, InLatch, Taken
<1>3. CASE OutHigh
  BY <1>3 DEF OutHigh, Out, place, cpu, ram, chip, Moved, InLatch, Taken
<1>4. CASE NotBusy \/ Overflow \/ UNCHANGED vars
  BY <1>4 DEF NotBusy, Overflow, vars, main, link, place, cpu, ram, chip, Moved, InLatch, Taken
<1>5. CASE Wait1 \/ WriteAddress \/ Wait2
  BY <1>5 DEF Wait1, WriteAddress, Wait2, main, link, cpu, ram, chip, Moved, InLatch, Taken, InYmWrite
<1>6. CASE WriteData
  <2>1. /\ spc = "data" /\ spc \in InYmWrite /\ Register(Head(todo).reg, Head(todo).val)
        /\ todo' = Tail(todo) /\ spc' = (IF Len(todo) > 1 THEN "wait_1" ELSE after)
        /\ UNCHANGED <<main, link, after, cpu, ram>>
    BY <1>6 DEF WriteData, Writing, InYmWrite
  <2>2. clka \in [hi : Byte, lo : 0 .. 3]
    BY DEF Types
  <2>3. CASE SettingUp
    BY <2>1, <2>3 DEF SettingUp, main, link, cpu, ram, Moved, Taken
  <2>4. CASE Ticking /\ Head(todo) = Write(20, 21)
    <3>1. clka' = clka
      BY <2>1, <2>4 DEF Write, Register
    <3> QED BY <2>1, <2>4, <3>1 DEF Ticking, main, link, cpu, ram, Moved, InLatch, Taken
  <2>5. ASSUME Receiving, NEW u \in 0 .. 3, NEW v \in Byte,
               todo = Both(u, v), Head(todo) = Write(17, u), Len(todo) = 2, Tail(todo) = High(v)
        PROVE  Moved(lo, hi, l, h)'
    <3>1. clka'.lo = u % 4
      BY <2>1, <2>2, <2>5 DEF Write, Register
    <3>2. mpc = "delay2" /\ Taken /\ todo = Both(l, h)
      <4>1. \A x : Both(u, v) # High(x)
        BY DEF Both, High
      <4>2. serving = "p1_handler" /\ mpc \in {"low", "delay1", "high", "delay2", "done"}
        BY <2>5 DEF Receiving, Types
      <4> QED BY <2>1, <2>5, <4>1, <4>2 DEF Moved, InLatch, Taken
    <3>3. u = l /\ v = h
      BY <2>5, <3>2 DEF Both, Write
    <3> QED BY <2>1, <2>5, <3>1, <3>2, <3>3 DEF Receiving, main, link, cpu, ram, Moved, Taken, InYmWrite
  <2>6. ASSUME Receiving, NEW v \in Byte,
               todo = High(v), Head(todo) = Write(16, v), Len(todo) = 1, Tail(todo) = <<>>
        PROVE  Moved(lo, hi, l, h)'
    <3>1. clka'.hi = v /\ clka'.lo = clka.lo
      BY <2>1, <2>2, <2>6 DEF Write, Register
    <3>2. mpc = "delay2" /\ Taken /\ todo = High(h) /\ clka.lo = l
      <4>1. \A x, y : Both(x, y) # High(v)
        BY DEF Both, High
      <4>2. serving = "p1_handler" /\ mpc \in {"low", "delay1", "high", "delay2", "done"}
        BY <2>6 DEF Receiving, Types
      <4> QED BY <2>1, <2>6, <4>1, <4>2 DEF Moved, InLatch, Taken
    <3>3. v = h
      BY <2>6, <3>2 DEF High, Write
    <3> QED BY <2>1, <2>6, <3>1, <3>2, <3>3 DEF Receiving, main, link, cpu, ram, Moved, Taken, InYmWrite
  <2> QED BY <2>1, <2>3, <2>4, <2>5, <2>6, Calls
<1>7. CASE config_system \/ config_timer
  BY <1>7 DEF config_system, config_timer, ClearRequests, main, link, cpu, ram, chip, Moved, InLatch, Taken,
     Control, Starting, SettingUp, Idle, Ticking, Receiving, InYmWrite
<1>8. CASE Sti
  BY <1>8 DEF Sti, main, link, cpu, ram, chip, Moved, InLatch, Taken,
     Control, Starting, SettingUp, Idle, Ticking, Receiving, InYmWrite
<1>9. CASE p0_handler
  BY <1>9 DEF p0_handler, main, link, cpu, ram, chip, Moved, InLatch, Taken,
     Control, Starting, SettingUp, Idle, Ticking, Receiving, InYmWrite
<1>10. CASE LowPart
  <2>1. Receiving
    BY <1>10 DEF LowPart, Control, Starting, SettingUp, Idle, Ticking, Receiving, InYmWrite
  <2>2. latch \in Int /\ latch < 128
    BY <1>10 DEF LowPart, Types, Byte
  <2>3. latch # hi
    BY ONLY <2>2, hi >= 128
  <2> QED
    BY <1>10, <2>1, <2>3 DEF LowPart, main, cpu, chip, Moved, InLatch, Taken, Receiving, InYmWrite
<1>11. CASE HighPart
  <2>1. Receiving
    BY <1>11 DEF HighPart, Control, Starting, SettingUp, Idle, Ticking, Receiving, InYmWrite
  <2>2. latch \in Int /\ latch >= 128
    BY <1>11 DEF HighPart, Types, Byte
  <2>3. latch # lo
    BY ONLY <2>2, lo < 128
  <2>4. mpc = "delay2" /\ latch = hi /\ low_n = lo /\ unread' = FALSE /\ req1 = FALSE
    BY <1>11, <2>1, <2>3 DEF HighPart, Moved, InLatch, Taken, Types, Receiving, InYmWrite
  <2>5. todo' = Both(l, h)
    <3>1. Joined(latch, low_n) = Asked
      BY <2>4 DEF Asked
    <3> QED BY <1>11, <3>1 DEF HighPart, Both
  <2> QED
    BY <1>11, <2>1, <2>4, <2>5 DEF HighPart, main, cpu, Moved, Taken, Receiving, InYmWrite
<1>12. CASE Fini
  <2>1. (Ticking \/ Receiving) /\ Idle' /\ spc = "fini"
    BY <1>12, Returns DEF Fini
  <2> QED
    BY <1>12, <2>1 DEF Fini, main, link, cpu, ram, chip, Moved, InLatch, Taken, Idle, InYmWrite
<1>13. CASE TakeP0
  <2>1. Idle /\ serving' = "p0_handler" /\ after' = "fini" /\ UNCHANGED <<main, link, ram, chip>>
    BY <1>13, Interrupts DEF TakeP0, Handle, link
  <2> QED BY <2>1 DEF main, link, ram, chip, Moved, InLatch, Taken, Idle
<1>14. CASE TakeP1
  <2>1. /\ Idle /\ serving' = "p1_handler" /\ after' = "fini" /\ spc' = "p1_handler"
        /\ req1 /\ req1' = FALSE /\ UNCHANGED <<main, latch, unread, ram, chip>>
    BY <1>14, Interrupts DEF TakeP1, Handle
  <2> QED BY <2>1 DEF main, ram, chip, Moved, InLatch, Taken, Idle
<1> QED
  BY <1>1, <1>2, <1>3, <1>4, <1>5, <1>6, <1>7, <1>8, <1>9, <1>10, <1>11, <1>12, <1>13, <1>14
     DEF Next, set_timer_interval, SoundCpu, Program, ym_write, p1_handler

LEMMA TransferStep ==
  ASSUME Types, Control, Writing, Transfer, [Next]_vars
  PROVE  Transfer'
<1>1. PICK lo, hi, l, h : LowByte = lo /\ HighByte = hi /\ Asked % 4 = l /\ (Asked \div 4) % 256 = h
  BY Zenon
<1>2. lo < 128 /\ hi >= 128 /\ l % 4 = l
  <2>1. lo \in 0 .. 127 /\ hi \in 128 .. 255
    BY <1>1, Sent
  <2>2. (Asked % 4) % 4 = Asked % 4
    BY Sent, TwoBytes
  <2>3. Asked % 4 = l
    BY <1>1
  <2>4. l % 4 = l
    BY ONLY <2>2, <2>3
  <2> QED BY ONLY <2>1, <2>4
<1>3. Moved(lo, hi, l, h)
  BY <1>1 DEF Transfer
<1>4. Moved(lo, hi, l, h)'
  BY <1>1, <1>2, <1>3, MovedStep
<1>5. n' = n
  BY DEF vars, main, Next, set_timer_interval, OutLow, OutHigh, Delay, Out, NotBusy, Overflow,
     SoundCpu, Program, ym_write, Wait1, WriteAddress, Wait2, WriteData, config_system, config_timer,
     Sti, p0_handler, p1_handler, LowPart, HighPart, Fini, TakeP0, TakeP1, Handle
<1>6. LowByte' = lo /\ HighByte' = hi /\ (Asked % 4)' = l /\ ((Asked \div 4) % 256)' = h
  BY <1>1, <1>5, Kept
<1> QED BY <1>4, <1>6 DEF Transfer

-----------------------------------------------------------------------------
LEMMA NextInv == Inv /\ [Next]_vars => Inv'
BY TypesStep, ControlStep, WritingStep, TransferStep, NeverStuckStep DEF Inv

LEMMA Invariant == Spec => []Inv
BY InitInv, NextInv, PTL DEF Spec

LEMMA ShortSequences ==
  ASSUME NEW S, NEW t \in S, NEW u \in S, NEW v \in S, NEW w \in S
  PROVE  /\ <<t>> \in Seq(S) /\ Len(<<t>>) = 1 /\ <<t>> # <<>>
         /\ <<t, u>> \in Seq(S) /\ Len(<<t, u>>) = 2 /\ <<t, u>> # <<>>
         /\ <<t, u, v>> \in Seq(S) /\ Len(<<t, u, v>>) = 3 /\ <<t, u, v>> # <<>>
         /\ <<t, u, v, w>> \in Seq(S) /\ Len(<<t, u, v, w>>) = 4 /\ <<t, u, v, w>> # <<>>
<1>1. <<t>> \in Seq(S) /\ Len(<<t>>) = 1 /\ <<t>> # <<>>
  OBVIOUS
<1>2. <<t, u>> \in Seq(S) /\ Len(<<t, u>>) = 2 /\ <<t, u>> # <<>>
  OBVIOUS
<1>3. <<t, u, v>> \in Seq(S) /\ Len(<<t, u, v>>) = 3 /\ <<t, u, v>> # <<>>
  OBVIOUS
<1>4. <<t, u, v, w>> \in Seq(S) /\ Len(<<t, u, v, w>>) = 4 /\ <<t, u, v, w>> # <<>>
  OBVIOUS
<1> QED BY <1>1, <1>2, <1>3, <1>4

\* TypeOK.
THEOREM TypesOK == Spec => []TypeOK
<1>1. ASSUME Inv PROVE TypeOK
  <2>1. Types /\ Control
    BY <1>1 DEF Inv
  <2>2. todo \in Seq(Writes) /\ Len(todo) <= 4 /\ (spc \in InYmWrite => todo # <<>>)
    <3>1. /\ Write(17, 2) \in Writes /\ Write(16, 36) \in Writes
          /\ Write(18, 0) \in Writes /\ Write(20, 21) \in Writes
      <4>1. 2 \in 0 .. 3 /\ 36 \in Byte
        BY DEF Byte
      <4> QED BY <4>1 DEF Writes
    <3>2. CASE todo = <<>> /\ spc \notin InYmWrite
      BY <3>2
    <3>3. CASE todo \in Setups
      <4>1. CASE todo = << Write(17, 2), Write(16, 36), Write(18, 0), Write(20, 21) >>
        BY <3>1, <4>1, ShortSequences
      <4>2. CASE todo = << Write(16, 36), Write(18, 0), Write(20, 21) >>
        BY <3>1, <4>2, ShortSequences
      <4>3. CASE todo = << Write(18, 0), Write(20, 21) >>
        BY <3>1, <4>3, ShortSequences
      <4>4. CASE todo = << Write(20, 21) >>
        BY <3>1, <4>4, ShortSequences
      <4> QED BY <3>3, <4>1, <4>2, <4>3, <4>4 DEF Setups
    <3>4. CASE todo = << Write(20, 21) >>
      BY <3>1, <3>4, ShortSequences
    <3>5. ASSUME NEW l \in 0 .. 3, NEW h \in Byte, todo = Both(l, h) \/ todo = High(h)
          PROVE  todo \in Seq(Writes) /\ Len(todo) <= 4 /\ todo # <<>>
      <4>1. Write(17, l) \in Writes /\ Write(16, h) \in Writes
        BY DEF Writes
      <4>2. CASE todo = << Write(17, l), Write(16, h) >>
        BY <4>1, <4>2, ShortSequences
      <4>3. CASE todo = << Write(16, h) >>
        BY <4>1, <4>3, ShortSequences
      <4> QED BY <3>5, <4>2, <4>3 DEF Both, High
    <3> QED
      BY <2>1, <3>2, <3>3, <3>4, <3>5 DEF Control, Starting, SettingUp, Idle, Ticking, Receiving, InYmWrite
  <2>3. /\ spc \in Places /\ after \in {"entry", "sti", "loop_forever", "fini"}
        /\ Len(saved) <= 1 /\ (saved = <<>> <=> serving = "none")
        /\ ie \in BOOLEAN /\ serving \in {"none", "p0_handler", "p1_handler"}
    <3>1. saved = <<>> \/ (Len(saved) = 1 /\ saved # <<>>)
      BY <2>1, Stack DEF Control, Starting, SettingUp, Idle, Ticking, Receiving, AtLoop
    <3>2. saved = <<>> <=> serving = "none"
      BY <2>1, Stack DEF Control, Starting, SettingUp, Idle, Ticking, Receiving, AtLoop
    <3>3. Len(saved) <= 1
      BY ONLY <3>1
    <3> QED
      BY <2>1, <3>2, <3>3 DEF Control, Starting, SettingUp, Idle, Ticking, Receiving, Places, InYmWrite
  <2> QED BY <2>1, <2>2, <2>3 DEF Types, TypeOK
<1> QED BY Invariant, <1>1, PTL

\* WrittenWhole: whatever interrupts come, ym_write writes the data to its own
\* register and finds the chip not busy.
THEOREM WritesWhole == Spec => []WrittenWhole
<1>1. Inv => WrittenWhole
  BY DEF Inv, Writing, WrittenWhole
<1> QED BY Invariant, <1>1, PTL

\* NeverStuck: an overflow of the timer is never left standing.
THEOREM TimerNeverStuck == Spec => []NeverStuck
<1>1. Inv => NeverStuck
  BY DEF Inv
<1> QED BY Invariant, <1>1, PTL

\* IntervalSet: for every argument of set_timer_interval the timer has the
\* interval asked for.
THEOREM IntervalArrives == Spec => []IntervalSet
<1>1. Inv => IntervalSet
  <2>1. SUFFICES ASSUME Inv, mpc = "done"
                 PROVE  (4 * clka.hi) + clka.lo = (1024 - n) % 1024
    BY DEF IntervalSet
  <2>2. clka.lo = Asked % 4 /\ clka.hi = (Asked \div 4) % 256
    BY <2>1 DEF Inv, Transfer, Moved
  <2>3. n \in Int
    BY <2>1, Sent DEF Inv
  <2> QED BY ONLY <2>2, <2>3, TwoBytes
<1> QED BY Invariant, <1>1, PTL
=============================================================================
