-------------------------- MODULE CmdServerProofs ---------------------------
(***************************************************************************)
(* Proofs about CmdServer for every buffer size, every width of the        *)
(* counters and every set of requests, with sessions and answers lost at   *)
(* any time:                                                               *)
(*   - payloads are accounted for, and the types of all variables;         *)
(*   - in an orderly session what is under way is the rest of one request, *)
(*     so that no answer has a wrong tail;                                 *)
(*   - in a session that began between two commands the requests are       *)
(*     served one after the other, so that memory changes only as they ask,*)
(*     each item in one of its places when they run past a segment;        *)
(*   - an orderly session is one of RemoteMemory for each request that     *)
(*     fits, and without loss and timeouts the whole system implements it. *)
(***************************************************************************)
EXTENDS CmdServer, FarMemoryProofs

\* The types of what the accounting of payloads depends on.
PayloadTypes ==
  /\ wire \in Seq(Item) /\ toTarget \in Seq(Item)
  /\ buffer \in Seq(Item)
  /\ buf \in Seq(Item) /\ Len(buf) < HeaderLen
  /\ total_bytes \in Nat
  /\ total_bytes_read \in Nat /\ total_bytes_consumed \in Nat
  /\ bytes_consumed \in Nat

PayloadInv == PayloadTypes /\ PayloadAccounted

payloadVars == <<wire, toTarget, buffer, buf, total_bytes, total_bytes_read,
                 total_bytes_consumed, bytes_consumed>>

-----------------------------------------------------------------------------
LEMMA CutProperties ==
  \A s \in Seq(Item), m \in Nat \ {0}, n \in Nat :
    n <= Len(s) =>
      /\ SubSeq(s, m, n) \in Seq(Item)
      /\ Len(SubSeq(s, m, n)) = IF m <= n THEN n - m + 1 ELSE 0
<1> SUFFICES ASSUME NEW s \in Seq(Item), NEW m \in Nat \ {0}, NEW n \in Nat,
                    n <= Len(s)
             PROVE  /\ SubSeq(s, m, n) \in Seq(Item)
                    /\ Len(SubSeq(s, m, n)) = IF m <= n THEN n - m + 1 ELSE 0
  OBVIOUS
<1>1. \A i \in m .. n : s[i] \in Item
  BY LenProperties, ElementOfSeq
<1> QED
  BY <1>1, SubSeqProperties

\* What comms_read can return if there is a limit, and the callers see to it
\* that there is: at most maxlen items of those that are there.
LEMMA ReadableProperties ==
  ASSUME toTarget \in Seq(Item), NEW n \in Nat \ {0}
  PROVE  /\ Readable(n) \in Seq(Item)
         /\ Len(Readable(n)) <= n
         /\ Len(Readable(n)) <= Len(toTarget)
<1>1. Len(toTarget) \in Nat
  BY LenProperties
<1>2. CASE up
  <2>1. Least(n, Len(toTarget)) \in Nat /\ Least(n, Len(toTarget)) <= n
        /\ Least(n, Len(toTarget)) <= Len(toTarget)
    BY <1>1 DEF Least
  <2>2. /\ SubSeq(toTarget, 1, Least(n, Len(toTarget))) \in Seq(Item)
        /\ Len(SubSeq(toTarget, 1, Least(n, Len(toTarget)))) = Least(n, Len(toTarget))
    BY <2>1, CutProperties
  <2> QED
    BY <1>2, <2>1, <2>2 DEF Readable
<1>3. CASE ~up
  BY <1>1, <1>3, EmptySeq DEF Readable
<1> QED
  BY <1>2, <1>3

LEMMA ReadType ==
  ASSUME toTarget \in Seq(Item), NEW n \in Nat \ {0}, comms_read(n)
  PROVE  toTarget' \in Seq(Item) /\ wire' = wire
<1>1. Len(Readable(n)) \in Nat
  BY ReadableProperties, LenProperties
<1> QED
  BY <1>1, CutProperties, LenProperties DEF comms_read

\* There is something to read while the header is not whole.
LEMMA HeaderLacks ==
  ASSUME buf \in Seq(Item), Len(buf) < HeaderLen
  PROVE  HeaderLen - Len(buf) \in Nat \ {0}
<1>1. Len(buf) \in Nat
  BY LenProperties
<1>2. HeaderLen - Len(buf) \in Nat /\ HeaderLen - Len(buf) # 0
  BY <1>1 DEF HeaderLen
<1> QED BY <1>2

\* memcpy of what is left: its length is not negative.
LEMMA ConsumeKeeps ==
  ASSUME PayloadInv, Consume,
         UNCHANGED <<total_bytes, total_bytes_read>>
  PROVE  /\ buffer' \in Seq(Item)
         /\ total_bytes_consumed' \in Nat /\ bytes_consumed' = 0
         /\ PayloadAccounted'
<1>1. /\ buffer \in Seq(Item) /\ Len(buffer) \in Nat
      /\ total_bytes_read \in Nat /\ total_bytes_consumed \in Nat
      /\ bytes_consumed \in Nat /\ bytes_consumed <= Len(buffer)
  BY LenProperties
    DEF PayloadInv, PayloadTypes, PayloadAccounted, bytes_avail
<1>2. /\ Len(buffer) <= BufSize /\ total_bytes_read <= total_bytes
      /\ total_bytes_consumed + Len(buffer) = total_bytes_read
  BY DEF PayloadInv, PayloadAccounted, bytes_avail
<1>0. buffer' = SubSeq(buffer, bytes_consumed + 1, Len(buffer))
  BY DEF Consume, bytes_avail
<1>3. /\ total_bytes_consumed' = total_bytes_consumed + bytes_consumed
      /\ bytes_consumed' = 0
  BY DEF Consume
<1>4. bytes_consumed + 1 \in Nat \ {0}
  BY <1>1
<1>5. /\ buffer' \in Seq(Item)
      /\ Len(buffer') = Len(buffer) - bytes_consumed
  BY <1>0, <1>1, <1>4, CutProperties
<1>6. PayloadAccounted'
  <2>1. BufSize \in Nat
    BY CmdServerAssumption
  <2>2. Len(buffer') \in Nat /\ Len(buffer') <= BufSize
    BY <1>1, <1>2, <1>5, <2>1
  <2>3. bytes_consumed' <= Len(buffer')
    BY <1>3, <2>2
  <2>4. total_bytes_consumed' + Len(buffer') = total_bytes_read'
    BY <1>1, <1>2, <1>3, <1>5
  <2>5. total_bytes_read' <= total_bytes'
    BY <1>2
  <2> QED
    BY <2>2, <2>3, <2>4, <2>5 DEF PayloadAccounted, bytes_avail
<1> QED
  BY <1>1, <1>3, <1>5, <1>6

LEMMA SizeIsNat == \A n \in Item : ToSize(n) \in Nat
BY CmdServerAssumption DEF ToSize, Item

LEMMA UpdateKeeps == PayloadInv /\ update_cmd => PayloadInv'
<1> SUFFICES ASSUME PayloadInv, update_cmd
             PROVE  PayloadInv'
  OBVIOUS
<1>0. /\ BufSize \in Nat /\ Len(buffer) \in Nat /\ Len(buf) \in Nat
      /\ HeaderLen - Len(buf) \in Nat \ {0}
  BY CmdServerAssumption, LenProperties, HeaderLacks DEF PayloadInv, PayloadTypes
<1>1. CASE Finish
  <2>1. PayloadAccounted' /\ buffer' \in Seq(Item)
        /\ total_bytes_consumed' \in Nat /\ bytes_consumed' = 0
    BY <1>1, ConsumeKeeps DEF Finish
  <2> QED
    BY <1>1, <2>1 DEF Finish, comms_write, PayloadInv, PayloadTypes
<1>2. CASE Continue
  <2>1. PayloadAccounted' /\ buffer' \in Seq(Item)
        /\ total_bytes_consumed' \in Nat /\ bytes_consumed' = 0
    BY <1>2, ConsumeKeeps DEF Continue, header
  <2> QED
    BY <1>2, <2>1 DEF Continue, header, link, PayloadInv, PayloadTypes
<1>3. CASE ReadCommand
  <2>1. toTarget' \in Seq(Item) /\ wire' = wire
    BY <1>3, ReadType DEF ReadCommand, PayloadInv, PayloadTypes
  <2>2. buf' \in Seq(Item) /\ Len(buf') < HeaderLen
    <3>1. buf' = buf \/ buf' = << >>
      BY <1>3, Zenon DEF ReadCommand
    <3>2. << >> \in Seq(Item) /\ Len(<< >>) = 0
      BY EmptySeq
    <3>3. buf \in Seq(Item) /\ Len(buf) < HeaderLen
      BY DEF PayloadInv, PayloadTypes
    <3>4. CASE buf' = buf
      BY <3>3, <3>4
    <3>5. CASE buf' = << >>
      BY <3>2, <3>5 DEF HeaderLen
    <3> QED
      BY <3>1, <3>4, <3>5
  <2> QED
    BY <1>3, <2>1, <2>2
      DEF ReadCommand, counts, PayloadInv, PayloadTypes, PayloadAccounted, bytes_avail
<1>4. CASE ReadHeader
  <2> DEFINE r == Readable(HeaderLen - Len(buf))
             got == buf \o r
  <2>1. toTarget' \in Seq(Item) /\ wire' = wire
    BY <1>0, <1>4, ReadType DEF ReadHeader, PayloadInv, PayloadTypes
  <2>2. r \in Seq(Item) /\ Len(r) \in Nat /\ Len(r) <= HeaderLen - Len(buf)
    BY <1>0, ReadableProperties, LenProperties DEF PayloadInv, PayloadTypes
  <2>3. got \in Seq(Item) /\ Len(got) = Len(buf) + Len(r)
    BY <2>2, ConcatProperties DEF PayloadInv, PayloadTypes
  <2>4. CASE Len(got) = HeaderLen
    <3>1. HeaderRead(got) /\ buf' = << >>
      BY <1>4, <2>4 DEF ReadHeader
    <3> HIDE DEF got, r
    <3>2. got[3] \in Item
      BY <2>3, <2>4, ElementOfSeq DEF HeaderLen
    <3>3. total_bytes' \in Nat
      BY <3>1, <3>2, SizeIsNat DEF HeaderRead
    <3>4. /\ buffer' = << >> /\ buf' = << >> /\ bytes_consumed' = 0
          /\ total_bytes_read' = 0 /\ total_bytes_consumed' = 0
      BY <3>1 DEF HeaderRead
    <3>5. << >> \in Seq(Item) /\ Len(<< >>) = 0
      BY EmptySeq
    <3>6. PayloadTypes'
      BY <2>1, <3>3, <3>4, <3>5 DEF PayloadTypes, HeaderLen, PayloadInv
    <3>7. PayloadAccounted'
      BY <1>0, <3>3, <3>4, <3>5 DEF PayloadAccounted, bytes_avail
    <3> QED
      BY <3>6, <3>7 DEF PayloadInv
  <2>5. CASE Len(got) # HeaderLen
    <3>1. buf' = got /\ UNCHANGED <<total_bytes, counts>>
      BY <1>4, <2>5 DEF ReadHeader
    <3>2. Len(got) < HeaderLen
      BY <1>0, <2>2, <2>3, <2>5 DEF HeaderLen
    <3> QED
      BY <2>1, <2>3, <3>1, <3>2
        DEF counts, PayloadInv, PayloadTypes, PayloadAccounted, bytes_avail
  <2> QED
    BY <2>4, <2>5
<1>5. CASE Fill
  <2>1. /\ max_read \in Nat \ {0}
        /\ max_read <= BufSize - Len(buffer)
        /\ max_read <= total_bytes - total_bytes_read
    BY <1>0, <1>5
      DEF Fill, WantMore, max_read, Least, bytes_avail, PayloadInv, PayloadTypes
  <2> DEFINE r == Readable(max_read)
  <2>2. toTarget' \in Seq(Item) /\ wire' = wire
    BY <1>5, <2>1, ReadType DEF Fill, PayloadInv, PayloadTypes
  <2>3. r \in Seq(Item) /\ Len(r) \in Nat /\ Len(r) <= max_read
    BY <2>1, ReadableProperties, LenProperties DEF PayloadInv, PayloadTypes
  <2>4. buffer' \in Seq(Item) /\ Len(buffer') = Len(buffer) + Len(r)
    BY <1>5, <2>3, ConcatProperties DEF Fill, PayloadInv, PayloadTypes
  <2>5. /\ total_bytes_read' = total_bytes_read + Len(r)
        /\ UNCHANGED <<total_bytes, total_bytes_consumed, bytes_consumed, buf>>
    BY <1>5 DEF Fill, header
  <2> HIDE DEF r
  <2>6. PayloadTypes'
    BY <2>2, <2>3, <2>4, <2>5 DEF PayloadInv, PayloadTypes
  <2>7. PayloadAccounted'
    <3>1. total_bytes \in Nat /\ total_bytes_read \in Nat
          /\ total_bytes_consumed \in Nat /\ bytes_consumed \in Nat
      BY DEF PayloadInv, PayloadTypes
    <3>2. /\ bytes_consumed <= Len(buffer)
          /\ total_bytes_consumed + Len(buffer) = total_bytes_read
      BY DEF PayloadInv, PayloadAccounted, bytes_avail
    <3>3. max_read \in Nat /\ Len(r) <= BufSize - Len(buffer)
          /\ Len(r) <= total_bytes - total_bytes_read
      BY <1>0, <2>1, <2>3, <3>1
    <3>4. Len(buffer') = Len(buffer) + Len(r) /\ Len(r) \in Nat
          /\ Len(buffer) \in Nat /\ BufSize \in Nat
      BY <1>0, <2>3, <2>4
    <3>5. bytes_consumed' <= Len(buffer')
      BY <2>5, <3>1, <3>2, <3>4
    <3>6. Len(buffer') <= BufSize
      BY <3>3, <3>4
    <3>7. total_bytes_consumed' + Len(buffer') = total_bytes_read'
      BY <2>5, <3>1, <3>2, <3>4
    <3>8. total_bytes_read' <= total_bytes'
      BY <2>5, <3>1, <3>3, <3>4
    <3> QED
      BY <3>5, <3>6, <3>7, <3>8 DEF PayloadAccounted, bytes_avail
  <2> QED
    BY <2>6, <2>7 DEF PayloadInv
<1>6. CASE NoFill
  BY <1>6 DEF NoFill, link, header, counts, PayloadInv, PayloadTypes,
              PayloadAccounted, bytes_avail
<1> QED
  BY <1>1, <1>2, <1>3, <1>4, <1>5, <1>6, Zenon DEF update_cmd

\* process_cmd never claims to have consumed more than there is.
LEMMA ProcessedKeeps ==
  ASSUME PayloadInv, NEW m, NEW n \in Nat, n <= Len(buffer), Processed(m, n)
  PROVE  PayloadInv'
BY DEF Processed, link, header, PayloadInv, PayloadTypes, PayloadAccounted,
       bytes_avail

LEMMA ProcessKeeps == PayloadInv /\ process_cmd => PayloadInv'
<1> SUFFICES ASSUME PayloadInv, process_cmd
             PROVE  PayloadInv'
  OBVIOUS
<1>0. /\ Len(buffer) \in Nat /\ EvenPart \in Nat /\ EvenPart <= Len(buffer)
      /\ bytes_consumed \in Nat /\ bytes_consumed <= Len(buffer)
  BY LenProperties
    DEF PayloadInv, PayloadTypes, PayloadAccounted, EvenPart, bytes_avail
<1>1. CASE ProcessWriteBytes
  BY <1>0, <1>1, ProcessedKeeps DEF ProcessWriteBytes, bytes_avail
<1>2. CASE ProcessWriteWords
  BY <1>0, <1>2, ProcessedKeeps DEF ProcessWriteWords
<1>3. CASE ProcessFillBytes
  BY <1>0, <1>3, ProcessedKeeps DEF ProcessFillBytes, bytes_avail
<1>4. CASE ProcessFillWords
  BY <1>0, <1>4, ProcessedKeeps DEF ProcessFillWords, bytes_avail
<1>5. CASE ProcessOther
  BY <1>0, <1>5, ProcessedKeeps DEF ProcessOther, bytes_avail
<1>6. CASE ProcessReadBytes \/ ProcessReadWords \/ SendWord \/ WordsDone
  <2>1. UNCHANGED payloadVars
    BY <1>6 DEF ProcessReadBytes, ProcessReadWords, SendWord, WordsDone,
                comms_write, link, header, counts, payloadVars
  <2> QED
    BY <2>1 DEF payloadVars, PayloadInv, PayloadTypes, PayloadAccounted, bytes_avail
<1> QED
  BY <1>1, <1>2, <1>3, <1>4, <1>5, <1>6, Zenon DEF process_cmd

LEMMA PackedType == \A r \in Request : Packed(r) \in Seq(Item)
<1> SUFFICES ASSUME NEW r \in Request
             PROVE  Packed(r) \in Seq(Item)
  OBVIOUS
<1>1. r.cmd \in Item /\ r.arg0 \in Item /\ r.arg1 \in Item
      /\ Len(r.data) \in Item /\ r.data \in Seq(Item)
  <2>1. /\ r.cmd \in 1 .. CMD_FILL_WORDS /\ r.arg0 \in Item /\ r.arg1 \in Item
        /\ Len(r.data) \in Item /\ r.data \in Seq(Item)
        /\ ItemMax \in Nat /\ ItemMax > CMD_FILL_WORDS
    BY CmdServerAssumption
  <2> QED BY ONLY <2>1 DEF Item, CMD_FILL_WORDS
<1>2. <<r.cmd, r.arg0, r.arg1, Len(r.data)>> \in Seq(Item)
  BY <1>1
<1> QED
  BY <1>1, <1>2, ConcatProperties DEF Packed

LEMMA LinkKeeps ==
  PayloadInv /\ (Pico \/ Arrive \/ BeginSession \/ EndSession \/ Poll) => PayloadInv'
<1> SUFFICES ASSUME PayloadInv,
                    Pico \/ Arrive \/ BeginSession \/ EndSession \/ Poll
             PROVE  PayloadInv'
  OBVIOUS
<1>1. /\ wire' \in Seq(Item) /\ toTarget' \in Seq(Item)
      /\ UNCHANGED <<header, counts, buf>>
  <2>1. ASSUME NEW r \in Request, DoCmd(r)
        PROVE  <<wire', toTarget'>> \in Seq(Item) \X Seq(Item)
               /\ UNCHANGED <<header, counts, buf>>
    BY <2>1, PackedType, ConcatProperties DEF DoCmd, PayloadInv, PayloadTypes
  <2>2. CASE Arrive
    <3>1. wire \in Seq(Item) /\ wire # << >> /\ toTarget \in Seq(Item)
      BY <2>2 DEF Arrive, PayloadInv, PayloadTypes
    <3>2. Head(wire) \in Item /\ Tail(wire) \in Seq(Item)
      BY <3>1, HeadTailProperties
    <3>3. Append(toTarget, Head(wire)) \in Seq(Item)
      BY <3>1, <3>2, AppendProperties
    <3> QED
      BY <2>2, <3>2, <3>3 DEF Arrive
  <2>3. CASE EndSession
    BY <2>3, EmptySeq DEF EndSession
  <2>4. CASE Answer \/ Timeout \/ BeginSession \/ Poll
    BY <2>4 DEF Answer, Timeout, BeginSession, Poll, link, PayloadInv, PayloadTypes
  <2> QED
    BY <2>1, <2>2, <2>3, <2>4 DEF Pico
<1> QED
  BY <1>1 DEF header, counts, PayloadInv, PayloadTypes, PayloadAccounted, bytes_avail

\* Every payload byte is accounted for and none is stored past the buffer,
\* for any buffer size, whatever a lost session has done to the framing.
THEOREM PayloadAlwaysAccounted == Spec => []PayloadAccounted
<1>1. Init => PayloadInv
  BY CmdServerAssumption, EmptySeq
    DEF Init, PayloadInv, PayloadTypes, PayloadAccounted, bytes_avail, HeaderLen
<1>2. PayloadInv /\ [Next]_vars => PayloadInv'
  <2>1. PayloadInv /\ UNCHANGED vars => PayloadInv'
    BY DEF vars, link, header, counts, PayloadInv, PayloadTypes,
           PayloadAccounted, bytes_avail
  <2> QED
    BY <2>1, UpdateKeeps, ProcessKeeps, LinkKeeps, Zenon DEF Next, Board
<1>3. PayloadInv => PayloadAccounted
  BY DEF PayloadInv
<1> QED
  BY <1>1, <1>2, <1>3, PTL DEF Spec

-----------------------------------------------------------------------------
(***************************************************************************)
(* Types.                                                                  *)
(***************************************************************************)
\* The types that the accounting of payloads does not give.
FlagTypes == up \in BOOLEAN /\ comms_active \in BOOLEAN /\ whole \in BOOLEAN /\ clean \in BOOLEAN /\ sessions \in Nat
HeaderTypes == cmd \in Item /\ arg0 \in Item /\ arg1 \in Item /\ total_bytes \in 0 .. WordMod - 1
BoardTypes == pc \in PC /\ rounds \in Nat /\ ofs \in Nat /\ mem \in [Phys -> Item]
HostTypes ==
  /\ toHost \in Seq(Item) /\ result \in Seq(Item)
  /\ req \in Request \cup {NoRequest}
  /\ outcome \in {"none", "ok", "badtail", "timeout"}

TypeInv == PayloadInv /\ FlagTypes /\ HeaderTypes /\ BoardTypes /\ HostTypes

LEMMA TypeInvIsTypeOK == TypeInv => TypeOK
<1> SUFFICES ASSUME TypeInv
             PROVE  TypeOK
  OBVIOUS
<1>1. /\ total_bytes_read \in Nat /\ total_bytes_consumed \in Nat /\ bytes_consumed \in Nat
      /\ total_bytes \in 0 .. WordMod - 1 /\ Len(buffer) \in Nat /\ WordMod \in Nat
      /\ BufSize \in Nat /\ BufSize < WordMod
  BY CmdServerAssumption, LenProperties DEF TypeInv, PayloadInv, PayloadTypes, HeaderTypes
<1>2. /\ bytes_consumed <= Len(buffer) /\ Len(buffer) <= BufSize
      /\ total_bytes_consumed + Len(buffer) = total_bytes_read
      /\ total_bytes_read <= total_bytes
  BY DEF TypeInv, PayloadInv, PayloadAccounted, bytes_avail
<1>3. /\ total_bytes_read \in 0 .. WordMod - 1 /\ total_bytes_consumed \in 0 .. WordMod - 1
      /\ bytes_consumed \in 0 .. WordMod - 1
  BY ONLY <1>1, <1>2
<1> QED
  BY <1>3 DEF TypeInv, FlagTypes, HeaderTypes, BoardTypes, HostTypes, PayloadInv, PayloadTypes, TypeOK

LEMMA PayloadStep == PayloadInv /\ [Next]_vars => PayloadInv'
<1>1. PayloadInv /\ UNCHANGED vars => PayloadInv'
  BY DEF vars, link, header, counts, PayloadInv, PayloadTypes, PayloadAccounted, bytes_avail
<1> QED
  BY <1>1, UpdateKeeps, ProcessKeeps, LinkKeeps, Zenon DEF Next, Board

LEMMA FlagStep == TypeInv /\ [Next]_vars => FlagTypes'
<1> SUFFICES ASSUME TypeInv, [Next]_vars
             PROVE  FlagTypes'
  OBVIOUS
<1>1. FlagTypes
  BY DEF TypeInv
<1>2. CASE BeginSession
  <2>1. whole' \in BOOLEAN /\ clean' \in BOOLEAN
    BY <1>2 DEF BeginSession
  <2> QED BY <1>1, <1>2, <2>1 DEF FlagTypes, BeginSession
<1>3. CASE EndSession
  BY <1>1, <1>3 DEF FlagTypes, EndSession
<1>4. CASE UNCHANGED <<up, whole, sessions>> /\ comms_active' \in {up, comms_active} /\ clean' \in {clean, FALSE}
  BY <1>1, <1>4 DEF FlagTypes
<1> QED
  BY <1>2, <1>3, <1>4
     DEF Next, Board, Pico, Poll, update_cmd, process_cmd, Finish, Continue, ReadCommand, ReadHeader, Fill, NoFill,
         ProcessWriteBytes, ProcessWriteWords, ProcessReadBytes, ProcessReadWords, SendWord, WordsDone,
         ProcessFillBytes, ProcessFillWords, ProcessOther, Processed, DoCmd, Answer, Timeout, Arrive,
         comms_read, comms_write, comms_update, link, history, vars

\* What comms_read(.., 1) returns.
LEMMA AtMostOne ==
  ASSUME NEW s \in Seq(Item), Len(s) <= 1
  PROVE  s = << >> \/ (s[1] \in Item /\ s = <<s[1]>> /\ Len(s) = 1)
<1>1. CASE s # << >>
  <2>1. Len(s) \in Nat \ {0}
    BY <1>1, EmptySeq
  <2>2. Len(s) = 1
    <3>1. \A k \in Nat \ {0} : k <= 1 => k = 1
      OBVIOUS
    <3> QED BY <2>1, <3>1, Zenon
  <2>3. s[1] \in Item
    BY <2>2, ElementOfSeq
  <2> QED BY <2>2, <2>3
<1> QED BY <1>1

\* What comms_read returns are items.
LEMMA HeaderStep == TypeInv /\ [Next]_vars => HeaderTypes'
<1> SUFFICES ASSUME TypeInv, [Next]_vars
             PROVE  HeaderTypes'
  OBVIOUS
<1>1. HeaderTypes /\ toTarget \in Seq(Item) /\ buf \in Seq(Item) /\ Len(buf) < HeaderLen /\ Len(buf) \in Nat
  BY LenProperties DEF TypeInv, PayloadInv, PayloadTypes
<1>2. CASE ReadCommand
  <2>1. Readable(1) \in Seq(Item) /\ Len(Readable(1)) <= 1 /\ Len(Readable(1)) \in Nat
    BY <1>1, ReadableProperties, LenProperties
  <2>2. CASE Readable(1) # << >>
    <3>1. Readable(1)[1] \in Item
      BY <2>1, <2>2, AtMostOne
    <3> QED BY <1>1, <1>2, <3>1 DEF ReadCommand, HeaderTypes
  <2>3. CASE Readable(1) = << >>
    BY <1>1, <1>2, <2>3 DEF ReadCommand, HeaderTypes
  <2> QED BY <2>2, <2>3
<1>3. CASE ReadHeader
  <2> DEFINE r == Readable(HeaderLen - Len(buf))
             got == buf \o r
  <2>1. HeaderLen - Len(buf) \in Nat \ {0}
    BY <1>1, HeaderLacks
  <2>2. r \in Seq(Item) /\ got \in Seq(Item)
    BY <1>1, <2>1, ReadableProperties, ConcatProperties
  <2>3. CASE Len(got) = HeaderLen
    <3>1. HeaderRead(got) /\ cmd' = cmd
      BY <1>3, <2>3 DEF ReadHeader
    <3> HIDE DEF got, r
    <3>2. got[1] \in Item /\ got[2] \in Item /\ got[3] \in Item
      <4>1. 1 \in 1 .. Len(got) /\ 2 \in 1 .. Len(got) /\ 3 \in 1 .. Len(got)
        BY <2>3 DEF HeaderLen
      <4> QED BY <2>2, <4>1, ElementOfSeq
    <3>3. ToSize(got[3]) \in 0 .. WordMod - 1
      <4>1. got[3] \in Int /\ WordMod \in Nat \ {0}
        BY <3>2, CmdServerAssumption DEF Item
      <4> QED BY <4>1 DEF ToSize
    <3> QED BY <1>1, <3>1, <3>2, <3>3 DEF HeaderTypes, HeaderRead
  <2>4. CASE Len(got) # HeaderLen
    BY <1>1, <1>3, <2>4 DEF HeaderTypes, ReadHeader
  <2> QED BY <2>3, <2>4
<1>4. CASE Finish
  BY <1>1, <1>4, CmdServerAssumption DEF Finish, HeaderTypes, CMD_IDLE, CMD_FILL_WORDS, Item
<1>5. CASE UNCHANGED header
  BY <1>1, <1>5 DEF header, HeaderTypes
<1> QED
  BY <1>2, <1>3, <1>4, <1>5
     DEF Next, Board, Pico, Poll, update_cmd, process_cmd, Continue, Fill, NoFill,
         ProcessWriteBytes, ProcessWriteWords, ProcessReadBytes, ProcessReadWords, SendWord, WordsDone,
         ProcessFillBytes, ProcessFillWords, ProcessOther, Processed, DoCmd, Answer, Timeout, Arrive,
         BeginSession, EndSession, vars

LEMMA BoardStep == TypeInv /\ [Next]_vars => BoardTypes'
<1> SUFFICES ASSUME TypeInv, [Next]_vars
             PROVE  BoardTypes'
  OBVIOUS
<1>1. /\ BoardTypes /\ mem \in [Phys -> Item] /\ arg1 \in Item /\ Item \subseteq Nat
      /\ buffer \in Seq(Item) /\ Len(buffer) \in Nat
      /\ bytes_avail = Len(buffer)
  BY LenProperties, CmdServerAssumption
     DEF TypeInv, BoardTypes, HeaderTypes, PayloadInv, PayloadTypes, Item, bytes_avail
<1>2. CASE ProcessWriteBytes
  BY <1>1, <1>2, StoreType DEF ProcessWriteBytes, Processed, words, BoardTypes, PC
<1>3. CASE ProcessWriteWords
  <2>1. EvenPart \in Nat /\ EvenPart <= Len(buffer)
    BY <1>1 DEF EvenPart
  <2>2. SubSeq(buffer, 1, EvenPart) \in Seq(Item)
    BY <1>1, <2>1, CutProperties
  <2> QED BY <1>1, <1>3, <2>2, StoreType DEF ProcessWriteWords, Processed, words, BoardTypes, PC
<1>4. CASE ProcessFillBytes
  <2>1. ToSize(arg1) \in Nat
    BY <1>1, SizeIsNat
  <2>2. ASSUME bytes_avail > 0
        PROVE  Bytes(buffer[1], ToSize(arg1)) \in Seq(Item)
    <3>1. 1 \in 1 .. Len(buffer)
      BY <1>1, <2>2
    <3>2. buffer[1] \in Item
      BY <1>1, <3>1, ElementOfSeq
    <3> QED BY <2>1, <3>2, BytesType
  <2> QED BY <1>1, <1>4, <2>2, StoreType DEF ProcessFillBytes, Processed, words, BoardTypes, PC
<1>5. CASE ProcessFillWords
  <2>1. ToSize(arg1) \in Nat
    BY <1>1, SizeIsNat
  <2>2. ASSUME bytes_avail > 1
        PROVE  Words(buffer, ToSize(arg1)) \in Seq(Item)
    BY <1>1, <2>1, <2>2, WordsType
  <2> QED BY <1>1, <1>5, <2>2, StoreType DEF ProcessFillWords, Processed, words, BoardTypes, PC
<1>6. CASE ProcessOther
  BY <1>1, <1>6 DEF ProcessOther, Processed, words, BoardTypes, PC
<1>7. CASE ProcessReadBytes \/ WordsDone
  BY <1>1, <1>7 DEF ProcessReadBytes, WordsDone, words, BoardTypes, PC
<1>8. CASE ProcessReadWords
  <2>1. IntMax + 1 \in Nat
    BY CmdServerAssumption DEF IntMax
  <2> QED BY <1>1, <1>8, <2>1 DEF ProcessReadWords, BoardTypes, PC
<1>9. CASE SendWord
  BY <1>1, <1>9 DEF SendWord, BoardTypes
<1>10. CASE Poll \/ update_cmd
  <2>1. UNCHANGED <<words, mem>> /\ pc' \in PC
    BY <1>1, <1>10
       DEF Poll, update_cmd, Finish, Continue, ReadCommand, ReadHeader, Fill, NoFill, BoardTypes, PC
  <2> QED BY <1>1, <2>1 DEF words, BoardTypes
<1>11. CASE UNCHANGED <<pc, words, mem>>
  BY <1>1, <1>11 DEF words, BoardTypes
<1> QED
  BY <1>2, <1>3, <1>4, <1>5, <1>6, <1>7, <1>8, <1>9, <1>10, <1>11
     DEF Next, Board, process_cmd, Pico, DoCmd, Answer, Timeout, Arrive, BeginSession, EndSession, vars

LEMMA WriteType ==
  ASSUME toHost \in Seq(Item), NEW s \in Seq(Item), comms_write(s)
  PROVE  toHost' \in Seq(Item)
BY ConcatProperties DEF comms_write

LEMMA ResponseIsNat == \A r \in Request : ResponseSize(r) \in Nat
<1> SUFFICES ASSUME NEW r \in Request
             PROVE  ResponseSize(r) \in Nat
  OBVIOUS
<1>1. r.arg1 \in Nat
  BY CmdServerAssumption DEF Item
<1> QED BY <1>1 DEF ResponseSize

LEMMA HostStep == TypeInv /\ [Next]_vars => HostTypes'
<1> SUFFICES ASSUME TypeInv, [Next]_vars
             PROVE  HostTypes'
  OBVIOUS
<1>1. HostTypes /\ cmd \in Item /\ mem \in [Phys -> Item] /\ arg0 \in Nat /\ arg1 \in Nat /\ ofs \in Nat
  BY CmdServerAssumption DEF TypeInv, HeaderTypes, BoardTypes, Item
<1>2. CASE Finish
  <2>1. <<cmd>> \in Seq(Item)
    BY <1>1
  <2> QED BY <1>1, <1>2, <2>1, WriteType DEF Finish, host, HostTypes
<1>3. CASE ProcessReadBytes
  <2>1. ToInt(arg1) \in Int
    BY <1>1, CmdServerAssumption DEF ToInt
  <2>2. Load(mem, arg0, ToInt(arg1)) \in Seq(Item)
    BY <1>1, <2>1, LoadType
  <2> QED BY <1>1, <1>3, <2>2, WriteType DEF ProcessReadBytes, host, HostTypes
<1>4. CASE SendWord
  <2>1. FarAdd(arg0, 2 * ofs) \in Nat
    <3>1. OffMod \in Nat \ {0} /\ 2 * ofs \in Nat
      BY <1>1, FarMemoryAssumption
    <3>2. arg0 \div OffMod \in Nat /\ ((arg0 % OffMod) + (2 * ofs)) % OffMod \in Nat
      BY <1>1, <3>1
    <3> QED BY <3>1, <3>2 DEF FarAdd, Segment, Offset
  <2>2. Load(mem, FarAdd(arg0, 2 * ofs), 2) \in Seq(Item)
    BY <1>1, <2>1, LoadType
  <2> QED BY <1>1, <1>4, <2>2, WriteType DEF SendWord, host, HostTypes
<1>5. ASSUME NEW r \in Request, DoCmd(r)
      PROVE  HostTypes'
  BY <1>1, <1>5, EmptySeq DEF DoCmd, HostTypes
<1>6. CASE Answer
  <2>1. req \in Request /\ toHost \in Seq(Item) /\ Len(toHost) \in Nat /\ Len(toHost) > ResponseSize(req)
    BY <1>1, <1>6, LenProperties DEF Answer, HostTypes
  <2> DEFINE k == ResponseSize(req)
  <2>2. k \in Nat
    BY <2>1, ResponseIsNat
  <2>3. SubSeq(toHost, k + 2, Len(toHost)) \in Seq(Item)
    <3>1. k + 2 \in Nat \ {0}
      BY <2>2
    <3> QED BY <2>1, <3>1, CutProperties
  <2>4. SubSeq(toHost, 1, k) \in Seq(Item)
    BY <2>1, <2>2, CutProperties
  <2> QED BY <1>1, <1>6, <2>3, <2>4 DEF Answer, TakeAnswer, HostTypes
<1>7. CASE Timeout
  BY <1>1, <1>7, EmptySeq DEF Timeout, HostTypes
<1>8. CASE EndSession
  BY <1>8, EmptySeq DEF EndSession, HostTypes
<1>9. CASE UNCHANGED <<toHost, host>>
  BY <1>1, <1>9 DEF host, HostTypes
<1> QED
  BY <1>2, <1>3, <1>4, <1>5, <1>6, <1>7, <1>8, <1>9
     DEF Next, Board, Pico, Poll, update_cmd, process_cmd, Continue, ReadCommand, ReadHeader, Fill, NoFill,
         ProcessWriteBytes, ProcessWriteWords, ProcessReadWords, WordsDone,
         ProcessFillBytes, ProcessFillWords, ProcessOther, Processed, Arrive, BeginSession,
         comms_read, link, vars

LEMMA InitTypes == Init => TypeInv
<1> SUFFICES ASSUME Init
             PROVE  TypeInv
  OBVIOUS
<1>1. PayloadInv
  BY CmdServerAssumption, EmptySeq
    DEF Init, PayloadInv, PayloadTypes, PayloadAccounted, bytes_avail, HeaderLen
<1>2. 0 \in Item /\ 0 \in 0 .. WordMod - 1
  BY CmdServerAssumption DEF Item
<1>3. mem \in [Phys -> Item]
  BY CmdServerAssumption DEF Init
<1> QED
  BY <1>1, <1>2, <1>3, EmptySeq
     DEF Init, TypeInv, FlagTypes, HeaderTypes, BoardTypes, HostTypes, PC, CMD_IDLE

LEMMA TypesHold == Spec => []TypeInv
<1>1. TypeInv /\ [Next]_vars => TypeInv'
  <2>1. TypeInv => PayloadInv
    BY DEF TypeInv
  <2> QED BY <2>1, PayloadStep, FlagStep, HeaderStep, BoardStep, HostStep DEF TypeInv
<1> QED BY <1>1, InitTypes, PTL DEF Spec

\* TypeOK: whatever the lost sessions and late answers do to the framing.
THEOREM ServerTypes == Spec => []TypeOK
BY TypesHold, TypeInvIsTypeOK, PTL

-----------------------------------------------------------------------------
(***************************************************************************)
(* Framing: in an orderly session what is under way is the rest of the     *)
(* request that do_cmd waits for, and its answer.                          *)
(***************************************************************************)
Down == ~up => wire = << >> /\ toTarget = << >> /\ toHost = << >> /\ req = NoRequest /\ outcome = "none"

Place ==
  /\ pc \in {"header", "fill"} => cmd # CMD_IDLE
  /\ pc = "command" => cmd = CMD_IDLE
  /\ pc = "words" => cmd = CMD_READ_WORDS

stream == toTarget \o wire

Quiet == req = NoRequest /\ cmd = CMD_IDLE /\ toTarget = << >> /\ wire = << >> /\ toHost = << >>

Sent == req \in Request /\ cmd = CMD_IDLE /\ stream = Packed(req) /\ toHost = << >>

Heading ==
  /\ req \in Request /\ cmd = req.cmd /\ pc = "header" /\ toHost = << >>
  /\ buf \o stream = Tail(Packed(req))

\* The header has come and the tail is still to be sent.
Working ==
  /\ req \in Request /\ cmd = req.cmd /\ arg1 = req.arg1 /\ total_bytes = Len(req.data)
  /\ pc \in {"fill", "process", "poll", "consume", "words"}
  /\ total_bytes_read + Len(toTarget) + Len(wire) = total_bytes
  /\ pc \in {"fill", "process"} => toHost = << >>
  /\ pc = "words" => Len(toHost) = 2 * ofs /\ ofs <= rounds /\ rounds <= arg1
  /\ Len(toHost) <= ResponseSize(req)

Answered ==
  /\ req \in Request /\ cmd = CMD_IDLE /\ toTarget = << >> /\ wire = << >>
  /\ toHost # << >> /\ Len(toHost) <= ResponseSize(req) + 1
  /\ toHost[Len(toHost)] = req.cmd

Phase == up /\ outcome # "badtail" /\ (Quiet \/ Sent \/ Heading \/ Working \/ Answered)

Framing == Down /\ Place /\ (clean => Phase)

LEMMA ArriveKeeps ==
  ASSUME TypeInv, Arrive
  PROVE  stream' = stream /\ Len(toTarget') + Len(wire') = Len(toTarget) + Len(wire)
<1>1. toTarget \in Seq(Item) /\ wire \in Seq(Item) /\ wire # << >>
  BY DEF TypeInv, PayloadInv, PayloadTypes, Arrive
<1>2. Head(wire) \in Item /\ Tail(wire) \in Seq(Item) /\ Len(Tail(wire)) = Len(wire) - 1
  BY <1>1, HeadTailProperties
<1>3. Append(toTarget, Head(wire)) = toTarget \o <<Head(wire)>>
  BY <1>1, <1>2, AppendIsConcat
<1>4. <<Head(wire)>> \o Tail(wire) = wire
  BY <1>1
<1>5. (toTarget \o <<Head(wire)>>) \o Tail(wire) = toTarget \o (<<Head(wire)>> \o Tail(wire))
  <2>1. <<Head(wire)>> \in Seq(Item)
    BY <1>2
  <2> QED BY <1>1, <1>2, <2>1, ConcatAssociative
<1>6. Len(Append(toTarget, Head(wire))) = Len(toTarget) + 1
  BY <1>1, <1>2, AppendProperties
<1>7. Len(toTarget) \in Nat /\ Len(wire) \in Nat
  BY <1>1, LenProperties
<1> QED BY <1>2, <1>3, <1>4, <1>5, <1>6, <1>7 DEF Arrive, stream

LEMMA ReadTakes ==
  ASSUME TypeInv, up, NEW n \in Nat \ {0}, comms_read(n)
  PROVE  /\ Readable(n) \in Seq(Item) /\ Len(Readable(n)) \in Nat /\ Len(Readable(n)) <= n
         /\ toTarget' \in Seq(Item) /\ wire' = wire /\ toHost' = toHost
         /\ Readable(n) \o stream' = stream
         /\ Len(Readable(n)) + Len(toTarget') = Len(toTarget)
         /\ (Readable(n) = << >> => toTarget' = toTarget)
<1>1. toTarget \in Seq(Item) /\ wire \in Seq(Item) /\ Len(toTarget) \in Nat
  BY LenProperties DEF TypeInv, PayloadInv, PayloadTypes
<1> DEFINE k == Least(n, Len(toTarget))
<1>2. k \in Nat /\ k <= Len(toTarget) /\ k <= n
  BY <1>1 DEF Least
<1>3. Readable(n) = SubSeq(toTarget, 1, k)
  BY DEF Readable
<1> HIDE DEF k
<1>4. Readable(n) \in Seq(Item) /\ Len(Readable(n)) = k
  BY <1>1, <1>2, <1>3, CutProperties
<1>5. toTarget' = SubSeq(toTarget, k + 1, Len(toTarget)) /\ wire' = wire /\ toHost' = toHost
  BY <1>4 DEF comms_read
<1>6. toTarget' \in Seq(Item) /\ Len(toTarget') = Len(toTarget) - k
  <2>1. k + 1 \in Nat \ {0}
    BY <1>2
  <2> QED BY <1>1, <1>2, <1>5, <2>1, CutProperties
<1>7. Readable(n) \o toTarget' = toTarget
  <2>1. 1 \in 1 .. Len(toTarget) + 1 /\ k \in 1 - 1 .. Len(toTarget) /\ Len(toTarget) \in k .. Len(toTarget)
    BY <1>1, <1>2
  <2>2. SubSeq(toTarget, 1, k) \o SubSeq(toTarget, k + 1, Len(toTarget)) = SubSeq(toTarget, 1, Len(toTarget))
    BY <1>1, <2>1, ConcatAdjacentSubSeq
  <2> QED BY <1>1, <1>3, <1>5, <2>2, SubSeqFull
<1>8. Readable(n) \o stream' = stream
  <2>1. (Readable(n) \o toTarget') \o wire = Readable(n) \o (toTarget' \o wire)
    <3>1. Readable(n) \in Seq(Item) /\ toTarget' \in Seq(Item) /\ wire \in Seq(Item)
      BY <1>1, <1>4, <1>6
    <3> QED BY ONLY <3>1, ConcatAssociative
  <2> QED BY <1>5, <1>7, <2>1 DEF stream
<1>9. Readable(n) = << >> => toTarget' = toTarget
  BY <1>6, <1>7, ConcatEmptySeq
<1> QED BY <1>1, <1>2, <1>4, <1>5, <1>6, <1>8, <1>9

\* While there is no session nothing is under way.
LEMMA DownStep ==
  ASSUME TypeInv, Down, [Next]_vars
  PROVE  Down'
<1>1. CASE BeginSession \/ EndSession
  BY <1>1 DEF BeginSession, EndSession, Down
<1>2. CASE Answer \/ Timeout \/ Arrive \/ \E r \in Request : DoCmd(r)
  BY <1>2 DEF Answer, Timeout, Arrive, DoCmd, Down
<1>3. ASSUME NEW n \in Nat \ {0}, comms_read(n), UNCHANGED host
      PROVE  Down'
  <2> SUFFICES ASSUME ~up
               PROVE  toTarget' = << >> /\ UNCHANGED <<wire, toHost, req, outcome>>
    BY <1>3 DEF comms_read, Down
  <2>1. Readable(n) = << >> /\ toTarget = << >>
    BY DEF Readable, Down
  <2>2. toTarget' = SubSeq(<< >>, Len(<< >>) + 1, Len(<< >>))
    BY <1>3, <2>1 DEF comms_read
  <2>3. toTarget' = << >>
    BY <2>2, EmptySeq, SubSeqEmpty
  <2> QED BY <1>3, <2>3 DEF comms_read, host
<1>4. ASSUME NEW w, comms_write(w), UNCHANGED host
      PROVE  Down'
  BY <1>4 DEF comms_write, host, Down
<1>5. CASE ReadCommand
  BY <1>3, <1>5 DEF ReadCommand
<1>6. CASE ReadHeader
  <2>1. HeaderLen - Len(buf) \in Nat \ {0}
    BY HeaderLacks DEF TypeInv, PayloadInv, PayloadTypes
  <2> QED BY <1>3, <1>6, <2>1 DEF ReadHeader
<1>7. CASE Fill
  <2>1. max_read \in Nat \ {0}
    <3>1. Len(buffer) \in Nat /\ BufSize \in Nat /\ total_bytes \in Nat /\ total_bytes_read \in Nat
      BY CmdServerAssumption, LenProperties DEF TypeInv, PayloadInv, PayloadTypes
    <3> QED BY <1>7, <3>1 DEF Fill, WantMore, max_read, Least, bytes_avail
  <2> QED BY <1>3, <1>7, <2>1 DEF Fill
<1>8. CASE Finish \/ ProcessReadBytes \/ SendWord
  BY <1>4, <1>8 DEF Finish, ProcessReadBytes, SendWord
<1>9. CASE UNCHANGED <<link, host>>
  BY <1>9 DEF link, host, Down
<1> QED
  BY <1>1, <1>2, <1>5, <1>6, <1>7, <1>8, <1>9
     DEF Next, Board, Pico, Poll, update_cmd, process_cmd, Continue, NoFill,
         ProcessWriteBytes, ProcessWriteWords, ProcessReadWords, WordsDone,
         ProcessFillBytes, ProcessFillWords, ProcessOther, Processed, vars

LEMMA PlaceStep ==
  ASSUME TypeInv, Place, [Next]_vars
  PROVE  Place'
<1>1. CASE ReadCommand
  <2>1. CASE Readable(1) \in {<< >>, <<CMD_IDLE>>}
    BY <1>1, <2>1 DEF ReadCommand, Place
  <2>2. CASE Readable(1) \notin {<< >>, <<CMD_IDLE>>}
    <3>1. Readable(1) \in Seq(Item) /\ Len(Readable(1)) <= 1
      BY ReadableProperties DEF TypeInv, PayloadInv, PayloadTypes
    <3>2. Readable(1) = <<Readable(1)[1]>>
      BY <2>2, <3>1, AtMostOne
    <3>3. Readable(1)[1] # CMD_IDLE
      BY <2>2, <3>2
    <3>4. pc' = "header" /\ cmd' = Readable(1)[1]
      BY <1>1, <2>2 DEF ReadCommand
    <3> QED BY <3>3, <3>4 DEF Place
  <2> QED BY <2>1, <2>2
<1>2. CASE ReadHeader
  BY <1>2 DEF ReadHeader, Place
<1>3. CASE Poll \/ Finish \/ Continue \/ Fill \/ NoFill
  BY <1>3 DEF Poll, Finish, Continue, Fill, NoFill, header, Place
<1>4. CASE process_cmd
  BY <1>4 DEF process_cmd, ProcessWriteBytes, ProcessWriteWords, ProcessReadBytes, ProcessReadWords, SendWord,
     WordsDone, ProcessFillBytes, ProcessFillWords, ProcessOther, Processed, header, Place
<1>5. CASE UNCHANGED <<pc, cmd>>
  BY <1>5 DEF Place
<1> QED
  BY <1>1, <1>2, <1>3, <1>4, <1>5
     DEF Next, Board, Pico, update_cmd, DoCmd, Answer, Timeout, Arrive, BeginSession, EndSession, header, vars

LEMMA HeadIsFirst ==
  ASSUME NEW h \in Item, NEW t \in Seq(Item)
  PROVE  LET s == <<h>> \o t IN Tail(s) = t /\ s[1] = h /\ s # << >> /\ s \in Seq(Item) /\ Len(s) = Len(t) + 1
<1> DEFINE s == <<h>> \o t
<1>1. <<h>> \in Seq(Item) /\ Len(<<h>>) = 1 /\ <<h>>[1] = h /\ Len(t) \in Nat
  BY LenProperties
<1>2. /\ s \in Seq(Item) /\ Len(s) = Len(t) + 1
      /\ \A i \in 1 .. 1 + Len(t) : s[i] = IF i <= 1 THEN h ELSE t[i - 1]
  <2>1. /\ s \in Seq(Item) /\ Len(s) = Len(<<h>>) + Len(t)
        /\ \A i \in 1 .. Len(<<h>>) + Len(t) : s[i] = IF i <= Len(<<h>>) THEN <<h>>[i] ELSE t[i - Len(<<h>>)]
    BY <1>1, ConcatProperties
  <2> QED BY <1>1, <2>1
<1> HIDE DEF s
<1>3. s[1] = h /\ s # << >>
  BY <1>1, <1>2, EmptySeq
<1>4. Tail(s) \in Seq(Item) /\ Len(Tail(s)) = Len(s) - 1 /\ \A i \in 1 .. Len(Tail(s)) : Tail(s)[i] = s[i + 1]
  BY <1>2, <1>3, HeadTailProperties
<1>5. Tail(s) = t
  <2>1. Len(Tail(s)) = Len(t)
    BY <1>1, <1>2, <1>4
  <2>2. ASSUME NEW i \in 1 .. Len(Tail(s))
        PROVE  Tail(s)[i] = t[i]
    <3>1. i \in Nat /\ i + 1 \in 1 .. 1 + Len(t) /\ ~(i + 1 <= 1) /\ (i + 1) - 1 = i
      BY <1>1, <2>1
    <3> QED BY <1>2, <1>4, <3>1
  <2> QED BY <1>4, <2>1, <2>2, SeqEqual
<1> QED BY <1>2, <1>3, <1>5 DEF s

LEMMA Requests ==
  ASSUME NEW r \in Request
  PROVE  /\ r.cmd \in 1 .. CMD_FILL_WORDS /\ r.cmd # CMD_IDLE /\ r # NoRequest
         /\ r.arg1 \in Nat /\ r.data \in Seq(Item) /\ Len(r.data) \in Nat
         /\ Packed(r) \in Seq(Item) /\ Packed(r) # << >> /\ Packed(r)[1] = r.cmd
         /\ Tail(Packed(r)) = <<r.arg0, r.arg1, Len(r.data)>> \o r.data
         /\ ToSize(Len(r.data)) = Len(r.data)
<1>1. /\ r.cmd \in 1 .. CMD_FILL_WORDS /\ r.arg0 \in Item /\ r.arg1 \in Item
      /\ r.data \in Seq(Item) /\ Len(r.data) \in Nat /\ Len(r.data) < WordMod /\ Len(r.data) \in Item
      /\ r # NoRequest
  BY CmdServerAssumption, LenProperties
<1>2. r.cmd # CMD_IDLE /\ r.cmd \in Item /\ r.arg1 \in Nat
  BY <1>1, CmdServerAssumption DEF CMD_IDLE, CMD_FILL_WORDS, Item
<1> DEFINE rest == <<r.arg0, r.arg1, Len(r.data)>>
           all == <<r.cmd, r.arg0, r.arg1, Len(r.data)>>
<1>3. rest \in Seq(Item) /\ all \in Seq(Item) /\ <<r.cmd>> \in Seq(Item) /\ all = <<r.cmd>> \o rest
  BY <1>1, <1>2
<1>4. Packed(r) = <<r.cmd>> \o (rest \o r.data)
  <2>1. Packed(r) = all \o r.data
    BY DEF Packed
  <2>2. (<<r.cmd>> \o rest) \o r.data = <<r.cmd>> \o (rest \o r.data)
    <3>1. rest \in Seq(Item) /\ <<r.cmd>> \in Seq(Item) /\ r.data \in Seq(Item)
      BY <1>1, <1>3
    <3>2. \A s, t, u \in Seq(Item) : (s \o t) \o u = s \o (t \o u)
      BY ConcatAssociative
    <3> HIDE DEF rest
    <3> QED BY ONLY <3>1, <3>2, Zenon
  <2> QED BY <1>3, <2>1, <2>2
<1>5. rest \o r.data \in Seq(Item)
  BY <1>1, <1>3, ConcatProperties
<1>6. Tail(Packed(r)) = rest \o r.data /\ Packed(r)[1] = r.cmd /\ Packed(r) # << >>
  BY <1>4, <1>5, HeadIsFirst
<1>7. ToSize(Len(r.data)) = Len(r.data)
  <2>1. WordMod \in Nat
    BY CmdServerAssumption
  <2>2. \A k \in Nat : k < WordMod => k % WordMod = k
    BY ONLY <2>1
  <2> QED BY ONLY <1>1, <2>2 DEF ToSize
<1> QED BY <1>1, <1>2, <1>6, <1>7, PackedType

\* Nothing under way but what is in neither queue.
LEMMA StreamEmpty ==
  ASSUME TypeInv
  PROVE  /\ stream \in Seq(Item)
         /\ Len(stream) = Len(toTarget) + Len(wire)
         /\ Len(toTarget) \in Nat /\ Len(wire) \in Nat
         /\ (Len(toTarget) + Len(wire) = 0 => toTarget = << >> /\ wire = << >>)
<1>1. toTarget \in Seq(Item) /\ wire \in Seq(Item) /\ Len(toTarget) \in Nat /\ Len(wire) \in Nat
  BY LenProperties DEF TypeInv, PayloadInv, PayloadTypes
<1>2. stream \in Seq(Item) /\ Len(stream) = Len(toTarget) + Len(wire)
  BY <1>1, ConcatProperties DEF stream
<1>3. ASSUME Len(toTarget) + Len(wire) = 0
      PROVE  toTarget = << >> /\ wire = << >>
  <2>1. Len(toTarget) = 0 /\ Len(wire) = 0
    BY <1>1, <1>3
  <2> QED BY <1>1, <2>1, EmptySeq
<1> QED BY <1>1, <1>2, <1>3

-----------------------------------------------------------------------------
(***************************************************************************)
(* The phases, one lemma per group of actions.                             *)
(***************************************************************************)
Orderly == TypeInv /\ Down /\ Place /\ Phase

LEMMA SessionPhase ==
  ASSUME TypeInv, Down, BeginSession, clean'
  PROVE  Phase'
<1>1. cmd = CMD_IDLE
  BY Zenon DEF BeginSession
<1>2. /\ ~up /\ up' = TRUE
      /\ UNCHANGED <<wire, toTarget, toHost, cmd, req, outcome>>
  BY DEF BeginSession, header, host
<1>3. wire = << >> /\ toTarget = << >> /\ toHost = << >> /\ req = NoRequest /\ outcome = "none"
  BY <1>2 DEF Down
<1> QED BY <1>1, <1>2, <1>3 DEF Phase, Quiet

LEMMA ArrivePhase ==
  ASSUME Orderly, Arrive
  PROVE  Phase'
<1>1. stream' = stream /\ Len(toTarget') + Len(wire') = Len(toTarget) + Len(wire)
  BY ArriveKeeps DEF Orderly
<1>2. /\ wire # << >> /\ up' = up
      /\ UNCHANGED <<toHost, cmd, arg1, total_bytes, total_bytes_read, pc, buf, rounds, ofs, req, outcome>>
  BY DEF Arrive, header, counts, words, host
<1>3. ~Quiet /\ ~Answered
  BY <1>2 DEF Quiet, Answered
<1>4. CASE Sent
  BY <1>1, <1>2, <1>4 DEF Orderly, Phase, Sent
<1>5. CASE Heading
  BY <1>1, <1>2, <1>5 DEF Orderly, Phase, Heading
<1>6. CASE Working
  <2>1. total_bytes_read + Len(toTarget') + Len(wire') = total_bytes_read + Len(toTarget) + Len(wire)
    <3>1. total_bytes_read \in Nat /\ Len(toTarget) \in Nat /\ Len(wire) \in Nat
      BY LenProperties DEF Orderly, TypeInv, PayloadInv, PayloadTypes
    <3>2. toTarget' \in Seq(Item) /\ wire' \in Seq(Item)
      <4>1. toTarget \in Seq(Item) /\ wire \in Seq(Item) /\ wire # << >>
        BY <1>2 DEF Orderly, TypeInv, PayloadInv, PayloadTypes
      <4>2. Head(wire) \in Item /\ Tail(wire) \in Seq(Item)
        BY <4>1, HeadTailProperties
      <4> QED BY <4>1, <4>2, AppendProperties DEF Arrive
    <3>3. Len(toTarget') \in Nat /\ Len(wire') \in Nat
      BY <3>2, LenProperties
    <3> QED BY ONLY <1>1, <3>1, <3>3
  <2> QED BY <1>2, <1>6, <2>1 DEF Orderly, Phase, Working
<1> QED BY <1>3, <1>4, <1>5, <1>6 DEF Orderly, Phase

LEMMA DoCmdPhase ==
  ASSUME Orderly, NEW r \in Request, DoCmd(r)
  PROVE  Phase'
<1>1. Quiet
  BY Requests DEF DoCmd, Orderly, Phase, Sent, Heading, Working, Answered
<1>2. wire' = Packed(r)
  BY <1>1, PackedType, ConcatEmptySeq DEF DoCmd, Quiet
<1>3. stream' = Packed(r)
  BY <1>1, <1>2, PackedType, ConcatEmptySeq DEF DoCmd, Quiet, stream
<1>4. Sent'
  BY <1>1, <1>3 DEF DoCmd, Quiet, Sent, header
<1> QED BY <1>4 DEF DoCmd, Orderly, Phase

\* The answer is whole when the last item is the tail.
LEMMA AnswerPhase ==
  ASSUME Orderly, Answer
  PROVE  Phase'
<1>1. req \in Request /\ Len(toHost) > ResponseSize(req) /\ TakeAnswer(ResponseSize(req))
  BY DEF Answer, Orderly, TypeInv, HostTypes
<1> DEFINE k == ResponseSize(req)
<1>2. k \in Nat /\ toHost \in Seq(Item) /\ Len(toHost) \in Nat
  BY <1>1, ResponseIsNat, LenProperties DEF Orderly, TypeInv, HostTypes
<1> HIDE DEF k
<1>3. Answered
  <2>1. toHost # << >>
    BY <1>1, <1>2, EmptySeq DEF k
  <2>2. ~Working
    BY <1>1, <1>2 DEF Working, k
  <2> QED BY <2>1, <2>2, <1>1, Requests DEF Orderly, Phase, Quiet, Sent, Heading
<1>4. Len(toHost) = k + 1
  BY <1>1, <1>2, <1>3 DEF Answered, k
<1>5. toHost[k + 1] = req.cmd
  BY <1>3, <1>4 DEF Answered
<1>6. toHost' = << >>
  <2>1. toHost' = SubSeq(toHost, k + 2, k + 1)
    BY <1>1, <1>4 DEF TakeAnswer, k
  <2>2. k + 2 \in Int /\ k + 1 \in Int /\ k + 1 < k + 2
    BY <1>2
  <2> QED BY <2>1, <2>2, SubSeqEmpty
<1>7. outcome' = "ok"
  BY <1>1, <1>5 DEF TakeAnswer, k
<1> QED BY <1>3, <1>6, <1>7 DEF Answer, Answered, Quiet, Orderly, Phase, header

LEMMA ReadCommandPhase ==
  ASSUME Orderly, ReadCommand
  PROVE  Phase'
<1>1. cmd = CMD_IDLE /\ up /\ 1 \in Nat \ {0} /\ comms_read(1)
  BY DEF ReadCommand, Orderly, Place, Phase
<1>2. /\ Readable(1) \in Seq(Item) /\ Len(Readable(1)) <= 1
      /\ wire' = wire /\ toHost' = toHost /\ Readable(1) \o stream' = stream
      /\ toTarget' \in Seq(Item)
      /\ (Readable(1) = << >> => toTarget' = toTarget)
  BY <1>1, ReadTakes DEF Orderly
<1>3. up' = up /\ UNCHANGED <<req, outcome, arg1, total_bytes, total_bytes_read, rounds, ofs>>
  BY <1>1 DEF ReadCommand, comms_read, host, counts, words
<1>4. CASE Readable(1) = << >>
  <2>1. toTarget' = toTarget /\ cmd' = cmd /\ stream' = stream
    BY <1>2, <1>4 DEF ReadCommand, stream
  <2>2. ~Heading /\ ~Working
    BY <1>1, Requests DEF Heading, Working
  <2> QED BY <1>2, <1>3, <2>1, <2>2 DEF Orderly, Phase, Quiet, Sent, Answered
<1>5. CASE Readable(1) # << >>
  <2>1. Readable(1) = <<Readable(1)[1]>> /\ Readable(1)[1] \in Item
    BY <1>2, <1>5, AtMostOne
  <2>2. Sent
    <3>1. toTarget # << >>
      <4>1. ASSUME toTarget = << >>
            PROVE  Readable(1) = << >>
        <5>1. Len(toTarget) = 0
          BY <4>1, EmptySeq
        <5>2. Readable(1) = SubSeq(toTarget, 1, 0)
          BY <1>1, <5>1 DEF Readable, Least
        <5> QED BY <5>2, SubSeqEmpty
      <4> QED BY <1>5, <4>1
    <3> QED BY <1>1, <3>1, Requests DEF Orderly, Phase, Quiet, Heading, Working, Answered
  <2>3. stream' \in Seq(Item)
    BY <1>2, ConcatProperties DEF stream, Orderly, TypeInv, PayloadInv, PayloadTypes
  <2>4. stream[1] = Readable(1)[1] /\ Tail(stream) = stream'
    BY <1>2, <2>1, <2>3, HeadIsFirst
  <2>5. Readable(1)[1] = req.cmd /\ stream' = Tail(Packed(req)) /\ req.cmd # CMD_IDLE
    BY <2>2, <2>4, Requests DEF Sent
  <2>6. Readable(1) \notin {<< >>, <<CMD_IDLE>>}
    BY <1>5, <2>1, <2>5
  <2>7. pc' = "header" /\ cmd' = req.cmd /\ buf' = << >>
    BY <2>5, <2>6 DEF ReadCommand
  <2>8. buf' \o stream' = Tail(Packed(req))
    BY <2>3, <2>5, <2>7, ConcatEmptySeq
  <2>9. Heading'
    BY <1>2, <1>3, <2>2, <2>7, <2>8 DEF Sent, Heading
  <2> QED BY <1>3, <2>9 DEF Orderly, Phase
<1> QED BY <1>4, <1>5

LEMMA ReadHeaderPhase ==
  ASSUME Orderly, ReadHeader
  PROVE  Phase'
<1> DEFINE n == HeaderLen - Len(buf)
           r == Readable(n)
           got == buf \o r
<1>1. Heading /\ up
  BY Requests DEF ReadHeader, Orderly, Place, Phase, Quiet, Sent, Working, Answered
<1>2. buf \in Seq(Item) /\ Len(buf) \in Nat /\ n \in Nat \ {0}
  BY LenProperties, HeaderLacks DEF Orderly, TypeInv, PayloadInv, PayloadTypes
<1>3. /\ r \in Seq(Item) /\ wire' = wire /\ toHost' = toHost
      /\ toTarget' \in Seq(Item) /\ r \o stream' = stream
  BY <1>1, <1>2, ReadTakes DEF ReadHeader, Orderly
<1>4. stream' \in Seq(Item) /\ wire' \in Seq(Item)
  BY <1>3, ConcatProperties DEF stream, Orderly, TypeInv, PayloadInv, PayloadTypes
<1>5. got \in Seq(Item)
  BY <1>2, <1>3, ConcatProperties
<1>6. got \o stream' = Tail(Packed(req))
  <2>1. \A s, t, u \in Seq(Item) : (s \o t) \o u = s \o (t \o u)
    BY ConcatAssociative
  <2>2. (buf \o r) \o stream' = buf \o (r \o stream')
    BY ONLY <1>2, <1>3, <1>4, <2>1, Zenon
  <2> QED BY <1>1, <1>3, <2>2 DEF Heading
<1>7. up' = up /\ UNCHANGED <<req, outcome, cmd, rounds, ofs>>
  BY <1>1 DEF ReadHeader, comms_read, host, words
<1>8. CASE Len(got) # HeaderLen
  <2>1. buf' = got /\ pc' = pc
    BY <1>8 DEF ReadHeader
  <2> HIDE DEF got, r
  <2>2. Heading'
    BY <1>1, <1>3, <1>6, <1>7, <2>1 DEF Heading
  <2> QED BY <1>7, <2>2 DEF Orderly, Phase
<1>9. CASE Len(got) = HeaderLen
  <2>1. HeaderRead(got) /\ pc' = "fill"
    BY <1>9 DEF ReadHeader
  <2> HIDE DEF got, r
  <2>2. /\ req \in Request /\ req.arg1 \in Nat /\ req.data \in Seq(Item) /\ Len(req.data) \in Nat
        /\ Tail(Packed(req)) = <<req.arg0, req.arg1, Len(req.data)>> \o req.data
        /\ ToSize(Len(req.data)) = Len(req.data)
    BY <1>1, Requests DEF Heading
  <2>3. got[2] = req.arg1 /\ got[3] = Len(req.data) /\ Len(stream') = Len(req.data)
    <3>1. <<req.arg0, req.arg1, Len(req.data)>> \in Seq(Item)
      BY <2>2, CmdServerAssumption
    <3>2. got \o stream' = <<req.arg0, req.arg1, Len(req.data)>> \o req.data
      BY <1>6, <2>2
    <3> DEFINE h == <<req.arg0, req.arg1, Len(req.data)>>
    <3>3. h \in Seq(Item) /\ Len(h) = 3 /\ h[2] = req.arg1 /\ h[3] = Len(req.data) /\ Len(got) = 3
      BY <1>9, <3>1 DEF HeaderLen
    <3> HIDE DEF h
    <3>4. got \o stream' = h \o req.data
      BY <3>2 DEF h
    <3>5. got \in Seq(Item) /\ stream' \in Seq(Item) /\ req.data \in Seq(Item) /\ Len(stream') \in Nat /\ Len(req.data) \in Nat
      BY <1>4, <1>5, <2>2, LenProperties
    <3>6. /\ Len(got \o stream') = Len(got) + Len(stream')
          /\ \A i \in 1 .. Len(got) + Len(stream') :
               (got \o stream')[i] = IF i <= Len(got) THEN got[i] ELSE stream'[i - Len(got)]
      BY ONLY <3>5, ConcatProperties
    <3>7. /\ Len(h \o req.data) = Len(h) + Len(req.data)
          /\ \A i \in 1 .. Len(h) + Len(req.data) :
               (h \o req.data)[i] = IF i <= Len(h) THEN h[i] ELSE req.data[i - Len(h)]
      BY ONLY <3>3, <3>5, ConcatProperties
    <3>8. Len(stream') = Len(req.data)
      <4>1. 3 + Len(stream') = 3 + Len(req.data)
        BY ONLY <3>3, <3>4, <3>6, <3>7
      <4> QED BY ONLY <3>5, <4>1
    <3>9. \A i \in 2 .. 3 : got[i] = h[i]
      <4> SUFFICES ASSUME NEW i \in 2 .. 3
                   PROVE  got[i] = h[i]
        OBVIOUS
      <4>1. i \in 1 .. Len(got) + Len(stream') /\ i \in 1 .. Len(h) + Len(req.data) /\ i <= Len(got) /\ i <= Len(h)
        BY <3>3, <3>5
      <4>2. (got \o stream')[i] = got[i] /\ (h \o req.data)[i] = h[i]
        BY ONLY <3>6, <3>7, <4>1
      <4> QED BY <3>4, <4>2
    <3>10. got[2] = h[2] /\ got[3] = h[3]
      BY <3>9
    <3> QED BY <3>3, <3>8, <3>10
  <2>4. arg1' = req.arg1 /\ total_bytes' = Len(req.data) /\ total_bytes_read' = 0
    BY <2>1, <2>2, <2>3 DEF HeaderRead
  <2>5. Len(toTarget') + Len(wire') = Len(req.data) /\ Len(toTarget') \in Nat /\ Len(wire') \in Nat
    BY <1>3, <1>4, <2>3, ConcatProperties, LenProperties DEF stream
  <2>6. toHost' = << >> /\ Len(toHost') <= ResponseSize(req)
    BY <1>1, <1>3, <2>2, ResponseIsNat, EmptySeq DEF Heading
  <2>7. 0 + Len(toTarget') + Len(wire') = Len(req.data)
    BY <2>5
  <2>8. Working'
    BY <1>1, <1>7, <2>1, <2>2, <2>4, <2>6, <2>7 DEF Heading, Working
  <2> QED BY <1>7, <2>8 DEF Orderly, Phase
<1> QED BY <1>8, <1>9

LEMMA FillPhase ==
  ASSUME Orderly, Fill
  PROVE  Phase'
<1>1. Working /\ up
  BY DEF Fill, Orderly, Place, Phase, Quiet, Sent, Heading, Answered
<1>2. max_read \in Nat \ {0}
  <2>1. Len(buffer) \in Nat /\ BufSize \in Nat /\ total_bytes \in Nat /\ total_bytes_read \in Nat
    BY CmdServerAssumption, LenProperties DEF Orderly, TypeInv, PayloadInv, PayloadTypes
  <2> QED BY <2>1 DEF Fill, WantMore, max_read, Least, bytes_avail
<1>3. /\ Len(Readable(max_read)) \in Nat /\ wire' = wire /\ toHost' = toHost
      /\ Len(Readable(max_read)) + Len(toTarget') = Len(toTarget)
      /\ toTarget' \in Seq(Item)
  BY <1>1, <1>2, ReadTakes DEF Fill, Orderly
<1>4. /\ up' = up /\ pc' = "process" /\ total_bytes_read' = total_bytes_read + Len(Readable(max_read))
      /\ UNCHANGED <<req, outcome, cmd, arg1, total_bytes, rounds, ofs>>
  BY <1>1 DEF Fill, comms_read, header, host, words
<1>5. total_bytes_read' + Len(toTarget') + Len(wire') = total_bytes
  <2>1. total_bytes_read \in Nat /\ Len(toTarget') \in Nat /\ Len(wire) \in Nat
    BY <1>3, LenProperties DEF Orderly, TypeInv, PayloadInv, PayloadTypes
  <2>2. total_bytes_read + Len(toTarget) + Len(wire) = total_bytes
    BY <1>1 DEF Working
  <2> QED BY ONLY <1>3, <1>4, <2>1, <2>2
<1>6. toHost = << >> /\ Len(toHost) <= ResponseSize(req)
  BY <1>1 DEF Fill, Working
<1>7. Working'
  BY <1>1, <1>3, <1>4, <1>5, <1>6 DEF Working
<1> QED BY <1>4, <1>7 DEF Orderly, Phase

\* When update_cmd finds the command complete, all its items have come.
LEMMA CompleteMeansRead ==
  ASSUME Orderly, Working, Consume
  PROVE  /\ Complete => toTarget = << >> /\ wire = << >>
         /\ ResponseSize(req) # 0 => Complete
<1>1. /\ total_bytes \in Nat /\ total_bytes_read \in Nat /\ total_bytes_consumed \in Nat /\ bytes_consumed \in Nat
      /\ Len(buffer) \in Nat /\ Len(toTarget) \in Nat /\ Len(wire) \in Nat
  BY LenProperties DEF Orderly, TypeInv, PayloadInv, PayloadTypes
<1>2. /\ bytes_consumed <= Len(buffer) /\ total_bytes_consumed + Len(buffer) = total_bytes_read
      /\ total_bytes_read <= total_bytes
  BY DEF Orderly, TypeInv, PayloadInv, PayloadAccounted, bytes_avail
<1>3. total_bytes_consumed' = total_bytes_consumed + bytes_consumed
  BY DEF Consume
<1>4. total_bytes_read + Len(toTarget) + Len(wire) = total_bytes
  BY DEF Working
<1>5. ASSUME Complete
      PROVE  toTarget = << >> /\ wire = << >>
  <2>1. total_bytes_consumed' = total_bytes
    BY <1>5 DEF Complete
  <2>2. Len(toTarget) + Len(wire) = 0
    BY ONLY <1>1, <1>2, <1>3, <1>4, <2>1
  <2> QED BY <2>2, StreamEmpty DEF Orderly
<1>6. ASSUME ResponseSize(req) # 0
      PROVE  Complete
  <2>1. req.cmd \in {CMD_READ_BYTES, CMD_READ_WORDS}
    BY <1>6 DEF ResponseSize
  <2>2. total_bytes = 0
    BY <2>1, CmdServerAssumption, EmptySeq DEF Working
  <2>3. total_bytes_consumed' = total_bytes
    BY ONLY <1>1, <1>2, <1>3, <2>2
  <2>4. cmd # CMD_IDLE
    BY Requests DEF Working
  <2> QED BY <2>3, <2>4 DEF Complete
<1> QED BY <1>5, <1>6

LEMMA FinishPhase ==
  ASSUME Orderly, Finish
  PROVE  Phase'
<1>1. Working /\ up
  BY DEF Finish, Complete, Orderly, Phase, Quiet, Sent, Heading, Answered
<1>2. toTarget = << >> /\ wire = << >>
  BY <1>1, CompleteMeansRead DEF Finish
<1>3. toHost' = toHost \o <<cmd>> /\ toTarget' = toTarget /\ wire' = wire /\ up' = up /\ cmd' = CMD_IDLE
      /\ UNCHANGED <<req, outcome>>
  BY <1>1 DEF Finish, comms_write, host
<1>4. toHost \in Seq(Item) /\ cmd \in Item /\ Len(toHost) \in Nat
  BY LenProperties DEF Orderly, TypeInv, HostTypes, HeaderTypes
<1>5. toHost' = Append(toHost, cmd)
  BY <1>3, <1>4, AppendIsConcat
<1>6. toHost' # << >> /\ Len(toHost') = Len(toHost) + 1 /\ toHost'[Len(toHost) + 1] = cmd
  BY <1>4, <1>5, AppendProperties
<1>7. Len(toHost') <= ResponseSize(req) + 1
  <2>1. Len(toHost) <= ResponseSize(req) /\ ResponseSize(req) \in Nat
    BY <1>1, ResponseIsNat DEF Working
  <2> QED BY ONLY <1>4, <1>6, <2>1
<1>8. Answered'
  BY <1>1, <1>2, <1>3, <1>6, <1>7 DEF Working, Answered
<1> QED BY <1>3, <1>8 DEF Orderly, Phase

LEMMA ContinuePhase ==
  ASSUME Orderly, Continue
  PROVE  Phase'
<1>1. UNCHANGED <<up, outcome, req, cmd, arg1, total_bytes, total_bytes_read, toTarget, wire, stream, toHost, buf, rounds, ofs>>
  BY DEF Continue, link, header, words, host, stream
<1>2. ~Heading
  BY DEF Continue, Heading
<1>3. CASE Working
  <2>1. pc' = "fill"
    BY <1>3, Requests DEF Continue, Working
  <2>2. ResponseSize(req) = 0
    BY <1>3, CompleteMeansRead DEF Continue
  <2>3. toHost = << >>
    <3>1. toHost \in Seq(Item) /\ Len(toHost) <= 0
      BY <1>3, <2>2 DEF Working, Orderly, TypeInv, HostTypes
    <3>2. Len(toHost) = 0
      BY <3>1, LenProperties
    <3> QED BY <3>1, <3>2, EmptySeq
  <2>4. Working'
    BY <1>1, <1>3, <2>1, <2>3 DEF Working
  <2> QED BY <1>1, <2>4 DEF Orderly, Phase
<1>4. CASE Quiet \/ Sent \/ Answered
  BY <1>1, <1>4 DEF Orderly, Phase, Quiet, Sent, Answered
<1> QED BY <1>2, <1>3, <1>4 DEF Orderly, Phase

\* The rest of the board's steps send nothing and read nothing.
LEMMA SilentPhase ==
  ASSUME Orderly,
         UNCHANGED <<up, outcome, req, cmd, arg1, total_bytes, total_bytes_read, toTarget, wire, toHost, buf>>,
         pc # "header",
         \/ pc' = pc /\ UNCHANGED <<rounds, ofs>>
         \/ pc' \in {"poll", "consume"}
         \/ pc' = "process" /\ pc = "fill"
         \/ pc = "process" /\ pc' = "words" /\ ofs' = 0 /\ rounds' \in Nat /\ rounds' <= arg1
  PROVE  Phase'
<1>1. stream' = stream
  BY DEF stream
<1>2. CASE Working
  <2>1. pc = "process" => Len(toHost) = 2 * 0
    BY <1>2, EmptySeq DEF Working
  <2>2. ASSUME pc' = "words" /\ pc = "process"
        PROVE  Len(toHost') = 2 * ofs' /\ ofs' <= rounds' /\ rounds' <= arg1'
    BY <2>1, <2>2
  <2>3. Working'
    BY <1>2, <2>2 DEF Working
  <2> QED BY <2>3 DEF Orderly, Phase
<1>3. CASE Quiet \/ Sent \/ Answered
  BY <1>1, <1>3 DEF Orderly, Phase, Quiet, Sent, Answered
<1> QED BY <1>2, <1>3 DEF Orderly, Phase, Heading

LEMMA ReadWordsPhase ==
  ASSUME Orderly, ProcessReadWords
  PROVE  Phase'
<1>1. arg1 \in Nat
  BY CmdServerAssumption DEF Orderly, TypeInv, HeaderTypes, Item
<1>2. rounds' \in Nat /\ rounds' <= arg1
  <2>1. IntMax + 1 \in Nat
    BY CmdServerAssumption DEF IntMax
  <2>2. CASE arg1 <= IntMax
    BY <1>1, <2>2 DEF ProcessReadWords
  <2>3. CASE ~(arg1 <= IntMax)
    <3>1. IntMax + 1 <= arg1
      <4>1. IntMax \in Int
        BY CmdServerAssumption DEF IntMax
      <4> QED BY ONLY <1>1, <2>3, <4>1
    <3> QED BY <1>1, <2>1, <2>3, <3>1 DEF ProcessReadWords
  <2> QED BY <2>2, <2>3
<1> QED BY <1>2, SilentPhase DEF ProcessReadWords, link, header, counts, host

\* comms_write of n items of the response to a read.
LEMMA WriteAdds ==
  ASSUME toHost \in Seq(Item), up, NEW s \in Seq(Item), comms_write(s)
  PROVE  Len(toHost') = Len(toHost) + Len(s) /\ UNCHANGED <<up, toTarget, wire>>
BY ConcatProperties DEF comms_write

LEMMA ReadBytesPhase ==
  ASSUME Orderly, ProcessReadBytes
  PROVE  Phase'
<1>1. /\ UNCHANGED <<outcome, req, cmd, arg1, total_bytes, total_bytes_read>>
      /\ pc' = "poll" /\ cmd = CMD_READ_BYTES /\ pc = "process"
  BY DEF ProcessReadBytes, header, counts, host
<1>2. Working /\ up
  BY <1>1 DEF Orderly, Phase, Quiet, Sent, Heading, Answered, CMD_IDLE, CMD_READ_BYTES
<1>3. arg1 \in Nat /\ arg0 \in Nat /\ toHost \in Seq(Item) /\ mem \in [Phys -> Item]
  BY CmdServerAssumption DEF Orderly, TypeInv, HeaderTypes, HostTypes, BoardTypes, Item
<1>4. ToInt(arg1) \in Int /\ ToInt(arg1) <= arg1
  <2>1. WordMod \in Nat \ {0}
    BY CmdServerAssumption
  <2>2. arg1 % WordMod \in 0 .. WordMod - 1 /\ arg1 % WordMod <= arg1
    BY ONLY <1>3, <2>1, SMTT(20)
  <2> QED BY ONLY <1>3, <2>1, <2>2 DEF ToInt
<1> DEFINE s == Load(mem, arg0, ToInt(arg1))
<1>5. s \in Seq(Item) /\ Len(s) \in Nat /\ Len(s) <= arg1
  <2>1. s \in Seq(Item) /\ Len(s) = IF ToInt(arg1) >= 0 THEN ToInt(arg1) ELSE 0
    BY <1>3, <1>4, LoadType
  <2> HIDE DEF s
  <2> QED BY <1>3, <1>4, <2>1
<1>6. Len(toHost') = Len(toHost) + Len(s) /\ UNCHANGED <<up, toTarget, wire>>
  BY <1>2, <1>3, <1>5, WriteAdds DEF ProcessReadBytes
<1> HIDE DEF s
<1>7. Len(toHost) = 0
  BY <1>1, <1>2, EmptySeq DEF Working
<1>8. Len(toHost') <= ResponseSize(req)
  <2>1. req.cmd = CMD_READ_BYTES /\ arg1 = req.arg1
    BY <1>1, <1>2 DEF Working
  <2>2. ResponseSize(req) = arg1
    BY <2>1 DEF ResponseSize, CMD_READ_BYTES, CMD_READ_WORDS
  <2> QED BY <1>5, <1>6, <1>7, <2>2
<1>9. Working'
  BY <1>1, <1>2, <1>6, <1>8 DEF Working
<1> QED BY <1>1, <1>6, <1>9 DEF Orderly, Phase

LEMMA SendWordPhase ==
  ASSUME Orderly, SendWord
  PROVE  Phase'
<1>1. /\ UNCHANGED <<outcome, req, cmd, arg1, total_bytes, total_bytes_read, pc, rounds>>
      /\ pc = "words" /\ cmd = CMD_READ_WORDS /\ ofs < rounds /\ ofs' = ofs + 1
  BY DEF SendWord, header, counts, host, Orderly, Place
<1>2. Working /\ up
  BY <1>1 DEF Orderly, Phase, Quiet, Sent, Heading, Answered, CMD_IDLE, CMD_READ_WORDS
<1>3. /\ arg0 \in Nat /\ arg1 \in Nat /\ ofs \in Nat /\ rounds \in Nat
      /\ toHost \in Seq(Item) /\ mem \in [Phys -> Item]
  BY CmdServerAssumption DEF Orderly, TypeInv, HeaderTypes, HostTypes, BoardTypes, Item
<1>4. FarAdd(arg0, 2 * ofs) \in Nat
  <2>1. OffMod \in Nat \ {0} /\ 2 * ofs \in Nat
    BY <1>3, FarMemoryAssumption
  <2>2. arg0 \div OffMod \in Nat /\ ((arg0 % OffMod) + (2 * ofs)) % OffMod \in Nat
    BY <1>3, <2>1
  <2> QED BY <2>1, <2>2 DEF FarAdd, Segment, Offset
<1> DEFINE s == Load(mem, FarAdd(arg0, 2 * ofs), 2)
           p == FarAdd(arg0, 2 * ofs)
<1>5. s \in Seq(Item) /\ Len(s) = 2
  <2>1. p \in Nat /\ mem \in [Phys -> Item] /\ 2 \in Int
    BY <1>3, <1>4
  <2>2. s = Load(mem, p, 2)
    OBVIOUS
  <2> HIDE DEF s, p
  <2>3. Load(mem, p, 2) \in Seq(Item) /\ Len(Load(mem, p, 2)) = IF 2 >= 0 THEN 2 ELSE 0
    BY ONLY <2>1, LoadType
  <2> QED BY ONLY <2>2, <2>3
<1>6. Len(toHost') = Len(toHost) + Len(s) /\ UNCHANGED <<up, toTarget, wire>>
  BY <1>2, <1>3, <1>5, WriteAdds DEF SendWord
<1> HIDE DEF s
<1>7. Len(toHost) = 2 * ofs /\ rounds <= arg1
  BY <1>1, <1>2 DEF Working
<1>8. Len(toHost') = 2 * ofs' /\ ofs' <= rounds
  BY <1>1, <1>3, <1>5, <1>6, <1>7
<1>9. Len(toHost') <= ResponseSize(req)
  <2>1. ResponseSize(req) = 2 * arg1
    BY <1>1, <1>2 DEF Working, ResponseSize, CMD_READ_BYTES, CMD_READ_WORDS
  <2> QED BY <1>1, <1>3, <1>7, <1>8, <2>1
<1>10. Working'
  BY <1>1, <1>2, <1>6, <1>7, <1>8, <1>9 DEF Working
<1> QED BY <1>1, <1>6, <1>10 DEF Orderly, Phase

\* A step of the board keeps the order.
LEMMA BoardPhase ==
  ASSUME Orderly, Board
  PROVE  Phase'
<1>1. CASE Poll \/ NoFill \/ WordsDone
  BY <1>1, SilentPhase DEF Poll, NoFill, WordsDone, link, header, counts, host
<1>2. ASSUME NEW m, NEW k, Processed(m, k), pc = "process"
      PROVE  Phase'
  BY <1>2, SilentPhase DEF Processed, link, header, words, host
<1>3. CASE ProcessWriteBytes
  BY <1>2, <1>3 DEF ProcessWriteBytes
<1>4. CASE ProcessWriteWords
  BY <1>2, <1>4 DEF ProcessWriteWords
<1>5. CASE ProcessFillBytes
  BY <1>2, <1>5 DEF ProcessFillBytes
<1>6. CASE ProcessFillWords
  BY <1>2, <1>6 DEF ProcessFillWords
<1>7. CASE ProcessOther
  BY <1>2, <1>7 DEF ProcessOther
<1> QED
  BY <1>1, <1>3, <1>4, <1>5, <1>6, <1>7, FinishPhase, ContinuePhase, ReadCommandPhase, ReadHeaderPhase,
     FillPhase, ReadWordsPhase, ReadBytesPhase, SendWordPhase
     DEF Board, update_cmd, process_cmd

LEMMA PhaseStep ==
  ASSUME TypeInv, Framing, [Next]_vars, clean'
  PROVE  Phase'
<1>1. clean => Orderly
  BY DEF Framing, Orderly
<1>2. CASE BeginSession
  BY <1>2, SessionPhase DEF Framing
<1>3. CASE EndSession \/ Timeout
  BY <1>3 DEF EndSession, Timeout
<1>4. CASE Board
  <2>1. clean' = clean
    BY <1>4
       DEF Board, Poll, update_cmd, process_cmd, Finish, Continue, ReadCommand, ReadHeader, Fill, NoFill,
           ProcessWriteBytes, ProcessWriteWords, ProcessReadBytes, ProcessReadWords, SendWord, WordsDone,
           ProcessFillBytes, ProcessFillWords, ProcessOther, Processed, history
  <2> QED BY <1>1, <1>4, <2>1, BoardPhase
<1>5. CASE Arrive
  BY <1>1, <1>5, ArrivePhase DEF Arrive, history
<1>6. CASE Answer
  BY <1>1, <1>6, AnswerPhase DEF Answer, history
<1>7. ASSUME NEW r \in Request, DoCmd(r)
      PROVE  Phase'
  BY <1>1, <1>7, DoCmdPhase DEF DoCmd, history
<1>8. CASE UNCHANGED vars
  <2>1. Phase /\ UNCHANGED <<up, outcome, req, cmd, arg1, total_bytes, total_bytes_read, toTarget, wire, stream,
                             toHost, pc, buf, rounds, ofs>>
    BY <1>1, <1>8 DEF Orderly, vars, link, header, counts, words, host, history, stream
  <2> QED BY <2>1 DEF Phase, Quiet, Sent, Heading, Working, Answered
<1> QED BY <1>2, <1>3, <1>4, <1>5, <1>6, <1>7, <1>8 DEF Next, Pico

\* CleanTail: an orderly session never sees a wrong tail.
THEOREM NoWrongTail == Spec => []CleanTail
<1>1. Init => Framing
  BY DEF Init, Framing, Down, Place
<1>2. TypeInv /\ Framing /\ [Next]_vars => Framing'
  BY DownStep, PlaceStep, PhaseStep DEF Framing
<1>3. Framing => CleanTail
  BY DEF Framing, Phase, CleanTail, CorrectTail
<1> QED BY <1>1, <1>2, <1>3, TypesHold, PTL DEF Spec

-----------------------------------------------------------------------------
(***************************************************************************)
(* Sequences cut in two.                                                   *)
(***************************************************************************)
LEMMA SameCut ==
  ASSUME NEW V, NEW a \in Seq(V), NEW b \in Seq(V), NEW c \in Seq(V), NEW d \in Seq(V),
         a \o b = c \o d, Len(a) = Len(c)
  PROVE  a = c /\ b = d
<1>1. Len(a) \in Nat /\ Len(b) \in Nat /\ Len(d) \in Nat
  BY LenProperties
<1>2. /\ Len(a \o b) = Len(a) + Len(b)
      /\ \A i \in 1 .. Len(a) + Len(b) : (a \o b)[i] = IF i <= Len(a) THEN a[i] ELSE b[i - Len(a)]
  BY ConcatProperties
<1>3. /\ Len(c \o d) = Len(a) + Len(d)
      /\ \A i \in 1 .. Len(a) + Len(d) : (c \o d)[i] = IF i <= Len(a) THEN c[i] ELSE d[i - Len(a)]
  BY ConcatProperties
<1>4. Len(b) = Len(d)
  BY <1>1, <1>2, <1>3
<1>5. ASSUME NEW i \in 1 .. Len(a)
      PROVE  a[i] = c[i]
  <2>1. i \in 1 .. Len(a) + Len(b) /\ i <= Len(a)
    BY <1>1
  <2> QED BY <1>2, <1>3, <1>4, <2>1
<1>6. ASSUME NEW i \in 1 .. Len(b)
      PROVE  b[i] = d[i]
  <2> DEFINE k == Len(a) + i
  <2>1. k \in 1 .. Len(a) + Len(b) /\ ~(k <= Len(a)) /\ k - Len(a) = i
    BY <1>1
  <2> HIDE DEF k
  <2>2. (a \o b)[k] = b[i] /\ (c \o d)[k] = d[i]
    BY <1>2, <1>3, <1>4, <2>1
  <2> QED BY <2>2
<1>7. a = c
  BY <1>5, SeqEqual
<1>8. b = d
  BY <1>4, <1>6, SeqEqual
<1> QED BY <1>7, <1>8

\* A beginning of c \o d that is not longer than c.
\* (Named, because the provers take an equation of sequences apart.)
Parts(s, a, b) == s = a \o b
After(a, c) == SubSeq(c, Len(a) + 1, Len(c))

LEMMA Assoc == \A s, t, u \in Seq(Item) : (s \o t) \o u = s \o (t \o u)
BY ConcatAssociative

LEMMA CutInside ==
  ASSUME NEW s, NEW a \in Seq(Item), NEW b \in Seq(Item), NEW c \in Seq(Item), NEW d \in Seq(Item),
         Parts(s, a, b), Parts(s, c, d), Len(a) <= Len(c)
  PROVE  After(a, c) \in Seq(Item) /\ Parts(c, a, After(a, c)) /\ Parts(b, After(a, c), d)
<1> DEFINE k == Len(a)
           x == SubSeq(c, 1, k)
           y == SubSeq(c, k + 1, Len(c))
<1>1. k \in Nat /\ Len(c) \in Nat /\ k <= Len(c) /\ \A i \in 1 .. Len(c) : c[i] \in Item
  BY LenProperties, ElementOfSeq
<1>2. x \in Seq(Item) /\ Len(x) = k /\ \A i \in 1 .. k : x[i] = c[i]
  <2>1. \A i \in 1 .. k : c[i] \in Item
    BY <1>1
  <2>2. /\ SubSeq(c, 1, k) \in Seq(Item)
        /\ Len(SubSeq(c, 1, k)) = IF 1 <= k THEN k - 1 + 1 ELSE 0
        /\ \A i \in 1 .. k - 1 + 1 : SubSeq(c, 1, k)[i] = c[1 + i - 1]
    BY ONLY 1 \in Int, <1>1, <2>1, SubSeqProperties
  <2> HIDE DEF x
  <2>3. x \in Seq(Item) /\ Len(x) = (IF 1 <= k THEN k - 1 + 1 ELSE 0) /\ \A i \in 1 .. k - 1 + 1 : x[i] = c[1 + i - 1]
    BY <2>2 DEF x
  <2> HIDE DEF k
  <2> QED BY <1>1, <2>3
<1>3. y \in Seq(Item)
  <2>1. \A i \in k + 1 .. Len(c) : c[i] \in Item
    BY <1>1
  <2>2. k + 1 \in Int /\ Len(c) \in Int
    BY <1>1
  <2> HIDE DEF k
  <2> QED BY <2>1, <2>2, SubSeqProperties
<1>4. x \o y = c
  <2>1. 1 \in 1 .. Len(c) + 1 /\ k \in 1 - 1 .. Len(c) /\ Len(c) \in k .. Len(c)
    BY <1>1
  <2> HIDE DEF k
  <2>2. SubSeq(c, 1, k) \o SubSeq(c, k + 1, Len(c)) = SubSeq(c, 1, Len(c))
    BY <2>1, ConcatAdjacentSubSeq
  <2> QED BY <2>2, SubSeqFull
<1> HIDE DEF x, y
<1>0. a \o b = c \o d
  BY Zenon DEF Parts
<1>5. a \o b = x \o (y \o d)
  <2>1. (x \o y) \o d = x \o (y \o d)
    <3>1. x \in Seq(Item) /\ y \in Seq(Item) /\ d \in Seq(Item)
      BY <1>2, <1>3
    <3> HIDE DEF k
    <3> QED BY ONLY <3>1, Assoc, SMTT(20)
  <2> QED BY <1>0, <1>4, <2>1
<1>6. y \o d \in Seq(Item)
  BY <1>3, ConcatProperties
<1>7. a = x /\ b = y \o d
  <2>1. Len(a) = Len(x)
    BY <1>2
  <2> QED BY ONLY <1>2, <1>5, <1>6, <2>1, a \in Seq(Item), b \in Seq(Item), SameCut
<1>8. Parts(c, x, y) /\ Parts(b, y, d)
  BY <1>4, <1>7 DEF Parts
<1>9. y = After(a, c)
  BY DEF After, y, k
<1> QED BY <1>3, <1>7, <1>8, <1>9, Zenon

\* The sequence without its first k elements.
LEMMA TailOfSeq ==
  ASSUME NEW V, NEW s \in Seq(V), NEW k \in Nat, k <= Len(s)
  PROVE  /\ SubSeq(s, k + 1, Len(s)) \in Seq(V)
         /\ Len(SubSeq(s, k + 1, Len(s))) = Len(s) - k
         /\ \A i \in 1 .. Len(s) - k : SubSeq(s, k + 1, Len(s))[i] = s[k + i]
<1> DEFINE m == k + 1
           n == Len(s)
<1>1. m \in Int /\ n \in Int /\ \A i \in m .. n : s[i] \in V
  BY LenProperties, ElementOfSeq
<1>2. n - m + 1 = n - k /\ (m <= n \/ n - k = 0) /\ \A i \in 1 .. n - k : m + i - 1 = k + i
  BY LenProperties
<1> HIDE DEF m, n
<1>3. /\ SubSeq(s, m, n) \in Seq(V)
      /\ Len(SubSeq(s, m, n)) = IF m <= n THEN n - m + 1 ELSE 0
      /\ \A i \in 1 .. n - m + 1 : SubSeq(s, m, n)[i] = s[m + i - 1]
  BY <1>1, SubSeqProperties
<1> QED BY <1>2, <1>3 DEF m, n

-----------------------------------------------------------------------------
(***************************************************************************)
(* Streams of whole requests                                               *)
(***************************************************************************)
\* s is in every set that holds the empty stream and, with a stream, this
\* stream followed by a request: so it is one request after the other.
Closed(S) == << >> \in S /\ \A t \in S, r \in Request : t \o Packed(r) \in S
Framed(s) == \A S \in SUBSET Seq(Item) : Closed(S) => s \in S

LEMMA FramedEmpty == Framed(<< >>)
BY DEF Framed, Closed

LEMMA FramedType ==
  ASSUME NEW s, Framed(s)
  PROVE  s \in Seq(Item)
<1>1. Closed(Seq(Item))
  <2>1. << >> \in Seq(Item)
    BY EmptySeq
  <2>2. ASSUME NEW t \in Seq(Item), NEW r \in Request
        PROVE  t \o Packed(r) \in Seq(Item)
    BY PackedType, ConcatProperties
  <2> QED BY <2>1, <2>2 DEF Closed
<1> QED BY <1>1 DEF Framed

LEMMA FramedMore ==
  ASSUME NEW s, Framed(s), NEW r \in Request
  PROVE  Framed(s \o Packed(r))
BY DEF Framed, Closed

\* Either there is nothing or there is a first request.
LEMMA FramedFirst ==
  ASSUME NEW s, Framed(s), s # << >>
  PROVE  \E r \in Request, t \in Seq(Item) : s = Packed(r) \o t /\ Framed(t)
<1> DEFINE First(u) == u = << >> \/ \E r \in Request, t \in Seq(Item) : u = Packed(r) \o t /\ Framed(t)
           S == {u \in Seq(Item) : First(u)}
<1>1. << >> \in S
  BY EmptySeq
<1>2. ASSUME NEW u \in S, NEW r \in Request
      PROVE  u \o Packed(r) \in S
  <2>1. u \in Seq(Item) /\ Packed(r) \in Seq(Item) /\ u \o Packed(r) \in Seq(Item)
    BY PackedType, ConcatProperties
  <2>2. CASE u = << >>
    <3>1. u \o Packed(r) = Packed(r) \o << >>
      BY <2>1, <2>2, ConcatEmptySeq
    <3>2. << >> \in Seq(Item) /\ Framed(<< >>)
      BY EmptySeq, FramedEmpty
    <3>3. First(u \o Packed(r))
      BY <3>1, <3>2
    <3> QED BY <2>1, <3>3
  <2>3. CASE u # << >>
    <3>1. First(u)
      OBVIOUS
    <3>2. PICK f \in Request, t \in Seq(Item) : u = Packed(f) \o t /\ Framed(t)
      BY <2>3, <3>1
    <3>3. Packed(f) \in Seq(Item) /\ t \in Seq(Item) /\ Packed(r) \in Seq(Item)
      BY PackedType
    <3>4. (Packed(f) \o t) \o Packed(r) = Packed(f) \o (t \o Packed(r))
      BY ONLY <3>3, Assoc, Zenon
    <3>5. Framed(t \o Packed(r)) /\ t \o Packed(r) \in Seq(Item)
      BY <3>2, FramedMore, FramedType
    <3>6. First(u \o Packed(r))
      BY <3>2, <3>4, <3>5
    <3> QED BY <2>1, <3>6
  <2> QED BY <2>2, <2>3
<1>3. Closed(S) /\ S \in SUBSET Seq(Item)
  BY <1>1, <1>2, Zenon DEF Closed
<1> HIDE DEF First
<1>4. s \in S
  BY <1>3, Zenon DEF Framed
<1>5. First(s)
  BY <1>4
<1> QED BY <1>5 DEF First

-----------------------------------------------------------------------------
(***************************************************************************)
(* The stages of the board in a session that began between two commands.   *)
(* The requests are served one after the other: t is what follows the      *)
(* present one.                                                            *)
(***************************************************************************)
Heads(r, t) == pc = "header" /\ cmd = r.cmd /\ buf \o stream = Tail(Packed(r)) \o t

Rest(r) == SubSeq(r.data, total_bytes_read + 1, Len(r.data))

Serves(r, t) ==
  /\ cmd = r.cmd /\ arg0 = r.arg0 /\ arg1 = r.arg1 /\ total_bytes = Len(r.data)
  /\ pc \in {"fill", "process", "words", "poll", "consume"}
  /\ pc \in {"fill", "process", "words"} => bytes_consumed = 0
  /\ \A i \in 1 .. Len(buffer) : buffer[i] = r.data[total_bytes_consumed + i]
  /\ stream = Rest(r) \o t

Stage(t) == (cmd = CMD_IDLE /\ stream = t) \/ \E r \in Request : Heads(r, t) \/ Serves(r, t)

WholeInv == whole => up /\ \E t : Framed(t) /\ Stage(t)

\* The numbers of TypeInv, together.
LEMMA Numbers ==
  ASSUME TypeInv
  PROVE  /\ total_bytes \in Nat /\ total_bytes_read \in Nat /\ total_bytes_consumed \in Nat /\ bytes_consumed \in Nat
         /\ buffer \in Seq(Item) /\ Len(buffer) \in Nat /\ buf \in Seq(Item) /\ Len(buf) \in Nat /\ Len(buf) < HeaderLen
         /\ bytes_consumed <= Len(buffer) /\ total_bytes_consumed + Len(buffer) = total_bytes_read
         /\ total_bytes_read <= total_bytes /\ bytes_avail = Len(buffer) /\ Len(buffer) <= BufSize
         /\ stream \in Seq(Item) /\ arg0 \in Nat /\ arg1 \in Nat /\ mem \in [Phys -> Item]
BY LenProperties, StreamEmpty, CmdServerAssumption
   DEF TypeInv, PayloadInv, PayloadTypes, PayloadAccounted, bytes_avail, HeaderTypes, BoardTypes, Item

LEMMA HeaderParts ==
  ASSUME NEW r \in Request, NEW got \in Seq(Item), Len(got) = HeaderLen,
         NEW s \in Seq(Item), NEW t \in Seq(Item), got \o s = Tail(Packed(r)) \o t
  PROVE  got[1] = r.arg0 /\ got[2] = r.arg1 /\ got[3] = Len(r.data) /\ s = r.data \o t
<1> DEFINE h == <<r.arg0, r.arg1, Len(r.data)>>
<1>1. /\ r.arg0 \in Item /\ r.arg1 \in Item /\ Len(r.data) \in Item /\ r.data \in Seq(Item)
      /\ Tail(Packed(r)) = h \o r.data
  BY Requests, CmdServerAssumption
<1>2. h \in Seq(Item) /\ Len(h) = HeaderLen /\ h[1] = r.arg0 /\ h[2] = r.arg1 /\ h[3] = Len(r.data)
  BY <1>1 DEF HeaderLen
<1> HIDE DEF h
<1>3. (h \o r.data) \o t = h \o (r.data \o t) /\ r.data \o t \in Seq(Item)
  BY <1>1, <1>2, Assoc, ConcatProperties
<1>4. got \o s = h \o (r.data \o t)
  BY <1>1, <1>3
<1>5. got = h /\ s = r.data \o t
  BY <1>2, <1>3, <1>4, SameCut
<1> QED BY <1>2, <1>5

LEMMA HeadsStep ==
  ASSUME TypeInv, up, NEW r \in Request, NEW t \in Seq(Item), Heads(r, t), ReadHeader
  PROVE  (Heads(r, t) \/ Serves(r, t))'
<1> DEFINE n == HeaderLen - Len(buf)
           f == Readable(n)
           got == buf \o f
<1>1. n \in Nat \ {0}
  BY Numbers, HeaderLacks
<1>2. f \in Seq(Item) /\ f \o stream' = stream /\ wire' = wire /\ toTarget' \in Seq(Item)
  BY <1>1, ReadTakes DEF ReadHeader
<1>3. stream' \in Seq(Item) /\ got \in Seq(Item)
  BY <1>2, Numbers, ConcatProperties DEF stream, TypeInv, PayloadInv, PayloadTypes
<1>4. got \o stream' = Tail(Packed(r)) \o t
  <2>1. buf \in Seq(Item) /\ f \in Seq(Item) /\ stream' \in Seq(Item)
    BY <1>2, <1>3, Numbers
  <2> HIDE DEF f
  <2>2. (buf \o f) \o stream' = buf \o (f \o stream')
    BY ONLY <2>1, Assoc, Zenon
  <2> QED BY <1>2, <2>2 DEF Heads, f
<1>5. CASE Len(got) # HeaderLen
  <2>1. buf' = got /\ pc' = pc /\ cmd' = cmd
    BY <1>5 DEF ReadHeader
  <2> QED BY <1>4, <2>1 DEF Heads
<1>6. CASE Len(got) = HeaderLen
  <2>1. HeaderRead(got) /\ pc' = "fill" /\ cmd' = cmd
    BY <1>6 DEF ReadHeader
  <2> HIDE DEF got, f
  <2>2. got[1] = r.arg0 /\ got[2] = r.arg1 /\ got[3] = Len(r.data) /\ stream' = r.data \o t
    BY <1>3, <1>4, <1>6, HeaderParts
  <2>3. /\ cmd' = r.cmd /\ arg0' = r.arg0 /\ arg1' = r.arg1 /\ total_bytes' = Len(r.data)
        /\ buffer' = << >> /\ bytes_consumed' = 0 /\ total_bytes_read' = 0
    BY <2>1, <2>2, Requests DEF HeaderRead, Heads
  <2>4. Rest(r)' = r.data
    <3>1. r.data \in Seq(Item)
      BY Requests
    <3>2. total_bytes_read' + 1 = 1
      BY <2>3
    <3>3. SubSeq(r.data, 1, Len(r.data)) = r.data
      BY ONLY <3>1, SubSeqFull
    <3> QED BY <3>2, <3>3 DEF Rest
  <2>5. Len(buffer') = 0
    BY <2>3, EmptySeq
  <2>6. \A i \in 1 .. Len(buffer') : buffer'[i] = r.data[total_bytes_consumed' + i]
    BY <2>5
  <2>7. stream' = Rest(r)' \o t
    BY <2>2, <2>4
  <2>8. pc' \in {"fill", "process", "words", "poll", "consume"}
    BY <2>1
  <2> QED BY ONLY <2>3, <2>6, <2>7, <2>8 DEF Serves
<1> QED BY <1>5, <1>6

LEMMA RestProperties ==
  ASSUME TypeInv, NEW r \in Request, total_bytes = Len(r.data)
  PROVE  /\ r.data \in Seq(Item) /\ Len(r.data) \in Nat
         /\ Rest(r) \in Seq(Item) /\ Len(Rest(r)) = total_bytes - total_bytes_read
         /\ \A i \in 1 .. total_bytes - total_bytes_read : Rest(r)[i] = r.data[total_bytes_read + i]
<1>1. r.data \in Seq(Item) /\ Len(r.data) \in Nat
  BY Requests
<1>2. total_bytes_read \in Nat /\ total_bytes_read <= Len(r.data)
  BY Numbers
<1> DEFINE m == total_bytes_read + 1
           n == Len(r.data)
<1>3. m \in Int /\ n \in Int /\ \A i \in m .. n : r.data[i] \in Item
  BY <1>1, <1>2, ElementOfSeq
<1>4. Rest(r) = SubSeq(r.data, m, n)
  BY DEF Rest
<1>5. n - m + 1 = total_bytes - total_bytes_read /\ (m <= n \/ total_bytes - total_bytes_read = 0)
  BY <1>1, <1>2
<1>6. ASSUME NEW i \in 1 .. n - m + 1
      PROVE  m + i - 1 = total_bytes_read + i
  BY <1>1, <1>2
<1> HIDE DEF m, n
<1>7. /\ SubSeq(r.data, m, n) \in Seq(Item)
      /\ Len(SubSeq(r.data, m, n)) = IF m <= n THEN n - m + 1 ELSE 0
      /\ \A i \in 1 .. n - m + 1 : SubSeq(r.data, m, n)[i] = r.data[m + i - 1]
  BY <1>3, SubSeqProperties
<1> QED BY <1>1, <1>4, <1>5, <1>6, <1>7

LEMMA FillStep ==
  ASSUME TypeInv, up, NEW r \in Request, NEW t \in Seq(Item), Serves(r, t), Fill
  PROVE  Serves(r, t)'
<1> DEFINE f == Readable(max_read)
<1>0. /\ total_bytes \in Nat /\ total_bytes_read \in Nat /\ total_bytes_consumed \in Nat /\ Len(buffer) \in Nat
      /\ buffer \in Seq(Item) /\ bytes_avail = Len(buffer) /\ BufSize \in Nat
      /\ total_bytes_consumed + Len(buffer) = total_bytes_read /\ total_bytes_read <= total_bytes
  BY Numbers, CmdServerAssumption
<1>1. max_read \in Nat \ {0} /\ max_read <= total_bytes - total_bytes_read
  <2>1. total_bytes_read < total_bytes /\ bytes_avail < BufSize
    BY DEF Fill, WantMore
  <2> QED BY ONLY <1>0, <2>1 DEF max_read, Least
<1>2. /\ f \in Seq(Item) /\ Len(f) \in Nat /\ Len(f) <= max_read /\ f \o stream' = stream
      /\ wire' = wire /\ toTarget' \in Seq(Item)
  BY <1>1, ReadTakes DEF Fill
<1>3. stream' \in Seq(Item)
  BY <1>2, ConcatProperties DEF stream, TypeInv, PayloadInv, PayloadTypes
<1>4. /\ total_bytes_read' = total_bytes_read + Len(f) /\ buffer' = buffer \o f /\ pc' = "process" /\ pc = "fill"
      /\ UNCHANGED <<cmd, arg0, arg1, total_bytes, total_bytes_consumed, bytes_consumed>>
  BY DEF Fill, header
<1> HIDE DEF f
<1>5. /\ r.data \in Seq(Item) /\ Len(r.data) \in Nat
      /\ Rest(r) \in Seq(Item) /\ Len(Rest(r)) = total_bytes - total_bytes_read /\ total_bytes = Len(r.data)
      /\ \A i \in 1 .. total_bytes - total_bytes_read : Rest(r)[i] = r.data[total_bytes_read + i]
  BY RestProperties DEF Serves
<1> DEFINE y == After(f, Rest(r))
<1>6. y \in Seq(Item) /\ f \o y = Rest(r) /\ stream' = y \o t
  <2>2. Len(f) <= Len(Rest(r))
    BY ONLY <1>0, <1>1, <1>2, <1>5
  <2>3. f \in Seq(Item) /\ stream' \in Seq(Item) /\ Rest(r) \in Seq(Item) /\ t \in Seq(Item)
    BY <1>2, <1>3, <1>5
  <2>4. Parts(stream, f, stream') /\ Parts(stream, Rest(r), t)
    BY <1>2 DEF Parts, Serves
  <2>5. y \in Seq(Item) /\ Parts(Rest(r), f, y) /\ Parts(stream', y, t)
    BY ONLY <2>2, <2>3, <2>4, CutInside
  <2> QED BY <2>5, Zenon DEF Parts
<1> HIDE DEF y
<1>11. /\ Len(y) \in Nat /\ Len(f) + Len(y) = total_bytes - total_bytes_read
       /\ \A i \in 1 .. Len(f) : f[i] = Rest(r)[i]
       /\ \A i \in 1 .. Len(y) : y[i] = Rest(r)[Len(f) + i]
  <2>1. /\ Len(f \o y) = Len(f) + Len(y)
        /\ \A i \in 1 .. Len(f) + Len(y) : (f \o y)[i] = IF i <= Len(f) THEN f[i] ELSE y[i - Len(f)]
    BY <1>2, ConcatProperties
  <2>2. Len(y) \in Nat /\ Len(f) \in Nat
    BY <1>2, LenProperties
  <2>3. ASSUME NEW i \in 1 .. Len(f)
        PROVE  f[i] = Rest(r)[i]
    <3>1. i \in 1 .. Len(f) + Len(y) /\ i <= Len(f)
      BY <2>2
    <3> QED BY <1>6, <2>1, <3>1
  <2>4. ASSUME NEW i \in 1 .. Len(y)
        PROVE  y[i] = Rest(r)[Len(f) + i]
    <3>1. Len(f) + i \in 1 .. Len(f) + Len(y) /\ ~(Len(f) + i <= Len(f)) /\ (Len(f) + i) - Len(f) = i
      BY <2>2
    <3> QED BY <1>6, <2>1, <3>1
  <2> QED BY <1>5, <1>6, <2>1, <2>2, <2>3, <2>4
<1>7. \A i \in 1 .. Len(buffer') : buffer'[i] = r.data[total_bytes_consumed' + i]
  <2>1. /\ Len(buffer') = Len(buffer) + Len(f)
        /\ \A i \in 1 .. Len(buffer) + Len(f) : buffer'[i] = IF i <= Len(buffer) THEN buffer[i] ELSE f[i - Len(buffer)]
    BY <1>2, <1>4, Numbers, ConcatProperties
  <2> SUFFICES ASSUME NEW i \in 1 .. Len(buffer) + Len(f)
               PROVE  buffer'[i] = r.data[total_bytes_consumed + i]
    BY <1>4, <2>1
  <2>2. CASE i <= Len(buffer)
    <3>1. i \in 1 .. Len(buffer)
      BY <2>2, Numbers
    <3> QED BY <2>1, <2>2, <3>1 DEF Serves
  <2>3. CASE ~(i <= Len(buffer))
    <3> DEFINE j == i - Len(buffer)
    <3>0. i \in 1 .. Len(buffer) + Len(f) /\ Len(f) \in Nat
      BY <1>2
    <3>1. j \in 1 .. Len(f) /\ total_bytes_read + j = total_bytes_consumed + i
      BY ONLY <1>0, <2>3, <3>0
    <3>2. j \in 1 .. total_bytes - total_bytes_read
      BY ONLY <1>0, <1>1, <1>2, <3>1
    <3>3. buffer'[i] = f[j]
      BY <2>1, <2>3
    <3> HIDE DEF j
    <3>4. f[j] = Rest(r)[j] /\ Rest(r)[j] = r.data[total_bytes_read + j]
      BY <1>5, <1>11, <3>1, <3>2
    <3> QED BY <3>1, <3>3, <3>4
  <2> QED BY <2>2, <2>3
<1>8. y = Rest(r)'
  <2> DEFINE k == Len(f)
             u == r.data
             b == total_bytes_read
             z == SubSeq(u, (b + k) + 1, Len(u))
  <2>1. /\ u \in Seq(Item) /\ k \in Nat /\ b \in Nat /\ Len(u) \in Nat /\ b <= Len(u)
        /\ Len(y) \in Nat /\ k + Len(y) = Len(u) - b
    BY <1>0, <1>2, <1>5, <1>11
  <2>2. Rest(r)' = z
    BY <1>4 DEF Rest
  <2>3. ASSUME NEW i \in 1 .. Len(y)
        PROVE  y[i] = u[(b + k) + i]
    <3>1. k + i \in 1 .. total_bytes - total_bytes_read /\ b + (k + i) = (b + k) + i
      BY ONLY <1>11, <2>1
    <3> QED BY <1>5, <1>11, <3>1
  <2> HIDE DEF z, k, u, b
  <2>4. z \in Seq(Item) /\ Len(z) = Len(u) - (b + k) /\ \A i \in 1 .. Len(u) - (b + k) : z[i] = u[(b + k) + i]
    <3>1. b + k \in Nat /\ b + k <= Len(u)
      BY ONLY <2>1
    <3> QED BY ONLY <2>1, <3>1, TailOfSeq DEF z
  <2>5. Len(y) = Len(z) /\ Len(y) = Len(u) - (b + k)
    BY ONLY <2>1, <2>4
  <2>6. y = z
    <3>1. \A i \in 1 .. Len(y) : y[i] = z[i]
      BY <2>3, <2>4, <2>5
    <3> QED BY ONLY <1>6, <2>4, <2>5, <3>1, SeqEqual
  <2> QED BY <2>2, <2>6
<1>9. stream' = Rest(r)' \o t
  BY <1>6, <1>8
<1>10. cmd' = r.cmd /\ arg0' = r.arg0 /\ arg1' = r.arg1 /\ total_bytes' = Len(r.data) /\ bytes_consumed' = 0
  BY <1>4 DEF Serves
<1> QED BY ONLY <1>4, <1>7, <1>9, <1>10 DEF Serves
\* update_cmd moves what is left to the front of the buffer.
LEMMA ConsumeMoves ==
  ASSUME TypeInv, NEW r \in Request, NEW t \in Seq(Item), Serves(r, t), Consume
  PROVE  \A i \in 1 .. Len(buffer') : buffer'[i] = r.data[total_bytes_consumed' + i]
<1>1. /\ buffer \in Seq(Item) /\ Len(buffer) \in Nat /\ bytes_consumed \in Nat /\ bytes_consumed <= Len(buffer)
      /\ total_bytes_consumed \in Nat
  BY Numbers
<1>2. buffer' = SubSeq(buffer, bytes_consumed + 1, Len(buffer)) /\ total_bytes_consumed' = total_bytes_consumed + bytes_consumed
  BY DEF Consume, bytes_avail
<1>3. Len(buffer') = Len(buffer) - bytes_consumed /\ \A i \in 1 .. Len(buffer) - bytes_consumed : buffer'[i] = buffer[bytes_consumed + i]
  BY ONLY <1>1, <1>2, TailOfSeq
<1> SUFFICES ASSUME NEW i \in 1 .. Len(buffer')
             PROVE  buffer'[i] = r.data[total_bytes_consumed' + i]
  OBVIOUS
<1>4. /\ i \in 1 .. Len(buffer) - bytes_consumed /\ bytes_consumed + i \in 1 .. Len(buffer)
      /\ total_bytes_consumed + (bytes_consumed + i) = total_bytes_consumed' + i
  BY ONLY <1>1, <1>2, <1>3, i \in 1 .. Len(buffer')
<1>5. buffer'[i] = buffer[bytes_consumed + i]
  BY <1>3, <1>4
<1>6. buffer[bytes_consumed + i] = r.data[total_bytes_consumed + (bytes_consumed + i)]
  BY <1>4 DEF Serves
<1> QED BY <1>4, <1>5, <1>6

LEMMA ContinueServes ==
  ASSUME TypeInv, NEW r \in Request, NEW t \in Seq(Item), Serves(r, t), Continue
  PROVE  Serves(r, t)'
<1>1. \A i \in 1 .. Len(buffer') : buffer'[i] = r.data[total_bytes_consumed' + i]
  BY ConsumeMoves DEF Continue
<1>2. cmd # CMD_IDLE
  BY Requests DEF Serves
<1>3. /\ pc' = "fill" /\ bytes_consumed' = 0
      /\ UNCHANGED <<cmd, arg0, arg1, total_bytes, total_bytes_read, toTarget, wire>>
  BY <1>2 DEF Continue, Consume, header, link
<1>4. stream' = stream /\ Rest(r)' = Rest(r)
  BY <1>3 DEF stream, Rest
<1> QED BY <1>1, <1>3, <1>4 DEF Serves

\* When a request is complete all of it has been read.
LEMMA FinishIdles ==
  ASSUME TypeInv, NEW r \in Request, NEW t \in Seq(Item), Serves(r, t), Finish
  PROVE  cmd' = CMD_IDLE /\ stream' = t
<1>1. /\ total_bytes \in Nat /\ total_bytes_read \in Nat /\ total_bytes_consumed \in Nat /\ bytes_consumed \in Nat
      /\ Len(buffer) \in Nat /\ bytes_consumed <= Len(buffer)
      /\ total_bytes_consumed + Len(buffer) = total_bytes_read /\ total_bytes_read <= total_bytes
  BY Numbers
<1>2. total_bytes = total_bytes_consumed + bytes_consumed
  BY DEF Finish, Complete, Consume
<1>3. total_bytes - total_bytes_read = 0
  BY ONLY <1>1, <1>2
<1>4. Rest(r) \in Seq(Item) /\ Len(Rest(r)) = total_bytes - total_bytes_read
  BY RestProperties DEF Serves
<1>5. Rest(r) = << >>
  BY <1>3, <1>4, EmptySeq
<1>6. << >> \o t = t
  BY ConcatEmptySeq
<1>7. stream = t
  BY <1>5, <1>6, Zenon DEF Serves
<1>8. stream' = stream /\ cmd' = CMD_IDLE
  BY DEF Finish, comms_write, stream
<1> QED BY <1>7, <1>8

\* The first item after a request is the command of the next one.
LEMMA CommandStep ==
  ASSUME TypeInv, up, cmd = CMD_IDLE, Framed(stream), ReadCommand
  PROVE  \/ cmd' = CMD_IDLE /\ stream' = stream
         \/ \E r \in Request, t \in Seq(Item) : Framed(t) /\ Heads(r, t)'
<1>1. /\ Readable(1) \in Seq(Item) /\ Len(Readable(1)) <= 1 /\ Readable(1) \o stream' = stream
      /\ toTarget' \in Seq(Item) /\ wire' = wire /\ (Readable(1) = << >> => toTarget' = toTarget)
  BY ReadTakes DEF ReadCommand
<1>2. stream' \in Seq(Item) /\ stream \in Seq(Item)
  BY <1>1, Numbers, ConcatProperties DEF stream, TypeInv, PayloadInv, PayloadTypes
<1>3. CASE Readable(1) = << >>
  <2>1. toTarget' = toTarget /\ cmd' = cmd
    BY <1>1, <1>3 DEF ReadCommand
  <2>2. stream' = stream
    BY <1>1, <2>1 DEF stream
  <2> QED BY <2>1, <2>2
<1>4. CASE Readable(1) # << >>
  <2> DEFINE h == Readable(1)[1]
  <2>1. Readable(1) = <<h>> /\ h \in Item
    BY <1>1, <1>4, AtMostOne
  <2>2. Parts(stream, <<h>>, stream')
    BY <1>1, <2>1 DEF Parts
  <2> HIDE DEF h
  <2>3. stream[1] = h /\ Tail(stream) = stream' /\ stream # << >>
    BY <1>2, <2>1, <2>2, HeadIsFirst DEF Parts
  <2>4. PICK r \in Request, t \in Seq(Item) : stream = Packed(r) \o t /\ Framed(t)
    BY <2>3, FramedFirst
  <2> DEFINE g == Tail(Packed(r))
  <2>5. r.cmd \in Item /\ r.cmd # CMD_IDLE /\ g \in Seq(Item) /\ Packed(r) = <<r.cmd>> \o g
    <3>1. Packed(r) \in Seq(Item) /\ Packed(r) # << >> /\ Packed(r)[1] = r.cmd /\ r.cmd # CMD_IDLE
      BY Requests
    <3>2. g \in Seq(Item) /\ Head(Packed(r)) = Packed(r)[1]
      BY <3>1, HeadTailProperties
    <3>3. r.cmd \in Item
      <4>1. r.cmd \in 1 .. CMD_FILL_WORDS /\ ItemMax \in Nat /\ ItemMax > CMD_FILL_WORDS
        BY Requests, CmdServerAssumption
      <4> QED BY <4>1 DEF Item, CMD_FILL_WORDS
    <3>4. Packed(r) = <<Head(Packed(r))>> \o Tail(Packed(r))
      BY <3>1
    <3> QED BY <3>1, <3>2, <3>3, <3>4
  <2> HIDE DEF g
  <2>6. stream = <<r.cmd>> \o (g \o t) /\ g \o t \in Seq(Item)
    <3>1. <<r.cmd>> \in Seq(Item) /\ g \in Seq(Item) /\ t \in Seq(Item)
      BY <2>5
    <3>2. (<<r.cmd>> \o g) \o t = <<r.cmd>> \o (g \o t)
      BY ONLY <3>1, Assoc, Zenon
    <3>3. g \o t \in Seq(Item)
      BY <3>1, ConcatProperties
    <3> QED BY <2>4, <2>5, <3>2, <3>3
  <2>7. stream[1] = r.cmd /\ Tail(stream) = g \o t
    BY <2>5, <2>6, HeadIsFirst
  <2>8. h = r.cmd /\ stream' = g \o t
    BY <2>3, <2>7
  <2>9. Readable(1) \notin {<< >>, <<CMD_IDLE>>}
    BY <1>4, <2>1, <2>5, <2>8
  <2>10. pc' = "header" /\ cmd' = r.cmd /\ buf' = << >>
    BY <2>8, <2>9 DEF ReadCommand, h
  <2>11. buf' \o stream' = g \o t
    <3>1. << >> \o stream' = stream'
      BY <1>2, ConcatEmptySeq
    <3> QED BY <2>8, <2>10, <3>1, Zenon
  <2>12. Heads(r, t)'
    BY <2>10, <2>11, Zenon DEF Heads, g
  <2> QED BY <2>4, <2>12
<1> QED BY <1>3, <1>4

\* What process_cmd does leaves the request and what follows it alone.
LEMMA ProcessServes ==
  ASSUME TypeInv, NEW r \in Request, NEW t \in Seq(Item), Serves(r, t), process_cmd
  PROVE  Serves(r, t)' /\ UNCHANGED <<cmd, arg0, arg1, total_bytes, total_bytes_read, total_bytes_consumed, buffer, stream>>
<1>1. /\ UNCHANGED <<cmd, arg0, arg1, total_bytes, total_bytes_read, total_bytes_consumed, buffer, toTarget, wire>>
      /\ pc' = "poll" \/ (pc' = "words" /\ pc \in {"process", "words"} /\ bytes_consumed' = bytes_consumed)
  BY DEF process_cmd, ProcessWriteBytes, ProcessWriteWords, ProcessReadBytes, ProcessReadWords, SendWord, WordsDone,
         ProcessFillBytes, ProcessFillWords, ProcessOther, Processed, comms_write, link, header, counts
<1>2. stream' = stream /\ Rest(r)' = Rest(r)
  BY <1>1 DEF stream, Rest
<1> QED BY <1>1, <1>2 DEF Serves

-----------------------------------------------------------------------------
(***************************************************************************)
(* ... and so at every step.                                               *)
(***************************************************************************)
\* Steps that touch nothing of it.
LEMMA StageSame ==
  ASSUME UNCHANGED <<stream, cmd, arg0, arg1, total_bytes, counts, pc, buf>>, NEW t, Stage(t)
  PROVE  Stage(t)'
<1>1. UNCHANGED <<total_bytes_read, total_bytes_consumed, bytes_consumed, buffer>>
  BY DEF counts
<1>2. \A r : Rest(r)' = Rest(r)
  BY <1>1 DEF Rest
<1>3. CASE cmd = CMD_IDLE /\ stream = t
  BY <1>3 DEF Stage
<1>4. ASSUME NEW r \in Request, Heads(r, t)
      PROVE  Stage(t)'
  <2>1. Heads(r, t)'
    BY <1>4 DEF Heads
  <2> QED BY <2>1 DEF Stage
<1>5. ASSUME NEW r \in Request, Serves(r, t)
      PROVE  Stage(t)'
  <2>1. Serves(r, t)'
    BY <1>1, <1>2, <1>5 DEF Serves
  <2> QED BY <2>1 DEF Stage
<1> QED BY <1>3, <1>4, <1>5 DEF Stage

LEMMA BoardStage ==
  ASSUME TypeInv, Place, up, NEW t, Framed(t), Stage(t), Board
  PROVE  \E u : Framed(u) /\ Stage(u)'
<1>1. t \in Seq(Item)
  BY FramedType
<1>2. CASE Poll
  <2>1. UNCHANGED <<stream, cmd, arg0, arg1, total_bytes, total_bytes_read, total_bytes_consumed, bytes_consumed, buffer, buf>>
        /\ pc = "poll" /\ pc' = "consume"
    BY <1>2 DEF Poll, link, header, counts, stream
  <2>2. ~ \E r \in Request : Heads(r, t)
    BY <2>1 DEF Heads
  <2>3. ASSUME NEW r \in Request, Serves(r, t)
        PROVE  Serves(r, t)'
    <3>1. Rest(r)' = Rest(r)
      BY <2>1 DEF Rest
    <3> QED BY <2>1, <2>3, <3>1 DEF Serves
  <2>4. Stage(t)'
    BY <2>1, <2>2, <2>3 DEF Stage
  <2> QED BY <2>4
<1>3. CASE cmd = CMD_IDLE /\ stream = t /\ ~Poll
  <2>1. CASE ReadCommand
    <3>1. CASE cmd' = CMD_IDLE /\ stream' = stream
      BY <1>3, <3>1 DEF Stage
    <3>2. CASE \E r \in Request, u \in Seq(Item) : Framed(u) /\ Heads(r, u)'
      BY <3>2 DEF Stage
    <3> QED BY <1>3, <2>1, <3>1, <3>2, CommandStep
  <2>2. CASE ~ReadCommand
    <3>1. cmd' = CMD_IDLE /\ UNCHANGED <<toTarget, wire>>
      BY <1>3, <2>2
         DEF Board, Place, update_cmd, Finish, Complete, Continue, ReadHeader, Fill, NoFill, process_cmd, ProcessWriteBytes,
             ProcessWriteWords, ProcessReadBytes, ProcessReadWords, SendWord, WordsDone, ProcessFillBytes, ProcessFillWords,
             ProcessOther, Processed, comms_write, link, header, counts
    <3>2. stream' = stream
      BY <3>1 DEF stream
    <3> QED BY <1>3, <3>1, <3>2 DEF Stage
  <2> QED BY <2>1, <2>2
<1>4. ASSUME NEW r \in Request, Heads(r, t), ~Poll
      PROVE  \E u : Framed(u) /\ Stage(u)'
  <2>1. ReadHeader
    BY <1>4 DEF Heads, Board, update_cmd, Finish, Continue, ReadCommand, Fill, NoFill, process_cmd, ProcessWriteBytes,
                ProcessWriteWords, ProcessReadBytes, ProcessReadWords, SendWord, WordsDone, ProcessFillBytes, ProcessFillWords,
                ProcessOther
  <2>2. (Heads(r, t) \/ Serves(r, t))'
    BY <1>1, <1>4, <2>1, HeadsStep
  <2> QED BY <2>2 DEF Stage
<1>5. ASSUME NEW r \in Request, Serves(r, t), ~Poll
      PROVE  \E u : Framed(u) /\ Stage(u)'
  <2>1. ~ReadCommand /\ ~ReadHeader
    BY <1>5 DEF Serves, ReadCommand, ReadHeader
  <2>2. CASE Finish
    BY <1>1, <1>5, <2>2, FinishIdles DEF Stage
  <2>3. CASE NoFill
    <3>1. Serves(r, t)'
      <4>1. UNCHANGED <<stream, cmd, arg0, arg1, total_bytes, total_bytes_read, total_bytes_consumed, bytes_consumed, buffer>>
            /\ pc = "fill" /\ pc' = "process"
        BY <2>3 DEF NoFill, link, header, counts, stream
      <4>2. Rest(r)' = Rest(r)
        BY <4>1 DEF Rest
      <4> QED BY <1>5, <4>1, <4>2 DEF Serves
    <3> QED BY <3>1 DEF Stage
  <2>4. CASE Continue \/ Fill \/ process_cmd
    <3>1. Serves(r, t)'
      BY <1>1, <1>5, <2>4, ContinueServes, FillStep, ProcessServes
    <3> QED BY <3>1 DEF Stage
  <2> QED BY <1>5, <2>1, <2>2, <2>3, <2>4 DEF Board, update_cmd
<1> QED BY <1>2, <1>3, <1>4, <1>5 DEF Stage

\* do_cmd puts its request after what is under way.
LEMMA DoCmdStage ==
  ASSUME TypeInv, NEW t, Framed(t), Stage(t), NEW q \in Request, DoCmd(q)
  PROVE  \E u : Framed(u) /\ Stage(u)'
<1> DEFINE p == Packed(q)
           u == t \o p
<1>1. t \in Seq(Item) /\ p \in Seq(Item) /\ Framed(u)
  BY FramedType, PackedType, FramedMore
<1>2. /\ toTarget \in Seq(Item) /\ wire \in Seq(Item) /\ stream \in Seq(Item) /\ buf \in Seq(Item)
  BY Numbers DEF TypeInv, PayloadInv, PayloadTypes
<1>3. /\ wire' = wire \o p /\ toTarget' = toTarget
      /\ UNCHANGED <<cmd, arg0, arg1, total_bytes, total_bytes_read, total_bytes_consumed, bytes_consumed, buffer, pc, buf>>
  BY DEF DoCmd, header, counts
<1> HIDE DEF p
<1>4. stream' = stream \o p
  <2>1. toTarget \in Seq(Item) /\ wire \in Seq(Item) /\ p \in Seq(Item)
    BY <1>1, <1>2
  <2>2. (toTarget \o wire) \o p = toTarget \o (wire \o p)
    BY ONLY <2>1, Assoc, Zenon
  <2> QED BY <1>3, <2>2 DEF stream
<1>5. CASE cmd = CMD_IDLE /\ stream = t
  <2>1. Stage(u)'
    BY <1>3, <1>4, <1>5 DEF Stage
  <2> QED BY <1>1, <2>1
<1>6. ASSUME NEW r \in Request, Heads(r, t)
      PROVE  Stage(u)'
  <2> DEFINE g == Tail(Packed(r))
  <2>1. g \in Seq(Item)
    <3>1. Packed(r) \in Seq(Item) /\ Packed(r) # << >>
      BY Requests
    <3> QED BY <3>1, HeadTailProperties
  <2> HIDE DEF g
  <2>2. (buf \o stream) \o p = buf \o (stream \o p)
    BY ONLY <1>1, <1>2, Assoc, Zenon
  <2>3. (g \o t) \o p = g \o (t \o p)
    BY ONLY <1>1, <2>1, Assoc, Zenon
  <2>4. buf \o stream = g \o t
    BY <1>6, Zenon DEF Heads, g
  <2>5. buf' \o stream' = g \o u
    BY <1>3, <1>4, <2>2, <2>3, <2>4, Zenon
  <2>6. Heads(r, u)'
    BY <1>3, <1>6, <2>5, Zenon DEF Heads, g
  <2> QED BY <2>6, Zenon DEF Stage
<1>7. ASSUME NEW r \in Request, Serves(r, t)
      PROVE  Stage(u)'
  <2> DEFINE w == Rest(r)
  <2>1. w \in Seq(Item) /\ Rest(r)' = w
    BY <1>3, <1>7, RestProperties DEF Serves, Rest
  <2>2. stream = w \o t
    BY <1>7, Zenon DEF Serves
  <2> HIDE DEF w
  <2>3. (w \o t) \o p = w \o (t \o p)
    BY ONLY <1>1, <2>1, Assoc, Zenon
  <2>4. stream' = Rest(r)' \o u
    BY <1>4, <2>1, <2>2, <2>3, Zenon
  <2> HIDE DEF u
  <2>5. Serves(r, u)'
    BY <1>3, <1>7, <2>4 DEF Serves
  <2> QED BY <2>5, Zenon DEF Stage
<1> QED BY <1>1, <1>5, <1>6, <1>7 DEF Stage

LEMMA WholeStep ==
  ASSUME TypeInv, Down, Place, WholeInv, [Next]_vars
  PROVE  WholeInv'
<1> SUFFICES ASSUME whole'
             PROVE  up' /\ \E u : Framed(u) /\ Stage(u)'
  BY DEF WholeInv
<1>1. CASE EndSession
  BY <1>1 DEF EndSession
<1>2. CASE BeginSession
  <2>1. cmd = CMD_IDLE /\ cmd' = cmd /\ up' = TRUE
    BY <1>2 DEF BeginSession, header
  <2>2. wire' = << >> /\ toTarget' = << >>
    BY <1>2 DEF BeginSession, Down
  <2>3. stream' = << >>
    BY <2>2, EmptySeq, ConcatEmptySeq DEF stream
  <2>4. Stage(<< >>)'
    BY <2>1, <2>3 DEF Stage
  <2> QED BY <2>1, <2>4, FramedEmpty
<1>3. CASE ~EndSession /\ ~BeginSession
  <2>1. whole /\ up' = up
    BY <1>3
       DEF Next, Board, Poll, update_cmd, process_cmd, Finish, Continue, ReadCommand, ReadHeader, Fill, NoFill,
           ProcessWriteBytes, ProcessWriteWords, ProcessReadBytes, ProcessReadWords, SendWord, WordsDone,
           ProcessFillBytes, ProcessFillWords, ProcessOther, Processed, history, Pico, DoCmd, Answer, Timeout, Arrive,
           comms_read, comms_write, link, vars
  <2>2. up
    BY <2>1 DEF WholeInv
  <2>3. PICK t : Framed(t) /\ Stage(t)
    BY <2>1 DEF WholeInv
  <2>4. CASE Board
    BY <2>1, <2>2, <2>3, <2>4, BoardStage
  <2>5. CASE Arrive
    <3>1. stream' = stream
      BY <2>5, ArriveKeeps
    <3>2. UNCHANGED <<stream, cmd, arg0, arg1, total_bytes, counts, pc, buf>>
      BY <2>5, <3>1 DEF Arrive, header
    <3> QED BY <2>1, <2>2, <2>3, <3>2, StageSame
  <2>6. CASE Answer \/ Timeout \/ UNCHANGED vars
    <3>1. UNCHANGED <<stream, cmd, arg0, arg1, total_bytes, counts, pc, buf>>
      BY <2>6 DEF Answer, Timeout, header, stream, vars, link
    <3> QED BY <2>1, <2>2, <2>3, <3>1, StageSame
  <2>7. ASSUME NEW q \in Request, DoCmd(q)
        PROVE  \E u : Framed(u) /\ Stage(u)'
    BY <2>3, <2>7, DoCmdStage
  <2> QED BY <1>3, <2>1, <2>2, <2>4, <2>5, <2>6, <2>7 DEF Next, Pico
<1> QED BY <1>1, <1>2, <1>3

-----------------------------------------------------------------------------
(***************************************************************************)
(* What process_cmd does to the memory.                                    *)
(***************************************************************************)
FillCommands == {CMD_FILL_BYTES, CMD_FILL_WORDS}

LEMMA WrittenCases ==
  ASSUME NEW r \in Request
  PROVE  /\ r.cmd \in {CMD_WRITE_BYTES, CMD_WRITE_WORDS} => Written(r) = r.data /\ ResponseSize(r) = 0
         /\ r.cmd = CMD_FILL_BYTES => Written(r) = Bytes(r.data[1], r.arg1) /\ ResponseSize(r) = 0
         /\ r.cmd = CMD_FILL_WORDS => Written(r) = Words(r.data, r.arg1) /\ ResponseSize(r) = 0
         /\ r.cmd = CMD_READ_BYTES => Written(r) = << >> /\ ResponseSize(r) = r.arg1 /\ r.data = << >>
         /\ r.cmd = CMD_READ_WORDS => Written(r) = << >> /\ ResponseSize(r) = 2 * r.arg1 /\ r.data = << >>
         /\ r.cmd \in {CMD_WRITE_BYTES, CMD_WRITE_WORDS, CMD_READ_BYTES, CMD_READ_WORDS} \cup FillCommands
<1>1. r.cmd \in {CMD_READ_BYTES, CMD_READ_WORDS} => r.data = << >>
  BY CmdServerAssumption
<1>2. r.cmd \in 1 .. 6
  BY Requests DEF CMD_FILL_WORDS
<1>3. r.cmd \in {1, 2, 3, 4, 5, 6}
  BY ONLY <1>2
<1> QED BY <1>1, <1>3 DEF Written, ResponseSize, FillCommands, CMD_WRITE_BYTES, CMD_WRITE_WORDS, CMD_READ_BYTES, CMD_READ_WORDS, CMD_FILL_BYTES, CMD_FILL_WORDS

\* A fill brings its value and nothing else.
LEMMA DataLengths ==
  ASSUME NEW r \in Request
  PROVE  /\ r.cmd = CMD_FILL_BYTES => Len(r.data) = 1
         /\ r.cmd = CMD_FILL_WORDS => Len(r.data) = 2
BY CmdServerAssumption

LEMMA Blocks ==
  ASSUME NEW r \in Request, Servable(r)
  PROVE  /\ r.arg0 \in Nat /\ Written(r) \in Seq(Item) /\ Len(Written(r)) \in Nat
         /\ OwnBytes(r.arg0, Len(Written(r)))
         /\ r.arg0 + Len(Written(r)) <= ItemMax + 1
         /\ Offset(r.arg0) + ResponseSize(r) <= OffMod
<1>1. r.arg0 \in Nat /\ r.arg1 \in Nat /\ r.data \in Seq(Item)
  BY Requests, CmdServerAssumption DEF Item
<1>2. Written(r) \in Seq(Item)
  <2>1. CASE r.cmd = CMD_FILL_BYTES
    <3>1. Len(r.data) = 1
      BY <2>1, DataLengths
    <3>2. r.data[1] \in Item
      BY <1>1, <3>1, ElementOfSeq
    <3> QED BY <1>1, <2>1, <3>2, BytesType, WrittenCases
  <2>2. CASE r.cmd = CMD_FILL_WORDS
    <3>1. Len(r.data) = 2
      BY <2>2, DataLengths
    <3>2. Len(r.data) > 1
      BY ONLY <3>1
    <3> QED BY <1>1, <2>2, <3>2, WordsType, WrittenCases
  <2>3. CASE r.cmd \notin FillCommands
    BY <1>1, <2>3, WrittenCases, EmptySeq
  <2> QED BY <2>1, <2>2, <2>3 DEF FillCommands
<1>3. Len(Written(r)) \in Nat
  BY <1>2, LenProperties
<1> DEFINE n == Len(Written(r)) + ResponseSize(r)
<1>4. Offset(r.arg0) + n <= OffMod /\ n <= PhysSize /\ r.arg0 + n <= ItemMax + 1
  BY DEF Servable
<1>5. /\ ResponseSize(r) \in Nat /\ Offset(r.arg0) \in Nat /\ OffMod \in Nat /\ PhysSize \in Nat
      /\ ItemMax \in Nat
  BY <1>1, ResponseIsNat, FarMemoryAssumption, CmdServerAssumption DEF Offset
<1>6. /\ Offset(r.arg0) + Len(Written(r)) <= OffMod /\ Len(Written(r)) <= PhysSize
      /\ r.arg0 + Len(Written(r)) <= ItemMax + 1 /\ Offset(r.arg0) + ResponseSize(r) <= OffMod
  BY ONLY <1>1, <1>3, <1>4, <1>5
<1>7. OwnBytes(r.arg0, Len(Written(r)))
  BY <1>1, <1>3, <1>6, BlockOwnsBytes
<1> QED BY <1>1, <1>2, <1>3, <1>6, <1>7

\* The first n bytes of r are in place.
InPlace(r, n) == \A i \in 1 .. n : mem[Address(FarAdd(r.arg0, i - 1))] = Written(r)[i]

\* The bytes of r that the board has stored: a fill stores them all at once.
Covered(r) ==
  LET sum == total_bytes_consumed + bytes_consumed IN
  IF r.cmd \in FillCommands THEN (IF sum = total_bytes THEN Len(Written(r)) ELSE 0) ELSE sum

\* A step that stores only bytes of r, and keeps those that are in place.
Stores(r) ==
  /\ \A a \in Phys : mem'[a] \in {mem[a], Store(mem, r.arg0, Written(r))[a]}
  /\ InPlace(r, Covered(r)) => InPlace(r, Covered(r))'

LEMMA FirstItems ==
  ASSUME NEW b \in Seq(Item), NEW n \in Nat, n <= Len(b)
  PROVE  /\ SubSeq(b, 1, n) \in Seq(Item) /\ Len(SubSeq(b, 1, n)) = n
         /\ \A i \in 1 .. n : SubSeq(b, 1, n)[i] = b[i]
<1>1. \A i \in 1 .. n : b[i] \in Item
  BY LenProperties, ElementOfSeq
<1>2. /\ SubSeq(b, 1, n) \in Seq(Item)
      /\ Len(SubSeq(b, 1, n)) = IF 1 <= n THEN n - 1 + 1 ELSE 0
      /\ \A i \in 1 .. n - 1 + 1 : SubSeq(b, 1, n)[i] = b[1 + i - 1]
  BY ONLY 1 \in Int, n \in Nat, <1>1, SubSeqProperties
<1> QED BY ONLY n \in Nat, <1>2

\* A chunk of a write: the first n bytes of the buffer.
LEMMA WriteChunk ==
  ASSUME TypeInv, NEW r \in Request, Servable(r), NEW t \in Seq(Item), Serves(r, t), pc = "process",
         r.cmd \in {CMD_WRITE_BYTES, CMD_WRITE_WORDS},
         NEW n \in Nat, n <= Len(buffer), NEW s, s = SubSeq(buffer, 1, n), Processed(Store(mem, ChunkAddr, s), n)
  PROVE  Stores(r)
<1> DEFINE w == Written(r)
           j == total_bytes_consumed
<1>1. /\ r.arg0 \in Nat /\ w \in Seq(Item) /\ Len(w) \in Nat /\ OwnBytes(r.arg0, Len(w))
      /\ r.arg0 + Len(w) <= ItemMax + 1 /\ w = r.data
  BY Blocks, WrittenCases
<1>2. /\ j \in Nat /\ buffer \in Seq(Item) /\ Len(buffer) \in Nat /\ bytes_consumed = 0
      /\ arg0 = r.arg0 /\ mem \in [Phys -> Item] /\ j + Len(buffer) <= Len(w)
      /\ total_bytes = Len(w)
  <2>1. /\ total_bytes \in Nat /\ total_bytes_read \in Nat /\ total_bytes_consumed \in Nat
        /\ buffer \in Seq(Item) /\ Len(buffer) \in Nat /\ mem \in [Phys -> Item]
        /\ total_bytes_consumed + Len(buffer) = total_bytes_read /\ total_bytes_read <= total_bytes
    BY Numbers
  <2>2. bytes_consumed = 0 /\ arg0 = r.arg0 /\ total_bytes = Len(w)
    BY <1>1 DEF Serves
  <2> QED BY <2>1, <2>2
<1>3. s \in Seq(Item) /\ Len(s) = n /\ \A i \in 1 .. n : s[i] = buffer[i]
  BY <1>2, FirstItems
<1>4. \A i \in 1 .. n : s[i] = w[j + i]
  <2> SUFFICES ASSUME NEW i \in 1 .. n
               PROVE  s[i] = w[j + i]
    OBVIOUS
  <2>1. i \in 1 .. Len(buffer)
    BY <1>2
  <2>2. buffer[i] = r.data[j + i]
    BY <2>1 DEF Serves
  <2> QED BY <1>1, <1>3, <2>2
<1>5. mem' = Store(mem, ChunkAddr, s) /\ bytes_consumed' = n /\ UNCHANGED <<total_bytes_consumed, total_bytes>>
  BY DEF Processed, header
<1>6. mem' = Store(mem, FarAdd(r.arg0, j), s)
  <2>1. CASE n = 0
    <3>1. Store(mem, ChunkAddr, s) = mem /\ Store(mem, FarAdd(r.arg0, j), s) = mem
      BY <1>2, <1>3, <2>1, StoreNothing
    <3> QED BY <1>5, <3>1
  <2>2. CASE n # 0
    <3>1. Offset(r.arg0) \in Nat /\ Offset(r.arg0) + Len(w) <= OffMod /\ OffMod \in Nat
      BY <1>1, FarMemoryAssumption DEF OwnBytes, Offset
    <3>2. Offset(r.arg0) + j < OffMod /\ r.arg0 + j < ItemMax + 1 /\ r.arg0 + j \in Nat /\ ItemMax \in Nat
      <4>1. ItemMax \in Nat
        BY CmdServerAssumption
      <4>2. j + n <= Len(w)
        BY <1>2
      <4>3. r.arg0 \in Nat /\ Len(w) \in Nat /\ j \in Nat /\ n \in Nat /\ r.arg0 + Len(w) <= ItemMax + 1
        BY <1>1, <1>2
      <4> HIDE DEF w, j
      <4> QED BY ONLY <2>2, <3>1, <4>1, <4>2, <4>3
    <3>3. FarAdd(r.arg0, j) = r.arg0 + j
      BY <1>1, <1>2, <3>2, InsideSegment
    <3>4. ChunkAddr = r.arg0 + j
      <4> DEFINE x == r.arg0 + j
                 M == ItemMax + 1
      <4>1. x \in Nat /\ M \in Nat \ {0} /\ x < M
        BY <3>2
      <4> HIDE DEF x, M
      <4>2. x % M = x
        BY ONLY <4>1, SMTT(10)
      <4> QED BY <1>2, <4>2 DEF ChunkAddr, x, M
    <3> QED BY <1>5, <3>3, <3>4
  <2> QED BY <2>1, <2>2
<1>7. Fills(mem, mem', r.arg0, w, j, n)
  <2>1. PartOf(s, w, j)
    BY <1>2, <1>3, <1>4 DEF PartOf
  <2> DEFINE p == r.arg0
  <2>2. mem \in [Phys -> Item] /\ p \in Nat /\ w \in Seq(Item) /\ OwnBytes(p, Len(w)) /\ s \in Seq(Item) /\ j \in Nat
    BY <1>1, <1>2, <1>3
  <2> HIDE DEF w, j, p
  <2>3. Fills(mem, Store(mem, FarAdd(p, j), s), p, w, j, Len(s))
    BY ONLY <2>1, <2>2, StorePart
  <2> QED BY <1>3, <1>6, <2>3 DEF p
<1>8. InPlace(r, Covered(r)) => InPlace(r, Covered(r))'
  <2>1. Covered(r) = j /\ Covered(r)' = j + n
    <3>1. r.cmd \notin FillCommands
      BY DEF FillCommands, CMD_WRITE_BYTES, CMD_WRITE_WORDS, CMD_FILL_BYTES, CMD_FILL_WORDS
    <3> QED BY <1>2, <1>5, <3>1 DEF Covered
  <2>2. ASSUME InPlace(r, j), NEW i \in 1 .. j + n
        PROVE  mem'[Address(FarAdd(r.arg0, i - 1))] = w[i]
    <3>1. i \in 1 .. Len(w) /\ (i \in 1 .. j \/ i \in j + 1 .. j + n)
      BY <1>1, <1>2, <1>3
    <3>2. i \in 1 .. j => mem[Address(FarAdd(r.arg0, i - 1))] = w[i]
      BY <2>2 DEF InPlace
    <3> HIDE DEF w, j
    <3> QED BY ONLY <1>7, <3>1, <3>2 DEF Fills
  <2> QED BY <2>1, <2>2 DEF InPlace
<1> QED BY <1>7, <1>8 DEF Stores, Fills

LEMMA StoresNothing ==
  ASSUME NEW r, UNCHANGED <<mem, total_bytes, total_bytes_consumed, bytes_consumed>>
  PROVE  Stores(r)
<1>1. Covered(r)' = Covered(r)
  BY DEF Covered
<1>2. InPlace(r, Covered(r)) => InPlace(r, Covered(r))'
  BY <1>1 DEF InPlace
<1> QED BY <1>2 DEF Stores

\* A fill stores the whole block at once, when its value has come.
LEMMA StoresAll ==
  ASSUME TypeInv, NEW r \in Request, Servable(r), r.cmd \in FillCommands,
         mem' = Store(mem, r.arg0, Written(r)), total_bytes_consumed' + bytes_consumed' = total_bytes'
  PROVE  Stores(r)
<1> DEFINE w == Written(r)
           p == r.arg0
<1>1. p \in Nat /\ w \in Seq(Item) /\ OwnBytes(p, Len(w)) /\ mem \in [Phys -> Item]
  BY Blocks, Numbers
<1>2. Covered(r)' = Len(w)
  BY DEF Covered
<1>3. mem' = Store(mem, p, w)
  OBVIOUS
<1> HIDE DEF w, p
<1>4. \A i \in 1 .. Len(w) : Store(mem, p, w)[Address(FarAdd(p, i - 1))] = w[i]
  BY ONLY <1>1, StoreInPlace
<1>5. \A i \in 1 .. Len(w) : mem'[Address(FarAdd(p, i - 1))] = w[i]
  BY <1>3, <1>4, Zenon
<1>6. InPlace(r, Covered(r))'
  BY <1>2, <1>5 DEF InPlace, w, p
<1>7. \A a \in Phys : mem'[a] \in {mem[a], Store(mem, p, w)[a]}
  BY <1>3, Zenon
<1> QED BY <1>6, <1>7, Zenon DEF Stores, w, p

LEMMA FillStores ==
  ASSUME TypeInv, NEW r \in Request, Servable(r), NEW t \in Seq(Item), Serves(r, t),
         ProcessFillBytes \/ ProcessFillWords
  PROVE  Stores(r)
<1> DEFINE n == Len(r.data)
<1>1. /\ total_bytes = n /\ arg0 = r.arg0 /\ arg1 = r.arg1 /\ cmd = r.cmd /\ pc = "process"
      /\ \A i \in 1 .. Len(buffer) : buffer[i] = r.data[total_bytes_consumed + i]
  BY DEF Serves, ProcessFillBytes, ProcessFillWords
<1>2. /\ total_bytes \in Nat /\ total_bytes_read \in Nat /\ total_bytes_consumed \in Nat /\ bytes_avail = Len(buffer)
      /\ buffer \in Seq(Item) /\ Len(buffer) \in Nat
      /\ total_bytes_consumed + Len(buffer) = total_bytes_read /\ total_bytes_read <= total_bytes
  BY Numbers
<1>3. r.cmd \in FillCommands /\ r.arg1 < WordMod /\ r.arg1 \in Nat /\ WordMod \in Nat
  <2>1. r.cmd \in FillCommands
    BY <1>1 DEF ProcessFillBytes, ProcessFillWords, FillCommands
  <2> QED BY <2>1, Requests, CmdServerAssumption DEF Servable, FillCommands
<1>4. ToSize(arg1) = r.arg1
  <2>1. \A k \in Nat : k < WordMod => k % WordMod = k
    BY ONLY <1>3, SMTT(10)
  <2> QED BY <1>1, <1>3, <2>1 DEF ToSize
<1>5. ASSUME NEW m, NEW k, Processed(m, k)
      PROVE  mem' = m /\ bytes_consumed' = k /\ UNCHANGED <<total_bytes, total_bytes_consumed>>
  BY <1>5 DEF Processed, header
<1>6. CASE ProcessFillBytes
  <2>1. r.cmd = CMD_FILL_BYTES
    BY <1>1, <1>6 DEF ProcessFillBytes
  <2>2. n = 1 /\ Written(r) = Bytes(r.data[1], r.arg1)
    BY <2>1, WrittenCases, DataLengths
  <2>3. CASE bytes_avail > 0
    <3>1. Processed(Store(mem, arg0, Bytes(buffer[1], ToSize(arg1))), bytes_avail)
      BY <1>6, <2>3 DEF ProcessFillBytes
    <3> HIDE DEF n
    <3>2. total_bytes_consumed = 0 /\ Len(buffer) = 1
      BY ONLY <1>1, <1>2, <2>2, <2>3
    <3>3. buffer[1] = r.data[1]
      <4>1. 1 \in 1 .. Len(buffer) /\ total_bytes_consumed + 1 = 1
        BY <3>2
      <4> QED BY <1>1, <4>1
    <3>4. mem' = Store(mem, r.arg0, Written(r))
      BY <1>1, <1>4, <1>5, <2>2, <3>1, <3>3
    <3>5. total_bytes_consumed' + bytes_consumed' = total_bytes'
      BY <1>1, <1>2, <1>5, <2>2, <3>1, <3>2
    <3> QED BY <1>3, <3>4, <3>5, StoresAll
  <2>4. CASE ~(bytes_avail > 0)
    <3>1. Processed(mem, bytes_consumed)
      BY <1>6, <2>4 DEF ProcessFillBytes
    <3> QED BY <1>5, <3>1, StoresNothing
  <2> QED BY <2>3, <2>4
<1>7. CASE ProcessFillWords
  <2>1. r.cmd = CMD_FILL_WORDS
    BY <1>1, <1>7 DEF ProcessFillWords
  <2>2. n = 2 /\ Written(r) = Words(r.data, r.arg1)
    BY <2>1, WrittenCases, DataLengths
  <2>3. CASE bytes_avail > 1
    <3>1. Processed(Store(mem, arg0, Words(buffer, ToSize(arg1))), bytes_avail)
      BY <1>7, <2>3 DEF ProcessFillWords
    <3>0. r.data \in Seq(Item) /\ Len(r.data) = n
      BY Requests
    <3> HIDE DEF n
    <3>2. total_bytes_consumed = 0 /\ Len(buffer) = 2
      BY ONLY <1>1, <1>2, <2>2, <2>3
    <3>3. buffer = r.data
      <4>1. \A i \in 1 .. Len(buffer) : buffer[i] = r.data[i]
        BY <1>1, <3>2
      <4>2. Len(buffer) = Len(r.data)
        BY <2>2, <3>0, <3>2
      <4> QED BY ONLY <1>2, <3>0, <4>1, <4>2, SeqEqual
    <3>4. mem' = Store(mem, r.arg0, Written(r))
      BY <1>1, <1>4, <1>5, <2>2, <3>1, <3>3
    <3>5. total_bytes_consumed' + bytes_consumed' = total_bytes'
      BY <1>1, <1>2, <1>5, <2>2, <3>1, <3>2
    <3> QED BY <1>3, <3>4, <3>5, StoresAll
  <2>4. CASE ~(bytes_avail > 1)
    <3>1. Processed(mem, bytes_consumed)
      BY <1>7, <2>4 DEF ProcessFillWords
    <3> QED BY <1>5, <3>1, StoresNothing
  <2> QED BY <2>3, <2>4
<1> QED BY <1>6, <1>7

\* Each step of process_cmd stores nothing but bytes of the request, in place.
LEMMA ProcessStores ==
  ASSUME TypeInv, NEW r \in Request, Servable(r), NEW t \in Seq(Item), Serves(r, t), process_cmd
  PROVE  Stores(r)
<1>1. /\ buffer \in Seq(Item) /\ Len(buffer) \in Nat /\ bytes_avail = Len(buffer) /\ cmd = r.cmd
      /\ r.cmd \in 1 .. CMD_FILL_WORDS
  BY Numbers, Requests DEF Serves
<1>2. CASE ProcessWriteBytes
  <2> DEFINE n == Len(buffer)
             s == SubSeq(buffer, 1, n)
  <2>1. s = buffer
    BY <1>1, SubSeqFull
  <2>2. n \in Nat /\ n <= Len(buffer) /\ Processed(Store(mem, ChunkAddr, s), n) /\ pc = "process"
    <3>1. Processed(Store(mem, ChunkAddr, buffer), bytes_avail) /\ pc = "process"
      BY <1>2 DEF ProcessWriteBytes
    <3>2. n \in Nat /\ n <= Len(buffer) /\ n = bytes_avail
      BY <1>1
    <3> HIDE DEF s, n
    <3> QED BY <2>1, <3>1, <3>2, Zenon
  <2>3. r.cmd \in {CMD_WRITE_BYTES, CMD_WRITE_WORDS}
    BY <1>1, <1>2 DEF ProcessWriteBytes
  <2> QED BY <2>2, <2>3, WriteChunk
<1>3. CASE ProcessWriteWords
  <2> DEFINE n == EvenPart
             s == SubSeq(buffer, 1, n)
  <2>1. n \in Nat /\ n <= Len(buffer)
    BY <1>1 DEF EvenPart
  <2>2. Processed(Store(mem, ChunkAddr, s), n) /\ pc = "process"
    BY <1>3 DEF ProcessWriteWords
  <2>3. r.cmd \in {CMD_WRITE_BYTES, CMD_WRITE_WORDS}
    BY <1>1, <1>3 DEF ProcessWriteWords
  <2> HIDE DEF n
  <2> QED BY <2>1, <2>2, <2>3, WriteChunk
<1>4. CASE ProcessFillBytes \/ ProcessFillWords
  BY <1>4, FillStores
<1>5. CASE ProcessReadBytes \/ ProcessReadWords \/ SendWord \/ WordsDone
  BY <1>5, StoresNothing DEF ProcessReadBytes, ProcessReadWords, SendWord, WordsDone, header, counts
<1>6. ~ProcessOther
  BY <1>1 DEF ProcessOther
<1> QED BY <1>2, <1>3, <1>4, <1>5, <1>6 DEF process_cmd

-----------------------------------------------------------------------------
(***************************************************************************)
(* The memory and the answer in an orderly session.                        *)
(***************************************************************************)
\* The response, as far as it has been sent.
Replied ==
  /\ pc \in {"poll", "consume"} => toHost = Load(mem, req.arg0, ResponseSize(req))
  /\ pc = "words" => rounds = req.arg1 /\ toHost = Load(mem, req.arg0, 2 * ofs)

InHand == Serves(req, << >>) /\ InPlace(req, Covered(req)) /\ Replied

Done ==
  /\ InPlace(req, Len(Written(req)))
  /\ Parts(toHost, Load(mem, req.arg0, ResponseSize(req)), <<req.cmd>>)

\* What the board has stored is in place, and what it has sent is what memory
\* holds.
Content == (Working => InHand) /\ (Answered => Done)

Recorded == clean /\ Fits => Content

\* Steps that touch neither the memory nor the answer.
LEMMA DoneStays ==
  ASSUME Done, UNCHANGED <<mem, req, toHost>>
  PROVE  Done'
BY DEF Done, InPlace, Parts

LEMMA CoveredStays ==
  ASSUME TypeInv, NEW r \in Request, InPlace(r, Covered(r)), UNCHANGED <<mem, total_bytes>>,
         total_bytes_consumed' + bytes_consumed' = total_bytes_consumed + bytes_consumed
  PROVE  InPlace(r, Covered(r))'
<1>1. Covered(r)' = Covered(r)
  BY DEF Covered
<1> QED BY <1>1 DEF InPlace

\* Nothing is claimed of a request whose payload is still to come.
LEMMA HeadingContent ==
  ASSUME Orderly, Content, req \in Request, Servable(req), ReadHeader
  PROVE  Content'
<1>1. Heading /\ up
  BY Requests DEF ReadHeader, Orderly, Place, Phase, Quiet, Sent, Working, Answered
<1>2. Heads(req, << >>)
  <2>1. Tail(Packed(req)) \in Seq(Item)
    <3>1. Packed(req) \in Seq(Item) /\ Packed(req) # << >>
      BY Requests
    <3> QED BY <3>1, HeadTailProperties
  <2>2. Tail(Packed(req)) \o << >> = Tail(Packed(req))
    BY <2>1, ConcatEmptySeq
  <2> QED BY <1>1, <2>2, Zenon DEF Heading, Heads
<1>3. << >> \in Seq(Item)
  BY EmptySeq
<1>4. (Heads(req, << >>) \/ Serves(req, << >>))'
  <2>1. \A r \in Request : Heads(r, << >>) => (Heads(r, << >>) \/ Serves(r, << >>))'
    BY <1>1, <1>3, HeadsStep DEF Orderly
  <2>2. req' = req
    BY DEF ReadHeader, host
  <2> QED BY <1>2, <2>1, <2>2 DEF Heads, Serves, Rest
<1>5. cmd' # CMD_IDLE
  BY <1>1, Requests DEF Heading, ReadHeader
<1>6. ~Answered'
  BY <1>5 DEF Answered
<1>7. ASSUME Working'
      PROVE  InHand'
  <2>1. Serves(req, << >>)'
    BY <1>4, <1>7 DEF Heads, Working
  <2>2. pc' = "fill" /\ total_bytes_consumed' = 0 /\ bytes_consumed' = 0 /\ req' = req
    <3>1. pc = "header" /\ pc' # "header"
      BY <1>7 DEF Working, ReadHeader
    <3> QED BY <3>1 DEF ReadHeader, HeaderRead, host
  <2>3. Replied'
    BY <2>2 DEF Replied
  <2>4. Covered(req)' = 0
    <3>1. total_bytes' = Len(req.data)
      BY <2>1, <2>2 DEF Serves
    <3>2. CASE req.cmd \in FillCommands
      <4>1. Len(req.data) \in {1, 2}
        BY <3>2, DataLengths DEF FillCommands
      <4>2. ~(0 + 0 = Len(req.data))
        BY <4>1
      <4> QED BY <2>2, <3>1, <3>2, <4>2 DEF Covered
    <3>3. CASE req.cmd \notin FillCommands
      BY <2>2, <3>3 DEF Covered
    <3> QED BY <3>2, <3>3
  <2>5. InPlace(req, Covered(req))'
    BY <2>4 DEF InPlace
  <2> QED BY <2>1, <2>3, <2>5 DEF InHand
<1> QED BY <1>6, <1>7 DEF Content

\* The payload comes and is consumed.
LEMMA PayloadContent ==
  ASSUME Orderly, Content, Poll \/ Fill \/ NoFill \/ Continue
  PROVE  Content'
<1>1. up /\ UNCHANGED <<up, req, mem, toHost, cmd, total_bytes, rounds, ofs>>
  BY DEF Poll, Fill, NoFill, Continue, comms_read, link, header, words, host, Orderly, Phase
<1>2. ASSUME Working'
      PROVE  InHand'
  <2>1. Working
    <3>1. req \in Request /\ cmd = req.cmd /\ pc # "header"
      BY <1>1, <1>2 DEF Working, Poll, Fill, NoFill, Continue
    <3>2. ~Quiet /\ ~Sent /\ ~Answered /\ ~Heading
      BY <3>1, Requests DEF Quiet, Sent, Answered, Heading
    <3> QED BY <3>2 DEF Orderly, Phase
  <2>2. InHand /\ req \in Request /\ TypeInv
    BY <2>1 DEF Content, Working, Orderly
  <2>3. << >> \in Seq(Item)
    BY EmptySeq
  <2>4. \A r \in Request : Serves(r, << >>) => Serves(r, << >>)'
    <3> SUFFICES ASSUME NEW r \in Request, Serves(r, << >>)
                 PROVE  Serves(r, << >>)'
      OBVIOUS
    <3>1. CASE Fill \/ Continue
      BY <1>1, <2>2, <2>3, <3>1, FillStep, ContinueServes
    <3>2. CASE Poll \/ NoFill
      <4>1. UNCHANGED <<stream, cmd, arg0, arg1, total_bytes, total_bytes_read, total_bytes_consumed, bytes_consumed, buffer>>
            /\ ((pc = "fill" /\ pc' = "process") \/ pc' \in {"poll", "consume"})
        BY <3>2 DEF Poll, NoFill, link, header, counts, stream
      <4>2. Rest(r)' = Rest(r)
        BY <4>1 DEF Rest
      <4> QED BY <4>1, <4>2 DEF Serves
    <3> QED BY <3>1, <3>2
  <2>5. Serves(req, << >>)'
    BY <1>1, <2>2, <2>4 DEF InHand, Serves, Rest
  <2>6. total_bytes_consumed' + bytes_consumed' = total_bytes_consumed + bytes_consumed
    <3>1. total_bytes_consumed \in Nat /\ bytes_consumed \in Nat
      BY <2>2, Numbers
    <3>2. \/ UNCHANGED <<total_bytes_consumed, bytes_consumed>>
          \/ total_bytes_consumed' = total_bytes_consumed + bytes_consumed /\ bytes_consumed' = 0
      BY DEF Poll, Fill, NoFill, Continue, Consume, counts
    <3> QED BY ONLY <3>1, <3>2
  <2>7. \A r \in Request : InPlace(r, Covered(r)) => InPlace(r, Covered(r))'
    BY <1>1, <2>2, <2>6, CoveredStays
  <2>8. InPlace(req, Covered(req))'
    <3>1. \A r : InPlace(r, Covered(r))' => (req' = r => InPlace(req, Covered(req))')
      BY DEF InPlace, Covered
    <3> QED BY <1>1, <2>2, <2>7, <3>1 DEF InHand
  <2>9. Replied'
    <3>1. (pc = "poll" /\ pc' \in {"poll", "consume"}) \/ pc' \in {"process", "fill"}
      BY <2>1, Requests DEF Working, Poll, Fill, NoFill, Continue
    <3> QED BY <1>1, <2>2, <3>1 DEF InHand, Replied
  <2> QED BY <2>5, <2>8, <2>9 DEF InHand
<1>3. ASSUME Answered'
      PROVE  Done'
  <2>1. req \in Request /\ cmd = CMD_IDLE /\ toHost # << >>
    BY <1>1, <1>3 DEF Answered
  <2>2. Answered
    BY <2>1, Requests DEF Orderly, Phase, Quiet, Sent, Heading, Working
  <2> QED BY <1>1, <2>2, DoneStays DEF Content
<1> QED BY <1>2, <1>3 DEF Content

\* A complete request is all there.
LEMMA FinishContent ==
  ASSUME Orderly, Content, Finish
  PROVE  Content'
<1>1. Working /\ up
  BY DEF Finish, Complete, Orderly, Phase, Quiet, Sent, Heading, Answered
<1>2. InHand /\ req \in Request /\ cmd = req.cmd /\ total_bytes = Len(req.data) /\ pc = "consume"
  BY <1>1 DEF Content, Working, Finish
<1>3. /\ toHost' = toHost \o <<cmd>> /\ cmd' = CMD_IDLE /\ UNCHANGED <<req, mem>>
  BY <1>1 DEF Finish, comms_write, host
<1>4. total_bytes = total_bytes_consumed + bytes_consumed
  BY DEF Finish, Complete, Consume
<1>5. Covered(req) = Len(Written(req))
  <2>1. CASE req.cmd \in FillCommands
    BY <1>4, <2>1 DEF Covered
  <2>2. CASE req.cmd \notin FillCommands
    <3>1. Written(req) = req.data
      BY <1>2, <2>2, WrittenCases
    <3> QED BY <1>2, <1>4, <2>2, <3>1 DEF Covered
  <2> QED BY <2>1, <2>2
<1>6. toHost = Load(mem, req.arg0, ResponseSize(req))
  BY <1>2 DEF InHand, Replied
<1>7. Parts(toHost', Load(mem, req.arg0, ResponseSize(req)), <<req.cmd>>)
  BY <1>2, <1>3, <1>6, Zenon DEF Parts
<1>8. Parts(toHost, Load(mem, req.arg0, ResponseSize(req)), <<req.cmd>>)'
  <2>1. \A s, q, m, k : q = req /\ m = mem /\ Parts(s, Load(mem, req.arg0, ResponseSize(req)), <<req.cmd>>)
                        => Parts(s, Load(m, q.arg0, ResponseSize(q)), <<q.cmd>>)
    BY Zenon
  <2> QED BY <1>3, <1>7, <2>1, Zenon DEF Parts
<1>9. InPlace(req, Len(Written(req)))'
  <2>1. InPlace(req, Len(Written(req)))
    BY <1>2, <1>5 DEF InHand
  <2> QED BY <1>3, <2>1 DEF InPlace
<1>10. Done'
  BY <1>8, <1>9, Zenon DEF Done
<1>11. ~Working'
  BY <1>2, <1>3, Requests DEF Working
<1> QED BY <1>10, <1>11 DEF Content

LEMMA LoadNothing ==
  ASSUME NEW m \in [Phys -> Item], NEW p \in Nat
  PROVE  Load(m, p, 0) = << >>
<1>1. Load(m, p, 0) \in Seq(Item) /\ Len(Load(m, p, 0)) = IF 0 >= 0 THEN 0 ELSE 0
  BY LoadType
<1> QED BY <1>1, EmptySeq

\* The response grows with what memory holds.
LEMMA ProcessReplies ==
  ASSUME Orderly, Working, InHand, Servable(req), process_cmd
  PROVE  Replied'
<1>1. /\ up /\ req \in Request /\ req' = req /\ cmd = req.cmd /\ arg0 = req.arg0 /\ arg1 = req.arg1
  BY DEF InHand, Serves, Working, Orderly, Phase, process_cmd, ProcessWriteBytes, ProcessWriteWords, ProcessReadBytes,
         ProcessReadWords, SendWord, WordsDone, ProcessFillBytes, ProcessFillWords, ProcessOther, Processed, host
<1>2. /\ mem \in [Phys -> Item] /\ arg0 \in Nat /\ arg1 \in Nat /\ toHost \in Seq(Item) /\ ofs \in Nat /\ rounds \in Nat
  BY Numbers DEF Orderly, TypeInv, HostTypes, BoardTypes
<1>3. Load(mem, arg0, 0) = << >>
  BY <1>2, LoadNothing
<1>4. CASE ProcessWriteBytes \/ ProcessWriteWords \/ ProcessFillBytes \/ ProcessFillWords
  <2>1. /\ pc = "process" /\ pc' = "poll" /\ toHost' = toHost
        /\ cmd \in {CMD_WRITE_BYTES, CMD_WRITE_WORDS} \cup FillCommands
    BY <1>4 DEF ProcessWriteBytes, ProcessWriteWords, ProcessFillBytes, ProcessFillWords, Processed, link, FillCommands
  <2>2. toHost = << >>
    BY <2>1 DEF Working
  <2>3. ResponseSize(req) = 0
    BY <1>1, <2>1, WrittenCases DEF FillCommands
  <2>4. mem' \in [Phys -> Item]
    <3>1. TypeInv'
      <4>1. TypeInv /\ [Next]_vars
        BY <1>4 DEF Orderly, Next, Board, process_cmd
      <4> QED BY <4>1, PayloadStep, FlagStep, HeaderStep, BoardStep, HostStep DEF TypeInv
    <3> QED BY <3>1 DEF TypeInv, BoardTypes
  <2>5. Load(mem', arg0, 0) = << >>
    BY <1>2, <2>4, LoadNothing
  <2> QED BY <1>1, <2>1, <2>2, <2>3, <2>5 DEF Replied
<1>5. CASE ProcessReadBytes
  <2>1. /\ pc = "process" /\ pc' = "poll" /\ mem' = mem /\ toHost' = toHost \o Load(mem, arg0, ToInt(arg1))
        /\ cmd = CMD_READ_BYTES
    BY <1>1, <1>5 DEF ProcessReadBytes, comms_write
  <2>2. toHost = << >>
    BY <2>1 DEF Working
  <2>3. ResponseSize(req) = arg1 /\ arg1 <= IntMax
    BY <1>1, <2>1, WrittenCases DEF Servable
  <2>4. ToInt(arg1) = arg1
    <3>1. WordMod \in Nat \ {0} /\ IntMax \in Int /\ IntMax < WordMod
      BY CmdServerAssumption DEF IntMax
    <3>2. arg1 < WordMod
      BY ONLY <1>2, <2>3, <3>1
    <3>3. arg1 % WordMod = arg1
      BY ONLY <1>2, <3>1, <3>2, SMTT(10)
    <3> QED BY <1>2, <2>3, <3>1, <3>3 DEF ToInt
  <2>5. Load(mem, arg0, arg1) \in Seq(Item)
    BY <1>2, LoadType
  <2>6. toHost' = Load(mem, arg0, arg1)
    BY <2>1, <2>2, <2>4, <2>5, ConcatEmptySeq
  <2> QED BY <1>1, <2>1, <2>3, <2>6 DEF Replied
<1>6. CASE ProcessReadWords
  <2>1. /\ pc = "process" /\ pc' = "words" /\ mem' = mem /\ toHost' = toHost /\ ofs' = 0 /\ cmd = CMD_READ_WORDS
        /\ (arg1 <= IntMax => rounds' = arg1)
    BY <1>6 DEF ProcessReadWords, link
  <2>2. toHost = << >> /\ arg1 <= IntMax
    BY <1>1, <2>1 DEF Working, Servable
  <2>3. 2 * ofs' = 0
    BY <2>1
  <2> QED BY <1>1, <1>3, <2>1, <2>2, <2>3 DEF Replied
<1>7. CASE SendWord
  <2>1. /\ pc = "words" /\ pc' = "words" /\ mem' = mem /\ ofs' = ofs + 1 /\ rounds' = rounds /\ ofs < rounds
        /\ toHost' = toHost \o Load(mem, FarAdd(arg0, 2 * ofs), 2) /\ cmd = CMD_READ_WORDS
    BY <1>1, <1>7 DEF SendWord, comms_write, Orderly, Place
  <2>2. rounds = arg1 /\ toHost = Load(mem, arg0, 2 * ofs)
    BY <1>1, <2>1 DEF InHand, Replied
  <2>3. Offset(arg0) + 2 * ofs < OffMod
    <3>1. ResponseSize(req) = 2 * arg1 /\ Offset(arg0) + ResponseSize(req) <= OffMod
      BY <1>1, <2>1, Blocks, WrittenCases
    <3>2. Offset(arg0) \in Nat /\ OffMod \in Nat
      BY <1>2, FarMemoryAssumption DEF Offset
    <3> QED BY ONLY <1>2, <2>1, <2>2, <3>1, <3>2
  <2> DEFINE j == 2 * ofs
  <2>4. j \in Nat /\ j + 2 = 2 * ofs' /\ Offset(arg0) + j < OffMod
    BY <1>2, <2>1, <2>3
  <2> HIDE DEF j
  <2>5. Load(mem, arg0, j) \o Load(mem, FarAdd(arg0, j), 2) = Load(mem, arg0, j + 2)
    <3> DEFINE k == 2
    <3>1. k \in Nat
      OBVIOUS
    <3> HIDE DEF k
    <3>2. mem \in [Phys -> Item] /\ arg0 \in Nat /\ j \in Nat /\ k \in Nat /\ Offset(arg0) + j < OffMod
      BY <1>2, <2>4, <3>1
    <3>3. Load(mem, arg0, j) \o Load(mem, FarAdd(arg0, j), k) = Load(mem, arg0, j + k)
      BY ONLY <3>2, LoadMore
    <3> QED BY <3>3 DEF k
  <2>6. toHost' = Load(mem, arg0, j) \o Load(mem, FarAdd(arg0, j), 2)
    BY <2>1, <2>2 DEF j
  <2>7. toHost' = Load(mem, arg0, 2 * ofs')
    BY <2>4, <2>5, <2>6
  <2> QED BY <1>1, <2>1, <2>2, <2>7 DEF Replied
<1>8. CASE WordsDone
  <2>1. /\ pc = "words" /\ pc' = "poll" /\ mem' = mem /\ toHost' = toHost /\ ofs >= rounds /\ cmd = CMD_READ_WORDS
    BY <1>8 DEF WordsDone, link, Orderly, Place
  <2>2. rounds = arg1 /\ toHost = Load(mem, arg0, 2 * ofs) /\ ofs <= rounds
    BY <1>1, <2>1 DEF InHand, Replied, Working
  <2>3. ofs = arg1
    BY ONLY <1>2, <2>1, <2>2
  <2>4. ResponseSize(req) = 2 * arg1
    BY <1>1, <2>1, WrittenCases
  <2> QED BY <1>1, <2>1, <2>2, <2>3, <2>4 DEF Replied
<1>9. ~ProcessOther
  BY <1>1, Requests DEF ProcessOther
<1> QED BY <1>4, <1>5, <1>6, <1>7, <1>8, <1>9 DEF process_cmd

LEMMA ProcessContent ==
  ASSUME Orderly, Content, req \in Request => Servable(req), process_cmd
  PROVE  Content'
<1>1. req' = req /\ cmd' = cmd /\ pc \in {"process", "words"}
  BY DEF process_cmd, ProcessWriteBytes, ProcessWriteWords, ProcessReadBytes, ProcessReadWords, SendWord, WordsDone,
         ProcessFillBytes, ProcessFillWords, ProcessOther, Processed, host, header
<1>2. ASSUME Working'
      PROVE  InHand'
  <2>1. Working
    <3>1. req \in Request /\ cmd = req.cmd
      BY <1>1, <1>2 DEF Working
    <3>2. ~Quiet /\ ~Sent /\ ~Answered /\ ~Heading
      BY <1>1, <3>1, Requests DEF Quiet, Sent, Answered, Heading
    <3> QED BY <3>2 DEF Orderly, Phase
  <2>2. InHand /\ req \in Request /\ TypeInv /\ Servable(req)
    BY <2>1 DEF Content, Working, Orderly
  <2>3. << >> \in Seq(Item)
    BY EmptySeq
  <2>4. ASSUME NEW r \in Request, Serves(r, << >>), Servable(r)
        PROVE  Serves(r, << >>)' /\ Stores(r)
    BY <2>2, <2>3, <2>4, ProcessServes, ProcessStores
  <2>5. Serves(req, << >>)'
    BY <1>1, <2>2, <2>4 DEF InHand, Serves, Rest
  <2>6. InPlace(req, Covered(req))'
    <3>1. \A r \in Request : Servable(r) /\ Serves(r, << >>) /\ InPlace(r, Covered(r)) => InPlace(r, Covered(r))'
      BY <2>4 DEF Stores
    <3>2. \A r : InPlace(r, Covered(r))' => (req' = r => InPlace(req, Covered(req))')
      BY DEF InPlace, Covered
    <3> QED BY <1>1, <2>2, <3>1, <3>2 DEF InHand
  <2>7. Replied'
    BY <2>1, <2>2, ProcessReplies
  <2> QED BY <2>5, <2>6, <2>7 DEF InHand
<1>3. ASSUME Answered'
      PROVE  Done'
  <2>1. req \in Request /\ cmd = CMD_IDLE
    BY <1>1, <1>3 DEF Answered
  <2>2. ProcessOther
    BY <2>1 DEF process_cmd, ProcessWriteBytes, ProcessWriteWords, ProcessReadBytes, ProcessReadWords, SendWord, WordsDone,
        ProcessFillBytes, ProcessFillWords, Orderly, Place, CMD_IDLE, CMD_WRITE_BYTES, CMD_WRITE_WORDS, CMD_READ_BYTES,
        CMD_READ_WORDS, CMD_FILL_BYTES, CMD_FILL_WORDS
  <2>3. UNCHANGED <<mem, req, toHost>>
    BY <2>2 DEF ProcessOther, Processed, link, host
  <2>4. Answered
    <3>1. toHost # << >>
      BY <1>3, <2>3 DEF Answered
    <3> QED BY <2>1, <3>1, Requests DEF Orderly, Phase, Quiet, Sent, Heading, Working
  <2> QED BY <2>3, <2>4, DoneStays DEF Content
<1> QED BY <1>2, <1>3 DEF Content

\* No request is in hand between two requests.
\* The next request starts with nothing of the last one, whatever that did.
LEMMA TurnContent ==
  ASSUME Orderly, Answer \/ \E r \in Request : DoCmd(r)
  PROVE  Content'
<1>1. CASE Answer
  <2>1. req' \notin Request
    BY <1>1, CmdServerAssumption DEF Answer
  <2> QED BY <2>1 DEF Content, Working, Answered
<1>2. ASSUME NEW r \in Request, DoCmd(r)
      PROVE  Content'
  <2>1. Quiet
    BY <1>2, Requests DEF DoCmd, Orderly, Phase, Sent, Heading, Working, Answered
  <2>2. req' \in Request /\ cmd' = CMD_IDLE /\ toHost' = << >>
    BY <1>2, <2>1 DEF DoCmd, Quiet, header
  <2> QED BY <2>2, Requests DEF Content, Working, Answered
<1> QED BY <1>1, <1>2

LEMMA CommandContent ==
  ASSUME Orderly, Content, ReadCommand
  PROVE  Content'
<1>1. cmd = CMD_IDLE /\ UNCHANGED <<mem, req, toHost>>
  BY DEF ReadCommand, Orderly, Place, host, comms_read
<1>2. pc' = "header" \/ (pc' = "process" /\ cmd' = cmd)
  BY Zenon DEF ReadCommand
<1>3. ~Working'
  <2>1. req' \in Request => req'.cmd # CMD_IDLE
    BY Requests
  <2> QED BY <1>1, <1>2, <2>1 DEF Working
<1>4. Answered' => Answered
  BY <1>1, Requests DEF Answered, Orderly, Phase, Quiet, Sent, Heading, Working
<1> QED BY <1>1, <1>3, <1>4, DoneStays DEF Content

LEMMA ArriveContent ==
  ASSUME Orderly, Content, Arrive \/ UNCHANGED vars
  PROVE  Content'
<1>1. /\ stream' = stream
      /\ UNCHANGED <<toHost, req, cmd, arg0, arg1, total_bytes, total_bytes_read, total_bytes_consumed,
                     bytes_consumed, buffer, pc, buf, rounds, ofs, mem>>
  BY ArriveKeeps DEF Orderly, Arrive, vars, link, header, counts, words, host, stream
<1>2. Rest(req)' = Rest(req) /\ Covered(req)' = Covered(req)
  BY <1>1 DEF Rest, Covered
<1>3. ASSUME Working'
      PROVE  InHand'
  <2>1. req \in Request /\ cmd = req.cmd /\ pc # "header"
    BY <1>1, <1>3 DEF Working
  <2>2. Working
    BY <2>1, Requests DEF Orderly, Phase, Quiet, Sent, Heading, Answered
  <2>3. InHand
    BY <2>2 DEF Content
  <2>4. Serves(req, << >>)'
    BY <1>1, <1>2, <2>3 DEF InHand, Serves
  <2>5. InPlace(req, Covered(req))'
    BY <1>1, <1>2, <2>3 DEF InHand, InPlace
  <2>6. Replied'
    BY <1>1, <2>3 DEF InHand, Replied
  <2> QED BY <2>4, <2>5, <2>6 DEF InHand
<1>4. ASSUME Answered'
      PROVE  Done'
  <2>1. req \in Request /\ cmd = CMD_IDLE /\ toHost # << >>
    BY <1>1, <1>4 DEF Answered
  <2>2. Answered
    BY <2>1, Requests DEF Orderly, Phase, Quiet, Sent, Heading, Working
  <2> QED BY <1>1, <2>2, DoneStays DEF Content
<1> QED BY <1>3, <1>4 DEF Content

LEMMA RecordedStep ==
  ASSUME TypeInv, Framing, Recorded, [Next]_vars
  PROVE  Recorded'
<1> SUFFICES ASSUME clean', Fits'
             PROVE  Content'
  BY DEF Recorded
<1>1. CASE BeginSession
  <2>1. cmd' = CMD_IDLE /\ toHost' = << >>
    BY <1>1 DEF BeginSession, Framing, Down, header
  <2>2. req' \in Request => req'.cmd # CMD_IDLE
    BY Requests
  <2> QED BY <2>1, <2>2 DEF Content, Working, Answered
<1>2. CASE EndSession \/ Timeout
  BY <1>2 DEF EndSession, Timeout
<1>3. CASE ~BeginSession /\ ~EndSession /\ ~Timeout
  <2>1. clean
    BY <1>3
       DEF Next, Board, Poll, update_cmd, process_cmd, Finish, Continue, ReadCommand, ReadHeader, Fill, NoFill,
           ProcessWriteBytes, ProcessWriteWords, ProcessReadBytes, ProcessReadWords, SendWord, WordsDone,
           ProcessFillBytes, ProcessFillWords, ProcessOther, Processed, history, Pico, DoCmd, Answer, Arrive, vars
  <2>2. Orderly
    BY <2>1 DEF Framing, Orderly
  <2>3. CASE Answer \/ \E r \in Request : DoCmd(r)
    BY <2>2, <2>3, TurnContent
  <2>4. CASE ~Answer /\ ~ \E r \in Request : DoCmd(r)
    <3>1. req' = req
      BY <1>3, <2>4
         DEF Next, Board, Poll, update_cmd, process_cmd, Finish, Continue, ReadCommand, ReadHeader, Fill, NoFill,
             ProcessWriteBytes, ProcessWriteWords, ProcessReadBytes, ProcessReadWords, SendWord, WordsDone,
             ProcessFillBytes, ProcessFillWords, ProcessOther, Processed, host, Pico, Arrive, vars
    <3>2. Fits
      BY <3>1 DEF Fits
    <3>3. Content /\ (req \in Request => Servable(req))
      BY <2>1, <3>2 DEF Recorded, Fits
    <3>4. CASE ReadHeader
      <4>1. req \in Request
        BY <2>2, <3>4, Requests DEF ReadHeader, Orderly, Place, Phase, Quiet, Sent, Heading, Working, Answered
      <4> QED BY <2>2, <3>3, <3>4, <4>1, HeadingContent
    <3>5. CASE UNCHANGED vars \/ Arrive
      BY <2>2, <3>3, <3>5, ArriveContent
    <3> QED BY <1>3, <2>2, <2>4, <3>3, <3>4, <3>5, PayloadContent, FinishContent, ProcessContent, CommandContent
            DEF Next, Board, update_cmd, Pico
  <2> QED BY <2>3, <2>4
<1> QED BY <1>1, <1>2, <1>3

-----------------------------------------------------------------------------
\* What RemoteMemory calls the goal of a request.
LEMMA GoalIs == \A r : Remote!Goal(r) = Store(mem, r.arg0, Written(r))
BY DEF Remote!Goal, Remote!Store, Remote!Hits, Remote!Address, Remote!FarAdd, Remote!Segment, Remote!Offset, Remote!Phys,
       Remote!Written, Remote!Bytes, Remote!Words, Remote!Max, Store, Hits, Address, FarAdd, Segment, Offset, Phys, Written,
       Bytes, Words, Max, Remote!CMD_WRITE_BYTES, Remote!CMD_WRITE_WORDS, Remote!CMD_FILL_BYTES, Remote!CMD_FILL_WORDS,
       CMD_WRITE_BYTES, CMD_WRITE_WORDS, CMD_FILL_BYTES, CMD_FILL_WORDS

LEMMA LoadIs == \A p, n : Remote!Load(mem, p, n) = Load(mem, p, n)
BY DEF Remote!Load, Remote!Address, Remote!FarAdd, Remote!Segment, Remote!Offset, Load, Address, FarAdd, Segment, Offset

LEMMA ResponseIs == \A r : Remote!ResponseSize(r) = ResponseSize(r)
BY DEF Remote!ResponseSize, ResponseSize, Remote!CMD_READ_BYTES, Remote!CMD_READ_WORDS, CMD_READ_BYTES, CMD_READ_WORDS

LEMMA PhysIs == Remote!Phys = Phys
BY DEF Remote!Phys, Phys


ServerInv == TypeInv /\ Framing /\ WholeInv

LEMMA ServerInvHolds == Spec => []ServerInv
<1>1. Init => ServerInv
  BY InitTypes DEF Init, Framing, Down, Place, WholeInv, ServerInv
<1>2. TypeInv /\ ServerInv /\ [Next]_vars => (Framing /\ WholeInv)'
  BY DownStep, PlaceStep, PhaseStep, WholeStep DEF Framing, ServerInv
<1> QED BY <1>1, <1>2, TypesHold, PTL DEF Spec, ServerInv

LEMMA RecordedHolds == Spec => []Recorded
<1>1. Init => Recorded
  BY DEF Init, Recorded
<1>2. ServerInv /\ Recorded /\ [Next]_vars => Recorded'
  BY RecordedStep DEF ServerInv
<1> QED BY <1>1, <1>2, ServerInvHolds, PTL DEF Spec

-----------------------------------------------------------------------------
(***************************************************************************)
(* Requests that run past the end of a segment.                            *)
(***************************************************************************)
\* A step that stores items of r where they may go.
Lands(r) ==
  \A a \in Phys :
    mem'[a] # mem[a] => \E i \in 1 .. Len(Written(r)) : a \in Places(r, i) /\ mem'[a] = Written(r)[i]

\* An item of a write is in a chunk that begins less than BufSize items before it.
LEMMA WritePlace ==
  ASSUME NEW r \in Request, r.cmd \in {CMD_WRITE_BYTES, CMD_WRITE_WORDS},
         NEW j \in Nat, NEW k \in Nat, k < BufSize, NEW i, i = j + k + 1
  PROVE  Address(FarAdd((r.arg0 + j) % (ItemMax + 1), k)) \in Places(r, i)
<1> DEFINE M == ItemMax + 1
           p == r.arg0
           c == p + j
           q == c + k
           a == Address(FarAdd(c % M, k))
<1>1. /\ M \in Nat \ {0} /\ M % OffMod = 0 /\ p \in Nat /\ c \in Nat /\ q \in Nat /\ k <= OffMod
      /\ OffMod \in Nat \ {0} /\ BufSize \in Nat /\ q = (p + i) - 1
  BY Requests, CmdServerAssumption, FarMemoryAssumption DEF Item
<1>2. r.cmd \notin {CMD_FILL_BYTES, CMD_FILL_WORDS}
  BY DEF CMD_WRITE_BYTES, CMD_WRITE_WORDS, CMD_FILL_BYTES, CMD_FILL_WORDS
<1>3. \/ FarAdd(c % M, k) = q % M
      \/ Offset(q) < k /\ c < q - Offset(q) /\ OffMod <= q /\ FarAdd(c % M, k) = (q - OffMod) % M
  <2> HIDE DEF M, c
  <2> QED BY <1>1, CarryOrWrap
<1>4. Offset(q) \in Nat
  BY <1>1 DEF Offset
<1>5. \/ a = Address(q % M)
      \/ a = Address((q - OffMod) % M) /\ Offset(q) < BufSize - 1 /\ p < q - Offset(q)
  <2> HIDE DEF M, q
  <2>1. c < q - Offset(q) => p < q - Offset(q)
    BY <1>1, <1>4
  <2>2. Offset(q) < k => Offset(q) < BufSize - 1
    BY <1>1, <1>4
  <2> HIDE DEF c
  <2> QED BY <1>3, <2>1, <2>2
<1> HIDE DEF a, q
<1>6. a \in Places(r, i)
  BY <1>1, <1>2, <1>5 DEF Places
<1> QED BY <1>6 DEF a

LEMMA ChunkLands ==
  ASSUME TypeInv, NEW r \in Request, NEW t, Serves(r, t), pc = "process",
         r.cmd \in {CMD_WRITE_BYTES, CMD_WRITE_WORDS},
         NEW n \in Nat, n <= Len(buffer), NEW s, s = SubSeq(buffer, 1, n), mem' = Store(mem, ChunkAddr, s)
  PROVE  Lands(r)
<1> DEFINE j == total_bytes_consumed
<1>1. /\ j \in Nat /\ buffer \in Seq(Item) /\ Len(buffer) \in Nat /\ Len(buffer) <= BufSize /\ BufSize \in Nat
      /\ mem \in [Phys -> Item] /\ arg0 = r.arg0 /\ j + Len(buffer) <= Len(r.data) /\ Len(r.data) \in Nat
      /\ Written(r) = r.data
  <2>1. total_bytes_consumed + Len(buffer) <= total_bytes /\ total_bytes = Len(r.data)
    BY Numbers DEF Serves
  <2> QED BY <2>1, Numbers, WrittenCases, Requests, CmdServerAssumption, LenProperties DEF Serves
<1>2. s \in Seq(Item) /\ Len(s) = n /\ \A i \in 1 .. n : s[i] = buffer[i]
  BY <1>1, FirstItems
<1>3. SUFFICES ASSUME NEW a \in Phys, mem'[a] # mem[a]
               PROVE  \E i \in 1 .. Len(r.data) : a \in Places(r, i) /\ mem'[a] = r.data[i]
  BY <1>1 DEF Lands
<1>4. PICK x \in 1 .. n : a = Address(FarAdd(ChunkAddr, x - 1)) /\ mem'[a] = s[x]
  <2>1. Store(mem, ChunkAddr, s)[a] # mem[a]
    BY <1>3
  <2>2. \E x \in 1 .. Len(s) : a = Address(FarAdd(ChunkAddr, x - 1)) /\ Store(mem, ChunkAddr, s)[a] = s[x]
    BY ONLY <1>1, <1>2, <1>3, <2>1, StoreHits
  <2> QED BY <1>2, <2>2
<1> DEFINE k == x - 1
           i == j + k + 1
<1>5. k \in Nat /\ k < BufSize /\ i = j + x /\ i \in 1 .. Len(r.data) /\ x \in 1 .. Len(buffer)
  BY <1>1
<1>6. mem'[a] = r.data[i]
  <2>1. buffer[x] = r.data[j + x]
    BY <1>5 DEF Serves
  <2> QED BY <1>2, <1>4, <1>5, <2>1
<1>7. a \in Places(r, i)
  <2>1. a = Address(FarAdd((r.arg0 + j) % (ItemMax + 1), k))
    BY <1>1, <1>4 DEF ChunkAddr
  <2> HIDE DEF k, j
  <2>2. Address(FarAdd((r.arg0 + j) % (ItemMax + 1), k)) \in Places(r, j + k + 1)
    BY <1>1, <1>5, WritePlace
  <2> QED BY <2>1, <2>2
<1> HIDE DEF i
<1> QED BY <1>5, <1>6, <1>7

\* A fill goes through the first of its items, all of them or fewer.
LEMMA BlockLands ==
  ASSUME TypeInv, NEW r \in Request, r.cmd \in FillCommands, NEW s \in Seq(Item), mem' = Store(mem, r.arg0, s),
         Len(s) <= Len(Written(r)), Len(Written(r)) \in Nat,
         \A i \in 1 .. Len(s) : s[i] = Written(r)[i]
  PROVE  Lands(r)
<1>1. mem \in [Phys -> Item] /\ Len(s) \in Nat
  BY Numbers, LenProperties
<1>2. SUFFICES ASSUME NEW a \in Phys, mem'[a] # mem[a]
               PROVE  \E i \in 1 .. Len(Written(r)) : a \in Places(r, i) /\ mem'[a] = Written(r)[i]
  BY DEF Lands
<1>3. PICK i \in 1 .. Len(s) : a = Address(FarAdd(r.arg0, i - 1)) /\ mem'[a] = s[i]
  BY <1>1, <1>2, StoreHits
<1>4. i \in 1 .. Len(Written(r)) /\ mem'[a] = Written(r)[i]
  BY <1>1, <1>3
<1>5. a \in Places(r, i)
  BY <1>3 DEF Places, FillCommands
<1> QED BY <1>4, <1>5

LEMMA FillLands ==
  ASSUME TypeInv, NEW r \in Request, NEW t, Serves(r, t), ProcessFillBytes \/ ProcessFillWords, mem' # mem
  PROVE  Lands(r)
<1> DEFINE c == ToSize(arg1)
<1>1. /\ total_bytes = Len(r.data) /\ arg0 = r.arg0 /\ arg1 = r.arg1 /\ cmd = r.cmd
      /\ \A i \in 1 .. Len(buffer) : buffer[i] = r.data[total_bytes_consumed + i]
  BY DEF Serves
<1>2. /\ total_bytes_consumed \in Nat /\ total_bytes_read \in Nat /\ bytes_avail = Len(buffer)
      /\ buffer \in Seq(Item) /\ Len(buffer) \in Nat /\ r.data \in Seq(Item) /\ r.arg1 \in Nat
      /\ total_bytes_consumed + Len(buffer) = total_bytes_read /\ total_bytes_read <= total_bytes
  BY Numbers, Requests, CmdServerAssumption DEF Item
<1>3. c \in Nat /\ c <= r.arg1
  <2>1. WordMod \in Nat \ {0}
    BY CmdServerAssumption
  <2>2. \A d \in Nat : d % WordMod \in Nat /\ d % WordMod <= d
    BY ONLY <2>1, SMTT(10)
  <2> QED BY <1>1, <1>2, <2>2 DEF ToSize
<1>4. CASE ProcessFillBytes
  <2>1. bytes_avail > 0 /\ mem' = Store(mem, arg0, Bytes(buffer[1], c)) /\ r.cmd = CMD_FILL_BYTES
    BY <1>1, <1>4 DEF ProcessFillBytes, Processed
  <2>2. Len(r.data) = 1 /\ Written(r) = Bytes(r.data[1], r.arg1)
    BY <2>1, WrittenCases, DataLengths
  <2>3. total_bytes_consumed = 0 /\ Len(buffer) = 1
    BY ONLY <1>1, <1>2, <2>1, <2>2
  <2>4. buffer[1] = r.data[1] /\ r.data[1] \in Item
    <3>1. 1 \in 1 .. Len(buffer) /\ total_bytes_consumed + 1 = 1 /\ 1 \in 1 .. Len(r.data)
      BY <2>2, <2>3
    <3> QED BY <1>1, <1>2, <3>1, ElementOfSeq
  <2> DEFINE v == r.data[1]
             s == Bytes(v, c)
             w == Bytes(v, r.arg1)
  <2>5. s \in Seq(Item) /\ Len(s) = c /\ Len(w) = r.arg1
    <3>1. v \in Item
      BY <2>4
    <3> HIDE DEF v, c
    <3> QED BY <1>2, <1>3, <3>1, BytesType
  <2>6. \A i \in 1 .. c : s[i] = w[i]
    BY <1>2, <1>3 DEF Bytes
  <2>7. mem' = Store(mem, r.arg0, s) /\ w = Written(r) /\ r.cmd \in FillCommands
    BY <1>1, <2>1, <2>2, <2>4 DEF FillCommands
  <2> HIDE DEF s, w, c
  <2> QED BY <1>2, <1>3, <2>5, <2>6, <2>7, BlockLands
<1>5. CASE ProcessFillWords
  <2>1. bytes_avail > 1 /\ mem' = Store(mem, arg0, Words(buffer, c)) /\ r.cmd = CMD_FILL_WORDS
    BY <1>1, <1>5 DEF ProcessFillWords, Processed
  <2>2. Len(r.data) = 2 /\ Written(r) = Words(r.data, r.arg1)
    BY <2>1, WrittenCases, DataLengths
  <2>3. total_bytes_consumed = 0 /\ Len(buffer) = 2
    BY ONLY <1>1, <1>2, <2>1, <2>2
  <2>4. buffer = r.data
    <3>1. \A i \in 1 .. Len(buffer) : buffer[i] = r.data[i]
      BY <1>1, <2>3
    <3>2. Len(buffer) = Len(r.data)
      BY <2>2, <2>3
    <3> QED BY ONLY <1>2, <3>1, <3>2, SeqEqual
  <2> DEFINE s == Words(r.data, c)
             w == Words(r.data, r.arg1)
  <2>5. s \in Seq(Item) /\ Len(s) = 2 * c /\ Len(w) = 2 * r.arg1
    <3>1. Len(r.data) > 1
      BY <2>2
    <3> QED BY <1>2, <1>3, <3>1, WordsType
  <2>6. \A i \in 1 .. 2 * c : s[i] = w[i]
    BY <1>2, <1>3 DEF Words
  <2>7. mem' = Store(mem, r.arg0, s) /\ w = Written(r) /\ r.cmd \in FillCommands
    BY <1>1, <2>1, <2>2, <2>4 DEF FillCommands
  <2> HIDE DEF s, w, c
  <2>8. 2 * c <= 2 * r.arg1 /\ 2 * r.arg1 \in Nat
    BY <1>2, <1>3
  <2> QED BY <2>5, <2>6, <2>7, <2>8, BlockLands
<1> QED BY <1>4, <1>5

LEMMA StoreLands ==
  ASSUME ServerInv, whole, [Next]_vars, mem' # mem
  PROVE  \E r \in Request : Lands(r)
<1>1. ProcessWriteBytes \/ ProcessWriteWords \/ ProcessFillBytes \/ ProcessFillWords
  BY DEF Next, Board, Poll, update_cmd, process_cmd, Finish, Continue, ReadCommand, ReadHeader, Fill, NoFill,
         ProcessReadBytes, ProcessReadWords, SendWord, WordsDone, ProcessOther, Processed, Pico, DoCmd, Answer, Timeout,
         Arrive, BeginSession, EndSession, vars
<1>2. pc = "process" /\ cmd # CMD_IDLE
  BY <1>1 DEF ProcessWriteBytes, ProcessWriteWords, ProcessFillBytes, ProcessFillWords, CMD_IDLE,
              CMD_WRITE_BYTES, CMD_WRITE_WORDS, CMD_FILL_BYTES, CMD_FILL_WORDS
<1>3. PICK t : Framed(t) /\ Stage(t)
  BY DEF ServerInv, WholeInv
<1>4. PICK r \in Request : Serves(r, t)
  BY <1>2, <1>3 DEF Stage, Heads
<1>5. TypeInv /\ cmd = r.cmd
  BY <1>4 DEF ServerInv, Serves
<1>6. buffer \in Seq(Item) /\ Len(buffer) \in Nat /\ bytes_avail = Len(buffer)
  BY <1>5, Numbers
<1>7. CASE ProcessWriteBytes
  <2> DEFINE n == Len(buffer)
             s == SubSeq(buffer, 1, n)
  <2>1. s = buffer /\ n \in Nat /\ n <= Len(buffer)
    BY <1>6, SubSeqFull
  <2>2. mem' = Store(mem, ChunkAddr, s) /\ r.cmd \in {CMD_WRITE_BYTES, CMD_WRITE_WORDS}
    BY <1>5, <1>7, <2>1 DEF ProcessWriteBytes, Processed
  <2> QED BY <1>2, <1>4, <1>5, <2>1, <2>2, ChunkLands
<1>8. CASE ProcessWriteWords
  <2> DEFINE n == EvenPart
             s == SubSeq(buffer, 1, n)
  <2>1. n \in Nat /\ n <= Len(buffer)
    BY <1>6 DEF EvenPart
  <2>2. mem' = Store(mem, ChunkAddr, s) /\ r.cmd \in {CMD_WRITE_BYTES, CMD_WRITE_WORDS}
    BY <1>5, <1>8 DEF ProcessWriteWords, Processed
  <2> HIDE DEF n
  <2> QED BY <1>2, <1>4, <1>5, <2>1, <2>2, ChunkLands
<1>9. CASE ProcessFillBytes \/ ProcessFillWords
  BY <1>4, <1>5, <1>9, FillLands
<1> QED BY <1>1, <1>7, <1>8, <1>9

\* StoresInPlace: whatever segments a request runs through and whatever chunks
\* it comes in, its items go where they may go.  Every request is covered.
THEOREM StoresLand == Spec => StoresInPlace
<1>1. ServerInv /\ [Next]_vars
      => [whole /\ whole' =>
            \E r \in Request : \A a \in Phys :
              mem'[a] # mem[a] =>
                \E i \in 1 .. Len(Written(r)) : a \in Places(r, i) /\ mem'[a] = Written(r)[i]]_mem
  BY StoreLands DEF Lands
<1> QED BY <1>1, ServerInvHolds, PTL DEF Spec, StoresInPlace

\* Within a segment there is one place for each item, that of the loops.
LEMMA OnePlace ==
  ASSUME NEW r \in Request, Servable(r), NEW i \in 1 .. Len(Written(r))
  PROVE  Places(r, i) = {Address(FarAdd(r.arg0, i - 1))}
<1> DEFINE p == r.arg0
           k == i - 1
           q == p + k
           n == Len(Written(r))
<1>1. /\ p \in Nat /\ n \in Nat /\ Offset(p) \in Nat /\ OffMod \in Nat /\ ItemMax \in Nat /\ k \in Nat /\ k < n
      /\ Offset(p) + n <= OffMod /\ p + n <= ItemMax + 1 /\ q = (p + i) - 1
  BY Blocks, FarMemoryAssumption, CmdServerAssumption DEF OwnBytes, Offset
<1>2. CASE r.cmd \in {CMD_FILL_BYTES, CMD_FILL_WORDS}
  BY <1>2 DEF Places
<1>3. CASE r.cmd \notin {CMD_FILL_BYTES, CMD_FILL_WORDS}
  <2> HIDE DEF n
  <2>1. FarAdd(p, k) = q /\ Offset(q) = Offset(p) + k
    BY <1>1, InsideSegment, StaysInSegment
  <2>2. ~(p < q - Offset(q))
    BY <1>1, <2>1
  <2>3. q % (ItemMax + 1) = q
    <3> DEFINE M == ItemMax + 1
    <3>1. q \in Nat /\ M \in Nat \ {0} /\ q < M
      BY <1>1
    <3> HIDE DEF q, M
    <3>2. q % M = q
      BY ONLY <3>1, SMTT(10)
    <3> QED BY <3>2 DEF M
  <2> DEFINE e == r.arg0 + i - 1
  <2>4. e = q
    BY <1>1
  <2> HIDE DEF q, e
  <2>5. ~(r.arg0 < e - Offset(e)) /\ Address(e % (ItemMax + 1)) = Address(q)
    BY <2>2, <2>3, <2>4
  <2>6. Places(r, i) = {Address(e % (ItemMax + 1))}
    BY <1>3, <2>5 DEF Places, e
  <2>7. Places(r, i) = {Address(q)}
    BY <2>5, <2>6
  <2> QED BY <2>1, <2>7
<1> QED BY <1>2, <1>3

\* OnlyRequestedWrites: in the same sessions each change of memory is part of
\* what one of the requests is to leave there, when all of them fit.
THEOREM WritesAsRequested == AllServable /\ Spec => OnlyRequestedWrites
<1>1. ASSUME NEW r \in Request, Servable(r), Lands(r), mem \in [Phys -> Item], NEW a \in Phys
      PROVE  mem'[a] \in {mem[a], Remote!Goal(r)[a]}
  <2>1. CASE mem'[a] # mem[a]
    <3>1. PICK i \in 1 .. Len(Written(r)) : a \in Places(r, i) /\ mem'[a] = Written(r)[i]
      BY <1>1, <2>1 DEF Lands
    <3>2. a = Address(FarAdd(r.arg0, i - 1))
      BY <1>1, <3>1, OnePlace
    <3>3. Store(mem, r.arg0, Written(r))[a] = Written(r)[i]
      BY <1>1, <3>2, Blocks, StoreInPlace
    <3> QED BY <3>1, <3>3, GoalIs
  <2> QED BY <2>1
<1>2. ASSUME AllServable, ServerInv, whole, [Next]_vars, mem' # mem
      PROVE  \E r \in Request : \A a \in Phys : mem'[a] \in {mem[a], Remote!Goal(r)[a]}
  <2>1. PICK r \in Request : Lands(r)
    BY <1>2, StoreLands
  <2>2. Servable(r) /\ mem \in [Phys -> Item]
    BY <1>2, Numbers DEF AllServable, ServerInv
  <2> QED BY <1>1, <2>1, <2>2
<1>3. AllServable /\ ServerInv /\ [Next]_vars
      => [whole /\ whole' => \E r \in Request : \A a \in Phys : mem'[a] \in {mem[a], Remote!Goal(r)[a]}]_mem
  BY <1>2
<1>4. AllServable => []AllServable
  OBVIOUS
<1> QED BY <1>3, <1>4, ServerInvHolds, PTL DEF Spec, OnlyRequestedWrites

-----------------------------------------------------------------------------
\* The host takes the whole answer, and the response is what comes before the
\* tail.
LEMMA AnswerReturns ==
  ASSUME Orderly, Content, req \in Request => Servable(req), Answer
  PROVE  Remote!Return
<1>1. req \in Request /\ Len(toHost) > ResponseSize(req) /\ TakeAnswer(ResponseSize(req)) /\ req' = NoRequest /\ mem' = mem
  BY DEF Answer, Orderly, TypeInv, HostTypes
<1> DEFINE k == ResponseSize(req)
           x == Load(mem, req.arg0, k)
<1>2. k \in Nat /\ toHost \in Seq(Item) /\ Len(toHost) \in Nat
  BY <1>1, ResponseIsNat, LenProperties DEF Orderly, TypeInv, HostTypes
<1>3. Servable(req) /\ req.arg0 \in Nat /\ req.cmd \in Item /\ mem \in [Phys -> Item] /\ Written(req) \in Seq(Item)
      /\ req # NoRequest
  <2>1. Servable(req)
    BY <1>1
  <2>2. req.cmd \in Item
    BY <1>1, CmdServerAssumption DEF Item, CMD_FILL_WORDS
  <2>3. mem \in [Phys -> Item]
    BY DEF Orderly, TypeInv, BoardTypes
  <2> QED BY <1>1, <2>1, <2>2, <2>3, Blocks, Requests
<1>4. Answered
  <2>1. toHost # << >>
    BY <1>1, <1>2, EmptySeq
  <2>2. ~Working
    BY <1>1, <1>2 DEF Working
  <2> QED BY <2>1, <2>2, <1>1, Requests DEF Orderly, Phase, Quiet, Sent, Heading
<1>5. Done
  BY <1>4 DEF Content
<1>6. x \in Seq(Item) /\ Len(x) = k
  <2>1. k \in Int /\ k >= 0
    BY <1>2
  <2> HIDE DEF k
  <2>2. x \in Seq(Item) /\ Len(x) = IF k >= 0 THEN k ELSE 0
    BY <1>3, <2>1, LoadType
  <2> QED BY <2>1, <2>2
<1>7. toHost = x \o <<req.cmd>>
  BY <1>5 DEF Done, Parts
<1>8. toHost[k + 1] = req.cmd /\ SubSeq(toHost, 1, k) = x
  <2> HIDE DEF x, k
  <2>1. <<req.cmd>> \in Seq(Item) /\ Len(<<req.cmd>>) = 1
    BY <1>3
  <2>2. /\ Len(toHost) = k + 1 /\ toHost[k + 1] = req.cmd
        /\ \A i \in 1 .. k : toHost[i] = x[i]
    <3> DEFINE y == <<req.cmd>>
    <3>1. y[1] = req.cmd
      OBVIOUS
    <3> HIDE DEF y
    <3>2. y \in Seq(Item) /\ Len(y) = 1 /\ x \in Seq(Item) /\ Len(x) = k
      BY <1>6, <2>1 DEF y
    <3>3. /\ Len(x \o y) = Len(x) + Len(y)
          /\ \A i \in 1 .. Len(x) + Len(y) : (x \o y)[i] = IF i <= Len(x) THEN x[i] ELSE y[i - Len(x)]
      BY ONLY <3>2, ConcatProperties
    <3>4. k + 1 \in 1 .. k + 1 /\ ~(k + 1 <= k) /\ (k + 1) - k = 1
      BY ONLY <1>2
    <3>5. \A i \in 1 .. k : i \in 1 .. k + 1 /\ i <= k
      BY ONLY <1>2
    <3>6. toHost = x \o y
      BY <1>7 DEF y
    <3> QED BY ONLY <3>1, <3>2, <3>3, <3>4, <3>5, <3>6
  <2>3. \A i \in 1 .. k : x[i] \in Item
    BY <1>6, ElementOfSeq
  <2>4. /\ SubSeq(toHost, 1, k) \in Seq(Item) /\ Len(SubSeq(toHost, 1, k)) = k
        /\ \A i \in 1 .. k : SubSeq(toHost, 1, k)[i] = x[i]
    <3>1. k \in Int /\ 1 \in Int /\ (IF 1 <= k THEN k - 1 + 1 ELSE 0) = k /\ 1 .. k - 1 + 1 = 1 .. k
      BY <1>2
    <3>2. \A i \in 1 .. k : toHost[i] \in Item
      BY <2>2, <2>3
    <3>3. /\ SubSeq(toHost, 1, k) \in Seq(Item) /\ Len(SubSeq(toHost, 1, k)) = IF 1 <= k THEN k - 1 + 1 ELSE 0
          /\ \A i \in 1 .. k - 1 + 1 : SubSeq(toHost, 1, k)[i] = toHost[1 + i - 1]
      BY ONLY <3>1, <3>2, SubSeqProperties
    <3>4. \A i \in 1 .. k : 1 + i - 1 = i
      BY <1>2
    <3> QED BY <2>2, <3>1, <3>3, <3>4
  <2>5. SubSeq(toHost, 1, k) = x
    BY <1>6, <2>4, SeqEqual
  <2> QED BY <2>2, <2>5
<1>9. result' = x
  BY <1>1, <1>8 DEF TakeAnswer
<1>10. mem = Store(mem, req.arg0, Written(req))
  <2>1. \A i \in 1 .. Len(Written(req)) : mem[Address(FarAdd(req.arg0, i - 1))] = Written(req)[i]
    BY <1>5 DEF Done, InPlace
  <2> QED BY <1>3, <2>1, StoreSame
<1> QED BY <1>1, <1>3, <1>9, <1>10, GoalIs, LoadIs, ResponseIs DEF Remote!Return

LEMMA ProcessProgresses ==
  ASSUME Orderly, Content, req \in Request => Servable(req), process_cmd
  PROVE  Remote!Progress \/ UNCHANGED Remote!vars
<1>1. UNCHANGED <<req, result>>
  BY DEF process_cmd, ProcessWriteBytes, ProcessWriteWords, ProcessReadBytes, ProcessReadWords, SendWord, WordsDone,
         ProcessFillBytes, ProcessFillWords, ProcessOther, Processed, host
<1>2. CASE Working
  <2>1. req \in Request /\ Servable(req) /\ InHand /\ TypeInv
    BY <1>2 DEF Working, Content, Orderly
  <2>2. << >> \in Seq(Item) /\ Serves(req, << >>)
    BY <2>1, EmptySeq DEF InHand
  <2>3. Stores(req)
    <3>1. \A r \in Request : Servable(r) /\ Serves(r, << >>) => Stores(r)
      BY <2>1, <2>2, ProcessStores
    <3> QED BY <2>1, <2>2, <3>1
  <2>4. mem' \in [Phys -> Item]
    <3>1. [Next]_vars
      BY DEF Next, Board
    <3>2. TypeInv'
      BY <2>1, <3>1, PayloadStep, FlagStep, HeaderStep, BoardStep, HostStep DEF TypeInv
    <3> QED BY <3>2 DEF TypeInv, BoardTypes
  <2> QED BY <1>1, <2>1, <2>3, <2>4, Requests, GoalIs, PhysIs DEF Remote!Progress, Stores
<1>3. CASE ~Working
  <2>1. cmd = CMD_IDLE
    <3>1. pc \in {"process", "words"}
      BY DEF process_cmd, ProcessWriteBytes, ProcessWriteWords, ProcessReadBytes, ProcessReadWords, SendWord, WordsDone,
             ProcessFillBytes, ProcessFillWords, ProcessOther
    <3> QED BY <1>3, <3>1 DEF Orderly, Phase, Quiet, Sent, Heading, Answered
  <2>2. ProcessOther
    BY <2>1 DEF process_cmd, ProcessWriteBytes, ProcessWriteWords, ProcessReadBytes, ProcessReadWords, SendWord, WordsDone,
        ProcessFillBytes, ProcessFillWords, Orderly, Place, CMD_IDLE, CMD_WRITE_BYTES, CMD_WRITE_WORDS, CMD_READ_BYTES,
        CMD_READ_WORDS, CMD_FILL_BYTES, CMD_FILL_WORDS
  <2> QED BY <1>1, <2>2 DEF ProcessOther, Processed, Remote!vars
<1> QED BY <1>2, <1>3

LEMMA CleanStep ==
  ASSUME ServerInv, Recorded, clean, clean', Fits, [Next]_vars
  PROVE  [Remote!Next]_(Remote!vars)
<1>1. Orderly /\ Content /\ (req \in Request => Servable(req))
  BY DEF ServerInv, Framing, Orderly, Recorded, Fits
<1>2. CASE Answer
  BY <1>1, <1>2, AnswerReturns DEF Remote!Next
<1>3. CASE process_cmd
  BY <1>1, <1>3, ProcessProgresses DEF Remote!Next
<1>4. ASSUME NEW r \in Request, DoCmd(r)
      PROVE  Remote!Begin(r)
  BY <1>4 DEF DoCmd, Remote!Begin
<1>5. CASE Timeout \/ EndSession \/ BeginSession
  BY <1>1, <1>5 DEF Timeout, EndSession, BeginSession, Orderly, Phase
<1>6. CASE Poll \/ update_cmd \/ Arrive \/ UNCHANGED vars
  BY <1>6 DEF Poll, update_cmd, Finish, Continue, ReadCommand, ReadHeader, Fill, NoFill, Arrive, vars, host, Remote!vars
<1> QED BY <1>2, <1>3, <1>4, <1>5, <1>6 DEF Next, Board, Pico, Remote!Next

\* CleanSteps: in an orderly session each step on a request that fits is one of
\* RemoteMemory, also between requests that do not.
THEOREM CleanSessionsRefine == Spec => CleanSteps
<1>1. ServerInv /\ Recorded /\ [Next]_vars
      => [clean /\ clean' /\ Fits => [Remote!Next]_(Remote!vars)]_vars
  BY CleanStep
<1> QED BY <1>1, ServerInvHolds, RecordedHolds, PTL DEF Spec, CleanSteps

-----------------------------------------------------------------------------
(***************************************************************************)
(* One session, in which the host waits for its answers: it is orderly as  *)
(* long as it lasts, which is for ever.                                    *)
(***************************************************************************)
Lossless == MaxSessions = 1 /\ ~AllowTimeout

Fresh ==
  /\ sessions = 0 /\ ~up /\ ~comms_active /\ pc = "poll" /\ cmd = CMD_IDLE
  /\ req = NoRequest /\ result = << >>

OneSession == Fresh \/ (sessions > 0 /\ clean /\ up)

LEMMA OneSessionStep ==
  ASSUME Lossless, TypeInv, OneSession, [Next]_vars
  PROVE  OneSession' /\ ((clean /\ clean') \/ UNCHANGED Remote!vars)
<1>1. sessions \in Nat
  BY DEF TypeInv, FlagTypes
<1>2. CASE Fresh
  <2>1. CASE Poll \/ UNCHANGED vars
    BY <1>2, <2>1 DEF Poll, comms_update, Fresh, OneSession, vars, link, header, host, history, Remote!vars
  <2>2. CASE BeginSession
    <3>1. sessions' = 1 /\ up' /\ clean' = whole' /\ whole' = (cmd = CMD_IDLE)
      BY <1>2, <2>2 DEF BeginSession, Fresh
    <3>2. clean'
      BY <1>2, <3>1, Zenon DEF Fresh
    <3> QED BY <2>2, <3>1, <3>2 DEF OneSession, BeginSession, host, Remote!vars
  <2>3. ~update_cmd /\ ~process_cmd /\ ~Pico /\ ~Arrive /\ ~EndSession
    BY <1>2 DEF Fresh, update_cmd, Finish, Continue, ReadCommand, ReadHeader, Fill, NoFill, process_cmd, ProcessWriteBytes,
       ProcessWriteWords, ProcessReadBytes, ProcessReadWords, SendWord, WordsDone, ProcessFillBytes, ProcessFillWords,
       ProcessOther, Pico, DoCmd, Answer, Timeout, Arrive, EndSession
  <2> QED BY <2>1, <2>2, <2>3 DEF Next, Board
<1>3. CASE sessions > 0 /\ clean /\ up
  <2>1. ~Timeout /\ ~BeginSession /\ ~EndSession
    <3>1. ~Timeout
      BY Zenon DEF Lossless, Timeout
    <3>2. MaxSessions = 1
      BY DEF Lossless
    <3>3. ~BeginSession /\ (EndSession => sessions < 1)
      BY <1>3, <3>2 DEF BeginSession, EndSession
    <3> QED BY <1>1, <1>3, <3>1, <3>3
  <2>2. UNCHANGED <<sessions, clean, up>>
    BY <2>1
       DEF Next, Board, Poll, update_cmd, process_cmd, Finish, Continue, ReadCommand, ReadHeader, Fill, NoFill,
           ProcessWriteBytes, ProcessWriteWords, ProcessReadBytes, ProcessReadWords, SendWord, WordsDone,
           ProcessFillBytes, ProcessFillWords, ProcessOther, Processed, history, Pico, DoCmd, Answer, Arrive,
           comms_read, comms_write, link, vars
  <2> QED BY <1>3, <2>2 DEF OneSession
<1> QED BY <1>2, <1>3 DEF OneSession

\* RemoteSpec: without loss and timeouts the board, the link and do_cmd
\* together implement RemoteMemory.
THEOREM ImplementsRemoteMemory == AllServable /\ Lossless /\ Spec => RemoteSpec
<1>1. Init => OneSession /\ Remote!Init
  BY DEF Init, OneSession, Fresh, Remote!Init
<1>2. Lossless /\ ServerInv /\ OneSession /\ [Next]_vars => OneSession'
  BY OneSessionStep DEF ServerInv
<1>3. AllServable /\ Lossless /\ ServerInv /\ Recorded /\ OneSession /\ [Next]_vars => [Remote!Next]_(Remote!vars)
  BY OneSessionStep, CleanStep DEF ServerInv, Fits, AllServable
<1>4. (AllServable => []AllServable) /\ (Lossless => []Lossless)
  OBVIOUS
<1> QED BY <1>1, <1>2, <1>3, <1>4, ServerInvHolds, RecordedHolds, PTL DEF Spec, RemoteSpec, Remote!Spec
=============================================================================
