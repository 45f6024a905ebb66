---------------------------- MODULE CommsProofs -----------------------------
(***************************************************************************)
(* Proofs about Comms for every set of bytes, every counter width, every   *)
(* bound and any way of reopening sessions.                                *)
(*                                                                         *)
(* IndInv is inductive.  Its conjuncts speak of clean sessions only; a     *)
(* session is clean when the board was detached as it began, and then the  *)
(* board is outside every loop (LoopInv) and joins with both counters      *)
(* reset to what the PicoROM starts from (FreshInv).                       *)
(***************************************************************************)
EXTENDS Comms, TLAPS, SequenceTheorems

\* A uint8_t increment stays in range and never yields the same value.
LEMMA IncProperties ==
  \A n \in Count : Inc(n) \in Count /\ Inc(n) # n
<1> SUFFICES ASSUME NEW n \in Count
             PROVE  Inc(n) \in Count /\ Inc(n) # n
  OBVIOUS
<1>1. U8 \in Nat /\ U8 > 1
  BY CommsAssumption
<1>2. CASE n = U8 - 1
  <2>1. Inc(n) = 0
    BY <1>1, <1>2 DEF Inc
  <2> QED
    BY <1>1, <1>2, <2>1 DEF Count
<1>3. CASE n # U8 - 1
  <2>1. n + 1 \in 0 .. U8 - 1
    BY <1>1, <1>3 DEF Count
  <2>2. Inc(n) = n + 1
    BY <1>1, <2>1 DEF Inc
  <2> QED
    BY <2>1, <2>2 DEF Count
<1> QED
  BY <1>2, <1>3

\* The data of a comms_write call is a sequence of bytes.
LEMMA CallData ==
  \A n \in 0 .. MaxCall : \A d \in [1 .. n -> Byte] :
    d \in Seq(Byte) /\ Len(d) = n
<1> SUFFICES ASSUME NEW n \in 0 .. MaxCall, NEW d \in [1 .. n -> Byte]
             PROVE  d \in Seq(Byte) /\ Len(d) = n
  OBVIOUS
<1>1. n \in Nat
  BY CommsAssumption
<1>2. d \in Seq(Byte)
  BY <1>1, SeqDef
<1> QED
  BY <1>1, <1>2, LenProperties

LEMMA AppendByte ==
  \A s \in Seq(Byte), b \in Byte :
    /\ Append(s, b) \in Seq(Byte)
    /\ Len(Append(s, b)) = Len(s) + 1
    /\ Append(s, b)[Len(s) + 1] = b
    /\ \A i \in 1 .. Len(s) : Append(s, b)[i] = s[i]
BY AppendProperties

LEMMA AppendType ==
  \A s \in Seq(Byte), b \in Byte : Append(s, b) \in Seq(Byte)
BY AppendProperties

LEMMA InitTypeOK == Init => TypeOK
<1> SUFFICES ASSUME Init
             PROVE  TypeOK
  OBVIOUS
<1>1. 0 \in Count
  BY CommsAssumption DEF Count
<1>2. << >> \in Seq(Byte)
  BY EmptySeq
<1> QED
  BY <1>1, <1>2 DEF Init, TypeOK, PC

LEMMA CallerTypeOK == TypeOK /\ Caller => TypeOK'
<1> SUFFICES ASSUME TypeOK, Caller
             PROVE  TypeOK'
  OBVIOUS
<1> USE CommsAssumption DEF TypeOK, PC, Call, regs, pico, statics, history
<1>1. CASE CallUpdate
  BY <1>1 DEF CallUpdate
<1>2. ASSUME NEW n \in 1 .. MaxCall, CallRead(n)
      PROVE  TypeOK'
  BY <1>2 DEF CallRead
<1>3. ASSUME NEW n \in 0 .. MaxCall, NEW d \in [1 .. n -> Byte], CallWrite(d)
      PROVE  TypeOK'
  BY <1>3, CallData DEF CallWrite
<1> QED
  BY <1>1, <1>2, <1>3 DEF Caller

LEMMA SignalTypeOK ==
  ASSUME TypeOK, NEW b \in Byte, Signal(b)
  PROVE  signalled' \in Seq(Byte) /\ tSent' \in Seq(Byte)
BY AppendType, Zenon DEF TypeOK, Signal

LEMMA UpdateType ==
  TypeOK /\ Update => magic_valid' \in BOOLEAN /\ comms_active' \in BOOLEAN
BY Zenon DEF TypeOK, Update, comms_check_active, comms_check_magic

LEMMA BoardTypeOK == TypeOK /\ Board => TypeOK'
<1> SUFFICES ASSUME TypeOK, Board
             PROVE  TypeOK'
  OBVIOUS
<1> USE CommsAssumption, IncProperties
    DEF TypeOK, PC, regs, pico, statics, locals, history
<1>1. CASE Update
  <2>1. magic_valid' \in BOOLEAN /\ comms_active' \in BOOLEAN
    BY <1>1, UpdateType
  <2>2. comms_in_seq' \in Count /\ comms_out_seq' \in Count
    <3>1. 0 \in Count
      BY DEF Count
    <3>2. CASE ResetCounters
      BY <3>1, <3>2 DEF ResetCounters
    <3>3. CASE UNCHANGED <<comms_in_seq, comms_out_seq>>
      BY <3>3
    <3> QED
      BY <1>1, <3>2, <3>3 DEF Update
  <2>3. pc' \in PC
    BY <1>1 DEF Update
  <2> QED
    BY <1>1, <2>1, <2>2, <2>3 DEF Update
<1>2. CASE ReadActive
  BY <1>2 DEF ReadActive
<1>3. CASE ReadSeq
  BY <1>3 DEF ReadSeq
<1>4. CASE ReadPending
  BY <1>4 DEF ReadPending
<1>5. CASE TestSeq
  BY <1>5 DEF TestSeq
<1>6. CASE TakeByte
  BY <1>6 DEF TakeByte
<1>7. CASE SendByte
  <2>1. data[sent + 1] \in Byte
    BY <1>7, ElementOfSeq, LenProperties DEF SendByte
  <2>2. signalled' \in Seq(Byte) /\ tSent' \in Seq(Byte)
    BY <1>7, <2>1, SignalTypeOK DEF SendByte
  <2> QED
    BY <1>7, <2>2 DEF SendByte
<1>8. CASE WriteDone
  BY <1>8 DEF WriteDone
<1>9. CASE PollAck
  BY <1>9 DEF PollAck
<1>10. CASE PollActive
  BY <1>10 DEF PollActive
<1> QED
  BY <1>1, <1>2, <1>3, <1>4, <1>5, <1>6, <1>7, <1>8, <1>9, <1>10 DEF Board

LEMMA PicoTypeOK == TypeOK /\ (Host \/ ShowByte \/ AckByte) => TypeOK'
<1> SUFFICES ASSUME TypeOK, Host \/ ShowByte \/ AckByte
             PROVE  TypeOK'
  OBVIOUS
<1> USE CommsAssumption, IncProperties
    DEF TypeOK, PC, regs, pico, statics, locals, history
<1>1. CASE BeginSession
  BY <1>1 DEF BeginSession, Count
<1>2. CASE EndSession
  BY <1>2 DEF EndSession
<1>3. ASSUME NEW b \in Byte, HostSend(b)
      PROVE  TypeOK'
  BY <1>3 DEF HostSend
<1>4. CASE ShowByte
  BY <1>4 DEF ShowByte, pending
<1>5. CASE AckByte
  BY <1>5 DEF AckByte
<1> QED
  BY <1>1, <1>2, <1>3, <1>4, <1>5 DEF Host

LEMMA StutterTypeOK == TypeOK /\ UNCHANGED vars => TypeOK'
BY DEF TypeOK, vars, regs, pico, statics, locals, history

\* Every variable keeps its type; in particular the four counters stay
\* within a uint8_t and a call returns only to a known point.
THEOREM TypeCorrect == Spec => []TypeOK
<1>1. Init => TypeOK
  BY InitTypeOK
<1>2. TypeOK /\ [Next]_vars => TypeOK'
  BY CallerTypeOK, BoardTypeOK, PicoTypeOK, StutterTypeOK, Zenon DEF Next
<1> QED
  BY <1>1, <1>2, PTL DEF Spec

-----------------------------------------------------------------------------
(***************************************************************************)
(* The inductive invariant, action by action.  TypeOK' is TypeCorrect's    *)
(* business, so these lemmas are about the rest of it.                     *)
(***************************************************************************)
LinkInv ==
  /\ ShownInv /\ LoopInv /\ FreshInv /\ InSync /\ ReceiveInv /\ SendInv
  /\ magic_valid => magic
  /\ NoSpuriousSession /\ NoOverrun

LEMMA InitLinkInv == Init => LinkInv
<1> SUFFICES ASSUME Init
             PROVE  LinkInv
  OBVIOUS
<1> USE DEF Init
<1>1. ShownInv
  BY DEF ShownInv
<1>2. LoopInv
  BY DEF LoopInv, InLoop
<1>3. FreshInv /\ SendInv
  BY DEF FreshInv, SendInv, Session
<1>4. InSync
  BY DEF InSync
<1>5. ReceiveInv
  BY DEF ReceiveInv, Begins
<1>6. magic_valid => magic
  OBVIOUS
<1>7. NoSpuriousSession
  BY DEF NoSpuriousSession
<1>8. NoOverrun
  BY DEF NoOverrun
<1> QED
  BY <1>1, <1>2, <1>3, <1>4, <1>5, <1>6, <1>7, <1>8 DEF LinkInv

\* A call only resets the locals; a reader has room for a byte.
LEMMA CallerLinkInv == TypeOK /\ LinkInv /\ Caller => LinkInv'
<1> SUFFICES ASSUME TypeOK, LinkInv, Caller
             PROVE  LinkInv'
  OBVIOUS
<1> USE DEF LinkInv, regs, pico, statics, history
<1> DEFINE CallEffect == /\ pc = "idle" /\ pc' = "update"
                         /\ buffer' = << >>
                         /\ UNCHANGED <<regs, pico, statics, history>>
                         /\ call' = "read" => maxlen' \in Nat \ {0}
<1>1. CallEffect
  <2>1. CASE CallUpdate
    BY <2>1 DEF CallUpdate, Call
  <2>2. ASSUME NEW n \in 1 .. MaxCall, CallRead(n)
        PROVE  CallEffect
    BY <2>2, CommsAssumption DEF CallRead, Call
  <2>3. ASSUME NEW n \in 0 .. MaxCall, NEW d \in [1 .. n -> Byte], CallWrite(d)
        PROVE  CallEffect
    BY <2>3 DEF CallWrite, Call
  <2> QED
    BY <2>1, <2>2, <2>3 DEF Caller
<1>2. ShownInv' /\ FreshInv' /\ InSync' /\ ReceiveInv'
  BY <1>1 DEF ShownInv, FreshInv, InSync, ReceiveInv, Begins, Session
<1>3. LoopInv'
  BY <1>1 DEF LoopInv, InLoop
<1>4. SendInv'
  BY <1>1 DEF SendInv, Session
<1>5. (magic_valid => magic)' /\ NoSpuriousSession'
  BY <1>1 DEF NoSpuriousSession
<1>6. NoOverrun'
  BY <1>1 DEF NoOverrun
<1> QED
  BY <1>2, <1>3, <1>4, <1>5, <1>6

\* comms_update: joining resets the board's counters to where a session the
\* board has not touched starts from; leaving happens only without a session.
LEMMA UpdateLinkInv == TypeOK /\ LinkInv /\ Update => LinkInv'
<1> SUFFICES ASSUME TypeOK, LinkInv, Update
             PROVE  LinkInv'
  OBVIOUS
<1>1. /\ pc = "update" /\ UNCHANGED <<regs, pico, locals, history>>
      /\ comms_active' = comms_check_active
      /\ magic_valid' = (magic_valid \/ (active = 1 /\ comms_check_magic))
  BY DEF Update
<1>0. comms_active' <=> comms_check_active
  BY <1>1, Zenon
<1>2. comms_check_active => Session
  BY Zenon DEF LinkInv, comms_check_active, comms_check_magic, Session
<1>3. Session => comms_check_active
  BY Zenon DEF comms_check_active, comms_check_magic, Session
<1>4. Session' = Session /\ pc' \notin {"ack", "check", "byte"}
  BY <1>1 DEF Update, Session, regs
<1>5. comms_active' /\ ~comms_active => comms_in_seq' = 0 /\ comms_out_seq' = 0
  BY <1>0, SMT DEF Update, ResetCounters
<1>6. comms_active' /\ comms_active => UNCHANGED <<comms_in_seq, comms_out_seq>>
  BY <1>0 DEF Update
<1>7. ShownInv' /\ ReceiveInv'
  BY <1>1 DEF LinkInv, ShownInv, ReceiveInv, Begins, regs, pico, history
<1>8. LoopInv'
  <2>1. InLoop' => comms_active'
    BY <1>0 DEF Update, InLoop
  <2> QED
    BY <1>1, <1>4, <2>1 DEF LinkInv, LoopInv, locals
<1>9. FreshInv'
  BY <1>0, <1>1, <1>3, <1>4 DEF LinkInv, FreshInv, regs, pico, history
<1>10. InSync'
  <2> SUFFICES ASSUME clean, comms_active'
               PROVE  \/ (fetched = shown /\ comms_in_seq = in_seq)'
                      \/ (fetched + 1 = shown /\ in_seq = Inc(comms_in_seq))'
    BY <1>1 DEF InSync, history
  <2>1. CASE comms_active
    BY <1>1, <1>6, <2>1 DEF LinkInv, InSync, regs, pico
  <2>2. CASE ~comms_active
    BY <1>0, <1>1, <1>2, <1>5, <2>2 DEF LinkInv, FreshInv, regs, pico
  <2> QED
    BY <2>1, <2>2
<1>11. SendInv'
  <2> SUFFICES ASSUME clean, Session, comms_active'
               PROVE  (signalled = << >> /\ out_seq = comms_out_seq /\ hRcvd = tSent)'
    BY <1>1, <1>4 DEF SendInv, history
  <2>1. CASE comms_active
    BY <1>1, <1>6, <2>1 DEF LinkInv, SendInv, regs, pico, history
  <2>2. CASE ~comms_active
    BY <1>1, <1>5, <2>2 DEF LinkInv, FreshInv, regs, pico, history
  <2> QED
    BY <2>1, <2>2
<1>12. (magic_valid => magic)' /\ NoSpuriousSession'
  <2>1. magic' = magic
    BY <1>1 DEF regs
  <2> QED
    BY <1>0, <1>1, <1>2, <2>1, Zenon
      DEF LinkInv, NoSpuriousSession, Session, comms_check_magic
<1>13. NoOverrun'
  BY <1>1 DEF LinkInv, NoOverrun, locals
<1> QED
  BY <1>7, <1>8, <1>9, <1>10, <1>11, <1>12, <1>13 DEF LinkInv

\* The tests of comms_read's loop.  A byte is fetched only after in_seq was
\* seen to differ, and then one is waiting.
LEMMA TestLinkInv ==
  TypeOK /\ LinkInv /\ (ReadActive \/ ReadSeq \/ ReadPending \/ TestSeq) => LinkInv'
<1> SUFFICES ASSUME TypeOK, LinkInv,
                    ReadActive \/ ReadSeq \/ ReadPending \/ TestSeq
             PROVE  LinkInv'
  OBVIOUS
<1>1. /\ UNCHANGED <<regs, pico, statics, locals, history>>
      /\ InLoop /\ pc \notin {"ack", "check"} /\ pc' \notin {"ack", "check"}
      /\ pc # "byte"
      /\ pc' = "byte" => comms_in_seq # in_seq
  BY DEF ReadActive, ReadSeq, ReadPending, TestSeq, InLoop
<1>2. ShownInv' /\ FreshInv' /\ InSync' /\ ReceiveInv'
  BY <1>1 DEF LinkInv, ShownInv, FreshInv, InSync, ReceiveInv, Begins, Session,
              regs, pico, statics, locals, history
<1>3. LoopInv'
  BY <1>1 DEF LinkInv, LoopInv, InLoop, InSync, regs, pico, statics, locals, history
<1>4. SendInv'
  BY <1>1 DEF LinkInv, SendInv, Session, regs, pico, statics, locals, history
<1>5. (magic_valid => magic)' /\ NoSpuriousSession' /\ NoOverrun'
  BY <1>1 DEF LinkInv, NoSpuriousSession, NoOverrun, regs, statics, locals
<1> QED
  BY <1>2, <1>3, <1>4, <1>5 DEF LinkInv

\* Fetching a byte: it is the one shown, the next one the host wrote.
LEMMA TakeByteLinkInv == TypeOK /\ LinkInv /\ TakeByte => LinkInv'
<1> SUFFICES ASSUME TypeOK, LinkInv, TakeByte
             PROVE  LinkInv'
  OBVIOUS
<1>1. /\ pc = "byte" /\ pc' \in {"idle", "active"}
      /\ UNCHANGED <<regs, shown, signalled, magic_valid, comms_active,
                     comms_out_seq, call, maxlen, hSent, tSent, hRcvd, clean>>
  BY DEF TakeByte
<1>2. /\ buffer' = Append(buffer, in_byte) /\ rcvd' = Append(rcvd, in_byte)
      /\ fetched' = shown /\ comms_in_seq' = Inc(comms_in_seq)
  BY DEF TakeByte
<1>3. comms_active
  BY <1>1 DEF LinkInv, LoopInv, InLoop
<1>4. clean => shown = fetched + 1 /\ in_seq = Inc(comms_in_seq)
  BY <1>1, <1>3 DEF LinkInv, LoopInv, InSync, TypeOK
<1>5. ShownInv'
  BY <1>1, <1>2 DEF LinkInv, ShownInv, TypeOK, regs
<1>6. LoopInv'
  <2>1. InLoop' => comms_active'
    BY <1>1, <1>3
  <2>2. Len(buffer') = Len(buffer) + 1
    BY <1>2, AppendByte DEF TypeOK
  <2>3. call = "read" /\ pc' # "idle" => Len(buffer') < maxlen
    BY <1>1, <2>2, LenProperties DEF LinkInv, LoopInv, TakeByte, Full, TypeOK
  <2> QED
    BY <1>1, <2>1, <2>3 DEF LoopInv
<1>7. FreshInv' /\ SendInv'
  BY <1>1, <1>3 DEF LinkInv, FreshInv, SendInv, Session, regs
<1>8. InSync'
  BY <1>1, <1>2, <1>4 DEF InSync, regs
<1>9. ReceiveInv'
  <2> SUFFICES ASSUME clean
               PROVE  Len(rcvd') = fetched' /\ Begins(rcvd', hSent)
    BY <1>1 DEF ReceiveInv
  <2>1. Len(rcvd) = fetched /\ Begins(rcvd, hSent)
    BY DEF LinkInv, ReceiveInv
  <2>2. /\ Len(rcvd') = Len(rcvd) + 1
        /\ rcvd'[Len(rcvd) + 1] = in_byte
        /\ \A i \in 1 .. Len(rcvd) : rcvd'[i] = rcvd[i]
    BY <1>2, AppendByte DEF TypeOK
  <2>3. shown = fetched + 1 /\ in_byte = hSent[shown] /\ shown <= Len(hSent)
    BY <1>4 DEF LinkInv, ShownInv, TypeOK
  <2> QED
    BY <1>2, <2>1, <2>2, <2>3 DEF Begins, TypeOK
<1>10. (magic_valid => magic)' /\ NoSpuriousSession'
  BY <1>1 DEF LinkInv, NoSpuriousSession, regs
<1>11. NoOverrun'
  <2>1. Len(buffer') = Len(buffer) + 1
    BY <1>2, AppendByte DEF TypeOK
  <2> QED
    BY <1>1, <2>1, LenProperties DEF LinkInv, LoopInv, NoOverrun, TypeOK
<1> QED
  BY <1>5, <1>6, <1>7, <1>8, <1>9, <1>10, <1>11 DEF LinkInv

\* Signalling a byte: nothing else is under way, so it becomes the one.
LEMMA SendByteLinkInv == TypeOK /\ LinkInv /\ SendByte => LinkInv'
<1> SUFFICES ASSUME TypeOK, LinkInv, SendByte
             PROVE  LinkInv'
  OBVIOUS
<1>1. /\ pc = "send" /\ pc' = "ack" /\ sent < Len(data)
      /\ Signal(data[sent + 1])
      /\ comms_out_seq' = Inc(comms_out_seq)
      /\ UNCHANGED <<regs, shown, fetched, magic_valid, comms_active,
                     comms_in_seq, locals, hSent, rcvd, hRcvd, clean>>
  BY DEF SendByte
<1>2. comms_active /\ comms_active' /\ Session' = Session
  BY <1>1 DEF LinkInv, LoopInv, InLoop, Session, regs
<1>3. ShownInv' /\ InSync' /\ ReceiveInv'
  BY <1>1 DEF LinkInv, ShownInv, InSync, ReceiveInv, Begins, regs
<1>4. LoopInv' /\ FreshInv'
  BY <1>1, <1>2 DEF LinkInv, LoopInv, FreshInv, locals
<1>5. SendInv'
  <2> SUFFICES ASSUME clean, Session
               PROVE  /\ Len(signalled') = 1 /\ comms_out_seq' = Inc(out_seq)
                      /\ tSent' = Append(hRcvd, signalled'[1])
    BY <1>1, <1>2 DEF SendInv, regs
  <2>1. signalled = << >> /\ out_seq = comms_out_seq /\ hRcvd = tSent
    BY <1>1, <1>2 DEF LinkInv, SendInv
  <2>2. /\ signalled' = Append(signalled, data[sent + 1])
        /\ tSent' = Append(tSent, data[sent + 1])
    BY <1>1 DEF Signal
  <2>3. Len(signalled') = 1 /\ signalled'[1] = data[sent + 1]
    BY <2>1, <2>2
  <2> QED
    BY <1>1, <2>1, <2>2, <2>3
<1>6. (magic_valid => magic)' /\ NoSpuriousSession' /\ NoOverrun'
  BY <1>1 DEF LinkInv, NoSpuriousSession, NoOverrun, regs, locals
<1> QED
  BY <1>3, <1>4, <1>5, <1>6 DEF LinkInv

\* The inner loop is left only when out_seq has followed, which tells that
\* the byte was taken, or when the session is gone.
LEMMA PollLinkInv ==
  TypeOK /\ LinkInv /\ (WriteDone \/ PollAck \/ PollActive) => LinkInv'
<1> SUFFICES ASSUME TypeOK, LinkInv, WriteDone \/ PollAck \/ PollActive
             PROVE  LinkInv'
  OBVIOUS
<1>1. /\ UNCHANGED <<regs, pico, statics, call, maxlen, data, buffer, history>>
      /\ InLoop /\ pc' \notin {"byte", "update"}
      /\ \/ pc' \in {"ack", "check"}
         \/ pc \notin {"ack", "check"}
         \/ out_seq = comms_out_seq
         \/ active = 0
  BY DEF WriteDone, PollAck, Acked, PollActive, InLoop, locals
<1>2. ShownInv' /\ FreshInv' /\ InSync' /\ ReceiveInv'
  BY <1>1 DEF LinkInv, ShownInv, FreshInv, InSync, ReceiveInv, Begins, Session,
              regs, pico, statics, history
<1>3. LoopInv'
  BY <1>1 DEF LinkInv, LoopInv, InLoop, statics
<1>4. SendInv'
  <2> SUFFICES ASSUME clean, Session, comms_active, pc' \notin {"ack", "check"}
               PROVE  signalled = << >> /\ out_seq = comms_out_seq /\ hRcvd = tSent
    BY <1>1 DEF LinkInv, SendInv, Session, regs, pico, statics, history
  <2>1. active = 1
    BY DEF Session
  <2>2. out_seq = comms_out_seq => comms_out_seq # Inc(out_seq)
    BY IncProperties DEF TypeOK
  <2> QED
    BY <1>1, <2>1, <2>2 DEF LinkInv, SendInv
<1>5. (magic_valid => magic)' /\ NoSpuriousSession' /\ NoOverrun'
  BY <1>1 DEF LinkInv, NoSpuriousSession, NoOverrun, regs, statics
<1> QED
  BY <1>2, <1>3, <1>4, <1>5 DEF LinkInv

\* A session begins.  If it is clean the board is outside every loop.
LEMMA BeginSessionLinkInv == TypeOK /\ LinkInv /\ BeginSession => LinkInv'
<1> SUFFICES ASSUME TypeOK, LinkInv, BeginSession
             PROVE  LinkInv'
  OBVIOUS
<1>1. /\ magic' = TRUE /\ active' = 1 /\ in_seq' = 0 /\ out_seq' = 0
      /\ shown' = 0 /\ fetched' = 0 /\ signalled' = << >>
      /\ hSent' = << >> /\ rcvd' = << >> /\ tSent' = << >> /\ hRcvd' = << >>
      /\ clean' = ~comms_active
      /\ UNCHANGED <<in_byte, statics, pc, locals>>
  BY DEF BeginSession
<1>2. clean' => ~comms_active /\ pc \in {"idle", "update"}
  BY <1>1, Zenon DEF LinkInv, LoopInv, InLoop
<1>3. ShownInv' /\ ReceiveInv'
  BY <1>1 DEF ShownInv, ReceiveInv, Begins
<1>4. LoopInv'
  BY <1>1, <1>2 DEF LinkInv, LoopInv, InLoop, statics, locals
<1>5. FreshInv' /\ InSync' /\ SendInv'
  BY <1>1, <1>2 DEF FreshInv, InSync, SendInv, Session, statics
<1>6. (magic_valid => magic)' /\ NoSpuriousSession'
  BY <1>1 DEF LinkInv, NoSpuriousSession, statics
<1>7. NoOverrun'
  BY <1>1 DEF LinkInv, NoOverrun, locals
<1> QED
  BY <1>3, <1>4, <1>5, <1>6, <1>7 DEF LinkInv

LEMMA EndSessionLinkInv == TypeOK /\ LinkInv /\ EndSession => LinkInv'
<1> SUFFICES ASSUME TypeOK, LinkInv, EndSession
             PROVE  LinkInv'
  OBVIOUS
<1>1. /\ active' = 0
      /\ UNCHANGED <<magic, in_byte, in_seq, out_seq, shown, fetched,
                     statics, pc, locals, history>>
  BY DEF EndSession
<1>2. ShownInv' /\ LoopInv' /\ InSync' /\ ReceiveInv'
  BY <1>1 DEF LinkInv, ShownInv, LoopInv, InLoop, InSync, ReceiveInv, Begins,
              statics, locals, history
<1>3. FreshInv' /\ SendInv'
  BY <1>1 DEF FreshInv, SendInv, Session
<1>4. (magic_valid => magic)' /\ NoSpuriousSession' /\ NoOverrun'
  BY <1>1 DEF LinkInv, NoSpuriousSession, NoOverrun, statics, locals
<1> QED
  BY <1>2, <1>3, <1>4 DEF LinkInv

LEMMA HostSendLinkInv ==
  ASSUME TypeOK, LinkInv, NEW b \in Byte, HostSend(b)
  PROVE  LinkInv'
<1>1. /\ hSent' = Append(hSent, b)
      /\ UNCHANGED <<regs, pico, statics, pc, locals, rcvd, tSent, hRcvd, clean>>
  BY DEF HostSend
<1>2. /\ Len(hSent') = Len(hSent) + 1
      /\ \A i \in 1 .. Len(hSent) : hSent'[i] = hSent[i]
  BY <1>1, AppendByte DEF TypeOK
<1>3. ShownInv'
  BY <1>1, <1>2 DEF LinkInv, ShownInv, TypeOK, regs, pico
<1>4. ReceiveInv'
  BY <1>1, <1>2, LenProperties DEF LinkInv, ReceiveInv, Begins, TypeOK, pico
<1>5. LoopInv' /\ FreshInv' /\ InSync' /\ SendInv'
  BY <1>1 DEF LinkInv, LoopInv, InLoop, FreshInv, InSync, SendInv, Session,
              regs, pico, statics, locals
<1>6. (magic_valid => magic)' /\ NoSpuriousSession' /\ NoOverrun'
  BY <1>1 DEF LinkInv, NoSpuriousSession, NoOverrun, regs, statics, locals
<1> QED
  BY <1>3, <1>4, <1>5, <1>6 DEF LinkInv

LEMMA ShowByteLinkInv == TypeOK /\ LinkInv /\ ShowByte => LinkInv'
<1> SUFFICES ASSUME TypeOK, LinkInv, ShowByte
             PROVE  LinkInv'
  OBVIOUS
<1>1. /\ Session /\ shown < Len(hSent) /\ fetched = shown
      /\ in_byte' = hSent[shown + 1] /\ in_seq' = Inc(in_seq)
      /\ shown' = shown + 1
      /\ UNCHANGED <<magic, active, out_seq, fetched, signalled,
                     statics, pc, locals, history>>
  BY DEF ShowByte, pending
<1>2. ShownInv'
  BY <1>1, LenProperties DEF LinkInv, ShownInv, TypeOK, history
<1>3. LoopInv'
  BY <1>1 DEF LinkInv, LoopInv, InLoop, TypeOK, statics, locals, history
<1>4. FreshInv'
  BY <1>1 DEF LinkInv, FreshInv, Session, TypeOK, statics, history
<1>5. InSync'
  BY <1>1 DEF LinkInv, InSync, TypeOK, statics, history
<1>6. ReceiveInv' /\ SendInv'
  BY <1>1 DEF LinkInv, ReceiveInv, Begins, SendInv, Session, statics, history
<1>7. (magic_valid => magic)' /\ NoSpuriousSession' /\ NoOverrun'
  BY <1>1 DEF LinkInv, NoSpuriousSession, NoOverrun, statics, locals
<1> QED
  BY <1>2, <1>3, <1>4, <1>5, <1>6, <1>7 DEF LinkInv

\* The byte under way arrives; the counter it moves makes the two agree.
LEMMA AckByteLinkInv == TypeOK /\ LinkInv /\ AckByte => LinkInv'
<1> SUFFICES ASSUME TypeOK, LinkInv, AckByte
             PROVE  LinkInv'
  OBVIOUS
<1>1. /\ Session /\ signalled # << >>
      /\ hRcvd' = Append(hRcvd, Head(signalled))
      /\ signalled' = Tail(signalled) /\ out_seq' = Inc(out_seq)
      /\ UNCHANGED <<magic, active, in_byte, in_seq, shown, fetched,
                     statics, pc, locals, hSent, rcvd, tSent, clean>>
  BY DEF AckByte
<1>2. ShownInv' /\ LoopInv' /\ InSync' /\ ReceiveInv'
  BY <1>1 DEF LinkInv, ShownInv, LoopInv, InLoop, InSync, ReceiveInv, Begins,
              statics, locals
<1>3. FreshInv'
  BY <1>1 DEF LinkInv, FreshInv, Session, statics
<1>4. SendInv'
  <2> SUFFICES ASSUME clean, Session, comms_active
               PROVE  /\ signalled' = << >> /\ out_seq' = comms_out_seq
                      /\ hRcvd' = tSent
    BY <1>1 DEF SendInv, Session, statics
  <2>1. /\ Len(signalled) = 1 /\ comms_out_seq = Inc(out_seq)
        /\ tSent = Append(hRcvd, signalled[1])
    BY <1>1 DEF LinkInv, SendInv
  <2>2. Head(signalled) = signalled[1] /\ Tail(signalled) = << >>
    <3>1. signalled \in Seq(Byte) /\ signalled # << >>
      BY <1>1 DEF TypeOK
    <3>2. Head(signalled) = signalled[1]
      BY <3>1
    <3>3. Tail(signalled) \in Seq(Byte) /\ Len(Tail(signalled)) = 0
      BY <2>1, <3>1, HeadTailProperties
    <3> QED
      BY <3>2, <3>3, EmptySeq
  <2> QED
    BY <1>1, <2>1, <2>2
<1>5. (magic_valid => magic)' /\ NoSpuriousSession' /\ NoOverrun'
  BY <1>1 DEF LinkInv, NoSpuriousSession, NoOverrun, statics, locals
<1> QED
  BY <1>2, <1>3, <1>4, <1>5 DEF LinkInv

LEMMA StutterLinkInv == LinkInv /\ UNCHANGED vars => LinkInv'
BY DEF LinkInv, ShownInv, LoopInv, InLoop, FreshInv, InSync, ReceiveInv,
       SendInv, Begins, Session, NoSpuriousSession, NoOverrun,
       vars, regs, pico, statics, locals, history

\* IndInv holds in every reachable state: the strengthening from which the
\* properties of the link follow.
THEOREM IndInvHolds == Spec => []IndInv
<1>1. IndInv <=> TypeOK /\ LinkInv
  BY Zenon DEF IndInv, LinkInv
<1>2. Init => TypeOK /\ LinkInv
  BY InitTypeOK, InitLinkInv
<1>3. TypeOK /\ LinkInv /\ [Next]_vars => (TypeOK /\ LinkInv)'
  <2> SUFFICES ASSUME TypeOK, LinkInv, [Next]_vars
               PROVE  TypeOK' /\ LinkInv'
    OBVIOUS
  <2>1. TypeOK'
    BY CallerTypeOK, BoardTypeOK, PicoTypeOK, StutterTypeOK, Zenon DEF Next
  <2>2. LinkInv'
    <3>1. CASE Caller
      BY <3>1, CallerLinkInv
    <3>2. CASE Board
      BY <3>2, UpdateLinkInv, TestLinkInv, TakeByteLinkInv, SendByteLinkInv,
         PollLinkInv, Zenon DEF Board
    <3>3. CASE Host \/ ShowByte \/ AckByte
      BY <3>3, BeginSessionLinkInv, EndSessionLinkInv, HostSendLinkInv,
         ShowByteLinkInv, AckByteLinkInv, Zenon DEF Host
    <3>4. CASE UNCHANGED vars
      BY <3>4, StutterLinkInv
    <3> QED
      BY <3>1, <3>2, <3>3, <3>4, Zenon DEF Next
  <2> QED
    BY <2>1, <2>2
<1> QED
  BY <1>1, <1>2, <1>3, PTL DEF Spec

\* comms_read hands out, in every clean session, an initial part of what the
\* host wrote in it.
THEOREM ReadsInOrder == Spec => []InOrder
<1>1. IndInv => InOrder
  BY DEF IndInv, ReceiveInv, InOrder
<1> QED
  BY <1>1, IndInvHolds, PTL

\* Outside comms_write's inner loop every byte signalled in a clean session
\* has been taken by the PicoROM.
THEOREM WritesSynchronously == Spec => []WriteSynchronous
<1>1. IndInv => WriteSynchronous
  <2> SUFFICES ASSUME IndInv, clean, Session, pc \notin {"ack", "check"}
               PROVE  hRcvd = tSent /\ signalled = << >>
    BY DEF WriteSynchronous
  <2>1. CASE comms_active
    BY <2>1 DEF IndInv, SendInv
  <2>2. CASE ~comms_active
    BY <2>2 DEF IndInv, FreshInv
  <2> QED
    BY <2>1, <2>2
<1> QED
  BY <1>1, IndInvHolds, PTL

\* No ROM image makes the board take part in a session that nobody opened.
THEOREM NeverSpurious == Spec => []NoSpuriousSession
<1>1. IndInv => NoSpuriousSession
  BY DEF IndInv
<1> QED
  BY <1>1, IndInvHolds, PTL

\* comms_read stays within the buffer it was given, however sessions end and
\* begin under it.
THEOREM NeverOverruns == Spec => []NoOverrun
<1>1. IndInv => NoOverrun
  BY DEF IndInv
<1> QED
  BY <1>1, IndInvHolds, PTL

-----------------------------------------------------------------------------
(***************************************************************************)
(* Refinement.  If the host reopens a session only after the board has     *)
(* left the last one, every session is clean and every step of comms.c is  *)
(* a step of ByteStream or leaves the streams alone.                       *)
(***************************************************************************)
AlwaysClean == GapSeen => clean

LEMMA AlwaysCleanHolds == Spec => []AlwaysClean
<1>1. Init => AlwaysClean
  BY DEF Init, AlwaysClean
<1>2. AlwaysClean /\ [Next]_vars => AlwaysClean'
  <2> SUFFICES ASSUME AlwaysClean, [Next]_vars, GapSeen
               PROVE  clean'
    BY DEF AlwaysClean
  <2>1. CASE BeginSession
    BY <2>1, Zenon DEF BeginSession
  <2>2. CASE ~BeginSession
    <3>1. clean' = clean
      BY <2>2, Zenon
        DEF Next, Caller, CallUpdate, CallRead, CallWrite, Call,
            Board, Update, ReadActive, ReadSeq, ReadPending, TestSeq, TakeByte,
            SendByte, WriteDone, PollAck, PollActive,
            Host, EndSession, HostSend, ShowByte, AckByte, vars, history
    <3> QED
      BY <3>1 DEF AlwaysClean
  <2> QED
    BY <2>1, <2>2
<1> QED
  BY <1>1, <1>2, PTL DEF Spec

\* The steps that the streams do not see.
LEMMA Invisible ==
  UNCHANGED <<magic, active, comms_active, hSent, rcvd, tSent, hRcvd>>
    => UNCHANGED Stream!vars
BY DEF Stream!vars, Session

LEMMA UpdateRefines ==
  TypeOK /\ LinkInv /\ Update => [Stream!Next]_(Stream!vars)
<1> SUFFICES ASSUME TypeOK, LinkInv, Update
             PROVE  [Stream!Next]_(Stream!vars)
  OBVIOUS
<1>1. /\ UNCHANGED <<magic, active, hSent, rcvd, tSent, hRcvd>>
      /\ Session' = Session
  BY DEF Update, Session, regs, history
<1>2. comms_active' <=> comms_check_active
  BY Zenon DEF Update
<1>3. comms_check_active <=> Session
  BY Zenon DEF LinkInv, comms_check_active, comms_check_magic, Session
<1>4. comms_active \in BOOLEAN /\ comms_active' \in BOOLEAN
  BY UpdateType, Zenon DEF TypeOK
<1>5. CASE comms_active' = comms_active
  BY <1>1, <1>5, Invisible
<1>6. CASE comms_active' # comms_active
  <2>1. CASE Session
    <3>1. comms_active' = TRUE /\ ~comms_active
      BY <1>2, <1>3, <1>4, <1>6, <2>1
    <3>2. Stream!Attach
      BY <1>1, <2>1, <3>1 DEF Stream!Attach
    <3> QED
      BY <3>2 DEF Stream!Next
  <2>2. CASE ~Session
    <3>1. comms_active' = FALSE /\ comms_active
      BY <1>2, <1>3, <1>4, <1>6, <2>2
    <3>2. Stream!Detach
      BY <1>1, <2>2, <3>1 DEF Stream!Detach
    <3> QED
      BY <3>2 DEF Stream!Next
  <2> QED
    BY <2>1, <2>2
<1> QED
  BY <1>5, <1>6

LEMMA TakeByteRefines ==
  TypeOK /\ LinkInv /\ clean /\ TakeByte => Stream!Next
<1> SUFFICES ASSUME TypeOK, LinkInv, clean, TakeByte
             PROVE  Stream!BoardReceive
  BY DEF Stream!Next
<1>1. comms_active /\ shown = fetched + 1 /\ Len(rcvd) = fetched
  BY DEF TakeByte, LinkInv, LoopInv, InLoop, ReceiveInv
<1>2. shown <= Len(hSent) /\ in_byte = hSent[Len(rcvd) + 1]
  BY <1>1 DEF LinkInv, ShownInv, TypeOK
<1>3. /\ rcvd' = Append(rcvd, in_byte)
      /\ UNCHANGED <<magic, active, comms_active, hSent, tSent, hRcvd>>
  BY DEF TakeByte, regs
<1>4. Len(rcvd) < Len(hSent)
  BY <1>1, <1>2, LenProperties DEF TypeOK
<1> QED
  BY <1>1, <1>2, <1>3, <1>4 DEF Stream!BoardReceive, Session

LEMMA SendByteRefines ==
  TypeOK /\ LinkInv /\ clean /\ SendByte => [Stream!Next]_(Stream!vars)
<1> SUFFICES ASSUME TypeOK, LinkInv, clean, SendByte
             PROVE  [Stream!Next]_(Stream!vars)
  OBVIOUS
<1>1. /\ pc = "send" /\ comms_active
      /\ UNCHANGED <<magic, active, comms_active, hSent, rcvd, hRcvd>>
  BY DEF SendByte, LinkInv, LoopInv, InLoop, regs
<1>2. CASE ~Session
  BY <1>1, <1>2, Invisible DEF SendByte, Signal
<1>3. CASE Session
  <2>1. data[sent + 1] \in Byte
    BY ElementOfSeq, LenProperties DEF SendByte, TypeOK
  <2>2. tSent' = Append(tSent, data[sent + 1])
    BY <1>3 DEF SendByte, Signal
  <2>3. Len(tSent) = Len(hRcvd)
    BY <1>1, <1>3 DEF LinkInv, SendInv
  <2>4. Stream!BoardSend(data[sent + 1])
    BY <1>1, <1>3, <2>2, <2>3 DEF Stream!BoardSend, Session
  <2> QED
    BY <2>1, <2>4 DEF Stream!Next
<1> QED
  BY <1>2, <1>3

LEMMA AckByteRefines ==
  TypeOK /\ LinkInv /\ clean /\ AckByte => Stream!Next
<1> SUFFICES ASSUME TypeOK, LinkInv, clean, AckByte
             PROVE  Stream!HostReceive
  BY DEF Stream!Next
<1>1. /\ Session /\ signalled # << >>
      /\ hRcvd' = Append(hRcvd, Head(signalled))
      /\ UNCHANGED <<magic, active, comms_active, hSent, rcvd, tSent>>
  BY DEF AckByte, statics
<1>2. comms_active
  BY <1>1 DEF LinkInv, FreshInv
<1>3. tSent = Append(hRcvd, signalled[1])
  BY <1>1, <1>2 DEF LinkInv, SendInv
<1>4. Head(signalled) = signalled[1]
  BY <1>1 DEF TypeOK
<1>5. signalled[1] \in Byte
  BY <1>1, EmptySeq, ElementOfSeq DEF TypeOK
<1>6. Len(hRcvd) < Len(tSent) /\ tSent[Len(hRcvd) + 1] = signalled[1]
  BY <1>3, <1>5, AppendByte, LenProperties DEF TypeOK
<1> QED
  BY <1>1, <1>4, <1>6 DEF Stream!HostReceive, Session

LEMMA HostRefines ==
  TypeOK /\ LinkInv /\ GapSeen /\ Host => Stream!Next
<1> SUFFICES ASSUME TypeOK, LinkInv, GapSeen, Host
             PROVE  Stream!Next
  OBVIOUS
<1>1. CASE BeginSession
  <2>1. Session' /\ ~Session /\ ~comms_active
    BY <1>1 DEF BeginSession, Session
  <2>2. Stream!Begin
    BY <1>1, <2>1 DEF Stream!Begin, BeginSession, statics
  <2> QED
    BY <2>2 DEF Stream!Next
<1>2. CASE EndSession
  <2>1. Session /\ Session' = FALSE
    BY <1>2 DEF EndSession, Session
  <2>2. Stream!End
    BY <1>2, <2>1 DEF Stream!End, EndSession, statics, history
  <2> QED
    BY <2>2 DEF Stream!Next
<1>3. ASSUME NEW b \in Byte, HostSend(b)
      PROVE  Stream!Next
  <2>1. Session /\ Session' = Session
    BY <1>3 DEF HostSend, Session, regs
  <2>2. Stream!HostSend(b)
    BY <1>3, <2>1 DEF Stream!HostSend, HostSend, statics
  <2> QED
    BY <2>2 DEF Stream!Next
<1> QED
  BY <1>1, <1>2, <1>3 DEF Host

\* comms.c implements the lossless streams of ByteStream when no session is
\* reopened behind the board's back.
THEOREM ImplementsByteStream == GapSeen /\ Spec => StreamSpec
<1>1. Init => Stream!Init
  BY DEF Init, Stream!Init, Session
<1>2. GapSeen /\ IndInv /\ AlwaysClean /\ [Next]_vars => [Stream!Next]_(Stream!vars)
  <2> SUFFICES ASSUME GapSeen, IndInv, AlwaysClean, [Next]_vars
               PROVE  [Stream!Next]_(Stream!vars)
    OBVIOUS
  <2>1. TypeOK /\ LinkInv /\ clean
    BY Zenon DEF IndInv, LinkInv, AlwaysClean
  <2>2. CASE Update
    BY <2>1, <2>2, UpdateRefines
  <2>3. CASE TakeByte
    BY <2>1, <2>3, TakeByteRefines
  <2>4. CASE SendByte
    BY <2>1, <2>4, SendByteRefines
  <2>5. CASE AckByte
    BY <2>1, <2>5, AckByteRefines
  <2>6. CASE Host
    BY <2>1, <2>6, HostRefines
  <2>7. CASE UNCHANGED vars \/ Caller \/ ShowByte
    BY <2>7, Invisible
      DEF vars, Caller, CallUpdate, CallRead, CallWrite, Call, ShowByte,
          regs, statics, history
  <2>8. CASE \/ ReadActive \/ ReadSeq \/ ReadPending \/ TestSeq
             \/ WriteDone \/ PollAck \/ PollActive
    BY <2>8, Invisible
      DEF ReadActive, ReadSeq, ReadPending, TestSeq, WriteDone, PollAck,
          PollActive, regs, statics, history
  <2> QED
    BY <2>2, <2>3, <2>4, <2>5, <2>6, <2>7, <2>8, Zenon DEF Next, Board
<1>3. GapSeen => []GapSeen
  OBVIOUS
<1> QED
  BY <1>1, <1>2, <1>3, IndInvHolds, AlwaysCleanHolds, PTL
     DEF Spec, StreamSpec, Stream!Spec
=============================================================================
