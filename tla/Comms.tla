------------------------------- MODULE Comms --------------------------------
(***************************************************************************)
(* The serial link of src/comms.c, at the granularity of one access to the *)
(* memory-mapped CommsRegisters per step, together with the PicoROM that   *)
(* owns those registers.                                                   *)
(*                                                                         *)
(* The board cannot write to a ROM socket.  It acknowledges an incoming    *)
(* byte by reading in_byte, and it sends the byte b by reading             *)
(* out_area[b]; the PicoROM sees both reads.  The two 8-bit counters       *)
(* in_seq and out_seq tell the board when there is a new byte and when its *)
(* own byte has been taken, and comms_in_seq and comms_out_seq are its     *)
(* private copies of them.  Nothing tells the board that a session has     *)
(* ended and a new one has begun except the register `active', which it    *)
(* only looks at from time to time.                                        *)
(*                                                                         *)
(* The PicoROM firmware and the host library are not in this repository:   *)
(* their actions are inferred from what comms.c and bin/comms.py expect.   *)
(***************************************************************************)
EXTENDS Integers, Sequences

CONSTANTS
  Byte,        \* the values of a byte
  U8,          \* number of values of a uint8_t counter (256)
  MaxTraffic,  \* bound on the bytes each side sends in a session
  MaxCall,     \* bound on the length argument of a call
  GapSeen      \* TRUE: the host leaves a closed session alone until the
               \* board has noticed; FALSE: it may reopen it at once

ASSUME CommsAssumption ==
  /\ Byte # {}
  /\ U8 \in Nat /\ U8 > 1
  /\ MaxTraffic \in Nat
  /\ MaxCall \in Nat \ {0}
  /\ GapSeen \in BOOLEAN

VARIABLES
  \* the registers (CommsRegisters; `pending' is an operator below)
  magic, active, in_byte, in_seq, out_seq,
  \* the PicoROM: bytes shown in in_byte, bytes it saw being fetched, and the
  \* bytes signalled through out_area that it has not acknowledged
  shown, fetched, signalled,
  \* the static variables of comms.c
  magic_valid, comms_active, comms_in_seq, comms_out_seq,
  \* the call in progress: program counter, which function, its argument and
  \* its local variables (`buffer' holds the first `len' bytes)
  pc, call, maxlen, data, sent, buffer,
  \* history of the session: what each side wrote and what arrived, and
  \* whether the board had left the session before when this one began
  hSent, rcvd, tSent, hRcvd, clean

regs    == <<magic, active, in_byte, in_seq, out_seq>>
pico    == <<shown, fetched, signalled>>
statics == <<magic_valid, comms_active, comms_in_seq, comms_out_seq>>
locals  == <<call, maxlen, data, sent, buffer>>
history == <<hSent, rcvd, tSent, hRcvd, clean>>
vars    == <<regs, pico, statics, pc, locals, history>>

Count == 0 .. U8 - 1
IncNoWrap(n) == n + 1       \* mutant: a wider counter
Inc(n) == (n + 1) % U8      \* n++ on a uint8_t

PC == {"idle", "update", "active", "seq", "pending", "test", "byte",
       "send", "ack", "check"}

\* A session is open: start_comms has installed the register block.
Session == magic /\ active = 1

\* The firmware raises `pending' while it holds bytes it has not shown yet.
pending == shown < Len(hSent)

Init ==
  \* Before the first session the socket shows whatever the ROM image holds.
  /\ magic = FALSE
  /\ active \in {0, 1}
  /\ in_byte \in Byte
  /\ in_seq \in Count /\ out_seq \in Count
  /\ shown = 0 /\ fetched = 0 /\ signalled = << >>
  /\ magic_valid = FALSE /\ comms_active = FALSE
  /\ comms_in_seq = 0 /\ comms_out_seq = 0
  /\ pc = "idle" /\ call = "update"
  /\ maxlen = 0 /\ data = << >> /\ sent = 0 /\ buffer = << >>
  /\ hSent = << >> /\ rcvd = << >> /\ tSent = << >> /\ hRcvd = << >>
  /\ clean = TRUE

-----------------------------------------------------------------------------
(***************************************************************************)
(* The callers: main and update_cmd in main.c.  They never ask for zero    *)
(* bytes (update_cmd: 1, 10 - pos, a positive min), but may write none.  *)
(***************************************************************************)
Call(f) ==
  /\ pc = "idle"
  /\ pc' = "update"
  /\ call' = f
  /\ sent' = 0
  /\ buffer' = << >>
  /\ UNCHANGED <<regs, pico, statics, history>>

CallUpdate ==
  /\ Call("update")
  /\ UNCHANGED <<maxlen, data>>

CallRead(n) ==
  /\ Call("read")
  /\ maxlen' = n
  /\ UNCHANGED data

CallWrite(d) ==
  /\ Call("write")
  /\ Len(tSent) + Len(d) <= MaxTraffic
  /\ data' = d
  /\ UNCHANGED maxlen

-----------------------------------------------------------------------------
(***************************************************************************)
(* comms_update, which every call starts with.  The magic bytes are only   *)
(* looked at until they have been seen once.                               *)
(***************************************************************************)
CheckMagicBlind == TRUE   \* mutant: the magic check forgotten

comms_check_magic == magic_valid \/ magic

comms_check_active == active = 1 /\ comms_check_magic

ResetCountersOutOnly == comms_out_seq' = 0 /\ UNCHANGED comms_in_seq  \* mutant

ResetCountersInOnly == comms_in_seq' = 0 /\ UNCHANGED comms_out_seq   \* mutant

ResetCounters == comms_in_seq' = 0 /\ comms_out_seq' = 0

Update ==
  /\ pc = "update"
  /\ magic_valid' = (magic_valid \/ (active = 1 /\ comms_check_magic))
  /\ comms_active' = comms_check_active
  /\ IF comms_check_active /\ ~comms_active
       THEN ResetCounters
       ELSE UNCHANGED <<comms_in_seq, comms_out_seq>>
  /\ pc' = IF ~comms_check_active \/ call = "update" THEN "idle"
           ELSE IF call = "read" THEN "active" ELSE "send"
  /\ UNCHANGED <<regs, pico, locals, history>>

-----------------------------------------------------------------------------
(***************************************************************************)
(* comms_read: the condition of the while loop reads active, in_seq and    *)
(* pending in that order, the body reads in_seq again and then in_byte.    *)
(***************************************************************************)
ReadActive ==
  /\ pc = "active"
  /\ pc' = IF active = 1 THEN "seq" ELSE "idle"
  /\ UNCHANGED <<regs, pico, statics, locals, history>>

ReadSeq ==
  /\ pc = "seq"
  /\ pc' = IF comms_in_seq # in_seq THEN "test" ELSE "pending"
  /\ UNCHANGED <<regs, pico, statics, locals, history>>

ReadPending ==
  /\ pc = "pending"
  /\ pc' = IF pending THEN "test" ELSE "idle"
  /\ UNCHANGED <<regs, pico, statics, locals, history>>

TestSeqSkipped ==   \* mutant: the body trusts the loop condition
  /\ pc = "test"
  /\ pc' = "byte"
  /\ UNCHANGED <<regs, pico, statics, locals, history>>

TestSeq ==
  /\ pc = "test"
  /\ pc' = IF comms_in_seq # in_seq THEN "byte" ELSE "active"
  /\ UNCHANGED <<regs, pico, statics, locals, history>>

FullLate == Len(buffer') > maxlen   \* mutant: the limit tested too late

Full == Len(buffer') = maxlen

TakeByte ==
  /\ pc = "byte"
  /\ buffer' = Append(buffer, in_byte)
  /\ rcvd' = Append(rcvd, in_byte)
  /\ fetched' = shown
  /\ comms_in_seq' = Inc(comms_in_seq)
  /\ pc' = IF Full THEN "idle" ELSE "active"
  /\ UNCHANGED <<regs, shown, signalled, magic_valid, comms_active,
                 comms_out_seq, call, maxlen, data, sent, hSent, tSent, hRcvd, clean>>

-----------------------------------------------------------------------------
(***************************************************************************)
(* comms_write: signal a byte, count it, then poll out_seq.  When active   *)
(* drops only the inner loop is left: the remaining bytes are still        *)
(* signalled, to nobody.                                                   *)
(***************************************************************************)
Signal(b) ==
  \/ /\ Session
     /\ signalled' = Append(signalled, b)
     /\ tSent' = Append(tSent, b)
  \/ ~Session /\ UNCHANGED <<signalled, tSent>>

SendByte ==
  /\ pc = "send" /\ sent < Len(data)
  /\ Signal(data[sent + 1])
  /\ comms_out_seq' = Inc(comms_out_seq)
  /\ pc' = "ack"
  /\ UNCHANGED <<regs, shown, fetched, magic_valid, comms_active,
                 comms_in_seq, locals, hSent, rcvd, hRcvd, clean>>

WriteDone ==
  /\ pc = "send" /\ sent >= Len(data)
  /\ pc' = "idle"
  /\ UNCHANGED <<regs, pico, statics, locals, history>>

AckedBackwards == out_seq = comms_out_seq \/ Inc(out_seq) = comms_out_seq  \* mutant

Acked == out_seq = comms_out_seq

PollAck ==
  /\ pc = "ack"
  /\ IF Acked
       THEN sent' = sent + 1 /\ pc' = "send"
       ELSE pc' = "check" /\ UNCHANGED sent
  /\ UNCHANGED <<regs, pico, statics, call, maxlen, data, buffer, history>>

PollActive ==
  /\ pc = "check"
  /\ IF active = 0
       THEN sent' = sent + 1 /\ pc' = "send"
       ELSE pc' = "ack" /\ UNCHANGED sent
  /\ UNCHANGED <<regs, pico, statics, call, maxlen, data, buffer, history>>

-----------------------------------------------------------------------------
(***************************************************************************)
(* The PicoROM and the host behind it (external).  start_comms installs    *)
(* the register block with both counters at zero, because zero is what     *)
(* comms_update resets the board's copies to.                              *)
(***************************************************************************)
BeginSession ==
  /\ ~Session
  /\ GapSeen => ~comms_active
  /\ magic' = TRUE /\ active' = 1
  /\ in_seq' = 0 /\ out_seq' = 0
  /\ shown' = 0 /\ fetched' = 0 /\ signalled' = << >>
  /\ hSent' = << >> /\ rcvd' = << >> /\ tSent' = << >> /\ hRcvd' = << >>
  /\ clean' = ~comms_active
  /\ UNCHANGED <<in_byte, statics, pc, locals>>

EndSession ==
  /\ Session
  /\ active' = 0
  /\ signalled' = << >>
  /\ UNCHANGED <<magic, in_byte, in_seq, out_seq, shown, fetched,
                 statics, pc, locals, history>>

HostSend(b) ==
  /\ Session
  /\ Len(hSent) < MaxTraffic
  /\ hSent' = Append(hSent, b)
  /\ UNCHANGED <<regs, pico, statics, pc, locals, rcvd, tSent, hRcvd, clean>>

\* The next byte is shown once the previous one has been fetched.
ShowByte ==
  /\ Session
  /\ pending /\ fetched = shown
  /\ in_byte' = hSent[shown + 1]
  /\ in_seq' = Inc(in_seq)
  /\ shown' = shown + 1
  /\ UNCHANGED <<magic, active, out_seq, fetched, signalled,
                 statics, pc, locals, history>>

AckByte ==
  /\ Session
  /\ signalled # << >>
  /\ hRcvd' = Append(hRcvd, Head(signalled))
  /\ signalled' = Tail(signalled)
  /\ out_seq' = Inc(out_seq)
  /\ UNCHANGED <<magic, active, in_byte, in_seq, shown, fetched,
                 statics, pc, locals, hSent, rcvd, tSent, clean>>

-----------------------------------------------------------------------------
Caller ==
  \/ CallUpdate
  \/ \E n \in 1 .. MaxCall : CallRead(n)
  \/ \E n \in 0 .. MaxCall : \E d \in [1 .. n -> Byte] : CallWrite(d)

Board ==
  \/ Update
  \/ ReadActive \/ ReadSeq \/ ReadPending \/ TestSeq \/ TakeByte
  \/ SendByte \/ WriteDone \/ PollAck \/ PollActive

Host ==
  \/ BeginSession \/ EndSession
  \/ \E b \in Byte : HostSend(b)

Next == Caller \/ Board \/ Host \/ ShowByte \/ AckByte

Spec == Init /\ [][Next]_vars

\* The board's CPU and the PicoROM keep running; callers and host may stop.
Fairness == WF_vars(Board) /\ WF_vars(ShowByte) /\ WF_vars(AckByte)

FairSpec == Spec /\ Fairness

-----------------------------------------------------------------------------
(***************************************************************************)
(* Properties                                                              *)
(***************************************************************************)
TypeOK ==
  /\ magic \in BOOLEAN /\ active \in {0, 1}
  /\ in_byte \in Byte
  /\ in_seq \in Count /\ out_seq \in Count
  /\ shown \in Nat /\ fetched \in Nat /\ signalled \in Seq(Byte)
  /\ magic_valid \in BOOLEAN /\ comms_active \in BOOLEAN
  /\ comms_in_seq \in Count /\ comms_out_seq \in Count
  /\ pc \in PC /\ call \in {"update", "read", "write"}
  /\ maxlen \in Nat /\ data \in Seq(Byte) /\ sent \in Nat
  /\ buffer \in Seq(Byte)
  /\ hSent \in Seq(Byte) /\ rcvd \in Seq(Byte)
  /\ tSent \in Seq(Byte) /\ hRcvd \in Seq(Byte)

\* s is an initial part of t
Begins(s, t) ==
  /\ Len(s) <= Len(t)
  /\ \A i \in 1 .. Len(s) : s[i] = t[i]

\* The next three are about clean sessions, those that began after the board
\* had left the one before; any number of others may lie in between.

\* What comms_read has handed out in a clean session is an initial part of
\* what the host wrote in it: no byte lost, repeated, reordered or left over
\* from an earlier session, for every interleaving of the register reads.
InOrder == clean => Begins(rcvd, hSent)

\* comms_write is synchronous: in a clean session, whenever the board is not
\* waiting in its inner loop, every byte it has signalled has been taken.
WriteSynchronous ==
  clean /\ Session /\ pc \notin {"ack", "check"} =>
    hRcvd = tSent /\ signalled = << >>

\* While the board takes part in a clean session its counter of incoming
\* bytes equals the PicoROM's, or is one behind while a byte is not fetched.
InSync ==
  clean /\ comms_active =>
    \/ fetched = shown /\ comms_in_seq = in_seq
    \/ fetched + 1 = shown /\ in_seq = Inc(comms_in_seq)

\* A board that runs without a PicoROM session, whatever its ROM image holds
\* at the register addresses, never takes part in one.
NoSpuriousSession == comms_active => magic

\* comms_read never stores past the buffer of maxlen bytes it was given, even
\* when the session is reopened under it.
NoOverrun == call = "read" => Len(buffer) <= maxlen

-----------------------------------------------------------------------------
(***************************************************************************)
(* The inductive invariant behind them (see CommsProofs).                  *)
(***************************************************************************)
InLoop == pc \notin {"idle", "update"}

\* The PicoROM shows one byte at a time, and only what the host wrote.
ShownInv ==
  /\ fetched <= shown /\ shown <= fetched + 1 /\ shown <= Len(hSent)
  /\ shown > 0 => in_byte = hSent[shown]

\* The board is inside a loop only while it believes in the session; it is
\* about to fetch a byte only if one is waiting.
LoopInv ==
  /\ InLoop => comms_active
  /\ call = "read" /\ pc # "idle" => Len(buffer) < maxlen
  /\ clean /\ pc = "byte" => shown = fetched + 1

\* A clean session the board has not joined yet is untouched, but for the
\* first byte being shown.
FreshInv ==
  clean /\ Session /\ ~comms_active =>
    /\ fetched = 0
    /\ \/ shown = 0 /\ in_seq = 0
       \/ shown = 1 /\ in_seq = Inc(0)
    /\ out_seq = 0
    /\ tSent = << >> /\ hRcvd = << >> /\ signalled = << >>

ReceiveInv == clean => Len(rcvd) = fetched /\ Begins(rcvd, hSent)

\* At most one byte is under way to the host, and its counter with it.
SendInv ==
  clean /\ Session /\ comms_active =>
    \/ signalled = << >> /\ out_seq = comms_out_seq /\ hRcvd = tSent
    \/ /\ pc \in {"ack", "check"}
       /\ Len(signalled) = 1 /\ comms_out_seq = Inc(out_seq)
       /\ tSent = Append(hRcvd, signalled[1])

IndInv ==
  /\ TypeOK
  /\ ShownInv /\ LoopInv /\ FreshInv /\ InSync /\ ReceiveInv /\ SendInv
  /\ magic_valid => magic
  /\ NoSpuriousSession /\ NoOverrun

-----------------------------------------------------------------------------
\* Every call returns, although comms_read spins while `pending' is raised and
\* comms_write spins until it sees its byte acknowledged (GapSeen = TRUE).
CallsReturn == (pc # "idle") ~> (pc = "idle")

\* comms.c implements the two lossless byte streams of ByteStream.
Stream == INSTANCE ByteStream WITH
            up <- Session, attached <- comms_active,
            hSent <- hSent, rcvd <- rcvd, tSent <- tSent, hRcvd <- hRcvd
StreamSpec == Stream!Spec
=============================================================================
