----------------------------- MODULE ByteStream -----------------------------
(***************************************************************************)
(* What the two users of the serial link rely on.  The link between the    *)
(* host computer and the program on the M92 board carries, while a session *)
(* is open, one stream of bytes in each direction; no byte is lost,        *)
(* repeated or reordered, and the board waits for every byte it writes to  *)
(* be taken before it writes the next one.  When the host closes the       *)
(* session the rest of both streams is lost.  The next session starts with *)
(* empty streams.                                                          *)
(*                                                                         *)
(* Comms.tla, the model of src/comms.c, implements this specification.     *)
(***************************************************************************)
EXTENDS Integers, Sequences

CONSTANT Byte

VARIABLES
  up,        \* the host has a session open
  attached,  \* the board takes part in it
  hSent,     \* bytes the host wrote in this session
  rcvd,      \* bytes the board has read of them
  tSent,     \* bytes the board wrote in this session
  hRcvd      \* bytes the host side has taken of them

vars == <<up, attached, hSent, rcvd, tSent, hRcvd>>

Init ==
  /\ up = FALSE
  /\ attached = FALSE
  /\ hSent = << >> /\ rcvd = << >>
  /\ tSent = << >> /\ hRcvd = << >>

(***************************************************************************)
(* The host opens and closes sessions.  A new one opens only after the     *)
(* board has left the last one.                                            *)
(***************************************************************************)
Begin ==
  /\ ~up /\ ~attached
  /\ up' = TRUE
  /\ hSent' = << >> /\ rcvd' = << >>
  /\ tSent' = << >> /\ hRcvd' = << >>
  /\ UNCHANGED attached

End ==
  /\ up
  /\ up' = FALSE
  /\ UNCHANGED <<attached, hSent, rcvd, tSent, hRcvd>>

Attach ==
  /\ up /\ ~attached
  /\ attached' = TRUE
  /\ UNCHANGED <<up, hSent, rcvd, tSent, hRcvd>>

Detach ==
  /\ ~up /\ attached
  /\ attached' = FALSE
  /\ UNCHANGED <<up, hSent, rcvd, tSent, hRcvd>>

(***************************************************************************)
(* Host to board.  A byte may still be read just after the session ended.  *)
(***************************************************************************)
HostSend(b) ==
  /\ up
  /\ hSent' = Append(hSent, b)
  /\ UNCHANGED <<up, attached, rcvd, tSent, hRcvd>>

BoardReceive ==
  /\ attached
  /\ Len(rcvd) < Len(hSent)
  /\ rcvd' = Append(rcvd, hSent[Len(rcvd) + 1])
  /\ UNCHANGED <<up, attached, hSent, tSent, hRcvd>>

(***************************************************************************)
(* Board to host, one byte at a time.                                      *)
(***************************************************************************)
BoardSend(b) ==
  /\ up /\ attached
  /\ Len(tSent) = Len(hRcvd)
  /\ tSent' = Append(tSent, b)
  /\ UNCHANGED <<up, attached, hSent, rcvd, hRcvd>>

HostReceive ==
  /\ up
  /\ Len(hRcvd) < Len(tSent)
  /\ hRcvd' = Append(hRcvd, tSent[Len(hRcvd) + 1])
  /\ UNCHANGED <<up, attached, hSent, rcvd, tSent>>

Next ==
  \/ Begin \/ End \/ Attach \/ Detach
  \/ \E b \in Byte : HostSend(b) \/ BoardSend(b)
  \/ BoardReceive \/ HostReceive

Spec == Init /\ [][Next]_vars
=============================================================================
