---------------------------- MODULE RemoteMemory ----------------------------
(***************************************************************************)
(* What a user of bin/comms.py relies on.  The methods of Pico read, write *)
(* and fill the memory of the board.  While a method runs, the bytes it is *)
(* to write may appear one after the other, in any order; no other byte    *)
(* ever changes.  When it returns all of them are in place, and a read     *)
(* returns what the memory holds.                                          *)
(*                                                                         *)
(* CmdServer.tla, the model of do_cmd in bin/comms.py and of update_cmd    *)
(* and process_cmd in src/main.c, implements this specification while the  *)
(* session lasts and no answer is late.                                    *)
(***************************************************************************)
EXTENDS PicoApi

CONSTANTS
  Request,   \* the requests users make
  NoRequest  \* a value that is not a request

VARIABLES
  mem,       \* the board's memory
  op,        \* the request being served, or NoRequest
  result     \* what the last request returned, if it has

vars == <<mem, op, result>>

\* Memory once the request is done.
Goal(r) == Store(mem, r.arg0, Written(r))

Begin(r) ==
  /\ op = NoRequest
  /\ op' = r
  /\ result' = << >>
  /\ UNCHANGED mem

Progress ==
  /\ op # NoRequest
  /\ mem' = [a \in Phys |-> mem'[a]]
  /\ \A a \in Phys : mem'[a] \in {mem[a], Goal(op)[a]}
  /\ UNCHANGED <<op, result>>

Return ==
  /\ op # NoRequest
  /\ mem = Goal(op)
  /\ result' = Load(mem, op.arg0, ResponseSize(op))
  /\ op' = NoRequest
  /\ UNCHANGED mem

Init == op = NoRequest /\ result = << >>

Next == (\E r \in Request : Begin(r)) \/ Progress \/ Return

Spec == Init /\ [][Next]_vars
=============================================================================
