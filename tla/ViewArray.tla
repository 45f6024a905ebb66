----------------------------- MODULE ViewArray ------------------------------
(***************************************************************************)
(* What MemoryByteView and MemoryWordView of bin/comms.py promise a Python *)
(* user: the board's memory from an address on behaves like an array of    *)
(* bytes, of which a word is two, low byte first.  An operation works on   *)
(* the places start .. stop - 1; one that is refused changes nothing.      *)
(* Views.tla implements this specification.                                *)
(***************************************************************************)
EXTENDS Integers, Sequences

CONSTANTS
  Operation,    \* [view, kind, start, stop, value]: see Views
  NoOperation,
  Error         \* the exception

VARIABLES
  contents,     \* the array
  doing,        \* the operation that runs, or NoOperation
  answer        \* what the last operation returned, if it has, or Error

vars == <<contents, doing, answer>>

\* Whole elements of the view between start and stop.
Unit(o) == IF o.view = "word" THEN 2 ELSE 1
Places(o) == {i \in DOMAIN contents : i >= o.start /\ i < o.stop - ((o.stop - o.start) % Unit(o))}

Call ==
  /\ doing = NoOperation
  /\ doing' \in Operation
  /\ answer' = <<>>
  /\ UNCHANGED contents

Refuse ==
  /\ doing # NoOperation
  /\ doing.start < 0 \/ doing.stop < doing.start
  /\ doing' = NoOperation /\ answer' = Error
  /\ UNCHANGED contents

Get ==
  /\ doing # NoOperation /\ doing.kind = "get"
  /\ doing.start >= 0 /\ doing.start <= doing.stop
  /\ answer' = [i \in 1 .. (doing.stop - doing.start) - ((doing.stop - doing.start) % Unit(doing)) |->
                  contents[doing.start + i - 1]]
  /\ doing' = NoOperation
  /\ UNCHANGED contents

\* The value of Set is as long as the places; that of Fill is one element.
Set ==
  /\ doing # NoOperation /\ doing.kind \in {"set", "fill"}
  /\ doing.start >= 0 /\ doing.start <= doing.stop
  /\ contents' = [i \in DOMAIN contents |->
                    IF i \in Places(doing) THEN doing.value[((i - doing.start) % Len(doing.value)) + 1]
                    ELSE contents[i]]
  /\ doing' = NoOperation /\ answer' = <<>>

Init == doing = NoOperation /\ answer = <<>>
Next == Call \/ Refuse \/ Get \/ Set
Spec == Init /\ [][Next]_vars
=============================================================================
