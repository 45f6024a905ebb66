------------------------------- MODULE Views --------------------------------
(***************************************************************************)
(* MemoryByteView and MemoryWordView of bin/comms.py: an index or a slice  *)
(* of a view becomes a request of class Pico.  The board serves it whole,  *)
(* as RemoteMemory says (CmdServer models how).                            *)
(*                                                                         *)
(* An operation is [view, kind, start, stop, value].  An index k stands    *)
(* for the element from k on: start is k, and item says that it is not a   *)
(* slice.  A word is its two bytes, low byte first.                        *)
(***************************************************************************)
EXTENDS PicoApi

CONSTANTS
  Operation,
  NoOperation,
  Error,            \* IndexError, struct.error
  base_addr,        \* of both views, a packed far pointer
  Length,           \* the user stays within this many bytes of it
  Memories          \* what the memory may hold at first

Byte == 0 .. 255

Unit(o) == IF o.view = "word" THEN 2 ELSE 1

\* What Python makes of a key and a value: an index takes one element, and so
\* does a Fill; a value is whole words where words are written.
WellFormed(o) ==
  /\ o.view \in {"byte", "word"} /\ o.kind \in {"get", "set", "fill"} /\ o.item \in BOOLEAN
  /\ o.start \in Int /\ o.stop \in Int /\ o.value \in Seq(Byte)
  /\ o.item => o.kind # "fill" /\ o.stop - o.start = Unit(o)
  /\ o.kind = "set" => Len(o.value) % Unit(o) = 0 /\ (o.item => Len(o.value) = Unit(o))
  /\ o.kind = "fill" => Len(o.value) = Unit(o)

\* The operations on the window.  The views check neither the end of a slice,
\* nor the beginning of one that is written, nor the number of bytes written to
\* it: what is not Legal reaches memory around the window.  (An odd reversed
\* slice of words counts zero words instead of being refused.)
Legal(o) ==
  LET length == o.stop - o.start IN
  /\ o.stop <= Length
  /\ o.kind = "set" => Len(o.value) = length
  /\ o.kind = "fill" => (o.view = "word" => length # -1)
  /\ o.kind # "get" /\ ~o.item => o.start >= 0

VARIABLES
  mem,              \* the board's memory
  doing,            \* the operation that runs, or NoOperation
  request,          \* what was made of it, or <<>>
  answer            \* what the last operation returned, if it has, or Error

vars == <<mem, doing, request, answer>>

Init ==
  /\ mem \in Memories
  /\ doing = NoOperation /\ request = <<>> /\ answer = <<>>

Call ==
  /\ doing = NoOperation
  /\ doing' \in Operation
  /\ answer' = <<>>
  /\ UNCHANGED <<mem, request>>

\* int(x / 2) rounds towards zero.
HalfOf(x) == IF x < 0 THEN -((-x) \div 2) ELSE x \div 2

BytesCounted(o) == o.stop - o.start                     \* mutant: words counted in bytes
Count(o) == IF o.view = "word" THEN HalfOf(o.stop - o.start) ELSE o.stop - o.start

\* __getitem__ and __setitem__ check an index, __getitem__ a slice; a negative
\* count or address does not pack into an unsigned field (struct.error).
Raises(o) ==
  \/ o.item /\ o.start < 0
  \/ ~o.item /\ o.kind = "get" /\ (o.start < 0 \/ o.stop < o.start)
  \/ o.kind = "fill" /\ Count(o) < 0
  \/ base_addr + o.start < 0

\* The board serves a request as RemoteMemory says if its bytes lie in one
\* segment (CmdServer!Servable).
InSegment(o) ==
  LET n == IF o.kind = "set" THEN Len(o.value) ELSE o.stop - o.start
      first == Offset(base_addr) + o.start
  IN  first >= 0 /\ first + n <= OffMod /\ n <= PhysSize

\* There may be operations that are not Legal among them.
ASSUME ViewsAssumption ==
  /\ NoOperation \notin Operation
  /\ \A o \in Operation : WellFormed(o) /\ (Raises(o) \/ InSegment(o))
  /\ base_addr \in Nat /\ Length \in Nat
  /\ Offset(base_addr) + Length <= OffMod /\ Length <= PhysSize
  /\ Memories \subseteq [Phys -> Byte]

Refuse ==
  /\ doing # NoOperation /\ request = <<>> /\ Raises(doing)
  /\ doing' = NoOperation /\ answer' = Error
  /\ UNCHANGED <<mem, request>>

KeyTwice(o) ==                                          \* mutant: a word index scaled
  LET a == base_addr + (IF o.view = "word" THEN 2 * o.start ELSE o.start) IN
  CASE o.kind = "get"  /\ o.view = "byte" -> ReadBytes(a, Count(o))
    [] o.kind = "get"  /\ o.view = "word" -> ReadWords(a, Count(o))
    [] o.kind = "set"  /\ o.view = "byte" -> WriteBytes(a, o.value)
    [] o.kind = "set"  /\ o.view = "word" -> WriteWords(a, o.value)
    [] o.kind = "fill" /\ o.view = "byte" -> FillBytes(a, Count(o), o.value[1])
    [] o.kind = "fill" /\ o.view = "word" -> FillWords(a, Count(o), o.value)

RequestOf(o) ==
  LET a == base_addr + o.start IN
  CASE o.kind = "get"  /\ o.view = "byte" -> ReadBytes(a, Count(o))
    [] o.kind = "get"  /\ o.view = "word" -> ReadWords(a, Count(o))
    [] o.kind = "set"  /\ o.view = "byte" -> WriteBytes(a, o.value)
    [] o.kind = "set"  /\ o.view = "word" -> WriteWords(a, o.value)
    [] o.kind = "fill" /\ o.view = "byte" -> FillBytes(a, Count(o), o.value[1])
    [] o.kind = "fill" /\ o.view = "word" -> FillWords(a, Count(o), o.value)

Send ==
  /\ doing # NoOperation /\ request = <<>> /\ ~Raises(doing)
  /\ request' = <<RequestOf(doing)>>
  /\ UNCHANGED <<mem, doing, answer>>

\* The board does what is asked, and the method returns what it answers.
Return ==
  /\ request # <<>>
  /\ \E r \in {request[1]} :
       /\ mem' = Store(mem, r.arg0, Written(r))
       /\ answer' = Load(mem, r.arg0, ResponseSize(r))
  /\ doing' = NoOperation /\ request' = <<>>

Next == Call \/ Refuse \/ Send \/ Return
Spec == Init /\ [][Next]_vars

-----------------------------------------------------------------------------
Permitted == doing # NoOperation => Legal(doing)

\* bin/comms.py: every Legal operation on a view is one on an array over the
\* board's memory, whatever the others have done to it before.
Array == INSTANCE ViewArray WITH
           contents <- [k \in 0 .. Length - 1 |-> mem[Address(FarAdd(base_addr, k))]]
ArraySpec == Array!Init /\ [][Permitted => [Array!Next]_(Array!vars)]_vars

\* comms.py:83-92 and :114-123: a Legal operation, also one that is refused or
\* whose slice is empty or odd, changes no byte outside the window.
Outside == Phys \ {Address(FarAdd(base_addr, k)) : k \in 0 .. Length - 1}
Untouched == [][Permitted => \A a \in Outside : mem'[a] = mem[a]]_vars
=============================================================================
