------------------------------ MODULE MCViews -------------------------------
(***************************************************************************)
(* An instance of Views for TLC: a window of Length bytes with bytes of    *)
(* the same segment on both sides, and operations on it and around it.     *)
(***************************************************************************)
EXTENDS Views

Bit == {0, 1}
Strings(n) == [1 .. n -> Bit]
Op(v, k, i, a, b, x) == [view |-> v, kind |-> k, item |-> i, start |-> a, stop |-> b, value |-> x]

\* Every index and slice of the window, and those just outside that the views
\* check.
Gets ==
  {Op("byte", "get", TRUE, k, k + 1, <<>>) : k \in -1 .. Length - 1}
  \cup {Op("word", "get", TRUE, k, k + 2, <<>>) : k \in -1 .. Length - 2}
  \cup {Op(v, "get", FALSE, a, b, <<>>) : v \in {"byte", "word"}, a \in -1 .. Length, b \in 0 .. Length}
Sets ==
  {Op("byte", "set", TRUE, k, k + 1, x) : k \in -1 .. Length - 1, x \in Strings(1)}
  \cup {Op("word", "set", TRUE, k, k + 2, x) : k \in -1 .. Length - 2, x \in Strings(2)}
  \cup UNION {{Op(v, "set", FALSE, a, a + 2, x) : v \in {"byte", "word"}, a \in 0 .. Length - 2} : x \in Strings(2)}
  \cup {Op("byte", "set", FALSE, 1, 4, x) : x \in Strings(3)}
Fills ==
  UNION {{Op("byte", "fill", FALSE, a, b, <<v>>) : a, b \in 0 .. Length} : v \in Bit}
  \cup {Op("word", "fill", FALSE, a, b, x) : a, b \in 0 .. Length, x \in Strings(2)}

\* Operations that reach around the window: by an index, by the beginning or
\* the end of a slice, by a value longer than its slice; and an address below 0.
Beyond ==
  { Op("byte", "get", FALSE, 1, Length + 1, <<>>), Op("word", "get", TRUE, Length - 1, Length + 1, <<>>),
    Op("byte", "set", TRUE, Length, Length + 1, <<1>>), Op("byte", "set", FALSE, -1, 1, <<0, 1>>),
    Op("byte", "set", FALSE, 3, 4, <<1, 0>>), Op("word", "set", FALSE, Length - 1, Length, <<0, 1>>),
    Op("byte", "fill", FALSE, 2, Length + 1, <<0>>), Op("word", "fill", FALSE, -1, Length + 1, <<1, 0>>),
    Op("byte", "set", FALSE, -base_addr - 1, 0, <<1>>) }

OperationMC == {o \in Gets \cup Sets \cup Fills : Legal(o)} \cup Beyond

\* Some operations that are not Legal write on either side of the window.
ASSUME \A k \in {-1, Length} : \E o \in Operation :
         /\ ~Legal(o) /\ ~Raises(o)
         /\ \E i \in 1 .. Len(Written(RequestOf(o))) : o.start + i - 1 = k

Striped == {[a \in Phys |-> a % 2]}
=============================================================================
