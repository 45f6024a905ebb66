----------------------------- MODULE FarMemory ------------------------------
(***************************************************************************)
(* Memory as the V30 program of src/main.c sees it.  A far pointer is      *)
(* packed into 32 bits, segment above offset; it addresses the byte        *)
(* segment * 16 + offset.  Moving the pointer, which is what the loops of  *)
(* util.h do, wraps inside the segment; adding to the packed 32-bit number *)
(* before it is turned into a pointer, which is what process_cmd does for  *)
(* the writes, carries into the segment.                                   *)
(***************************************************************************)
EXTENDS Integers, Sequences, FiniteSetsExt

CONSTANTS
  OffMod,    \* size of a segment (2^16)
  Para,      \* bytes from one segment to the next (16)
  PhysSize   \* size of the address space (2^20)

ASSUME FarMemoryAssumption ==
  /\ OffMod \in Nat \ {0}
  /\ Para \in Nat
  /\ PhysSize \in Nat \ {0}

Phys == 0 .. PhysSize - 1

Segment(p) == p \div OffMod
Offset(p) == p % OffMod

Address(p) == (Segment(p) * Para + Offset(p)) % PhysSize

\* p + k for a far pointer p: the segment stays.
FarAdd(p, k) == Segment(p) * OffMod + ((Offset(p) + k) % OffMod)

\* The places in s that a loop writing s from p on stores at address a.
Hits(p, s, a) == {i \in 1 .. Len(s) : Address(FarAdd(p, i - 1)) = a}

\* Memory m after the loop; the last store to an address stays.
Store(m, p, s) ==
  [a \in Phys |-> IF Hits(p, s, a) = {} THEN m[a] ELSE s[Max(Hits(p, s, a))]]

\* The n bytes read from p on.
Load(m, p, n) == [i \in 1 .. n |-> m[Address(FarAdd(p, i - 1))]]

\* What memsetb and memsetw write: n bytes, n words.
Bytes(v, n) == [i \in 1 .. n |-> v]
Words(w, n) == [i \in 1 .. 2 * n |-> w[1 + ((i - 1) % 2)]]
=============================================================================
