-------------------------- MODULE FarMemoryProofs --------------------------
(***************************************************************************)
(* Lemmas about far pointers and the loops of util.h that move through     *)
(* memory with them, for segments, paragraphs and address spaces of any    *)
(* size.                                                                   *)
(***************************************************************************)
EXTENDS FarMemory, TLAPS, SequenceTheorems, WellFoundedInduction

\* The last of the places in a block that fall on one address exists.
Below == {p \in Nat \X Nat : p[1] < p[2]}

LEMMA LeastExists ==
  ASSUME NEW T, T \subseteq Nat, T # {}
  PROVE  \E x \in T : \A y \in T : x <= y
<1>1. IsWellFoundedOn(Below, Nat)
  BY NatLessThanWellFounded DEF OpToRel, Below
<1>2. PICK x \in T : \A y \in T : ~(<<y, x>> \in Below)
  BY <1>1, WFMin
<1>3. ASSUME NEW y \in T
      PROVE  x <= y
  <2>1. x \in Nat /\ y \in Nat
    OBVIOUS
  <2>2. ~(y < x)
    BY <1>2, <2>1 DEF Below
  <2> QED BY ONLY <2>1, <2>2
<1> QED BY <1>3

LEMMA MaxIsIn ==
  ASSUME NEW k \in Nat, NEW T, T \subseteq 1 .. k, T # {}
  PROVE  Max(T) \in T
<1> DEFINE U == {k - i : i \in T}
<1>1. U \subseteq Nat
  <2> SUFFICES ASSUME NEW i \in T
               PROVE  k - i \in Nat
    OBVIOUS
  <2>1. i \in 1 .. k
    OBVIOUS
  <2> QED BY ONLY <2>1, k \in Nat
<1>2. U # {}
  OBVIOUS
<1>3. PICK u \in U : \A v \in U : u <= v
  BY <1>1, <1>2, LeastExists
<1>4. PICK x \in T : u = k - x
  OBVIOUS
<1>5. \A y \in T : x >= y
  <2> SUFFICES ASSUME NEW y \in T
               PROVE  x >= y
    OBVIOUS
  <2>1. k - x <= k - y
    BY <1>3, <1>4
  <2>2. x \in Int /\ y \in Int
    OBVIOUS
  <2> QED BY <2>1, <2>2
<1>6. \E z \in T : \A y \in T : z >= y
  BY <1>5
<1> QED BY <1>6 DEF Max

-----------------------------------------------------------------------------
(***************************************************************************)
(* Types                                                                   *)
(***************************************************************************)
LEMMA FarAddType ==
  ASSUME NEW p \in Nat, NEW k \in Nat
  PROVE  FarAdd(p, k) \in Nat
<1>1. OffMod \in Nat \ {0}
  BY FarMemoryAssumption
<1>2. p \div OffMod \in Nat /\ ((p % OffMod) + k) % OffMod \in Nat
  BY <1>1
<1> QED BY <1>1, <1>2 DEF FarAdd, Segment, Offset

LEMMA AddressType ==
  ASSUME NEW p \in Nat
  PROVE  Address(p) \in Phys
<1>1. OffMod \in Nat \ {0} /\ Para \in Nat /\ PhysSize \in Nat \ {0}
  BY FarMemoryAssumption
<1> DEFINE g == p \div OffMod
           f == p % OffMod
<1>2. g \in Nat /\ f \in Nat
  BY <1>1
<1> HIDE DEF g, f
<1>3. (g * Para) + f \in Nat
  BY <1>1, <1>2
<1>4. ((g * Para) + f) % PhysSize \in 0 .. PhysSize - 1
  BY <1>1, <1>3
<1> QED BY <1>4 DEF Address, Segment, Offset, Phys, g, f

LEMMA PlaceType ==
  ASSUME NEW p \in Nat, NEW i \in Nat \ {0}
  PROVE  Address(FarAdd(p, i - 1)) \in Phys
<1>1. i - 1 \in Nat
  OBVIOUS
<1> QED BY <1>1, FarAddType, AddressType

LEMMA StoreType ==
  ASSUME NEW V, NEW m \in [Phys -> V], NEW p, NEW s \in Seq(V)
  PROVE  Store(m, p, s) \in [Phys -> V]
<1> SUFFICES ASSUME NEW a \in Phys
             PROVE  (IF Hits(p, s, a) = {} THEN m[a] ELSE s[Max(Hits(p, s, a))]) \in V
  BY DEF Store
<1>1. CASE Hits(p, s, a) = {}
  BY <1>1
<1>2. CASE Hits(p, s, a) # {}
  <2>1. Len(s) \in Nat
    BY LenProperties
  <2>2. Hits(p, s, a) \subseteq 1 .. Len(s)
    BY DEF Hits
  <2>3. Max(Hits(p, s, a)) \in 1 .. Len(s)
    BY <1>2, <2>1, <2>2, MaxIsIn
  <2>4. s[Max(Hits(p, s, a))] \in V
    BY <2>3, ElementOfSeq
  <2> QED BY <1>2, <2>4
<1> QED BY <1>1, <1>2

LEMMA LoadType ==
  ASSUME NEW V, NEW m \in [Phys -> V], NEW p \in Nat, NEW n \in Int
  PROVE  /\ Load(m, p, n) \in Seq(V)
         /\ Len(Load(m, p, n)) = IF n >= 0 THEN n ELSE 0
<1>1. ASSUME NEW i \in 1 .. n
      PROVE  m[Address(FarAdd(p, i - 1))] \in V
  <2>1. i \in Nat \ {0}
    OBVIOUS
  <2> QED BY <2>1, PlaceType
<1>2. CASE n >= 0
  BY <1>1, <1>2 DEF Load
<1>3. CASE n < 0
  <2>1. 1 .. n = 1 .. 0
    BY <1>3
  <2>2. Load(m, p, n) \in [1 .. 0 -> V]
    BY <1>1, <2>1 DEF Load
  <2> QED BY <1>3, <2>2
<1> QED BY <1>2, <1>3

LEMMA BytesType ==
  ASSUME NEW V, NEW v \in V, NEW n \in Nat
  PROVE  Bytes(v, n) \in Seq(V) /\ Len(Bytes(v, n)) = n
BY DEF Bytes

LEMMA WordsType ==
  ASSUME NEW V, NEW w \in Seq(V), Len(w) > 1, NEW n \in Nat
  PROVE  Words(w, n) \in Seq(V) /\ Len(Words(w, n)) = 2 * n
<1>1. ASSUME NEW i \in 1 .. 2 * n
      PROVE  w[1 + ((i - 1) % 2)] \in V
  <2>1. i - 1 \in Int
    OBVIOUS
  <2>2. 1 + ((i - 1) % 2) \in 1 .. 2
    BY ONLY <2>1, SMTT(10)
  <2>3. 1 + ((i - 1) % 2) \in 1 .. Len(w)
    BY <2>2, LenProperties
  <2> QED BY <2>3, ElementOfSeq
<1>2. 2 * n \in Nat
  OBVIOUS
<1> QED BY <1>1, <1>2 DEF Words

-----------------------------------------------------------------------------
(***************************************************************************)
(* Blocks inside a segment                                                 *)
(***************************************************************************)
\* n bytes from p lie in one segment, and each has an address of its own.
OwnBytes(p, n) ==
  /\ Offset(p) + n <= OffMod
  /\ \A i, j \in 1 .. n : Address(FarAdd(p, i - 1)) = Address(FarAdd(p, j - 1)) => i = j

\* Inside the segment moving the pointer is adding to the packed number.
LEMMA InsideSegment ==
  ASSUME NEW p \in Nat, NEW k \in Nat, Offset(p) + k < OffMod
  PROVE  FarAdd(p, k) = p + k
<1>1. OffMod \in Nat \ {0}
  BY FarMemoryAssumption
<1> DEFINE g == p \div OffMod
           f == p % OffMod
<1>2. g \in Nat /\ f \in Nat /\ p = (g * OffMod) + f
  BY <1>1
<1>3. f + k < OffMod
  BY DEF Offset
<1> HIDE DEF g, f
<1>4. f + k \in 0 .. OffMod - 1
  BY <1>1, <1>2, <1>3
<1>5. (f + k) % OffMod = f + k
  BY ONLY <1>1, <1>4, SMTT(10)
<1>6. FarAdd(p, k) = (g * OffMod) + (f + k)
  BY <1>5 DEF FarAdd, Segment, Offset, g, f
<1>7. g * OffMod \in Nat
  BY <1>1, <1>2
<1> QED BY ONLY <1>2, <1>6, <1>7, k \in Nat

\* The same for a pointer that was moved before.
LEMMA StaysInSegment ==
  ASSUME NEW p \in Nat, NEW k \in Nat, Offset(p) + k < OffMod
  PROVE  Segment(p + k) = Segment(p) /\ Offset(p + k) = Offset(p) + k
<1>1. OffMod \in Nat \ {0}
  BY FarMemoryAssumption
<1> DEFINE g == p \div OffMod
           f == p % OffMod
           q == p + k
<1>2. g \in Nat /\ f \in Nat /\ p = (g * OffMod) + f
  BY <1>1
<1>3. f + k < OffMod
  BY DEF Offset
<1>4. q \in Nat /\ q = (g * OffMod) + (f + k)
  <2> HIDE DEF g, f
  <2>1. g * OffMod \in Nat
    BY <1>1, <1>2
  <2> QED BY <1>2, <2>1
<1> HIDE DEF g, f, q
<1>5. f + k \in 0 .. OffMod - 1
  BY <1>1, <1>2, <1>3
<1>6. \A d \in Nat, x \in Nat : \A e \in 0 .. x - 1 : (((d * x) + e) \div x = d) /\ (((d * x) + e) % x = e)
  OBVIOUS
<1>7. q \div OffMod = g /\ q % OffMod = f + k
  BY <1>1, <1>2, <1>4, <1>5, <1>6
<1> QED BY <1>7 DEF Segment, Offset, g, f, q

LEMMA FarAddTwice ==
  ASSUME NEW p \in Nat, NEW j \in Nat, NEW k \in Nat, Offset(p) + j < OffMod
  PROVE  FarAdd(FarAdd(p, j), k) = FarAdd(p, j + k)
<1>1. FarAdd(p, j) = p + j
  BY InsideSegment
<1>2. Segment(p + j) = Segment(p) /\ Offset(p + j) = Offset(p) + j
  BY StaysInSegment
<1>3. Offset(p) \in Nat
  BY FarMemoryAssumption DEF Offset
<1>4. (Offset(p) + j) + k = Offset(p) + (j + k)
  BY <1>3
<1> QED BY <1>1, <1>2, <1>4 DEF FarAdd

\* A part of such a block is one, too.
LEMMA PartOwnBytes ==
  ASSUME NEW p \in Nat, NEW n \in Nat, OwnBytes(p, n),
         NEW j \in Nat, NEW k \in Nat, j + k <= n, k # 0
  PROVE  /\ FarAdd(p, j) = p + j
         /\ \A i \in 1 .. k : FarAdd(FarAdd(p, j), i - 1) = FarAdd(p, (j + i) - 1)
         /\ OwnBytes(FarAdd(p, j), k)
<1>1. OffMod \in Nat \ {0} /\ Offset(p) \in Nat /\ Offset(p) + n <= OffMod
  BY FarMemoryAssumption DEF OwnBytes, Offset
<1>2. Offset(p) + j < OffMod
  BY <1>1
<1>3. FarAdd(p, j) = p + j /\ Offset(FarAdd(p, j)) = Offset(p) + j
  BY <1>2, InsideSegment, StaysInSegment
<1>4. ASSUME NEW i \in 1 .. k
      PROVE  FarAdd(FarAdd(p, j), i - 1) = FarAdd(p, (j + i) - 1)
  <2>1. i - 1 \in Nat /\ j + (i - 1) = (j + i) - 1
    OBVIOUS
  <2> QED BY <1>2, <2>1, FarAddTwice
<1>5. ASSUME NEW x \in 1 .. k, NEW y \in 1 .. k,
             Address(FarAdd(FarAdd(p, j), x - 1)) = Address(FarAdd(FarAdd(p, j), y - 1))
      PROVE  x = y
  <2>1. j + x \in 1 .. n /\ j + y \in 1 .. n
    OBVIOUS
  <2>2. Address(FarAdd(p, (j + x) - 1)) = Address(FarAdd(p, (j + y) - 1))
    BY <1>4, <1>5
  <2>3. j + x = j + y
    BY <2>1, <2>2 DEF OwnBytes
  <2> QED BY <2>3
<1>6. Offset(FarAdd(p, j)) + k <= OffMod
  BY <1>1, <1>3
<1> QED BY <1>3, <1>4, <1>5, <1>6 DEF OwnBytes

\* A block in a segment that is not larger than all memory.
LEMMA SameRemainder ==
  ASSUME NEW M \in Nat \ {0}, NEW b \in Nat, NEW x \in Nat, NEW y \in Nat,
         x < M, y < M, (b + x) % M = (b + y) % M
  PROVE  x = y
<1> DEFINE u == (b + x) \div M
           v == (b + y) \div M
           w == (b + x) % M
<1>1. u \in Nat /\ v \in Nat /\ w \in Nat /\ b + x = (M * u) + w /\ b + y = (M * v) + w
  OBVIOUS
<1> HIDE DEF u, v, w
<1>2. x - y = (M * u) - (M * v)
  <2>1. M * u \in Nat /\ M * v \in Nat
    BY <1>1
  <2> QED BY ONLY <1>1, <2>1, b \in Nat, x \in Nat, y \in Nat
<1>3. ASSUME NEW c \in Nat, NEW d \in Nat, c < d
      PROVE  (M * d) - (M * c) >= M
  <2>1. (M * d) - (M * c) = M * (d - c)
    OBVIOUS
  <2>2. d - c \in Nat /\ d - c >= 1
    BY <1>3
  <2>3. \A e \in Nat : e >= 1 => M * e >= M
    OBVIOUS
  <2> QED BY <2>1, <2>2, <2>3
<1>4. ~(u < v) /\ ~(v < u)
  <2>1. M * u \in Nat /\ M * v \in Nat
    BY <1>1
  <2>2. ASSUME u < v
        PROVE  FALSE
    <3>1. (M * v) - (M * u) >= M
      BY <1>1, <1>3, <2>2
    <3> QED BY <1>2, <2>1, <3>1
  <2>3. ASSUME v < u
        PROVE  FALSE
    <3>1. (M * u) - (M * v) >= M
      BY <1>1, <1>3, <2>3
    <3> QED BY <1>2, <2>1, <3>1
  <2> QED BY <2>2, <2>3
<1>5. u = v
  BY <1>1, <1>4
<1> QED BY <1>1, <1>2, <1>5

LEMMA BlockOwnsBytes ==
  ASSUME NEW p \in Nat, NEW n \in Nat, Offset(p) + n <= OffMod, n <= PhysSize
  PROVE  OwnBytes(p, n)
<1>1. /\ OffMod \in Nat \ {0} /\ Para \in Nat /\ PhysSize \in Nat \ {0}
      /\ Offset(p) \in Nat /\ Segment(p) \in Nat
  BY FarMemoryAssumption DEF Offset, Segment
<1> DEFINE b == (Segment(p) * Para) + Offset(p)
<1>2. b \in Nat
  <2>1. Segment(p) * Para \in Nat
    BY <1>1
  <2> QED BY <1>1, <2>1
<1>3. ASSUME NEW i \in 1 .. n
      PROVE  Address(FarAdd(p, i - 1)) = (b + (i - 1)) % PhysSize
  <2>1. i - 1 \in Nat /\ Offset(p) + (i - 1) < OffMod
    BY <1>1
  <2>2. Segment(FarAdd(p, i - 1)) = Segment(p) /\ Offset(FarAdd(p, i - 1)) = Offset(p) + (i - 1)
    BY <2>1, InsideSegment, StaysInSegment
  <2>3. (Segment(p) * Para) + (Offset(p) + (i - 1)) = b + (i - 1)
    <3>1. Segment(p) * Para \in Nat
      BY <1>1
    <3> QED BY <1>1, <2>1, <3>1
  <2> QED BY <2>2, <2>3 DEF Address
<1> HIDE DEF b
<1>4. ASSUME NEW i \in 1 .. n, NEW j \in 1 .. n,
             Address(FarAdd(p, i - 1)) = Address(FarAdd(p, j - 1))
      PROVE  i = j
  <2> DEFINE x == i - 1
             y == j - 1
  <2>1. x \in Nat /\ y \in Nat /\ x < PhysSize /\ y < PhysSize /\ i = x + 1 /\ j = y + 1
    BY <1>1
  <2>2. (b + x) % PhysSize = (b + y) % PhysSize
    BY <1>3, <1>4
  <2> HIDE DEF x, y
  <2>3. x = y
    BY <1>1, <1>2, <2>1, <2>2, SameRemainder
  <2> QED BY <2>1, <2>3
<1> QED BY <1>4 DEF OwnBytes

\* memcpy and the like put each byte in its place and leave all others alone.
LEMMA StoreInPlace ==
  ASSUME NEW V, NEW m \in [Phys -> V], NEW p \in Nat, NEW s \in Seq(V), OwnBytes(p, Len(s))
  PROVE  /\ \A i \in 1 .. Len(s) : Store(m, p, s)[Address(FarAdd(p, i - 1))] = s[i]
         /\ \A a \in Phys : (\A i \in 1 .. Len(s) : Address(FarAdd(p, i - 1)) # a) => Store(m, p, s)[a] = m[a]
<1>1. ASSUME NEW i \in 1 .. Len(s)
      PROVE  Store(m, p, s)[Address(FarAdd(p, i - 1))] = s[i]
  <2> DEFINE a == Address(FarAdd(p, i - 1))
  <2>1. Len(s) \in Nat /\ i \in Nat \ {0}
    BY LenProperties
  <2>2. a \in Phys
    BY <2>1, PlaceType
  <2>3. i \in Hits(p, s, a) /\ Hits(p, s, a) \subseteq 1 .. Len(s)
    BY DEF Hits
  <2>4. Max(Hits(p, s, a)) \in Hits(p, s, a)
    BY <2>1, <2>3, MaxIsIn
  <2>5. Max(Hits(p, s, a)) = i
    BY <2>4 DEF Hits, OwnBytes
  <2> HIDE DEF a
  <2>6. Store(m, p, s)[a] = s[i]
    BY <2>2, <2>3, <2>5 DEF Store
  <2> QED BY <2>6 DEF a
<1>2. ASSUME NEW a \in Phys, \A i \in 1 .. Len(s) : Address(FarAdd(p, i - 1)) # a
      PROVE  Store(m, p, s)[a] = m[a]
  BY <1>2 DEF Store, Hits
<1> QED BY <1>1, <1>2

\* Nothing to store changes nothing.
LEMMA StoreNothing ==
  ASSUME NEW V, NEW m \in [Phys -> V], NEW p, NEW s \in Seq(V), Len(s) = 0
  PROVE  Store(m, p, s) = m
<1>1. \A a \in Phys : Hits(p, s, a) = {}
  BY DEF Hits
<1>2. \A a \in Phys : Store(m, p, s)[a] = m[a]
  BY <1>1 DEF Store
<1>3. Store(m, p, s) \in [Phys -> V]
  BY StoreType
<1> QED BY <1>2, <1>3

\* Nor does storing what is there.
LEMMA StoreSame ==
  ASSUME NEW V, NEW m \in [Phys -> V], NEW p, NEW s \in Seq(V),
         \A i \in 1 .. Len(s) : m[Address(FarAdd(p, i - 1))] = s[i]
  PROVE  Store(m, p, s) = m
<1>1. ASSUME NEW a \in Phys
      PROVE  Store(m, p, s)[a] = m[a]
  <2> DEFINE H == Hits(p, s, a)
  <2>1. Store(m, p, s)[a] = IF H = {} THEN m[a] ELSE s[Max(H)]
    BY DEF Store
  <2>2. ASSUME H # {}
        PROVE  s[Max(H)] = m[a]
    <3>1. H \subseteq 1 .. Len(s) /\ Len(s) \in Nat
      BY LenProperties DEF Hits
    <3>2. Max(H) \in H
      BY <2>2, <3>1, MaxIsIn
    <3>3. Max(H) \in 1 .. Len(s) /\ Address(FarAdd(p, Max(H) - 1)) = a
      BY <3>2 DEF Hits
    <3> QED BY <3>3
  <2> QED BY <2>1, <2>2
<1>2. Store(m, p, s) \in [Phys -> V]
  BY StoreType
<1> QED BY <1>1, <1>2

\* s is the part of the block w that follows its first j bytes.
PartOf(s, w, j) == j + Len(s) <= Len(w) /\ \A i \in 1 .. Len(s) : s[i] = w[j + i]

\* From memory m to n: each byte keeps its value or gets the one that the block
\* w at p has for it, the k bytes after the first j get it, and those that have
\* it keep it.
Fills(m, n, p, w, j, k) ==
  /\ \A a \in Phys : n[a] \in {m[a], Store(m, p, w)[a]}
  /\ \A i \in 1 .. Len(w) :
       (i \in j + 1 .. j + k \/ m[Address(FarAdd(p, i - 1))] = w[i]) => n[Address(FarAdd(p, i - 1))] = w[i]

LEMMA StorePart ==
  ASSUME NEW V, NEW m \in [Phys -> V], NEW p \in Nat, NEW w \in Seq(V), OwnBytes(p, Len(w)),
         NEW s \in Seq(V), NEW j \in Nat, PartOf(s, w, j)
  PROVE  Fills(m, Store(m, FarAdd(p, j), s), p, w, j, Len(s))
<1> DEFINE q == FarAdd(p, j)
           n == Store(m, q, s)
           k == Len(s)
<1>1. k \in Nat /\ Len(w) \in Nat
  BY LenProperties
<1>0. j + k <= Len(w) /\ \A i \in 1 .. k : s[i] = w[j + i]
  BY DEF PartOf
<1>2. CASE k = 0
  <2>1. n = m
    BY <1>2, StoreNothing
  <2>2. j + 1 .. j + k = {}
    BY <1>2
  <2> QED BY <2>1, <2>2 DEF Fills
<1>3. CASE k # 0
  <2>1. /\ \A i \in 1 .. k : FarAdd(q, i - 1) = FarAdd(p, (j + i) - 1)
        /\ OwnBytes(q, k) /\ q \in Nat
    <3>1. k \in Nat /\ j \in Nat /\ Len(w) \in Nat /\ j + k <= Len(w) /\ k # 0 /\ p \in Nat /\ OwnBytes(p, Len(w))
      BY <1>0, <1>1, <1>3
    <3> DEFINE l == Len(w)
    <3>2. k \in Nat /\ j \in Nat /\ l \in Nat /\ j + k <= l /\ k # 0 /\ p \in Nat /\ OwnBytes(p, l)
      BY <3>1
    <3> HIDE DEF k, l
    <3>3. /\ \A i \in 1 .. k : FarAdd(FarAdd(p, j), i - 1) = FarAdd(p, (j + i) - 1)
          /\ OwnBytes(FarAdd(p, j), k)
      BY ONLY <3>2, PartOwnBytes
    <3>4. FarAdd(p, j) \in Nat
      BY FarAddType
    <3> QED BY <3>3, <3>4
  <2> HIDE DEF q
  <2>2. /\ \A i \in 1 .. k : n[Address(FarAdd(q, i - 1))] = s[i]
        /\ \A a \in Phys : (\A i \in 1 .. k : Address(FarAdd(q, i - 1)) # a) => n[a] = m[a]
    BY <2>1, StoreInPlace
  <2>3. \A i \in 1 .. Len(w) : Store(m, p, w)[Address(FarAdd(p, i - 1))] = w[i]
    BY StoreInPlace
  <2> HIDE DEF n, k
  <2>4. ASSUME NEW i \in 1 .. k
        PROVE  n[Address(FarAdd(p, (j + i) - 1))] = w[j + i] /\ j + i \in 1 .. Len(w)
    <3>1. j + i \in 1 .. Len(w)
      BY <1>0, <1>1 DEF k
    <3> QED BY <1>0, <2>1, <2>2, <3>1 DEF k
  <2>5. ASSUME NEW a \in Phys
        PROVE  n[a] \in {m[a], Store(m, p, w)[a]}
    <3>1. CASE \E i \in 1 .. k : Address(FarAdd(q, i - 1)) = a
      <4>1. PICK i \in 1 .. k : Address(FarAdd(q, i - 1)) = a
        BY <3>1
      <4>2. Address(FarAdd(p, (j + i) - 1)) = a
        BY <2>1, <4>1
      <4> QED BY <2>3, <2>4, <4>2
    <3>2. CASE ~ \E i \in 1 .. k : Address(FarAdd(q, i - 1)) = a
      BY <2>2, <3>2
    <3> QED BY <3>1, <3>2
  <2>6. ASSUME NEW i \in 1 .. Len(w), i \in j + 1 .. j + k \/ m[Address(FarAdd(p, i - 1))] = w[i]
        PROVE  n[Address(FarAdd(p, i - 1))] = w[i]
    <3>1. CASE i \in j + 1 .. j + k
      <4>1. i - j \in 1 .. k /\ j + (i - j) = i
        BY <1>1, <3>1 DEF k
      <4> QED BY <2>4, <4>1
    <3>2. CASE m[Address(FarAdd(p, i - 1))] = w[i]
      <4> DEFINE a == Address(FarAdd(p, i - 1))
      <4>1. a \in Phys
        <5>1. i \in Nat \ {0}
          BY <1>1
        <5> QED BY <5>1, PlaceType
      <4>2. n[a] \in {m[a], Store(m, p, w)[a]}
        BY <2>5, <4>1
      <4>3. Store(m, p, w)[a] = w[i]
        BY <2>3
      <4> QED BY <3>2, <4>2, <4>3
    <3> QED BY <2>6, <3>1, <3>2
  <2>7. Fills(m, n, p, w, j, k)
    BY <2>5, <2>6 DEF Fills
  <2> QED BY <2>7 DEF n, k, q
<1> QED BY <1>2, <1>3

\* Two reads one after the other are one read.
LEMMA LoadMore ==
  ASSUME NEW V, NEW m \in [Phys -> V], NEW p \in Nat, NEW j \in Nat, NEW k \in Nat, Offset(p) + j < OffMod
  PROVE  Load(m, p, j) \o Load(m, FarAdd(p, j), k) = Load(m, p, j + k)
<1> DEFINE x == Load(m, p, j)
           y == Load(m, FarAdd(p, j), k)
           z == Load(m, p, j + k)
<1>1. x \in Seq(V) /\ Len(x) = j /\ y \in Seq(V) /\ Len(y) = k /\ z \in Seq(V) /\ Len(z) = j + k
  <2>1. \A q \in Nat, n \in Nat : Load(m, q, n) \in Seq(V) /\ Len(Load(m, q, n)) = n
    <3> SUFFICES ASSUME NEW q \in Nat, NEW n \in Nat
                 PROVE  Load(m, q, n) \in Seq(V) /\ Len(Load(m, q, n)) = n
      OBVIOUS
    <3>1. n \in Int /\ n >= 0
      OBVIOUS
    <3>2. Load(m, q, n) \in Seq(V) /\ Len(Load(m, q, n)) = IF n >= 0 THEN n ELSE 0
      BY <3>1, LoadType
    <3> QED BY <3>1, <3>2
  <2>2. FarAdd(p, j) \in Nat /\ j + k \in Nat
    BY FarAddType
  <2> QED BY <2>1, <2>2
<1>2. /\ \A i \in 1 .. j : x[i] = m[Address(FarAdd(p, i - 1))]
      /\ \A i \in 1 .. k : y[i] = m[Address(FarAdd(FarAdd(p, j), i - 1))]
      /\ \A i \in 1 .. j + k : z[i] = m[Address(FarAdd(p, i - 1))]
  BY DEF Load
<1>3. ASSUME NEW i \in 1 .. k
      PROVE  FarAdd(FarAdd(p, j), i - 1) = FarAdd(p, (j + i) - 1)
  <2>1. i - 1 \in Nat /\ j + (i - 1) = (j + i) - 1
    OBVIOUS
  <2> QED BY <2>1, FarAddTwice
<1> HIDE DEF x, y, z
<1>4. /\ x \o y \in Seq(V) /\ Len(x \o y) = j + k
      /\ \A i \in 1 .. j + k : (x \o y)[i] = IF i <= j THEN x[i] ELSE y[i - j]
  BY <1>1, ConcatProperties
<1>5. ASSUME NEW i \in 1 .. j + k
      PROVE  (x \o y)[i] = z[i]
  <2>1. CASE i <= j
    BY <1>2, <1>4, <2>1
  <2>2. CASE ~(i <= j)
    <3>1. i - j \in 1 .. k /\ (j + (i - j)) - 1 = i - 1
      BY <2>2
    <3>2. y[i - j] = m[Address(FarAdd(p, i - 1))]
      BY <1>2, <1>3, <3>1
    <3> QED BY <1>2, <1>4, <2>2, <3>2
  <2> QED BY <2>1, <2>2
<1> DEFINE xy == x \o y
<1>6. xy = z
  <2>1. xy \in Seq(V) /\ Len(xy) = Len(z) /\ \A i \in 1 .. Len(z) : xy[i] = z[i]
    BY <1>1, <1>4, <1>5
  <2> HIDE DEF xy
  <2> QED BY ONLY <1>1, <2>1, SeqEqual
<1> QED BY <1>6 DEF xy, x, y, z

-----------------------------------------------------------------------------
(***************************************************************************)
(* Blocks that run past the end of a segment                               *)
(***************************************************************************)
LEMMA Remainder ==
  ASSUME NEW d \in Nat, NEW x \in Nat, NEW e \in 0 .. x - 1, NEW y, y = (d * x) + e
  PROVE  y % x = e
<1>1. ((d * x) + e) % x = e
  OBVIOUS
<1> QED BY <1>1

LEMMA MoreSegments ==
  ASSUME NEW v \in Nat, NEW n \in Nat, NEW x \in Nat \ {0}, v * x < n * x
  PROVE  (v * x) + x <= n * x
<1>1. v < n
  <2>1. \A a, b \in Nat : a >= b => a * x >= b * x
    OBVIOUS
  <2> QED BY <2>1
<1>2. (v + 1) * x <= n * x
  <2>1. \A a, b \in Nat : a <= b => a * x <= b * x
    OBVIOUS
  <2>2. v + 1 <= n
    BY <1>1
  <2> QED BY <2>1, <2>2
<1>3. (v + 1) * x = (v * x) + x
  OBVIOUS
<1> QED BY <1>2, <1>3

\* A sum cut to a number of M values: the place x in the segment it is in.
LEMMA CutSum ==
  ASSUME NEW M \in Nat \ {0}, M % OffMod = 0, NEW q \in Nat
  PROVE  /\ q % M \in Nat /\ Offset(q % M) = Offset(q) /\ Offset(q) \in 0 .. OffMod - 1
         /\ \A x \in 0 .. OffMod - 1, y \in Nat :
              y + Offset(q) = q + x => y % M = (Segment(q % M) * OffMod) + x
<1>1. OffMod \in Nat \ {0}
  BY FarMemoryAssumption
<1> DEFINE n == M \div OffMod
           u == q \div M
           e == q % M
           v == e \div OffMod
           o == e % OffMod
<1>2. n \in Nat /\ M = n * OffMod
  <2>1. M = (n * OffMod) + (M % OffMod) /\ n \in Nat
    BY ONLY M \in Nat \ {0}, <1>1
  <2> HIDE DEF n
  <2>2. n * OffMod \in Nat
    BY <1>1, <2>1
  <2> QED BY <2>1, <2>2
<1>3. u \in Nat /\ e \in 0 .. M - 1 /\ q = (u * M) + e
  BY ONLY M \in Nat \ {0}, q \in Nat
<1>4. v \in Nat /\ o \in 0 .. OffMod - 1 /\ e = (v * OffMod) + o
  <2>1. e \in Nat
    BY <1>3
  <2> HIDE DEF e
  <2> QED BY ONLY <1>1, <2>1
<1> HIDE DEF n, u, e, v, o
<1>5. Offset(q) = o
  <2>1. q = (((u * n) + v) * OffMod) + o
    <3>1. u * (n * OffMod) = (u * n) * OffMod
      BY ONLY <1>1, <1>2, <1>3
    <3>2. ((u * n) + v) * OffMod = ((u * n) * OffMod) + (v * OffMod)
      BY ONLY <1>1, <1>2, <1>3, <1>4
    <3> DEFINE a == (u * n) * OffMod
               c == v * OffMod
    <3>3. a \in Nat /\ c \in Nat
      BY <1>1, <1>2, <1>3, <1>4
    <3>4. q = a + (c + o) /\ ((u * n) + v) * OffMod = a + c
      BY <1>2, <1>3, <1>4, <3>1, <3>2
    <3> HIDE DEF a, c
    <3> QED BY <1>4, <3>3, <3>4
  <2>2. (u * n) + v \in Nat
    BY ONLY <1>2, <1>3, <1>4
  <2> QED BY <1>1, <1>4, <2>1, <2>2, Remainder DEF Offset
<1> DEFINE b == v * OffMod
<1>6. b \in Nat
  BY <1>1, <1>4
<1>7. ASSUME NEW x \in 0 .. OffMod - 1, NEW y \in Nat, y + Offset(q) = q + x
      PROVE  y % M = b + x
  <2>1. b < n * OffMod
    BY <1>2, <1>3, <1>4, <1>6
  <2>2. b + OffMod <= n * OffMod
    BY <1>1, <1>2, <1>4, <2>1, MoreSegments
  <2>3. b + x \in 0 .. M - 1
    <3> HIDE DEF b
    <3> QED BY <1>1, <1>2, <1>6, <2>2
  <2>4. u * M \in Nat
    BY <1>3
  <2>5. y = (u * M) + (b + x)
    <3>1. e = b + o
      BY <1>4
    <3> HIDE DEF b
    <3> QED BY <1>3, <1>4, <1>5, <1>6, <1>7, <2>4, <3>1
  <2> DEFINE z == b + x
  <2>6. u \in Nat /\ M \in Nat /\ z \in 0 .. M - 1 /\ y = (u * M) + z
    BY <1>3, <2>3, <2>5
  <2> HIDE DEF z
  <2>7. y % M = z
    BY ONLY <2>6, Remainder
  <2> QED BY <2>7 DEF z
<1>8. b = Segment(q % M) * OffMod /\ Offset(q % M) = Offset(q) /\ q % M \in Nat
  BY <1>3, <1>5 DEF Segment, Offset, e, v, o
<1>9. Offset(q) \in 0 .. OffMod - 1
  BY <1>4, <1>5
<1> HIDE DEF b
<1> QED BY <1>7, <1>8, <1>9

\* Moving the pointer that a sum was cut to is adding to the sum, until the
\* segment ends; from then on it is one segment too low.
LEMMA CarryOrWrap ==
  ASSUME NEW M \in Nat \ {0}, M % OffMod = 0, NEW q \in Nat, NEW k \in Nat, k <= OffMod
  PROVE  \/ FarAdd(q % M, k) = (q + k) % M
         \/ /\ Offset(q + k) < k /\ q < (q + k) - Offset(q + k)
            /\ OffMod <= q + k /\ FarAdd(q % M, k) = ((q + k) - OffMod) % M
<1>1. OffMod \in Nat \ {0}
  BY FarMemoryAssumption
<1> DEFINE o == Offset(q)
<1>2. /\ Offset(q % M) = o /\ o \in 0 .. OffMod - 1
      /\ \A x \in 0 .. OffMod - 1, y \in Nat : y + o = q + x => y % M = (Segment(q % M) * OffMod) + x
  BY CutSum
<1>3. FarAdd(q % M, k) = (Segment(q % M) * OffMod) + ((o + k) % OffMod)
  BY <1>2 DEF FarAdd
<1>4. CASE o + k < OffMod
  <2>1. (o + k) % OffMod = o + k /\ o + k \in 0 .. OffMod - 1
    <3>1. o + k \in 0 .. OffMod - 1
      BY <1>1, <1>2, <1>4
    <3>2. \A x \in 0 .. OffMod - 1 : x % OffMod = x
      BY ONLY <1>1, SMTT(10)
    <3> QED BY <3>1, <3>2
  <2>2. (q + k) + o = q + (o + k) /\ q + k \in Nat
    BY <1>2
  <2> HIDE DEF o
  <2> QED BY <1>2, <1>3, <2>1, <2>2
<1>5. CASE ~(o + k < OffMod)
  <2> DEFINE x == (o + k) - OffMod
             y == (q + k) - OffMod
             g == q \div OffMod
  <2>1. x \in 0 .. OffMod - 1 /\ o + k = OffMod + x /\ x < k
    BY <1>1, <1>2, <1>5
  <2>2. g \in Nat /\ q = (g * OffMod) + o /\ q + k = ((g + 1) * OffMod) + x /\ g * OffMod \in Nat
    <3>1. g \in Nat /\ q = (g * OffMod) + o
      BY ONLY <1>1, q \in Nat DEF Offset
    <3>2. (g + 1) * OffMod = (g * OffMod) + OffMod /\ g * OffMod \in Nat
      BY <1>1, <3>1
    <3> HIDE DEF o, x, g
    <3> QED BY <1>1, <1>2, <2>1, <3>1, <3>2
  <2> HIDE DEF g
  <2>3. (o + k) % OffMod = x
    <3>1. o + k = (1 * OffMod) + x
      BY <1>1, <2>1
    <3> HIDE DEF o, x
    <3> QED BY <1>1, <2>1, <3>1, Remainder
  <2>4. Offset(q + k) = x
    <3> DEFINE d == g + 1
               z == q + k
    <3>1. d \in Nat /\ OffMod \in Nat /\ x \in 0 .. OffMod - 1 /\ z = (d * OffMod) + x
      BY <1>1, <2>1, <2>2
    <3> HIDE DEF x, d, z
    <3>2. z % OffMod = x
      BY ONLY <3>1, Remainder
    <3> QED BY <3>2 DEF Offset, z
  <2>5. y \in Nat /\ y + o = q + x /\ OffMod <= q + k /\ q < (q + k) - x
    <3>1. g * OffMod \in Nat /\ q = (g * OffMod) + o
      BY <2>2
    <3> DEFINE b == g * OffMod
    <3>2. b \in Nat /\ q = b + o
      BY <3>1
    <3> HIDE DEF b, o
    <3> QED BY <1>1, <1>2, <1>5, <3>2
  <2> HIDE DEF x, o
  <2>6. y % M = (Segment(q % M) * OffMod) + x
    BY <1>2, <2>1, <2>5
  <2> QED BY <1>3, <2>1, <2>3, <2>4, <2>5, <2>6
<1> QED BY <1>4, <1>5

\* What a loop changes is one of the places it goes through, and gets the item
\* of this place.
LEMMA StoreHits ==
  ASSUME NEW V, NEW m \in [Phys -> V], NEW p, NEW s \in Seq(V),
         NEW a \in Phys, Store(m, p, s)[a] # m[a]
  PROVE  \E i \in 1 .. Len(s) : a = Address(FarAdd(p, i - 1)) /\ Store(m, p, s)[a] = s[i]
<1>1. Hits(p, s, a) # {} /\ Store(m, p, s)[a] = s[Max(Hits(p, s, a))]
  BY DEF Store
<1>2. Hits(p, s, a) \subseteq 1 .. Len(s) /\ Len(s) \in Nat
  BY LenProperties DEF Hits
<1>3. Max(Hits(p, s, a)) \in Hits(p, s, a)
  BY <1>1, <1>2, MaxIsIn
<1> QED BY <1>1, <1>3 DEF Hits
=============================================================================
