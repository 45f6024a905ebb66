---------------------------- MODULE ViewsProofs -----------------------------
(***************************************************************************)
(* Proofs about Views for windows of any length, in memory of any layout   *)
(* and any content, and any set of operations, among them some that are not    *)
(* Legal.                                                                  *)
(***************************************************************************)
EXTENDS Views, FarMemoryProofs

\* The places an operation works on are start + j - 1 for j in 1 .. Extent.
Extent(o) == (o.stop - o.start) - ((o.stop - o.start) % Array!Unit(o))

-----------------------------------------------------------------------------
(***************************************************************************)
(* What an operation becomes.                                              *)
(***************************************************************************)
LEMMA Operations ==
  ASSUME NEW o \in Operation
  PROVE  /\ o # NoOperation /\ WellFormed(o)
         /\ o.start \in Int /\ o.stop \in Int /\ o.value \in Seq(Byte) /\ Len(o.value) \in Nat
         /\ base_addr \in Nat /\ Length \in Nat
         /\ Unit(o) \in {1, 2} /\ Array!Unit(o) = Unit(o)
<1>1. WellFormed(o) /\ o # NoOperation
  BY ViewsAssumption
<1>2. o.start \in Int /\ o.stop \in Int /\ o.value \in Seq(Byte)
  BY <1>1 DEF WellFormed
<1> QED BY <1>1, <1>2, ViewsAssumption, LenProperties DEF Array!Unit, Unit

\* A refused operation is one outside the array.
LEMMA RefusedOutside ==
  ASSUME NEW o \in Operation, Raises(o)
  PROVE  o.start < 0 \/ o.stop < o.start
<1>1. o.start \in Int /\ o.stop \in Int /\ base_addr \in Nat
  BY Operations
<1>2. Count(o) < 0 => o.stop - o.start < 0
  BY <1>1 DEF Count, HalfOf
<1>3. (o.start < 0) \/ (o.stop < o.start) \/ Count(o) < 0 \/ base_addr + o.start < 0
  BY Zenon DEF Raises
<1> QED BY <1>1, <1>2, <1>3

\* Any other that is Legal works inside the window.
LEMMA ServedInside ==
  ASSUME NEW o \in Operation, Legal(o), ~Raises(o)
  PROVE  0 <= o.start /\ o.start <= o.stop
<1>1. o.start \in Int /\ o.stop \in Int /\ Len(o.value) \in Nat /\ Unit(o) \in {1, 2}
  BY Operations
<1> DEFINE item == o.item
           length == o.stop - o.start
<1>2. o.kind \in {"get", "set", "fill"} /\ o.view \in {"byte", "word"}
  BY Operations DEF WellFormed
<1>3. item => o.kind # "fill" /\ length = Unit(o) /\ ~(o.start < 0)
  BY Operations, Zenon DEF WellFormed, Raises
<1>4. ~item => /\ o.kind = "get" => ~(o.start < 0) /\ ~(o.stop < o.start)
               /\ o.kind # "get" => o.start >= 0
  BY Zenon DEF Legal, Raises
<1>5. o.kind = "set" => Len(o.value) = length
  BY Zenon DEF Legal
<1>6. o.kind = "fill" => ~(Count(o) < 0) /\ (o.view = "word" => length # -1)
  BY Zenon DEF Legal, Raises
<1>7. o.kind = "fill" => length >= 0
  BY <1>1, <1>2, <1>6 DEF Count, HalfOf
<1>8. CASE item
  <2>1. length = Unit(o) /\ ~(o.start < 0)
    BY <1>3, <1>8, Zenon
  <2> QED BY ONLY <1>1, <2>1
<1>9. CASE ~item
  <2>1. /\ o.kind = "get" => ~(o.start < 0) /\ ~(o.stop < o.start)
        /\ o.kind # "get" => o.start >= 0
    BY <1>4, <1>9, Zenon
  <2> HIDE DEF item
  <2> QED BY ONLY <1>1, <1>2, <1>5, <1>7, <2>1
<1> QED BY <1>8, <1>9, Zenon

LEMMA Halves ==
  ASSUME NEW n \in Nat
  PROVE  n \div 2 \in Nat /\ n % 2 \in Nat /\ n - (n % 2) = 2 * (n \div 2) /\ n % 1 = 0
<1>1. n \div 2 \in Nat /\ n % 2 \in Nat /\ n = 2 * (n \div 2) + (n % 2)
  BY ONLY n \in Nat, SMTT(10)
<1>2. n % 1 = 0
  BY ONLY n \in Nat, SMTT(10)
<1> QED BY ONLY <1>1, <1>2, n \in Nat

LEMMA ExtentFits ==
  ASSUME NEW o \in Operation, Legal(o), ~Raises(o)
  PROVE  /\ Extent(o) \in Nat /\ o.start \in Nat /\ o.start + Extent(o) <= Length
         /\ o.view = "byte" => Extent(o) = Count(o)
         /\ o.view = "word" => Extent(o) = 2 * Count(o) /\ Count(o) \in Nat
<1>1. /\ o.start \in Int /\ o.stop \in Int /\ o.stop <= Length /\ Length \in Nat
      /\ Array!Unit(o) = IF o.view = "word" THEN 2 ELSE 1
  BY Operations DEF Legal, Unit
<1>2. 0 <= o.start /\ o.start <= o.stop
  BY ServedInside
<1> DEFINE n == o.stop - o.start
<1>3. n \in Nat /\ o.start \in Nat /\ o.start + n <= Length
  BY ONLY <1>1, <1>2
<1>4. Extent(o) = n - (n % Array!Unit(o)) /\ (o.view = "word" => Count(o) = HalfOf(n)) /\ (o.view # "word" => Count(o) = n)
  BY DEF Extent, Count
<1> HIDE DEF n
<1>5. HalfOf(n) = n \div 2
  BY ONLY <1>3 DEF HalfOf
<1>6. n \div 2 \in Nat /\ n % 2 \in Nat /\ n - (n % 2) = 2 * (n \div 2) /\ n % 1 = 0
  BY <1>3, Halves
<1>7. CASE o.view = "word"
  <2>1. Extent(o) = 2 * (n \div 2) /\ Count(o) = n \div 2 /\ 2 * (n \div 2) = n - (n % 2)
    BY <1>1, <1>4, <1>5, <1>6, <1>7
  <2> QED BY ONLY <1>1, <1>3, <1>6, <1>7, <2>1
<1>8. CASE o.view # "word"
  <2>1. Extent(o) = n - 0 /\ Count(o) = n
    BY <1>1, <1>4, <1>6, <1>8
  <2> QED BY ONLY <1>3, <1>8, <2>1
<1> QED BY <1>7, <1>8

-----------------------------------------------------------------------------
LEMMA RequestCases ==
  ASSUME NEW o \in Operation
  PROVE  /\ RequestOf(o).arg0 = base_addr + o.start
         /\ o.kind = "get" => Written(RequestOf(o)) = << >>
         /\ o.kind = "get" /\ o.view = "byte" => ResponseSize(RequestOf(o)) = Count(o)
         /\ o.kind = "get" /\ o.view = "word" => ResponseSize(RequestOf(o)) = 2 * Count(o)
         /\ o.kind # "get" => ResponseSize(RequestOf(o)) = 0
         /\ o.kind = "set" => Written(RequestOf(o)) = o.value
         /\ o.kind = "fill" /\ o.view = "byte" => Written(RequestOf(o)) = Bytes(o.value[1], Count(o))
         /\ o.kind = "fill" /\ o.view = "word" => Written(RequestOf(o)) = Words(o.value, Count(o))
<1>1. o.kind \in {"get", "set", "fill"} /\ o.view \in {"byte", "word"}
  BY Operations, Zenon DEF WellFormed
<1> DEFINE a == base_addr + o.start
           r == RequestOf(o)
<1>2. /\ o.kind = "get"  /\ o.view = "byte" => r = ReadBytes(a, Count(o))
      /\ o.kind = "get"  /\ o.view = "word" => r = ReadWords(a, Count(o))
      /\ o.kind = "set"  /\ o.view = "byte" => r = WriteBytes(a, o.value)
      /\ o.kind = "set"  /\ o.view = "word" => r = WriteWords(a, o.value)
      /\ o.kind = "fill" /\ o.view = "byte" => r = FillBytes(a, Count(o), o.value[1])
      /\ o.kind = "fill" /\ o.view = "word" => r = FillWords(a, Count(o), o.value)
  BY DEF RequestOf
<1> HIDE DEF a, r
<1>3. CASE o.kind = "get" /\ o.view = "byte"
  BY <1>2, <1>3 DEF ReadBytes, Written, ResponseSize, CMD_WRITE_BYTES, CMD_WRITE_WORDS, CMD_READ_BYTES, CMD_READ_WORDS,
     CMD_FILL_BYTES, CMD_FILL_WORDS, a, r
<1>4. CASE o.kind = "get" /\ o.view = "word"
  BY <1>2, <1>4 DEF ReadWords, Written, ResponseSize, CMD_WRITE_BYTES, CMD_WRITE_WORDS, CMD_READ_BYTES, CMD_READ_WORDS,
     CMD_FILL_BYTES, CMD_FILL_WORDS, a, r
<1>5. CASE o.kind = "set" /\ o.view = "byte"
  BY <1>2, <1>5 DEF WriteBytes, Written, ResponseSize, CMD_WRITE_BYTES, CMD_WRITE_WORDS, CMD_READ_BYTES, CMD_READ_WORDS,
     CMD_FILL_BYTES, CMD_FILL_WORDS, a, r
<1>6. CASE o.kind = "set" /\ o.view = "word"
  BY <1>2, <1>6 DEF WriteWords, Written, ResponseSize, CMD_WRITE_BYTES, CMD_WRITE_WORDS, CMD_READ_BYTES, CMD_READ_WORDS,
     CMD_FILL_BYTES, CMD_FILL_WORDS, a, r
<1>7. CASE o.kind = "fill" /\ o.view = "byte"
  BY <1>2, <1>7 DEF FillBytes, Written, ResponseSize, CMD_WRITE_BYTES, CMD_WRITE_WORDS, CMD_READ_BYTES, CMD_READ_WORDS,
     CMD_FILL_BYTES, CMD_FILL_WORDS, a, r
<1>8. CASE o.kind = "fill" /\ o.view = "word"
  BY <1>2, <1>8 DEF FillWords, Written, ResponseSize, CMD_WRITE_BYTES, CMD_WRITE_WORDS, CMD_READ_BYTES, CMD_READ_WORDS,
     CMD_FILL_BYTES, CMD_FILL_WORDS, a, r
<1> QED BY <1>1, <1>3, <1>4, <1>5, <1>6, <1>7, <1>8

\* Whatever is written is bytes.
LEMMA WrittenType ==
  ASSUME NEW o \in Operation, ~Raises(o)
  PROVE  Written(RequestOf(o)) \in Seq(Byte)
<1>1. /\ o.value \in Seq(Byte) /\ Len(o.value) \in Nat /\ o.start \in Int /\ o.stop \in Int
      /\ o.view \in {"byte", "word"} /\ o.kind \in {"get", "set", "fill"}
      /\ o.kind = "fill" => Len(o.value) = Unit(o)
  BY Operations, Zenon DEF WellFormed
<1>2. CASE o.kind = "get"
  BY <1>2, RequestCases, EmptySeq
<1>3. CASE o.kind = "set"
  BY <1>1, <1>3, RequestCases
<1>4. CASE o.kind = "fill"
  <2>1. Count(o) \in Nat
    <3>1. ~(Count(o) < 0)
      BY <1>4, Zenon DEF Raises
    <3>2. Count(o) \in Int
      BY <1>1 DEF Count, HalfOf
    <3> QED BY ONLY <3>1, <3>2
  <2>2. CASE o.view = "byte"
    <3>1. o.value[1] \in Byte
      BY <1>1, <1>4, <2>2, ElementOfSeq DEF Unit
    <3> QED BY <1>4, <2>1, <2>2, <3>1, RequestCases, BytesType
  <2>3. CASE o.view = "word"
    <3>1. Len(o.value) > 1
      <4>1. Len(o.value) = 2
        BY <1>1, <1>4, <2>3 DEF Unit
      <4> QED BY ONLY <4>1
    <3>2. Written(RequestOf(o)) = Words(o.value, Count(o))
      BY <1>4, <2>3, RequestCases
    <3> QED BY <1>1, <2>1, <3>1, <3>2, WordsType
  <2> QED BY <1>1, <2>2, <2>3
<1> QED BY <1>1, <1>2, <1>3, <1>4

\* What a Legal operation writes: the value, as often as it fits.
LEMMA WrittenValue ==
  ASSUME NEW o \in Operation, Legal(o), ~Raises(o), o.kind # "get"
  PROVE  /\ Written(RequestOf(o)) \in Seq(Byte)
         /\ Len(Written(RequestOf(o))) = Extent(o)
         /\ \A j \in 1 .. Extent(o) : Written(RequestOf(o))[j] = o.value[((j - 1) % Len(o.value)) + 1]
<1> DEFINE w == Written(RequestOf(o))
           v == o.value
           n == Extent(o)
           c == Count(o)
<1>1. v \in Seq(Byte) /\ Len(v) \in Nat /\ o.view \in {"byte", "word"} /\ o.kind \in {"set", "fill"}
  BY Operations, Zenon DEF WellFormed
<1>2. /\ n \in Nat
      /\ o.view = "byte" => n = c
      /\ o.view = "word" => n = 2 * c /\ c \in Nat
  BY ExtentFits
<1>3. /\ o.kind = "set" => w = v
      /\ o.kind = "fill" /\ o.view = "byte" => w = Bytes(v[1], c)
      /\ o.kind = "fill" /\ o.view = "word" => w = Words(v, c)
  BY RequestCases
<1>4. CASE o.kind = "set"
  <2>1. Len(v) = n
    <3> DEFINE length == o.stop - o.start
    <3>1. Len(v) = length /\ Len(v) % Unit(o) = 0
      BY Operations, <1>4, Zenon DEF Legal, WellFormed
    <3>2. n = length - (length % Unit(o))
      BY Operations DEF Extent
    <3>3. length \in Int
      BY Operations
    <3> HIDE DEF length, n
    <3> QED BY ONLY <3>1, <3>2, <3>3
  <2>2. \A j \in 1 .. Len(v) : (j - 1) % Len(v) = j - 1
    <3>1. \A k \in Nat : \A j \in 1 .. k : (j - 1) % k = j - 1
      BY ONLY TRUE, SMTT(10)
    <3> QED BY <1>1, <3>1
  <2>3. \A j \in 1 .. n : w[j] = v[((j - 1) % Len(v)) + 1]
    <3> SUFFICES ASSUME NEW j \in 1 .. n
                 PROVE  w[j] = v[((j - 1) % Len(v)) + 1]
      OBVIOUS
    <3>1. (j - 1) % Len(v) = j - 1
      BY <2>1, <2>2
    <3>2. (j - 1) + 1 = j
      BY <1>2
    <3> QED BY <1>3, <1>4, <3>1, <3>2
  <2> QED BY <1>1, <1>3, <1>4, <2>1, <2>3
<1>5. CASE o.kind = "fill" /\ o.view = "byte"
  <2>1. Len(v) = 1
    BY Operations, <1>5 DEF WellFormed, Unit
  <2>2. v[1] \in Byte /\ c \in Nat
    BY <1>1, <1>2, <1>5, <2>1, ElementOfSeq
  <2>3. w \in Seq(Byte) /\ Len(w) = n
    BY <1>2, <1>3, <1>5, <2>2, BytesType
  <2>4. \A j \in 1 .. n : w[j] = v[1]
    BY <1>2, <1>3, <1>5 DEF Bytes
  <2>5. \A j \in Int : (j - 1) % 1 = 0
    BY ONLY TRUE, SMTT(10)
  <2>6. \A j \in 1 .. n : ((j - 1) % Len(v)) + 1 = 1
    BY <1>2, <2>1, <2>5
  <2> QED BY <2>3, <2>4, <2>6
<1>6. CASE o.kind = "fill" /\ o.view = "word"
  <2>1. Len(v) = 2
    BY Operations, <1>6 DEF WellFormed, Unit
  <2>2. w \in Seq(Byte) /\ Len(w) = n
    <3>1. Len(v) > 1
      BY ONLY <2>1
    <3> QED BY <1>1, <1>2, <1>3, <1>6, <3>1, WordsType
  <2>3. \A j \in 1 .. n : w[j] = v[1 + ((j - 1) % 2)]
    BY <1>2, <1>3, <1>6 DEF Words
  <2>4. \A j \in Int : 1 + ((j - 1) % 2) = ((j - 1) % 2) + 1
    BY ONLY TRUE, SMTT(10)
  <2>5. \A j \in 1 .. n : j \in Int
    BY <1>2
  <2> QED BY <2>1, <2>2, <2>3, <2>4, <2>5
<1> QED BY <1>1, <1>4, <1>5, <1>6

-----------------------------------------------------------------------------
(***************************************************************************)
(* The window                                                              *)
(***************************************************************************)
Cell(k) == Address(FarAdd(base_addr, k))

LEMMA CellType ==
  ASSUME NEW k \in Nat
  PROVE  Cell(k) \in Phys
<1>1. base_addr \in Nat
  BY ViewsAssumption
<1> QED BY <1>1, FarAddType, AddressType DEF Cell

\* Each place of the window has its own address, and an operation that begins
\* at start finds the place start + i - 1 where its i-th byte is.
LEMMA Window ==
  ASSUME NEW start \in Nat, NEW n \in Nat, start + n <= Length
  PROVE  /\ \A i, j \in 0 .. Length - 1 : Cell(i) = Cell(j) => i = j
         /\ \A i \in 1 .. n : /\ start + i - 1 \in 0 .. Length - 1
                              /\ Address(FarAdd(base_addr + start, i - 1)) = Cell(start + i - 1)
         /\ OwnBytes(base_addr + start, n)
<1>1. /\ base_addr \in Nat /\ Length \in Nat /\ OffMod \in Nat \ {0}
      /\ Offset(base_addr) + Length <= OffMod /\ Length <= PhysSize /\ Offset(base_addr) \in Nat
  BY ViewsAssumption, FarMemoryAssumption DEF Offset
<1>2. OwnBytes(base_addr, Length)
  BY <1>1, BlockOwnsBytes
<1>3. ASSUME NEW i \in 0 .. Length - 1, NEW j \in 0 .. Length - 1, Cell(i) = Cell(j)
      PROVE  i = j
  <2>1. i + 1 \in 1 .. Length /\ j + 1 \in 1 .. Length /\ (i + 1) - 1 = i /\ (j + 1) - 1 = j
    BY <1>1
  <2>2. \A x, y \in 1 .. Length : Address(FarAdd(base_addr, x - 1)) = Address(FarAdd(base_addr, y - 1)) => x = y
    BY <1>2 DEF OwnBytes
  <2>3. Address(FarAdd(base_addr, (i + 1) - 1)) = Address(FarAdd(base_addr, (j + 1) - 1))
    BY <1>3, <2>1 DEF Cell
  <2>4. i + 1 = j + 1
    BY <2>1, <2>2, <2>3
  <2> QED BY ONLY <2>1, <2>4
<1>4. CASE n = 0
  <2>1. OwnBytes(base_addr + start, 0)
    <3>1. Offset(base_addr + start) + 0 <= OffMod
      <4>1. base_addr + start \in Nat
        BY <1>1
      <4>2. (base_addr + start) % OffMod \in Nat /\ (base_addr + start) % OffMod < OffMod
        BY ONLY <1>1, <4>1
      <4> QED BY ONLY <1>1, <4>2 DEF Offset
    <3> QED BY <3>1 DEF OwnBytes
  <2> QED BY <1>3, <1>4, <2>1
<1>5. CASE n # 0
  <2>1. Offset(base_addr) + start < OffMod
    BY <1>1, <1>5
  <2>2. /\ FarAdd(base_addr, start) = base_addr + start
        /\ \A i \in 1 .. n : FarAdd(FarAdd(base_addr, start), i - 1) = FarAdd(base_addr, (start + i) - 1)
        /\ OwnBytes(FarAdd(base_addr, start), n)
    BY <1>1, <1>2, <1>5, PartOwnBytes
  <2>3. \A i \in 1 .. n : start + i - 1 = (start + i) - 1 /\ start + i - 1 \in 0 .. Length - 1
    BY <1>1
  <2> QED BY <1>3, <2>2, <2>3 DEF Cell
<1> QED BY <1>4, <1>5

-----------------------------------------------------------------------------
(***************************************************************************)
(* The steps                                                               *)
(***************************************************************************)
\* The request under way is what the operation becomes.
ViewInv ==
  /\ mem \in [Phys -> Byte]
  /\ doing \in Operation \cup {NoOperation}
  /\ \/ request = <<>>
     \/ doing \in Operation /\ ~Raises(doing) /\ request = <<RequestOf(doing)>>

LEMMA ReturnOf ==
  ASSUME ViewInv, Return
  PROVE  /\ doing \in Operation /\ ~Raises(doing) /\ doing' = NoOperation
         /\ mem' = Store(mem, base_addr + doing.start, Written(RequestOf(doing)))
         /\ answer' = Load(mem, base_addr + doing.start, ResponseSize(RequestOf(doing)))
<1>1. doing \in Operation /\ ~Raises(doing) /\ request = <<RequestOf(doing)>>
  BY Zenon DEF ViewInv, Return
<1>2. request[1] = RequestOf(doing)
  BY <1>1
<1>3. RequestOf(doing).arg0 = base_addr + doing.start
  BY <1>1, RequestCases
<1> QED BY <1>1, <1>2, <1>3 DEF Return

LEMMA ViewInvStep ==
  ASSUME ViewInv, [Next]_vars
  PROVE  ViewInv'
<1>1. CASE Call
  <2>1. request = <<>> /\ request' = <<>> /\ mem' = mem
    BY <1>1, ViewsAssumption, Zenon DEF Call, ViewInv
  <2>2. doing' \in Operation
    BY <1>1 DEF Call
  <2> QED BY <2>1, <2>2 DEF ViewInv
<1>2. CASE Refuse
  BY <1>2 DEF Refuse, ViewInv
<1>3. CASE Send
  <2>1. doing \in Operation /\ ~Raises(doing)
    BY <1>3, Zenon DEF Send, ViewInv
  <2> QED BY <1>3, <2>1, Zenon DEF Send, ViewInv, Raises, Count, HalfOf, RequestOf
<1>4. CASE Return
  <2> DEFINE w == Written(RequestOf(doing))
             a == base_addr + doing.start
  <2>1. doing \in Operation /\ ~Raises(doing) /\ mem' = Store(mem, a, w)
    BY <1>4, ReturnOf
  <2>2. w \in Seq(Byte)
    BY <2>1, WrittenType
  <2>3. mem' \in [Phys -> Byte]
    <3>1. mem \in [Phys -> Byte]
      BY DEF ViewInv
    <3> HIDE DEF w, a
    <3> QED BY <2>1, <2>2, <3>1, StoreType
  <2> QED BY <1>4, <2>3 DEF Return, ViewInv
<1>5. CASE UNCHANGED vars
  <2>1. mem' = mem /\ doing' = doing /\ request' = request
    BY <1>5 DEF vars
  <2>2. (doing \in Operation /\ ~Raises(doing) /\ request = <<RequestOf(doing)>>)
        => (doing' \in Operation /\ ~Raises(doing') /\ request' = <<RequestOf(doing')>>)
    BY <2>1
  <2> QED BY <2>1, <2>2 DEF ViewInv
<1> QED BY <1>1, <1>2, <1>3, <1>4, <1>5 DEF Next

LEMMA ViewInvHolds == Spec => []ViewInv
<1>1. Init => ViewInv
  BY ViewsAssumption DEF Init, ViewInv
<1> QED BY <1>1, ViewInvStep, PTL DEF Spec

\* A read takes the elements from the window and leaves the memory alone.
LEMMA GetReturns ==
  ASSUME ViewInv, Return, Legal(doing), doing.kind = "get"
  PROVE  Array!Get
<1> DEFINE o == doing
           s == o.start
           n == Extent(o)
           r == RequestOf(o)
<1>1. /\ o \in Operation /\ ~Raises(o) /\ doing' = NoOperation /\ mem \in [Phys -> Byte]
      /\ mem' = Store(mem, base_addr + s, Written(r)) /\ answer' = Load(mem, base_addr + s, ResponseSize(r))
  BY ReturnOf DEF ViewInv
<1>2. 0 <= s /\ s <= o.stop /\ o # NoOperation /\ o.view \in {"byte", "word"}
  BY <1>1, ServedInside, Operations DEF WellFormed
<1>3. n \in Nat /\ s \in Nat /\ s + n <= Length /\ ResponseSize(r) = n /\ Written(r) = << >>
  BY <1>1, <1>2, ExtentFits, RequestCases
<1>4. /\ \A i \in 1 .. n : /\ s + i - 1 \in 0 .. Length - 1
                           /\ Address(FarAdd(base_addr + s, i - 1)) = Cell(s + i - 1)
  BY <1>3, Window
<1>5. mem' = mem
  <2>1. << >> \in Seq(Byte) /\ Len(<< >>) = 0
    BY EmptySeq
  <2> QED BY <1>1, <1>3, <2>1, StoreNothing
<1> DEFINE contents == [k \in 0 .. Length - 1 |-> mem[Address(FarAdd(base_addr, k))]]
<1>6. answer' = [i \in 1 .. n |-> contents[s + i - 1]]
  <2>1. answer' = [i \in 1 .. n |-> mem[Address(FarAdd(base_addr + s, i - 1))]]
    BY <1>1, <1>3 DEF Load
  <2>2. \A i \in 1 .. n : mem[Address(FarAdd(base_addr + s, i - 1))] = contents[s + i - 1]
    BY <1>4 DEF Cell
  <2> HIDE DEF contents, n, s
  <2> QED BY <2>1, <2>2
<1>7. contents' = contents
  BY <1>5
<1> QED BY <1>1, <1>2, <1>6, <1>7 DEF Array!Get, Extent

\* A write or a fill changes its places, each to its part of the value.
LEMMA SetReturns ==
  ASSUME ViewInv, Return, Legal(doing), doing.kind # "get"
  PROVE  Array!Set
<1> DEFINE o == doing
           s == o.start
           n == Extent(o)
           r == RequestOf(o)
           w == Written(r)
           a == base_addr + s
<1>1. /\ o \in Operation /\ ~Raises(o) /\ doing' = NoOperation /\ mem \in [Phys -> Byte]
      /\ mem' = Store(mem, a, w) /\ answer' = Load(mem, a, ResponseSize(r))
  BY ReturnOf DEF ViewInv
<1>2. 0 <= s /\ s <= o.stop /\ o # NoOperation /\ o.kind \in {"set", "fill"} /\ base_addr \in Nat /\ Length \in Nat
      /\ s \in Int /\ o.stop \in Int
  BY <1>1, ServedInside, Operations DEF WellFormed
<1>3. n \in Nat /\ s \in Nat /\ s + n <= Length /\ ResponseSize(r) = 0
  BY <1>1, ExtentFits, RequestCases
<1>4. w \in Seq(Byte) /\ Len(w) = n /\ \A j \in 1 .. n : w[j] = o.value[((j - 1) % Len(o.value)) + 1]
  BY <1>1, WrittenValue
<1>5. /\ \A i, j \in 0 .. Length - 1 : Cell(i) = Cell(j) => i = j
      /\ \A i \in 1 .. n : s + i - 1 \in 0 .. Length - 1 /\ Address(FarAdd(a, i - 1)) = Cell(s + i - 1)
      /\ OwnBytes(a, n)
  BY <1>3, Window
<1>6. answer' = << >>
  BY <1>1, <1>3 DEF Load
<1>7. /\ \A i \in 1 .. n : mem'[Address(FarAdd(a, i - 1))] = w[i]
      /\ \A b \in Phys : (\A i \in 1 .. n : Address(FarAdd(a, i - 1)) # b) => mem'[b] = mem[b]
  <2>1. a \in Nat
    BY <1>2, <1>3
  <2> HIDE DEF a, w, n
  <2>2. /\ \A i \in 1 .. Len(w) : Store(mem, a, w)[Address(FarAdd(a, i - 1))] = w[i]
        /\ \A b \in Phys : (\A i \in 1 .. Len(w) : Address(FarAdd(a, i - 1)) # b) => Store(mem, a, w)[b] = mem[b]
    BY <1>1, <1>4, <1>5, <2>1, StoreInPlace
  <2> QED BY <1>1, <1>4, <2>2
<1> DEFINE contents == [k \in 0 .. Length - 1 |-> mem[Cell(k)]]
           places == {i \in 0 .. Length - 1 : i >= s /\ i < o.stop - ((o.stop - s) % Array!Unit(o))}
<1>8. \A i \in 0 .. Length - 1 : i \in places <=> i >= s /\ i < s + n
  <2> DEFINE rest == (o.stop - s) % Array!Unit(o)
  <2>1. rest \in Int
    <3>1. n = (o.stop - s) - rest
      BY DEF Extent
    <3>2. Array!Unit(o) \in {1, 2}
      BY <1>1, Operations
    <3> QED BY <1>2, <3>2
  <2>2. n = (o.stop - s) - rest
    BY DEF Extent
  <2> HIDE DEF rest, n, s, o
  <2>3. o.stop - rest = s + n
    BY <1>2, <2>1, <2>2
  <2> QED BY <2>3 DEF rest
<1>9. ASSUME NEW i \in 0 .. Length - 1
      PROVE  mem'[Cell(i)] = IF i \in places THEN o.value[((i - s) % Len(o.value)) + 1] ELSE mem[Cell(i)]
  <2>1. CASE i \in places
    <3> DEFINE j == i - s + 1
    <3>1. j \in 1 .. n /\ s + j - 1 = i /\ j - 1 = i - s
      BY <1>2, <1>3, <1>8, <2>1
    <3> HIDE DEF j, places, n, a, w
    <3>2. mem'[Cell(i)] = w[j]
      BY <1>5, <1>7, <3>1
    <3>3. w[j] = o.value[((j - 1) % Len(o.value)) + 1]
      BY <1>4, <3>1
    <3> QED BY <2>1, <3>1, <3>2, <3>3
  <2>2. CASE i \notin places
    <3> HIDE DEF a, w, n
    <3>1. ASSUME NEW j \in 1 .. n
          PROVE  Address(FarAdd(a, j - 1)) # Cell(i)
      <4>1. s + j - 1 \in 0 .. Length - 1 /\ Address(FarAdd(a, j - 1)) = Cell(s + j - 1)
        BY <1>5
      <4>2. s + j - 1 # i
        BY <1>2, <1>3, <1>8, <2>2
      <4> QED BY <1>5, <4>1, <4>2
    <3>2. Cell(i) \in Phys
      BY CellType
    <3>3. mem'[Cell(i)] = mem[Cell(i)]
      BY <1>7, <3>1, <3>2
    <3> HIDE DEF places
    <3> QED BY <2>2, <3>3
  <2> QED BY <2>1, <2>2
<1>10. [k \in 0 .. Length - 1 |-> mem'[Cell(k)]]
       = [i \in 0 .. Length - 1 |-> IF i \in places THEN o.value[((i - s) % Len(o.value)) + 1] ELSE contents[i]]
  <2> HIDE DEF places
  <2> QED BY <1>9
<1>11. base_addr' = base_addr
  OBVIOUS
<1> QED BY <1>1, <1>2, <1>6, <1>10 DEF Array!Set, Array!Places, Cell

-----------------------------------------------------------------------------
(***************************************************************************)
(* The theorems                                                            *)
(***************************************************************************)
\* ArraySpec: every Legal operation on a view is one on an array over the board's
\* memory, and one that is refused changes nothing, also among operations that
\* are not Legal.
THEOREM ImplementsArray == Spec => ArraySpec
<1>1. Init => Array!Init
  BY DEF Init, Array!Init
<1> DEFINE contents == [k \in 0 .. Length - 1 |-> mem[Address(FarAdd(base_addr, k))]]
<1>2. ViewInv /\ [Next]_vars => [Permitted => [Array!Next]_(Array!vars)]_vars
  <2> SUFFICES ASSUME ViewInv, [Next]_vars, Permitted
               PROVE  [Array!Next]_(Array!vars)
    OBVIOUS
  <2>1. CASE Call
    <3>1. contents' = contents
      BY <2>1 DEF Call
    <3> QED BY <2>1, <3>1 DEF Call, Array!Call, Array!Next
  <2>2. CASE Refuse
    <3>1. doing \in Operation /\ Raises(doing)
      BY <2>2, Zenon DEF Refuse, ViewInv
    <3>2. doing.start < 0 \/ doing.stop < doing.start
      BY <3>1, RefusedOutside
    <3>3. contents' = contents
      BY <2>2 DEF Refuse
    <3> QED BY <2>2, <3>2, <3>3 DEF Refuse, Array!Refuse, Array!Next
  <2>3. CASE Send \/ UNCHANGED vars
    <3>1. contents' = contents /\ doing' = doing /\ answer' = answer
      BY <2>3 DEF Send, vars
    <3> QED BY <3>1 DEF Array!vars
  <2>4. CASE Return
    <3>1. Legal(doing)
      BY <2>4, ReturnOf, ViewsAssumption DEF Permitted
    <3> QED BY <2>4, <3>1, GetReturns, SetReturns DEF Array!Next
  <2> QED BY <2>1, <2>2, <2>3, <2>4 DEF Next
<1> QED BY <1>1, <1>2, ViewInvHolds, PTL DEF Spec, ArraySpec

\* Untouched: a Legal operation never changes memory around the window.
THEOREM StaysInWindow == Spec => Untouched
<1>1. ViewInv /\ [Next]_vars => [Permitted => \A a \in Outside : mem'[a] = mem[a]]_vars
  <2> SUFFICES ASSUME ViewInv, [Next]_vars, Permitted, NEW b \in Outside
               PROVE  mem'[b] = mem[b]
    OBVIOUS
  <2>1. CASE Return
    <3> DEFINE o == doing
               n == Extent(o)
               w == Written(RequestOf(o))
               a == base_addr + o.start
    <3>1. /\ o \in Operation /\ ~Raises(o) /\ Legal(o)
          /\ mem' = Store(mem, a, w) /\ mem \in [Phys -> Byte]
      BY <2>1, ReturnOf, ViewsAssumption DEF ViewInv, Permitted
    <3>2. n \in Nat /\ o.start \in Nat /\ o.start + n <= Length /\ base_addr \in Nat
      BY <3>1, ExtentFits, ViewsAssumption
    <3>3. w \in Seq(Byte) /\ (Len(w) = n \/ w = << >>)
      BY <3>1, EmptySeq, RequestCases, WrittenValue
    <3>4. /\ \A i \in 1 .. n : o.start + i - 1 \in 0 .. Length - 1 /\ Address(FarAdd(a, i - 1)) = Cell(o.start + i - 1)
          /\ OwnBytes(a, n)
      BY <3>2, Window
    <3>5. b \in Phys /\ \A k \in 0 .. Length - 1 : Cell(k) # b
      BY DEF Outside, Cell
    <3>6. a \in Nat
      BY <3>2
    <3> HIDE DEF a, w, n, o
    <3>7. CASE w = << >>
      <4>1. mem' = mem
        BY <3>1, <3>3, <3>7, EmptySeq, StoreNothing
      <4> QED BY <4>1
    <3>8. CASE Len(w) = n
      <4>1. \A i \in 1 .. Len(w) : Address(FarAdd(a, i - 1)) # b
        BY <3>4, <3>5, <3>8
      <4>2. \A x \in Phys : (\A i \in 1 .. Len(w) : Address(FarAdd(a, i - 1)) # x) => Store(mem, a, w)[x] = mem[x]
        BY <3>1, <3>3, <3>4, <3>6, <3>8, StoreInPlace
      <4> QED BY <3>1, <3>5, <4>1, <4>2
    <3> QED BY <3>3, <3>7, <3>8
  <2>2. CASE Call \/ Refuse \/ Send \/ UNCHANGED vars
    BY <2>2 DEF Call, Refuse, Send, vars
  <2> QED BY <2>1, <2>2 DEF Next
<1> QED BY <1>1, ViewInvHolds, PTL DEF Spec, Untouched
=============================================================================
