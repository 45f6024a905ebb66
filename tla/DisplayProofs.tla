--------------------------- MODULE DisplayProofs ----------------------------
(***************************************************************************)
(* The text on the screen.  The screen shows exactly the page, and results *)
(* that were measured within the last round of the tests: for every table  *)
(* of tests, delay of the pages and size of the screen that                *)
(* DisplayAssumption allows.  And printf.c, which formats the lines, stays *)
(* within its conversion buffer and within the format, for every call.     *)
(***************************************************************************)
EXTENDS Display, Printf, TLAPS, SequenceTheorems, FiniteSetTheorems, WellFoundedInduction

-----------------------------------------------------------------------------
(***************************************************************************)
(* The table                                                               *)
(***************************************************************************)
LEMMA Table ==
  /\ NUM_TIMING_TESTS \in Nat \ {0}
  /\ \A t \in Ids : /\ timing_tests(t).name \in STRING \ {"^"}
                    /\ timing_tests(t).page \in Nat
                    /\ timing_tests(t).hw_ticks \in 0 .. 255
<1> DEFINE T == [name : STRING, page : Nat, hw_ticks : 0 .. 255]
<1>1. Tests \in Seq(T) /\ Tests # <<>> /\ \A t \in Ids : timing_tests(t).name # "^"
  BY DisplayAssumption
<1>2. NUM_TIMING_TESTS \in Nat \ {0}
  BY <1>1, EmptySeq DEF NUM_TIMING_TESTS
<1>3. ASSUME NEW t \in Ids
      PROVE  timing_tests(t) \in T
  <2>1. t + 1 \in 1 .. Len(Tests)
    BY <1>2 DEF Ids, NUM_TIMING_TESTS
  <2> QED BY <1>1, <2>1, ElementOfSeq DEF timing_tests
<1>4. \A t \in Ids : /\ timing_tests(t).name \in STRING
                     /\ timing_tests(t).page \in Nat
                     /\ timing_tests(t).hw_ticks \in 0 .. 255
  BY <1>3
<1> QED BY <1>1, <1>2, <1>4

-----------------------------------------------------------------------------
(***************************************************************************)
(* Numbers                                                                 *)
(***************************************************************************)
DigitGlyphs == {"0", "1", "2", "3", "4", "5", "6", "7", "8", "9"}

LEMMA DigitType ==
  ASSUME NEW d \in 0 .. 9
  PROVE  Digit(d) \in DigitGlyphs
BY DEF Digit, DigitGlyphs

\* A byte has one to three digits.
LEMMA DecimalType ==
  ASSUME NEW v \in 0 .. 255
  PROVE  Decimal(v) \in Seq(DigitGlyphs) /\ Len(Decimal(v)) \in 1 .. 3
<1> DEFINE places == {k \in 1 .. 5 : v >= Power[k]} \cup {1}
           len == CHOOSE k \in places : \A j \in places : j <= k
<1>1. places \subseteq 1 .. 3
  BY DEF Power
<1>2. \E k \in places : \A j \in places : j <= k
  <2>1. CASE 3 \in places
    BY <1>1, <2>1
  <2>2. CASE 3 \notin places /\ 2 \in places
    BY <1>1, <2>2
  <2>3. CASE 3 \notin places /\ 2 \notin places
    BY <1>1, <2>3
  <2> QED BY <2>1, <2>2, <2>3
<1>3. len \in 1 .. 3
  BY <1>1, <1>2
<1>4. Decimal(v) = [k \in 1 .. len |-> Digit((v \div Power[len - k + 1]) % 10)]
  BY DEF Decimal
<1> HIDE DEF len, places
<1>5. ASSUME NEW k \in 1 .. len
      PROVE  Digit((v \div Power[len - k + 1]) % 10) \in DigitGlyphs
  <2>1. len - k + 1 \in 1 .. 3
    BY <1>3
  <2>2. Power[len - k + 1] \in {1, 10, 100}
    BY <2>1 DEF Power
  <2>3. v \div Power[len - k + 1] \in Nat
    BY <2>2
  <2>4. (v \div Power[len - k + 1]) % 10 \in 0 .. 9
    BY <2>3
  <2> QED BY <2>4, DigitType
<1> QED BY <1>3, <1>4, <1>5

LEMMA WiderSeq ==
  ASSUME NEW S, NEW T, S \subseteq T, NEW s \in Seq(S)
  PROVE  s \in Seq(T)
<1>1. s \in [1 .. Len(s) -> S] /\ Len(s) \in Nat
  OBVIOUS
<1>2. s \in [1 .. Len(s) -> T]
  BY <1>1
<1> QED BY <1>1, <1>2

LEMMA PrefixType ==
  ASSUME NEW S, NEW s, NEW n \in Nat, \A k \in 1 .. n : s[k] \in S
  PROVE  SubSeq(s, 1, n) \in Seq(S) /\ Len(SubSeq(s, 1, n)) = n
<1>1. 1 \in Int /\ n \in Int /\ (IF 1 <= n THEN n - 1 + 1 ELSE 0) = n
  OBVIOUS
<1>2. /\ SubSeq(s, 1, n) \in Seq(S)
      /\ Len(SubSeq(s, 1, n)) = IF 1 <= n THEN n - 1 + 1 ELSE 0
  BY <1>1, SubSeqProperties
<1> QED BY <1>1, <1>2

Spaces == <<" ", " ">>

LEMMA SpacesType ==
  ASSUME NEW n \in 0 .. 2
  PROVE  SubSeq(Spaces, 1, n) \in Seq({" "}) /\ Len(SubSeq(Spaces, 1, n)) = n
<1>1. \A k \in 1 .. 2 : Spaces[k] \in {" "}
  <2>1. Spaces[1] = " " /\ Spaces[2] = " "
    BY DEF Spaces
  <2>2. \A k \in 1 .. 2 : k = 1 \/ k = 2
    OBVIOUS
  <2> QED BY <2>1, <2>2, Zenon
<1>2. n \in Nat /\ \A k \in 1 .. n : k \in 1 .. 2
  OBVIOUS
<1>3. \A k \in 1 .. n : Spaces[k] \in {" "}
  BY <1>1, <1>2, Zenon
<1> QED BY <1>2, <1>3, PrefixType, Zenon

\* %3u of a byte has three places.
LEMMA PaddedType ==
  ASSUME NEW v \in 0 .. 255
  PROVE  Padded(v) \in Seq(DigitGlyphs \cup {" "}) /\ Len(Padded(v)) = 3
<1>1. PICK d \in Seq(DigitGlyphs) : d = Decimal(v) /\ Len(d) \in 1 .. 3
  BY DecimalType
<1>2. PICK n \in 0 .. 2 : n = 3 - Len(d) /\ n + Len(d) = 3
  <2>1. \A m \in 1 .. 3 : \E n \in 0 .. 2 : n = 3 - m /\ n + m = 3
    OBVIOUS
  <2> QED BY <1>1, <2>1, Zenon
<1> DEFINE p == SubSeq(Spaces, 1, n)
           S == DigitGlyphs \cup {" "}
<1>3. p \in Seq({" "}) /\ Len(p) = n
  BY SpacesType
<1>4. Padded(v) = p \o d
  BY <1>1, <1>2 DEF Padded, Spaces
<1> HIDE DEF p, S
<1>5. p \in Seq(S) /\ d \in Seq(S)
  BY <1>3, WiderSeq DEF S
<1>6. Padded(v) \in Seq(S) /\ Len(Padded(v)) = Len(p) + Len(d)
  BY <1>4, <1>5, ConcatProperties
<1>7. Len(Padded(v)) = 3
  BY <1>2, <1>3, <1>6, Zenon
<1> QED BY <1>6, <1>7 DEF S

-----------------------------------------------------------------------------
(***************************************************************************)
(* The text of a line and the glyphs it stands for.                        *)
(***************************************************************************)
\* c is a followed by b.
IsJoin(S, c, a, b) ==
  /\ c \in Seq(S) /\ Len(c) = Len(a) + Len(b)
  /\ \A k \in 1 .. Len(a) : c[k] = a[k]
  /\ \A k \in 1 .. Len(b) : c[Len(a) + k] = b[k]

LEMMA Join ==
  ASSUME NEW S, NEW a \in Seq(S), NEW b \in Seq(S)
  PROVE  IsJoin(S, a \o b, a, b)
<1>1. /\ a \o b \in Seq(S) /\ Len(a \o b) = Len(a) + Len(b)
      /\ \A k \in 1 .. Len(a) + Len(b) :
           (a \o b)[k] = IF k <= Len(a) THEN a[k] ELSE b[k - Len(a)]
  BY ConcatProperties
<1>2. Len(a) \in Nat /\ Len(b) \in Nat
  OBVIOUS
<1>3. \A k \in 1 .. Len(a) : (a \o b)[k] = a[k]
  BY ONLY <1>1, <1>2
<1>4. ASSUME NEW k \in 1 .. Len(b)
      PROVE  (a \o b)[Len(a) + k] = b[k]
  <2>1. \A m \in Nat, n \in Nat : \A l \in 1 .. n :
          m + l \in 1 .. m + n /\ ~(m + l <= m) /\ (m + l) - m = l
    OBVIOUS
  <2>2. /\ Len(a) + k \in 1 .. Len(a) + Len(b) /\ ~(Len(a) + k <= Len(a))
        /\ (Len(a) + k) - Len(a) = k
    BY <1>2, <2>1, Zenon
  <2>3. (a \o b)[Len(a) + k] = b[(Len(a) + k) - Len(a)]
    BY <1>1, <2>2, Zenon
  <2> QED BY <2>2, <2>3, Zenon
<1> QED BY <1>1, <1>3, <1>4 DEF IsJoin

LEMMA Tuple1 ==
  ASSUME NEW S, NEW c1 \in S
  PROVE  <<c1>> \in Seq(S) /\ Len(<<c1>>) = 1 /\ <<c1>>[1] = c1
OBVIOUS

LEMMA Tuple2 ==
  ASSUME NEW S, NEW c1 \in S, NEW c2 \in S
  PROVE  /\ <<c1, c2>> \in Seq(S)
         /\ Len(<<c1, c2>>) = 2
         /\ <<c1, c2>>[1] = c1
         /\ <<c1, c2>>[2] = c2
OBVIOUS

LEMMA Tuple3 ==
  ASSUME NEW S, NEW c1 \in S, NEW c2 \in S, NEW c3 \in S
  PROVE  /\ <<c1, c2, c3>> \in Seq(S)
         /\ Len(<<c1, c2, c3>>) = 3
         /\ <<c1, c2, c3>>[1] = c1
         /\ <<c1, c2, c3>>[2] = c2
         /\ <<c1, c2, c3>>[3] = c3
OBVIOUS

LEMMA Tuple4 ==
  ASSUME NEW S, NEW c1 \in S, NEW c2 \in S, NEW c3 \in S, NEW c4 \in S
  PROVE  /\ <<c1, c2, c3, c4>> \in Seq(S)
         /\ Len(<<c1, c2, c3, c4>>) = 4
         /\ <<c1, c2, c3, c4>>[1] = c1
         /\ <<c1, c2, c3, c4>>[2] = c2
         /\ <<c1, c2, c3, c4>>[3] = c3
         /\ <<c1, c2, c3, c4>>[4] = c4
OBVIOUS

\* The characters of a line; a name counts as one.
Glyph == STRING \cup DigitGlyphs \cup {"^", "*", " ", ":", "(", ")"}

LEMMA Chars ==
  /\ "^" \in Glyph /\ "*" \in Glyph /\ " " \in Glyph /\ ":" \in Glyph /\ "(" \in Glyph /\ ")" \in Glyph
  /\ "3" \in Glyph /\ "4" \in Glyph /\ "5" \in Glyph /\ "6" \in Glyph /\ "7" \in Glyph
  /\ DigitGlyphs \cup {" "} \subseteq Glyph /\ STRING \subseteq Glyph
BY DEF Glyph, DigitGlyphs

WholeText(mark, name, tick_color, p, e) ==
  <<"^", "6", mark, " ", "^", "7", name, ":", " ", "^", tick_color>>
    \o p \o <<" ", "^", "4", "(">> \o e \o <<")">>

TextIs(L, mark, name, tick_color, p, e, h) ==
  /\ Len(L) = 19 + h
  /\ L[1] = "^" /\ L[2] = "6" /\ L[3] = mark /\ L[4] = " " /\ L[5] = "^" /\ L[6] = "7"
  /\ L[7] = name /\ L[8] = ":" /\ L[9] = " " /\ L[10] = "^" /\ L[11] = tick_color
  /\ L[12] = p[1] /\ L[13] = p[2] /\ L[14] = p[3]
  /\ L[15] = " " /\ L[16] = "^" /\ L[17] = "4" /\ L[18] = "("
  /\ \A k \in 1 .. h : L[18 + k] = e[k]
  /\ L[19 + h] = ")"

LEMMA TextShape ==
  ASSUME NEW mark \in Glyph, NEW name \in Glyph, NEW tick_color \in Glyph,
         NEW p \in Seq(Glyph), Len(p) = 3, NEW e \in Seq(Glyph), NEW h \in Nat, Len(e) = h,
         NEW L, L = WholeText(mark, name, tick_color, p, e)
  PROVE  TextIs(L, mark, name, tick_color, p, e, h)
<1> DEFINE a == <<"^", "6", mark, " ", "^", "7", name, ":", " ", "^", tick_color>>
           b == <<" ", "^", "4", "(">>
           c == <<")">>
           ap == a \o p
           apb == ap \o b
           apbe == apb \o e
<1>1. /\ a \in Seq(Glyph) /\ Len(a) = 11
      /\ a[1] = "^" /\ a[2] = "6" /\ a[3] = mark /\ a[4] = " " /\ a[5] = "^" /\ a[6] = "7"
      /\ a[7] = name /\ a[8] = ":" /\ a[9] = " " /\ a[10] = "^" /\ a[11] = tick_color
  <2> DEFINE caret == "^"
             six == "6"
             space == " "
             seven == "7"
             colon == ":"
  <2>1. caret \in Glyph /\ six \in Glyph /\ space \in Glyph /\ seven \in Glyph /\ colon \in Glyph
    BY Chars
  <2>2. a = <<caret, six, mark, space, caret, seven, name, colon, space, caret, tick_color>>
    OBVIOUS
  <2> HIDE DEF a, caret, six, space, seven, colon
  <2>3. /\ a \in Seq(Glyph) /\ Len(a) = 11
        /\ a[1] = caret /\ a[2] = six /\ a[3] = mark /\ a[4] = space /\ a[5] = caret
        /\ a[6] = seven /\ a[7] = name /\ a[8] = colon /\ a[9] = space /\ a[10] = caret
        /\ a[11] = tick_color
    BY <2>1, <2>2
  <2> QED BY <2>3, Zenon DEF caret, six, space, seven, colon
<1>2. b \in Seq(Glyph) /\ Len(b) = 4 /\ b[1] = " " /\ b[2] = "^" /\ b[3] = "4" /\ b[4] = "("
  BY Chars, Tuple4, Zenon
<1>3. c \in Seq(Glyph) /\ Len(c) = 1 /\ c[1] = ")"
  BY Chars, Tuple1, Zenon
<1>4. L = apbe \o c
  BY DEF WholeText
<1> HIDE DEF a, b, c
<1>5. /\ ap \in Seq(Glyph) /\ Len(ap) = 14
      /\ \A k \in 1 .. 11 : ap[k] = a[k]
      /\ \A k \in 1 .. 3 : ap[11 + k] = p[k]
  <2>1. 11 + 3 = 14
    OBVIOUS
  <2>2. IsJoin(Glyph, ap, a, p)
    BY <1>1, Join, Zenon
  <2> QED BY <1>1, <2>1, <2>2, Zenon DEF IsJoin
<1> HIDE DEF ap
<1>6. /\ apb \in Seq(Glyph) /\ Len(apb) = 18
      /\ \A k \in 1 .. 14 : apb[k] = ap[k]
      /\ \A k \in 1 .. 4 : apb[14 + k] = b[k]
  <2>1. 14 + 4 = 18
    OBVIOUS
  <2>2. IsJoin(Glyph, apb, ap, b)
    BY <1>2, <1>5, Join, Zenon
  <2> QED BY <1>2, <1>5, <2>1, <2>2, Zenon DEF IsJoin
<1> HIDE DEF apb
<1>7. /\ apbe \in Seq(Glyph) /\ Len(apbe) = 18 + h
      /\ \A k \in 1 .. 18 : apbe[k] = apb[k]
      /\ \A k \in 1 .. h : apbe[18 + k] = e[k]
  <2>2. IsJoin(Glyph, apbe, apb, e)
    BY <1>6, Join, Zenon
  <2> QED BY <1>6, <2>2, Zenon DEF IsJoin
<1> HIDE DEF apbe
<1>8. /\ Len(L) = (18 + h) + 1
      /\ \A k \in 1 .. 18 + h : L[k] = apbe[k]
      /\ \A k \in 1 .. 1 : L[(18 + h) + k] = c[k]
  <2>1. 18 + h \in Nat
    OBVIOUS
  <2>2. IsJoin(Glyph, L, apbe, c)
    BY <1>3, <1>4, <1>7, Join, Zenon
  <2> QED BY <1>3, <1>7, <2>1, <2>2, Zenon DEF IsJoin
<1>9. Len(L) = 19 + h /\ L[19 + h] = ")"
  <2>1. (18 + h) + 1 = 19 + h /\ 1 \in 1 .. 1
    OBVIOUS
  <2> QED BY <1>3, <1>8, <2>1, Zenon
<1>10. \A k \in 1 .. h : L[18 + k] = e[k]
  <2>1. \A k \in 1 .. h : 18 + k \in 1 .. 18 + h
    OBVIOUS
  <2> QED BY <1>7, <1>8, <2>1, Zenon
<1>11. \A k \in 1 .. 18 : L[k] = apb[k]
  <2>1. \A k \in 1 .. 18 : k \in 1 .. 18 + h
    OBVIOUS
  <2> QED BY <1>7, <1>8, <2>1, Zenon
<1>12. /\ L[15] = " " /\ L[16] = "^" /\ L[17] = "4" /\ L[18] = "("
       /\ \A k \in 1 .. 14 : L[k] = ap[k]
  <2>1. /\ 14 + 1 = 15 /\ 14 + 2 = 16 /\ 14 + 3 = 17 /\ 14 + 4 = 18
        /\ 1 \in 1 .. 4 /\ 2 \in 1 .. 4 /\ 3 \in 1 .. 4 /\ 4 \in 1 .. 4
        /\ 15 \in 1 .. 18 /\ 16 \in 1 .. 18 /\ 17 \in 1 .. 18 /\ 18 \in 1 .. 18
        /\ \A k \in 1 .. 14 : k \in 1 .. 18
    OBVIOUS
  <2>2. apb[15] = b[1] /\ apb[16] = b[2] /\ apb[17] = b[3] /\ apb[18] = b[4]
    BY <1>6, <2>1, Zenon
  <2> QED BY <1>2, <1>6, <1>11, <2>1, <2>2, Zenon
<1>13. L[12] = p[1] /\ L[13] = p[2] /\ L[14] = p[3] /\ \A k \in 1 .. 11 : L[k] = a[k]
  <2>1. /\ 11 + 1 = 12 /\ 11 + 2 = 13 /\ 11 + 3 = 14
        /\ 1 \in 1 .. 3 /\ 2 \in 1 .. 3 /\ 3 \in 1 .. 3
        /\ 12 \in 1 .. 14 /\ 13 \in 1 .. 14 /\ 14 \in 1 .. 14
        /\ \A k \in 1 .. 11 : k \in 1 .. 14
    OBVIOUS
  <2>2. ap[12] = p[1] /\ ap[13] = p[2] /\ ap[14] = p[3]
    BY <1>5, <2>1, Zenon
  <2> QED BY <1>5, <1>12, <2>1, <2>2, Zenon
<1>14. 11 \in Nat /\ \A k \in {1, 2, 3, 4, 5, 6, 7, 8, 9, 10, 11} : k \in 1 .. 11
  OBVIOUS
<1>15. /\ L[1] = a[1] /\ L[2] = a[2] /\ L[3] = a[3] /\ L[4] = a[4] /\ L[5] = a[5] /\ L[6] = a[6]
       /\ L[7] = a[7] /\ L[8] = a[8] /\ L[9] = a[9] /\ L[10] = a[10] /\ L[11] = a[11]
  BY <1>13, <1>14, Zenon
<1>16. /\ L[1] = "^" /\ L[2] = "6" /\ L[3] = mark /\ L[4] = " " /\ L[5] = "^" /\ L[6] = "7"
       /\ L[7] = name /\ L[8] = ":" /\ L[9] = " " /\ L[10] = "^" /\ L[11] = tick_color
  BY <1>1, <1>15, Zenon
<1>17. L[12] = p[1] /\ L[13] = p[2] /\ L[14] = p[3]
  BY <1>13, Zenon
<1>18. L[15] = " " /\ L[16] = "^" /\ L[17] = "4" /\ L[18] = "("
  BY <1>12, Zenon
<1> QED BY <1>9, <1>10, <1>16, <1>17, <1>18, Zenon DEF TextIs

WholeRow(mark, name, tick_color, p, e) ==
  InColor("6", <<mark, " ">>) \o InColor("7", <<name, ":", " ">>)
    \o InColor(tick_color, p \o <<" ">>) \o InColor("4", <<"(">> \o e \o <<")">>)

Pair == Glyph \X Glyph

LEMMA InColorShape ==
  ASSUME NEW c \in Glyph, NEW s \in Seq(Glyph)
  PROVE  /\ InColor(c, s) \in Seq(Pair) /\ Len(InColor(c, s)) = Len(s)
         /\ \A k \in 1 .. Len(s) : InColor(c, s)[k] = <<s[k], c>>
<1> DEFINE f == [k \in DOMAIN s |-> <<s[k], c>>]
<1>1. Len(s) \in Nat /\ DOMAIN s = 1 .. Len(s) /\ \A k \in 1 .. Len(s) : s[k] \in Glyph
  OBVIOUS
<1>2. f \in [1 .. Len(s) -> Pair] /\ \A k \in 1 .. Len(s) : f[k] = <<s[k], c>>
  BY <1>1 DEF Pair
<1>3. f \in Seq(Pair) /\ Len(f) = Len(s)
  BY <1>1, <1>2
<1>4. InColor(c, s) = f
  BY DEF InColor
<1> QED BY <1>2, <1>3, <1>4

RowIs(R, mark, name, tick_color, p, e, h) ==
  /\ Len(R) = 11 + h
  /\ R[1] = <<mark, "6">> /\ R[2] = <<" ", "6">>
  /\ R[3] = <<name, "7">> /\ R[4] = <<":", "7">> /\ R[5] = <<" ", "7">>
  /\ R[6] = <<p[1], tick_color>> /\ R[7] = <<p[2], tick_color>> /\ R[8] = <<p[3], tick_color>>
  /\ R[9] = <<" ", tick_color>> /\ R[10] = <<"(", "4">>
  /\ \A k \in 1 .. h : R[10 + k] = <<e[k], "4">>
  /\ R[11 + h] = <<")", "4">>

LEMMA RowShape ==
  ASSUME NEW mark \in Glyph, NEW name \in Glyph, NEW tick_color \in Glyph,
         NEW p \in Seq(Glyph), Len(p) = 3, NEW e \in Seq(Glyph), NEW h \in Nat, Len(e) = h,
         NEW R, R = WholeRow(mark, name, tick_color, p, e)
  PROVE  RowIs(R, mark, name, tick_color, p, e, h)
<1> DEFINE s1 == <<mark, " ">>
           s2 == <<name, ":", " ">>
           s3 == p \o <<" ">>
           oe == <<"(">> \o e
           s4 == oe \o <<")">>
           a == InColor("6", s1)
           b == InColor("7", s2)
           c == InColor(tick_color, s3)
           d == InColor("4", s4)
           ab == a \o b
           abc == ab \o c
<1>1. s1 \in Seq(Glyph) /\ Len(s1) = 2 /\ s1[1] = mark /\ s1[2] = " "
  BY Chars, Tuple2, Zenon
<1>2. s2 \in Seq(Glyph) /\ Len(s2) = 3 /\ s2[1] = name /\ s2[2] = ":" /\ s2[3] = " "
  BY Chars, Tuple3, Zenon
<1>3. s3 \in Seq(Glyph) /\ Len(s3) = 4 /\ s3[1] = p[1] /\ s3[2] = p[2] /\ s3[3] = p[3] /\ s3[4] = " "
  <2>1. /\ s3 \in Seq(Glyph) /\ Len(s3) = 3 + 1
        /\ \A k \in 1 .. 3 : s3[k] = p[k]
        /\ \A k \in 1 .. 1 : s3[3 + k] = <<" ">>[k]
    <3>1. <<" ">> \in Seq(Glyph) /\ Len(<<" ">>) = 1
      BY Chars, Tuple1, Zenon
    <3>2. IsJoin(Glyph, s3, p, <<" ">>)
      BY <3>1, Join, Zenon
    <3> QED BY <3>1, <3>2, Zenon DEF IsJoin
  <2> HIDE DEF s3
  <2>2. <<" ">>[1] = " " /\ 3 + 1 = 4 /\ 1 \in 1 .. 1 /\ 1 \in 1 .. 3 /\ 2 \in 1 .. 3 /\ 3 \in 1 .. 3
    OBVIOUS
  <2> QED BY <2>1, <2>2, Zenon
<1>4. /\ s4 \in Seq(Glyph) /\ Len(s4) = 2 + h /\ s4[1] = "(" /\ s4[2 + h] = ")"
      /\ \A k \in 1 .. h : s4[1 + k] = e[k]
  <2>1. /\ oe \in Seq(Glyph) /\ Len(oe) = 1 + h
        /\ \A k \in 1 .. 1 : oe[k] = <<"(">>[k]
        /\ \A k \in 1 .. h : oe[1 + k] = e[k]
    <3>1. <<"(">> \in Seq(Glyph) /\ Len(<<"(">>) = 1
      BY Chars, Tuple1, Zenon
    <3>2. IsJoin(Glyph, oe, <<"(">>, e)
      BY <3>1, Join, Zenon
    <3> QED BY <3>1, <3>2, Zenon DEF IsJoin
  <2> HIDE DEF oe
  <2>2. /\ s4 \in Seq(Glyph) /\ Len(s4) = (1 + h) + 1
        /\ \A k \in 1 .. 1 + h : s4[k] = oe[k]
        /\ \A k \in 1 .. 1 : s4[(1 + h) + k] = <<")">>[k]
    <3>1. <<")">> \in Seq(Glyph) /\ Len(<<")">>) = 1
      BY Chars, Tuple1, Zenon
    <3>2. IsJoin(Glyph, s4, oe, <<")">>)
      BY <2>1, <3>1, Join, Zenon
    <3> QED BY <2>1, <3>1, <3>2, Zenon DEF IsJoin
  <2> HIDE DEF s4
  <2>3. (1 + h) + 1 = 2 + h /\ 1 \in 1 .. 1 + h /\ 1 \in 1 .. 1 /\ \A k \in 1 .. h : 1 + k \in 1 .. 1 + h
    OBVIOUS
  <2>4. <<"(">>[1] = "(" /\ <<")">>[1] = ")"
    OBVIOUS
  <2> QED BY <2>1, <2>2, <2>3, <2>4, Zenon
<1> HIDE DEF s1, s2, s3, s4
<1>5. a \in Seq(Pair) /\ Len(a) = 2 /\ a[1] = <<mark, "6">> /\ a[2] = <<" ", "6">>
  <2>1. a \in Seq(Pair) /\ Len(a) = Len(s1) /\ \A k \in 1 .. Len(s1) : a[k] = <<s1[k], "6">>
    BY <1>1, Chars, InColorShape, Zenon
  <2> HIDE DEF a
  <2>2. 1 \in 1 .. 2 /\ 2 \in 1 .. 2
    OBVIOUS
  <2> QED BY <1>1, <2>1, <2>2, Zenon
<1>6. b \in Seq(Pair) /\ Len(b) = 3 /\ b[1] = <<name, "7">> /\ b[2] = <<":", "7">> /\ b[3] = <<" ", "7">>
  <2>1. b \in Seq(Pair) /\ Len(b) = Len(s2) /\ \A k \in 1 .. Len(s2) : b[k] = <<s2[k], "7">>
    BY <1>2, Chars, InColorShape, Zenon
  <2> HIDE DEF b
  <2>2. 1 \in 1 .. 3 /\ 2 \in 1 .. 3 /\ 3 \in 1 .. 3
    OBVIOUS
  <2> QED BY <1>2, <2>1, <2>2, Zenon
<1>7. /\ c \in Seq(Pair) /\ Len(c) = 4 /\ c[1] = <<p[1], tick_color>> /\ c[2] = <<p[2], tick_color>>
      /\ c[3] = <<p[3], tick_color>> /\ c[4] = <<" ", tick_color>>
  <2>1. c \in Seq(Pair) /\ Len(c) = Len(s3) /\ \A k \in 1 .. Len(s3) : c[k] = <<s3[k], tick_color>>
    BY <1>3, InColorShape, Zenon
  <2> HIDE DEF c
  <2>2. 1 \in 1 .. 4 /\ 2 \in 1 .. 4 /\ 3 \in 1 .. 4 /\ 4 \in 1 .. 4
    OBVIOUS
  <2> QED BY <1>3, <2>1, <2>2, Zenon
<1>8. /\ d \in Seq(Pair) /\ Len(d) = 2 + h /\ d[1] = <<"(", "4">> /\ d[2 + h] = <<")", "4">>
      /\ \A k \in 1 .. h : d[1 + k] = <<e[k], "4">>
  <2>1. \A k \in 1 .. 2 + h : d[k] = <<s4[k], "4">>
    BY <1>4, Chars, InColorShape, Zenon
  <2>2. 1 \in 1 .. 2 + h /\ 2 + h \in 1 .. 2 + h /\ \A k \in 1 .. h : 1 + k \in 1 .. 2 + h
    OBVIOUS
  <2>3. d \in Seq(Pair) /\ Len(d) = 2 + h
    BY <1>4, Chars, InColorShape, Zenon
  <2> HIDE DEF d
  <2> QED BY <1>4, <2>1, <2>2, <2>3, Zenon
<1>9. R = abc \o d
  BY DEF WholeRow, s1, s2, s3, s4
<1> HIDE DEF a, b, c, d
<1>10. /\ ab \in Seq(Pair) /\ Len(ab) = 5
       /\ \A k \in 1 .. 2 : ab[k] = a[k]
       /\ \A k \in 1 .. 3 : ab[2 + k] = b[k]
  <2>1. 2 + 3 = 5
    OBVIOUS
  <2>2. IsJoin(Pair, ab, a, b)
    BY <1>5, <1>6, Join, Zenon
  <2> QED BY <1>5, <1>6, <2>1, <2>2, Zenon DEF IsJoin
<1> HIDE DEF ab
<1>11. /\ abc \in Seq(Pair) /\ Len(abc) = 9
       /\ \A k \in 1 .. 5 : abc[k] = ab[k]
       /\ \A k \in 1 .. 4 : abc[5 + k] = c[k]
  <2>1. 5 + 4 = 9
    OBVIOUS
  <2>2. IsJoin(Pair, abc, ab, c)
    BY <1>7, <1>10, Join, Zenon
  <2> QED BY <1>7, <1>10, <2>1, <2>2, Zenon DEF IsJoin
<1> HIDE DEF abc
<1>12. /\ Len(R) = 9 + (2 + h)
       /\ \A k \in 1 .. 9 : R[k] = abc[k]
       /\ \A k \in 1 .. 2 + h : R[9 + k] = d[k]
  <2>1. 2 + h \in Nat
    OBVIOUS
  <2>2. IsJoin(Pair, R, abc, d)
    BY <1>8, <1>9, <1>11, Join, Zenon
  <2> QED BY <1>8, <1>11, <2>1, <2>2, Zenon DEF IsJoin
<1>13. /\ 9 + (2 + h) = 11 + h /\ 1 \in 1 .. 2 + h /\ 2 + h \in 1 .. 2 + h /\ 9 + 1 = 10
       /\ \A k \in 1 .. h : 1 + k \in 1 .. 2 + h /\ 9 + (1 + k) = 10 + k
  OBVIOUS
<1>14. /\ Len(R) = 11 + h /\ R[10] = <<"(", "4">> /\ R[11 + h] = <<")", "4">>
       /\ \A k \in 1 .. h : R[10 + k] = <<e[k], "4">>
  <2>1. R[9 + 1] = d[1] /\ R[9 + (2 + h)] = d[2 + h]
    BY <1>12, <1>13, Zenon
  <2>2. ASSUME NEW k \in 1 .. h
        PROVE  R[10 + k] = <<e[k], "4">>
    <3>1. R[9 + (1 + k)] = d[1 + k]
      BY <1>12, <1>13, Zenon
    <3> QED BY <1>8, <1>13, <3>1, Zenon
  <2> QED BY <1>8, <1>12, <1>13, <2>1, <2>2, Zenon
<1>15. /\ R[6] = <<p[1], tick_color>> /\ R[7] = <<p[2], tick_color>> /\ R[8] = <<p[3], tick_color>>
       /\ R[9] = <<" ", tick_color>> /\ \A k \in 1 .. 5 : R[k] = ab[k]
  <2>1. /\ 5 + 1 = 6 /\ 5 + 2 = 7 /\ 5 + 3 = 8 /\ 5 + 4 = 9
        /\ 1 \in 1 .. 4 /\ 2 \in 1 .. 4 /\ 3 \in 1 .. 4 /\ 4 \in 1 .. 4
        /\ 6 \in 1 .. 9 /\ 7 \in 1 .. 9 /\ 8 \in 1 .. 9 /\ 9 \in 1 .. 9
        /\ \A k \in 1 .. 5 : k \in 1 .. 9
    OBVIOUS
  <2>2. abc[6] = c[1] /\ abc[7] = c[2] /\ abc[8] = c[3] /\ abc[9] = c[4]
    BY <1>11, <2>1, Zenon
  <2> QED BY <1>7, <1>11, <1>12, <2>1, <2>2, Zenon
<1>16. /\ R[1] = <<mark, "6">> /\ R[2] = <<" ", "6">>
       /\ R[3] = <<name, "7">> /\ R[4] = <<":", "7">> /\ R[5] = <<" ", "7">>
  <2>1. /\ 2 + 1 = 3 /\ 2 + 2 = 4 /\ 2 + 3 = 5
        /\ 1 \in 1 .. 2 /\ 2 \in 1 .. 2 /\ 1 \in 1 .. 3 /\ 2 \in 1 .. 3 /\ 3 \in 1 .. 3
        /\ 1 \in 1 .. 5 /\ 2 \in 1 .. 5 /\ 3 \in 1 .. 5 /\ 4 \in 1 .. 5 /\ 5 \in 1 .. 5
    OBVIOUS
  <2>2. ab[1] = a[1] /\ ab[2] = a[2] /\ ab[3] = b[1] /\ ab[4] = b[2] /\ ab[5] = b[3]
    BY <1>10, <2>1, Zenon
  <2> QED BY <1>5, <1>6, <1>15, <2>1, <2>2, Zenon
<1> QED BY <1>14, <1>15, <1>16, Zenon DEF RowIs

\* Where draw_pf_text can be in a text: before its k-th character it has put
\* n glyphs and its colour is c.
AtStart(k, n, c) == c = "0" /\ k = 1 /\ n = 0
AtMark(k, n, c)  == c = "6" /\ ((k = 3 /\ n = 0) \/ (k = 4 /\ n = 1) \/ (k = 5 /\ n = 2))
AtName(k, n, c)  == c = "7" /\ ((k = 7 /\ n = 2) \/ (k = 8 /\ n = 3) \/ (k = 9 /\ n = 4) \/ (k = 10 /\ n = 5))
AtResult(tick_color, k, n, c) ==
  /\ c = tick_color
  /\ \/ k = 12 /\ n = 5
     \/ k = 13 /\ n = 6
     \/ k = 14 /\ n = 7
     \/ k = 15 /\ n = 8
     \/ k = 16 /\ n = 9
AtHw(h, k, n, c) ==
  /\ c = "4"
  /\ \/ k = 18 /\ n = 9
     \/ n = k - 9 /\ (k \in 19 .. 18 + h \/ k = 19 + h \/ k = 20 + h)

StopAt(h, tick_color, k, n, c) ==
  \/ AtStart(k, n, c) \/ AtMark(k, n, c) \/ AtName(k, n, c)
  \/ AtResult(tick_color, k, n, c) \/ AtHw(h, k, n, c)

\* What draw_pf_text does there: a colour, a glyph of the row, or the end.
StopMove(h, tick_color, k, n, c, L, R) ==
  \/ /\ k \in 1 .. 18 + h /\ L[k] = "^"
     /\ StopAt(h, tick_color, k + 2, n, L[k + 1])
  \/ /\ k \in 1 .. 19 + h /\ L[k] # "^"
     /\ n \in 0 .. 10 + h /\ R[n + 1] = <<L[k], c>>
     /\ StopAt(h, tick_color, k + 1, n + 1, c)
  \/ k = 20 + h /\ n = 11 + h

LEMMA StopPlaces ==
  ASSUME NEW h, NEW tick_color
  PROVE  /\ StopAt(h, tick_color, 1, 0, "0")
         /\ StopAt(h, tick_color, 3, 0, "6")
         /\ StopAt(h, tick_color, 4, 1, "6")
         /\ StopAt(h, tick_color, 5, 2, "6")
         /\ StopAt(h, tick_color, 7, 2, "7")
         /\ StopAt(h, tick_color, 8, 3, "7")
         /\ StopAt(h, tick_color, 9, 4, "7")
         /\ StopAt(h, tick_color, 10, 5, "7")
         /\ StopAt(h, tick_color, 12, 5, tick_color)
         /\ StopAt(h, tick_color, 13, 6, tick_color)
         /\ StopAt(h, tick_color, 14, 7, tick_color)
         /\ StopAt(h, tick_color, 15, 8, tick_color)
         /\ StopAt(h, tick_color, 16, 9, tick_color)
         /\ StopAt(h, tick_color, 18, 9, "4")
<1>1. StopAt(h, tick_color, 1, 0, "0")
  BY Zenon DEF StopAt, AtStart
<1>2. StopAt(h, tick_color, 3, 0, "6")
  BY Zenon DEF StopAt, AtMark
<1>3. StopAt(h, tick_color, 4, 1, "6")
  BY Zenon DEF StopAt, AtMark
<1>4. StopAt(h, tick_color, 5, 2, "6")
  BY Zenon DEF StopAt, AtMark
<1>5. StopAt(h, tick_color, 7, 2, "7")
  BY Zenon DEF StopAt, AtName
<1>6. StopAt(h, tick_color, 8, 3, "7")
  BY Zenon DEF StopAt, AtName
<1>7. StopAt(h, tick_color, 9, 4, "7")
  BY Zenon DEF StopAt, AtName
<1>8. StopAt(h, tick_color, 10, 5, "7")
  BY Zenon DEF StopAt, AtName
<1>9. StopAt(h, tick_color, 12, 5, tick_color)
  BY Zenon DEF StopAt, AtResult
<1>10. StopAt(h, tick_color, 13, 6, tick_color)
  BY Zenon DEF StopAt, AtResult
<1>11. StopAt(h, tick_color, 14, 7, tick_color)
  BY Zenon DEF StopAt, AtResult
<1>12. StopAt(h, tick_color, 15, 8, tick_color)
  BY Zenon DEF StopAt, AtResult
<1>13. StopAt(h, tick_color, 16, 9, tick_color)
  BY Zenon DEF StopAt, AtResult
<1>14. StopAt(h, tick_color, 18, 9, "4")
  BY Zenon DEF StopAt, AtHw
<1> QED BY <1>1, <1>2, <1>3, <1>4, <1>5, <1>6, <1>7, <1>8, <1>9, <1>10, <1>11, <1>12, <1>13, <1>14, Zenon

LEMMA StopStep ==
  ASSUME NEW mark, NEW name, NEW tick_color, NEW p, NEW e, NEW h \in Nat, NEW L, NEW R,
         TextIs(L, mark, name, tick_color, p, e, h), RowIs(R, mark, name, tick_color, p, e, h),
         mark # "^", name # "^", \A j \in 1 .. 3 : p[j] # "^", \A j \in 1 .. h : e[j] # "^",
         NEW k, NEW n, NEW c, StopAt(h, tick_color, k, n, c)
  PROVE  StopMove(h, tick_color, k, n, c, L, R)
<1>1. /\ L[1] = "^" /\ L[2] = "6" /\ L[3] = mark /\ L[4] = " " /\ L[5] = "^" /\ L[6] = "7"
      /\ L[7] = name /\ L[8] = ":" /\ L[9] = " " /\ L[10] = "^" /\ L[11] = tick_color
      /\ L[12] = p[1] /\ L[13] = p[2] /\ L[14] = p[3]
      /\ L[15] = " " /\ L[16] = "^" /\ L[17] = "4" /\ L[18] = "("
  BY Zenon DEF TextIs
<1>2. /\ R[1] = <<mark, "6">> /\ R[2] = <<" ", "6">>
      /\ R[3] = <<name, "7">> /\ R[4] = <<":", "7">> /\ R[5] = <<" ", "7">>
      /\ R[6] = <<p[1], tick_color>> /\ R[7] = <<p[2], tick_color>> /\ R[8] = <<p[3], tick_color>>
      /\ R[9] = <<" ", tick_color>> /\ R[10] = <<"(", "4">>
  BY Zenon DEF RowIs
<1>3. /\ \A j \in 1 .. h : L[18 + j] = e[j] /\ R[10 + j] = <<e[j], "4">>
      /\ L[19 + h] = ")" /\ R[11 + h] = <<")", "4">>
  BY Zenon DEF TextIs, RowIs
<1>4. p[1] # "^" /\ p[2] # "^" /\ p[3] # "^"
  OBVIOUS
<1>5. CASE k = 1 /\ n = 0 /\ c = "0"
  <2>1. k \in 1 .. 18 + h /\ k + 1 = 2 /\ k + 2 = 3
    BY <1>5
  <2>2. StopAt(h, tick_color, 3, n, L[2])
    <3>1. StopAt(h, tick_color, 3, 0, "6")
      BY StopPlaces, Zenon
    <3> QED BY <1>1, <1>5, <3>1, Zenon
  <2> QED BY <1>1, <1>5, <2>1, <2>2, Zenon DEF StopMove
<1>6. CASE k = 3 /\ n = 0 /\ c = "6"
  <2>1. k \in 1 .. 19 + h /\ n \in 0 .. 10 + h /\ k + 1 = 4 /\ n + 1 = 1
    BY <1>6
  <2>2. StopAt(h, tick_color, 4, 1, c)
    BY <1>6, StopPlaces, Zenon
  <2>3. L[k] # "^" /\ R[1] = <<L[k], c>>
    BY <1>1, <1>2, <1>4, <1>6, Zenon
  <2> QED BY <2>1, <2>2, <2>3, Zenon DEF StopMove
<1>7. CASE k = 4 /\ n = 1 /\ c = "6"
  <2>1. k \in 1 .. 19 + h /\ n \in 0 .. 10 + h /\ k + 1 = 5 /\ n + 1 = 2
    BY <1>7
  <2>2. StopAt(h, tick_color, 5, 2, c)
    BY <1>7, StopPlaces, Zenon
  <2>3. L[k] # "^" /\ R[2] = <<L[k], c>>
    BY <1>1, <1>2, <1>4, <1>7, Zenon
  <2> QED BY <2>1, <2>2, <2>3, Zenon DEF StopMove
<1>8. CASE k = 5 /\ n = 2 /\ c = "6"
  <2>1. k \in 1 .. 18 + h /\ k + 1 = 6 /\ k + 2 = 7
    BY <1>8
  <2>2. StopAt(h, tick_color, 7, n, L[6])
    <3>1. StopAt(h, tick_color, 7, 2, "7")
      BY StopPlaces, Zenon
    <3> QED BY <1>1, <1>8, <3>1, Zenon
  <2> QED BY <1>1, <1>8, <2>1, <2>2, Zenon DEF StopMove
<1>9. CASE k = 7 /\ n = 2 /\ c = "7"
  <2>1. k \in 1 .. 19 + h /\ n \in 0 .. 10 + h /\ k + 1 = 8 /\ n + 1 = 3
    BY <1>9
  <2>2. StopAt(h, tick_color, 8, 3, c)
    BY <1>9, StopPlaces, Zenon
  <2>3. L[k] # "^" /\ R[3] = <<L[k], c>>
    BY <1>1, <1>2, <1>4, <1>9, Zenon
  <2> QED BY <2>1, <2>2, <2>3, Zenon DEF StopMove
<1>10. CASE k = 8 /\ n = 3 /\ c = "7"
  <2>1. k \in 1 .. 19 + h /\ n \in 0 .. 10 + h /\ k + 1 = 9 /\ n + 1 = 4
    BY <1>10
  <2>2. StopAt(h, tick_color, 9, 4, c)
    BY <1>10, StopPlaces, Zenon
  <2>3. L[k] # "^" /\ R[4] = <<L[k], c>>
    BY <1>1, <1>2, <1>4, <1>10, Zenon
  <2> QED BY <2>1, <2>2, <2>3, Zenon DEF StopMove
<1>11. CASE k = 9 /\ n = 4 /\ c = "7"
  <2>1. k \in 1 .. 19 + h /\ n \in 0 .. 10 + h /\ k + 1 = 10 /\ n + 1 = 5
    BY <1>11
  <2>2. StopAt(h, tick_color, 10, 5, c)
    BY <1>11, StopPlaces, Zenon
  <2>3. L[k] # "^" /\ R[5] = <<L[k], c>>
    BY <1>1, <1>2, <1>4, <1>11, Zenon
  <2> QED BY <2>1, <2>2, <2>3, Zenon DEF StopMove
<1>12. CASE k = 10 /\ n = 5 /\ c = "7"
  <2>1. k \in 1 .. 18 + h /\ k + 1 = 11 /\ k + 2 = 12
    BY <1>12
  <2>2. StopAt(h, tick_color, 12, n, L[11])
    <3>1. StopAt(h, tick_color, 12, 5, tick_color)
      BY StopPlaces, Zenon
    <3> QED BY <1>1, <1>12, <3>1, Zenon
  <2> QED BY <1>1, <1>12, <2>1, <2>2, Zenon DEF StopMove
<1>13. CASE k = 12 /\ n = 5 /\ c = tick_color
  <2>1. k \in 1 .. 19 + h /\ n \in 0 .. 10 + h /\ k + 1 = 13 /\ n + 1 = 6
    BY <1>13
  <2>2. StopAt(h, tick_color, 13, 6, c)
    BY <1>13, StopPlaces, Zenon
  <2>3. L[k] # "^" /\ R[6] = <<L[k], c>>
    BY <1>1, <1>2, <1>4, <1>13, Zenon
  <2> QED BY <2>1, <2>2, <2>3, Zenon DEF StopMove
<1>14. CASE k = 13 /\ n = 6 /\ c = tick_color
  <2>1. k \in 1 .. 19 + h /\ n \in 0 .. 10 + h /\ k + 1 = 14 /\ n + 1 = 7
    BY <1>14
  <2>2. StopAt(h, tick_color, 14, 7, c)
    BY <1>14, StopPlaces, Zenon
  <2>3. L[k] # "^" /\ R[7] = <<L[k], c>>
    BY <1>1, <1>2, <1>4, <1>14, Zenon
  <2> QED BY <2>1, <2>2, <2>3, Zenon DEF StopMove
<1>15. CASE k = 14 /\ n = 7 /\ c = tick_color
  <2>1. k \in 1 .. 19 + h /\ n \in 0 .. 10 + h /\ k + 1 = 15 /\ n + 1 = 8
    BY <1>15
  <2>2. StopAt(h, tick_color, 15, 8, c)
    BY <1>15, StopPlaces, Zenon
  <2>3. L[k] # "^" /\ R[8] = <<L[k], c>>
    BY <1>1, <1>2, <1>4, <1>15, Zenon
  <2> QED BY <2>1, <2>2, <2>3, Zenon DEF StopMove
<1>16. CASE k = 15 /\ n = 8 /\ c = tick_color
  <2>1. k \in 1 .. 19 + h /\ n \in 0 .. 10 + h /\ k + 1 = 16 /\ n + 1 = 9
    BY <1>16
  <2>2. StopAt(h, tick_color, 16, 9, c)
    BY <1>16, StopPlaces, Zenon
  <2>3. L[k] # "^" /\ R[9] = <<L[k], c>>
    BY <1>1, <1>2, <1>4, <1>16, Zenon
  <2> QED BY <2>1, <2>2, <2>3, Zenon DEF StopMove
<1>17. CASE k = 16 /\ n = 9 /\ c = tick_color
  <2>1. k \in 1 .. 18 + h /\ k + 1 = 17 /\ k + 2 = 18
    BY <1>17
  <2>2. StopAt(h, tick_color, 18, n, L[17])
    <3>1. StopAt(h, tick_color, 18, 9, "4")
      BY StopPlaces, Zenon
    <3> QED BY <1>1, <1>17, <3>1, Zenon
  <2> QED BY <1>1, <1>17, <2>1, <2>2, Zenon DEF StopMove
<1>18. CASE k = 18 /\ n = 9 /\ c = "4"
  <2>1. k \in 1 .. 19 + h /\ n \in 0 .. 10 + h /\ k + 1 = 19 /\ n + 1 = 10
    BY <1>18
  <2>2. StopAt(h, tick_color, 19, 10, c)
    BY <1>18 DEF StopAt, AtHw
  <2>3. L[k] # "^" /\ R[10] = <<L[k], c>>
    BY <1>1, <1>2, <1>4, <1>18, Zenon
  <2> QED BY <2>1, <2>2, <2>3, Zenon DEF StopMove
<1>19. CASE k \in 19 .. 18 + h /\ n = k - 9 /\ c = "4"
  <2>1. PICK j \in 1 .. h : k = 18 + j
    <3>1. k - 18 \in 1 .. h /\ k = 18 + (k - 18)
      BY <1>19
    <3> QED BY <3>1, Zenon
  <2>2. k \in 1 .. 19 + h /\ n \in 0 .. 10 + h /\ n + 1 = 10 + j
    BY <1>19, <2>1
  <2>3. StopAt(h, tick_color, k + 1, n + 1, c)
    BY <1>19 DEF StopAt, AtHw
  <2>4. L[k] # "^" /\ R[n + 1] = <<L[k], c>>
    BY <1>3, <1>19, <2>1, <2>2, Zenon
  <2> QED BY <2>2, <2>3, <2>4, Zenon DEF StopMove
<1>20. CASE k = 19 + h /\ n = k - 9 /\ c = "4"
  <2>1. k \in 1 .. 19 + h /\ n \in 0 .. 10 + h /\ n + 1 = 11 + h
    BY <1>20
  <2>2. StopAt(h, tick_color, k + 1, n + 1, c)
    BY <1>20 DEF StopAt, AtHw
  <2>3. L[k] # "^" /\ R[n + 1] = <<L[k], c>>
    BY <1>3, <1>20, <2>1, Zenon
  <2> QED BY <2>1, <2>2, <2>3, Zenon DEF StopMove
<1>21. CASE k = 20 + h /\ n = k - 9 /\ c = "4"
  <2>1. n = 11 + h
    BY <1>21
  <2> QED BY <1>21, <2>1, Zenon DEF StopMove
<1> QED BY <1>5, <1>6, <1>7, <1>8, <1>9, <1>10, <1>11, <1>12, <1>13, <1>14, <1>15, <1>16, <1>17, <1>18, <1>19, <1>20, <1>21,
          StopAt(h, tick_color, k, n, c), Zenon DEF StopAt, AtStart, AtMark, AtName, AtResult, AtHw

-----------------------------------------------------------------------------
(***************************************************************************)
(* Fresh results.  After the page has been shown for as many frames as     *)
(* there are tests each of them has been measured, and from then on the    *)
(* age of a result is the distance of its test behind current_test in the  *)
(* round.                                                                  *)
(***************************************************************************)
Types ==
  /\ at \in {"measure", "format", "draw", "wait"}
  /\ current_test \in Ids /\ test_results \in [Ids -> Garbage \cup Measured] /\ age \in [Ids -> Nat]
  /\ page_delay \in Nat
  /\ i \in Nat /\ y \in Nat /\ cleared \in BOOLEAN
  /\ DOMAIN vram = Cells

\* The frames of this page in which a test has been measured.
Rounds == IF at = "measure" THEN page_delay ELSE page_delay + 1

Done(t) == cleared \/ t < Rounds

Since(t) == IF t < current_test THEN (current_test - 1) - t
                                ELSE (current_test + (NUM_TIMING_TESTS - 1)) - t

InTurn == ~cleared /\ Rounds < NUM_TIMING_TESTS => current_test = Rounds

OfThisRound ==
  \A t \in Ids : Done(t) => age[t] = Since(t) /\ test_results[t] \in Measured

FreshInv == Types /\ InTurn /\ OfThisRound

LEMMA InitFresh == Init => FreshInv
<1> SUFFICES ASSUME Init PROVE FreshInv
  OBVIOUS
<1>1. NUM_TIMING_TESTS \in Nat \ {0} /\ 0 \in Ids
  BY Table DEF Ids
<1>2. Types
  BY <1>1 DEF Init, Types, memsetw
<1>4. InTurn
  BY DEF Init, InTurn, Rounds
<1>5. OfThisRound
  BY DEF Init, OfThisRound, Done, Rounds, Ids
<1> QED BY <1>2, <1>4, <1>5 DEF FreshInv

\* The test that follows one in the round.
LEMMA NextTest ==
  ASSUME NEW n \in Nat \ {0}, NEW t \in 0 .. n - 1
  PROVE  (t + 1) % n = IF t + 1 = n THEN 0 ELSE t + 1
<1>1. CASE t + 1 = n
  BY <1>1
<1>2. CASE t + 1 # n
  BY <1>2
<1> QED BY <1>1, <1>2

LEMMA TypesStep ==
  ASSUME Types, Next
  PROVE  Types'
<1>1. NUM_TIMING_TESTS \in Nat \ {0}
  BY Table
<1>2. CASE Measure
  <2>1. current_test' \in Ids
    <3>1. current_test' = IF current_test + 1 = NUM_TIMING_TESTS THEN 0 ELSE current_test + 1
      BY <1>1, <1>2, NextTest DEF Measure, Types, Ids
    <3> QED BY <1>1, <3>1 DEF Types, Ids
  <2>2. test_results' \in [Ids -> Garbage \cup Measured]
    BY <1>1, <1>2 DEF Measure, Types
  <2>3. age' \in [Ids -> Nat]
    BY <1>1, <1>2 DEF Measure, Types, Older
  <2> QED BY <1>2, <2>1, <2>2, <2>3 DEF Measure, Types, pages, drawn
<1>3. CASE Format
  BY <1>3 DEF Format, Types, tests, pages, Remaining, Ids
<1>4. CASE TakeColor
  BY <1>4 DEF TakeColor, Types, tests, pages, line
<1>5. CASE PutGlyph
  BY <1>5 DEF PutGlyph, Types, tests, pages, line
<1>6. CASE LineDone
  BY <1>6 DEF LineDone, Types, tests, pages
<1>7. CASE Drawn
  BY <1>7 DEF Drawn, Types, tests, pages, line, drawn
<1>8. CASE WaitVblank
  <2>1. /\ at' = "measure" /\ UNCHANGED <<current_test, test_results, i, y, age>>
        /\ \/ page_delay' = 0 /\ vram' = memsetw /\ cleared' = TRUE
           \/ page_delay' \in {page_delay + 1, page_delay} /\ UNCHANGED <<vram, cleared>>
    BY <1>8 DEF WaitVblank, tests, line
  <2>2. DOMAIN memsetw = Cells
    BY DEF memsetw
  <2>3. page_delay' \in Nat
    <3>1. page_delay \in Nat
      BY DEF Types
    <3>2. page_delay' = 0 \/ page_delay' = page_delay + 1 \/ page_delay' = page_delay
      BY <2>1
    <3> QED BY <3>1, <3>2
  <2>5. cleared' \in BOOLEAN
    BY <2>1, Zenon DEF Types
  <2>4. DOMAIN vram' = Cells
    BY <2>1, <2>2, Zenon DEF Types
  <2> QED BY <2>1, <2>3, <2>4, <2>5, Zenon DEF Types
<1> QED BY <1>2, <1>3, <1>4, <1>5, <1>6, <1>7, <1>8 DEF Next

\* Drawing leaves the results and their ages alone.
LEMMA DrawingKeepsFresh ==
  ASSUME FreshInv, UNCHANGED <<current_test, test_results, page_delay, cleared, age>>,
         at # "measure", at' # "measure"
  PROVE  (InTurn /\ OfThisRound)'
BY DEF FreshInv, InTurn, OfThisRound, Done, Rounds, Since

LEMMA MeasureFresh ==
  ASSUME FreshInv, Measure
  PROVE  (InTurn /\ OfThisRound)'
<1> DEFINE N == NUM_TIMING_TESTS
<1>1. N \in Nat \ {0} /\ Ids = 0 .. N - 1
  BY Table DEF Ids
<1>2. /\ current_test \in Ids /\ page_delay \in Nat /\ age \in [Ids -> Nat]
      /\ test_results \in [Ids -> Garbage \cup Measured] /\ cleared \in BOOLEAN
  BY DEF FreshInv, Types
<1>3. /\ ~cleared /\ page_delay < N => current_test = page_delay
      /\ \A t \in Ids : cleared \/ t < page_delay => age[t] = Since(t) /\ test_results[t] \in Measured
  BY DEF Measure, FreshInv, InTurn, OfThisRound, Done, Rounds
<1>4. current_test' = IF current_test + 1 = N THEN 0 ELSE current_test + 1
  BY <1>1, <1>2, NextTest DEF Measure
<1>5. /\ cleared' = cleared /\ page_delay' = page_delay /\ at' = "format"
      /\ Rounds' = page_delay + 1 /\ \A t \in Ids : Done(t)' <=> cleared \/ t < page_delay + 1
  BY DEF Measure, pages, Rounds, Done
<1>6. /\ test_results'[current_test] \in Measured
      /\ \A t \in Ids : t # current_test => test_results'[t] = test_results[t]
  BY <1>2 DEF Measure
<1>7. /\ age'[current_test] = 0
      /\ \A t \in Ids : t # current_test => age'[t] = IF age[t] < 2 * N THEN age[t] + 1 ELSE age[t]
  BY <1>2 DEF Measure, Older
<1> HIDE DEF N
<1>8. InTurn'
  <2>1. ~cleared /\ page_delay + 1 < N => current_test' = page_delay + 1
    BY <1>1, <1>2, <1>3, <1>4
  <2> QED BY <1>5, <2>1 DEF InTurn, N
<1>9. ASSUME NEW t \in Ids, Done(t)'
      PROVE  age'[t] = Since(t)' /\ test_results'[t] \in Measured
  <2>1. Since(t)' = IF t < current_test' THEN (current_test' - 1) - t
                                         ELSE (current_test' + (N - 1)) - t
    BY DEF Since, N
  <2>2. Since(t) = IF t < current_test THEN (current_test - 1) - t
                                       ELSE (current_test + (N - 1)) - t
    BY DEF Since, N
  <2>3. CASE t = current_test
    <3>1. Since(t)' = 0
      BY <1>1, <1>2, <1>4, <2>1, <2>3
    <3> QED BY <1>6, <1>7, <2>3, <3>1
  <2>4. CASE t # current_test
    <3>1. cleared \/ t < page_delay
      BY <1>1, <1>2, <1>3, <1>5, <1>9, <2>4
    <3>2. age[t] = Since(t) /\ test_results[t] \in Measured
      BY <1>3, <3>1
    <3>3. Since(t) \in Nat /\ Since(t) < 2 * N /\ Since(t)' = Since(t) + 1
      BY <1>1, <1>2, <1>4, <2>1, <2>2, <2>4
    <3> QED BY <1>6, <1>7, <2>4, <3>2, <3>3
  <2> QED BY <2>3, <2>4
<1> QED BY <1>8, <1>9 DEF OfThisRound

LEMMA WaitFresh ==
  ASSUME FreshInv, WaitVblank
  PROVE  (InTurn /\ OfThisRound)'
<1> DEFINE N == NUM_TIMING_TESTS
<1>1. /\ N \in Nat \ {0} /\ Ids = 0 .. N - 1 /\ PageDelay \in Nat /\ PageDelay >= N
      /\ page_delay \in Nat /\ cleared \in BOOLEAN
  BY Table, DisplayAssumption DEF Ids, FreshInv, Types
<1>2. /\ ~cleared /\ page_delay + 1 < N => current_test = page_delay + 1
      /\ \A t \in Ids : cleared \/ t < page_delay + 1 => age[t] = Since(t) /\ test_results[t] \in Measured
  BY DEF WaitVblank, FreshInv, InTurn, OfThisRound, Done, Rounds
<1>3. /\ Rounds' = page_delay' /\ current_test' = current_test
      /\ age' = age /\ test_results' = test_results /\ \A t \in Ids : Since(t)' = Since(t)
  BY DEF WaitVblank, tests, Rounds, Since
<1>4. \/ page_delay + 1 > PageDelay /\ cleared' = TRUE
      \/ page_delay' = page_delay + 1 /\ cleared' = cleared
      \/ page_delay > PageDelay /\ page_delay' = page_delay /\ cleared' = cleared
  BY <1>1 DEF WaitVblank
<1> HIDE DEF N
<1>5. InTurn'
  <2>1. ~cleared' /\ page_delay' < N => current_test' = page_delay'
    BY <1>1, <1>2, <1>3, <1>4
  <2> QED BY <1>3, <2>1 DEF InTurn, N
<1>6. ASSUME NEW t \in Ids, Done(t)'
      PROVE  age'[t] = Since(t)' /\ test_results'[t] \in Measured
  <2>1. cleared' \/ t < page_delay'
    BY <1>3, <1>6 DEF Done
  <2>2. cleared \/ t < page_delay + 1
    BY <1>1, <1>4, <2>1
  <2> QED BY <1>2, <1>3, <2>2
<1> QED BY <1>5, <1>6 DEF OfThisRound

LEMMA FreshStep ==
  ASSUME FreshInv, [Next]_vars
  PROVE  FreshInv'
<1>1. CASE Next
  <2>1. Types'
    BY <1>1, TypesStep DEF FreshInv
  <2>2. (InTurn /\ OfThisRound)'
    <3>1. CASE Measure
      BY <3>1, MeasureFresh
    <3>2. CASE Format \/ TakeColor \/ PutGlyph \/ LineDone \/ Drawn
      <4>1. /\ at # "measure" /\ at' # "measure"
            /\ UNCHANGED <<current_test, test_results, page_delay, cleared, age>>
        BY <3>2 DEF Format, TakeColor, PutGlyph, LineDone, Drawn, tests, pages
      <4> QED BY <4>1, DrawingKeepsFresh
    <3>3. CASE WaitVblank
      BY <3>3, WaitFresh
    <3> QED BY <1>1, <3>1, <3>2, <3>3 DEF Next
  <2> QED BY <2>1, <2>2 DEF FreshInv
<1>2. CASE UNCHANGED vars
  BY <1>2 DEF vars, tests, pages, line, drawn, FreshInv, Types, InTurn, OfThisRound, Done,
              Rounds, Since
<1> QED BY <1>1, <1>2

LEMMA SpecFresh == Spec => []FreshInv
<1>1. Init => FreshInv
  BY InitFresh
<1>2. FreshInv /\ [Next]_vars => FreshInv'
  BY FreshStep
<1> QED BY <1>1, <1>2, PTL DEF Spec

(***************************************************************************)
(* Once a new page has been begun every result the screen is drawn from    *)
(* was measured within the last round of the tests (main.c measures one    *)
(* test per frame, lines 352-364, and keeps the garbage of the stack for   *)
(* the others until then).                                                 *)
(***************************************************************************)
THEOREM ResultsAreFresh == Spec => []ResultsFresh
<1>1. FreshInv => ResultsFresh
  <2> SUFFICES ASSUME FreshInv, cleared, NEW t \in Ids
               PROVE  age[t] < NUM_TIMING_TESTS
    BY DEF ResultsFresh
  <2>1. NUM_TIMING_TESTS \in Nat \ {0} /\ current_test \in Ids
    BY Table DEF FreshInv, Types
  <2>2. age[t] = Since(t)
    BY DEF FreshInv, OfThisRound, Done
  <2> QED BY <2>1, <2>2 DEF Since, Ids
<1> QED BY <1>1, SpecFresh, PTL

-----------------------------------------------------------------------------
(***************************************************************************)
(* The cells of the page's lines                                           *)
(***************************************************************************)
OnPage == {t \in Ids : timing_tests(t).page = page}
Earlier(n) == {j \in OnPage : j < n}

LineNo(t) == 2 + Cardinality(Earlier(t))
CellOf(t, k) == LineNo(t) * Columns + k - 1

\* The digits of the board's ticks, and the glyphs of a line.
TickPlaces(t) == Len(Decimal(timing_tests(t).hw_ticks))
LineWidth(t) == 11 + TickPlaces(t)

LEMMA EarlierFinite ==
  ASSUME NEW n
  PROVE  IsFiniteSet(Earlier(n)) /\ Cardinality(Earlier(n)) \in Nat
<1>1. NUM_TIMING_TESTS \in Nat \ {0}
  BY Table
<1>2. IsFiniteSet(Ids)
  BY <1>1, FS_Interval DEF Ids
<1>3. Earlier(n) \subseteq Ids
  BY DEF Earlier, OnPage
<1>4. IsFiniteSet(Earlier(n))
  BY <1>2, <1>3, FS_Subset
<1> QED BY <1>4, FS_CardinalityType

\* The lines are in the order of the table, and on the screen.
LEMMA LineOrder ==
  ASSUME NEW t \in OnPage, NEW u \in OnPage, t < u
  PROVE  LineNo(t) < LineNo(u)
<1>1. t \in Int /\ u \in Int
  BY Table DEF OnPage, Ids
<1>2. Earlier(t) \subseteq Earlier(u) /\ t \in Earlier(u) /\ t \notin Earlier(t)
  BY <1>1 DEF Earlier, OnPage, Ids
<1>3. /\ IsFiniteSet(Earlier(u)) /\ Cardinality(Earlier(u)) \in Nat
      /\ Cardinality(Earlier(t)) \in Nat
  BY EarlierFinite
<1>4. Cardinality(Earlier(t)) <= Cardinality(Earlier(u))
  BY <1>2, <1>3, FS_Subset
<1>5. Cardinality(Earlier(t)) # Cardinality(Earlier(u))
  BY <1>2, <1>3, FS_Subset
<1> QED BY <1>3, <1>4, <1>5 DEF LineNo

LEMMA LineBound ==
  ASSUME NEW t \in OnPage
  PROVE  LineNo(t) \in 2 .. Lines - 1
<1> DEFINE P == {o \in Ids : timing_tests(o).page = timing_tests(t).page}
<1>1. NUM_TIMING_TESTS \in Nat \ {0} /\ t \in Ids /\ t \in Int
  BY Table DEF OnPage, Ids
<1>2. 2 + Cardinality(P) <= Lines /\ Lines \in Nat
  BY <1>1, DisplayAssumption
<1>3. Earlier(t) \subseteq P /\ t \in P /\ t \notin Earlier(t)
  BY <1>1 DEF Earlier, OnPage
<1>4. IsFiniteSet(P)
  <2>1. IsFiniteSet(Ids)
    BY <1>1, FS_Interval DEF Ids
  <2>2. P \subseteq Ids
    OBVIOUS
  <2> QED BY <2>1, <2>2, FS_Subset
<1> HIDE DEF P
<1>5. Cardinality(P) \in Nat /\ Cardinality(Earlier(t)) \in Nat
  BY <1>4, EarlierFinite, FS_CardinalityType
<1>6. Cardinality(Earlier(t)) <= Cardinality(P)
  BY <1>3, <1>4, FS_Subset
<1>7. Cardinality(Earlier(t)) # Cardinality(P)
  BY <1>3, <1>4, FS_Subset
<1> QED BY <1>2, <1>5, <1>6, <1>7 DEF LineNo

\* A cell has one line and one column.
LEMMA CellUnique ==
  ASSUME NEW C \in Nat, NEW l \in Nat, NEW m \in Nat, NEW j \in 1 .. C, NEW k \in 1 .. C,
         l * C + j - 1 = m * C + k - 1
  PROVE  l = m /\ j = k
<1>1. \A a \in Nat, b \in Nat : a < b => a * C + C <= b * C
  <2> SUFFICES ASSUME NEW a \in Nat, NEW b \in Nat, a < b
               PROVE  a * C + C <= b * C
    OBVIOUS
  <2>1. PICK d \in Nat : b = a + 1 + d
    <3>1. b - (a + 1) \in Nat /\ b = a + 1 + (b - (a + 1))
      OBVIOUS
    <3> QED BY <3>1
  <2>2. b * C = a * C + C + d * C /\ d * C \in Nat /\ a * C \in Nat
    BY <2>1
  <2> QED BY <2>2
<1>2. l * C \in Nat /\ m * C \in Nat
  OBVIOUS
<1>3. ~(l < m) /\ ~(m < l)
  BY <1>1, <1>2
<1> QED BY <1>2, <1>3

LEMMA CellBound ==
  ASSUME NEW C \in Nat, NEW N \in Nat, NEW l \in 0 .. N - 1, NEW k \in 1 .. C
  PROVE  l * C + k - 1 \in 0 .. C * N - 1
<1>1. PICK d \in Nat : N = l + 1 + d
  <2>1. N - (l + 1) \in Nat /\ N = l + 1 + (N - (l + 1))
    OBVIOUS
  <2> QED BY <2>1
<1>2. C * N = l * C + C + d * C /\ d * C \in Nat /\ l * C \in Nat
  BY <1>1
<1> QED BY <1>2

LEMMA CellOfs ==
  /\ \A t \in OnPage, k \in 1 .. Columns : CellOf(t, k) \in Cells
  /\ \A t \in OnPage, u \in OnPage, j \in 1 .. Columns, k \in 1 .. Columns :
       CellOf(t, j) = CellOf(u, k) => t = u /\ j = k
<1>1. Columns \in Nat /\ Lines \in Nat
  BY DisplayAssumption
<1>2. \A t \in OnPage : LineNo(t) \in Nat /\ LineNo(t) \in 0 .. Lines - 1
  BY <1>1, LineBound
<1>3. ASSUME NEW t \in OnPage, NEW k \in 1 .. Columns
      PROVE  CellOf(t, k) \in Cells
  BY <1>1, <1>2, CellBound DEF CellOf, Cells
<1>4. ASSUME NEW t \in OnPage, NEW u \in OnPage, NEW j \in 1 .. Columns, NEW k \in 1 .. Columns,
             CellOf(t, j) = CellOf(u, k)
      PROVE  t = u /\ j = k
  <2>1. LineNo(t) = LineNo(u) /\ j = k
    BY <1>1, <1>2, <1>4, CellUnique DEF CellOf
  <2>2. t \in Int /\ u \in Int
    BY Table DEF OnPage, Ids
  <2>3. ~(t < u) /\ ~(u < t)
    <3>1. ~(LineNo(t) < LineNo(u)) /\ ~(LineNo(u) < LineNo(t))
      BY <1>2, <2>1
    <3> QED BY <3>1, LineOrder, Zenon
  <2> QED BY <2>1, <2>2, <2>3
<1> QED BY <1>3, <1>4

-----------------------------------------------------------------------------
(***************************************************************************)
(* A line of the screen: its text, its glyphs, and draw_pf_text on the way *)
(* from the one to the other.                                              *)
(***************************************************************************)
Mark(t) == IF t = current_test THEN "*" ELSE " "
Shade(t) == IF test_results[t] # timing_tests(t).hw_ticks THEN "5" ELSE "3"

\* The k-th character is met after n glyphs and in colour c.
Reaches(t, k, n, c) == StopAt(TickPlaces(t), Shade(t), k, n, c)

Draws(t) ==
  /\ TickPlaces(t) \in 1 .. 3
  /\ Len(Text(t)) = 19 + TickPlaces(t) /\ Len(Row(t)) = LineWidth(t)
  /\ \A k, n, c : Reaches(t, k, n, c) =>
                    StopMove(TickPlaces(t), Shade(t), k, n, c, Text(t), Row(t))

LEMMA WholeLine ==
  ASSUME NEW t \in Ids
  PROVE  LET name == timing_tests(t).name
             p == Padded(test_results[t])
             e == Decimal(timing_tests(t).hw_ticks)
         IN  /\ Text(t) = WholeText(Mark(t), name, Shade(t), p, e)
             /\ Row(t) = WholeRow(Mark(t), name, Shade(t), p, e)
<1> DEFINE name == timing_tests(t).name
           p == Padded(test_results[t])
           hw == timing_tests(t).hw_ticks
           e == Decimal(hw)
           r == test_results[t]
<1>1. Text(t) = WholeText(Mark(t), name, Shade(t), p, e)
  BY Zenon DEF Text, WholeText, Mark, Shade
<1>2. (IF r = hw THEN "3" ELSE "5") = Shade(t)
  <2>1. CASE r = hw
    BY <2>1, Zenon DEF Shade
  <2>2. CASE r # hw
    BY <2>2, Zenon DEF Shade
  <2> QED BY <2>1, <2>2, Zenon
<1>3. Row(t) = WholeRow(Mark(t), name, Shade(t), p, e)
  BY <1>2, Zenon DEF Row, WholeRow, Mark
<1> QED BY <1>1, <1>3, Zenon

LEMMA LineDraws ==
  ASSUME NEW t \in Ids, test_results[t] \in Measured
  PROVE  Draws(t)
<1> DEFINE name == timing_tests(t).name
           hw == timing_tests(t).hw_ticks
           p == Padded(test_results[t])
           e == Decimal(hw)
           h == Len(e)
           L == Text(t)
           R == Row(t)
<1>1. name \in STRING \ {"^"} /\ hw \in 0 .. 255
  BY Table
<1>2. test_results[t] \in 0 .. 255
  <2>1. Measured \subseteq 0 .. 255
    BY DisplayAssumption, Zenon
  <2> QED BY <2>1
<1>3. p \in Seq(DigitGlyphs \cup {" "}) /\ Len(p) = 3
  BY <1>2, PaddedType, Zenon
<1>4. e \in Seq(DigitGlyphs) /\ h \in 1 .. 3
  BY <1>1, DecimalType, Zenon
<1>5. L = WholeText(Mark(t), name, Shade(t), p, e) /\ R = WholeRow(Mark(t), name, Shade(t), p, e)
  BY WholeLine, Zenon
<1>6. Mark(t) \in {"*", " "} /\ Shade(t) \in {"3", "5"}
  BY Zenon DEF Mark, Shade
<1>7. TickPlaces(t) = h
  BY Zenon DEF TickPlaces
<1> HIDE DEF name, hw, p, e, h, L, R
<1>8. Mark(t) \in Glyph /\ Mark(t) # "^" /\ Shade(t) \in Glyph /\ name \in Glyph /\ name # "^"
  BY <1>1, <1>6, Chars
<1>9. p \in Seq(Glyph) /\ e \in Seq(Glyph) /\ h \in Nat
  <2>1. DigitGlyphs \subseteq Glyph /\ DigitGlyphs \cup {" "} \subseteq Glyph
    BY Chars
  <2>2. p \in Seq(Glyph) /\ e \in Seq(Glyph)
    BY <1>3, <1>4, <2>1, WiderSeq, Zenon
  <2> QED BY <1>4, <2>2
<1>10. TextIs(L, Mark(t), name, Shade(t), p, e, h)
  BY <1>3, <1>5, <1>8, <1>9, TextShape, Zenon DEF h
<1>11. RowIs(R, Mark(t), name, Shade(t), p, e, h)
  BY <1>3, <1>5, <1>8, <1>9, RowShape, Zenon DEF h
<1>12. "^" \notin DigitGlyphs /\ "^" \notin DigitGlyphs \cup {" "}
  BY DEF DigitGlyphs
<1>13. \A j \in 1 .. 3 : p[j] # "^"
  <2>1. \A j \in 1 .. 3 : p[j] \in DigitGlyphs \cup {" "}
    BY <1>3, ElementOfSeq, Zenon
  <2> QED BY <1>12, <2>1, Zenon
<1>14. \A j \in 1 .. h : e[j] # "^"
  <2>1. \A j \in 1 .. h : e[j] \in DigitGlyphs
    BY <1>4, ElementOfSeq, Zenon DEF h
  <2> QED BY <1>12, <2>1, Zenon
<1>15. ASSUME NEW k, NEW n, NEW c, Reaches(t, k, n, c)
       PROVE  StopMove(h, Shade(t), k, n, c, L, R)
  <2>1. StopAt(h, Shade(t), k, n, c)
    BY <1>7, <1>15, Zenon DEF Reaches
  <2> QED BY <1>8, <1>9, <1>10, <1>11, <1>13, <1>14, <2>1, StopStep, Zenon
<1>16. Len(L) = 19 + h /\ Len(R) = 11 + h
  BY <1>10, <1>11, Zenon DEF TextIs, RowIs
<1> QED BY <1>4, <1>7, <1>15, <1>16, Zenon DEF Draws, LineWidth, L, R

(***************************************************************************)
(* Once the screen has been cleared only the cells of the page's lines are *)
(* in use, the lines of the tests before i are done, and draw_pf_text is   *)
(* within the line of the test before i.                                   *)
(***************************************************************************)
NoStray ==
  \A c \in Cells : vram[c] = Blank \/ \E t \in OnPage : \E k \in 1 .. LineWidth(t) : c = CellOf(t, k)

\* The first n glyphs of a line.
Shows(t, n) == \A k \in 1 .. n : vram[CellOf(t, k)] = Row(t)[k]

LinesDone ==
  /\ at \in {"format", "wait"} => \A t \in Earlier(i) : Shows(t, LineWidth(t))
  /\ at = "draw" => \A t \in Earlier(i - 1) : Shows(t, LineWidth(t))

LinesLeft ==
  /\ at = "format" => y = Cardinality(Earlier(i))
  /\ at = "wait" => OnPage = Earlier(i)

Drawing(t) ==
  /\ t \in OnPage /\ y = Cardinality(Earlier(t)) /\ tmp = Text(t)
  /\ \E n \in Nat : Reaches(t, str, n, color) /\ ofs = CellOf(t, n + 1) /\ Shows(t, n)

InLine == at = "draw" => Drawing(i - 1)

ScreenInv == cleared => NoStray /\ LinesDone /\ LinesLeft /\ InLine

LEMMA SameRows ==
  ASSUME UNCHANGED tests
  PROVE  \A t : Text(t)' = Text(t) /\ Row(t)' = Row(t) /\ Shade(t)' = Shade(t)
<1>1. current_test' = current_test /\ test_results' = test_results
  BY DEF tests
<1>2. \A t : Text(t)' = Text(t)
  BY <1>1, Zenon DEF Text
<1>3. \A t : Row(t)' = Row(t)
  BY <1>1, Zenon DEF Row
<1>4. \A t : Shade(t)' = Shade(t)
  BY <1>1, Zenon DEF Shade
<1> QED BY <1>2, <1>3, <1>4, Zenon

LEMMA SamePage ==
  ASSUME UNCHANGED page
  PROVE  /\ OnPage' = OnPage
         /\ \A t : Earlier(t)' = Earlier(t) /\ LineNo(t)' = LineNo(t)
         /\ \A t, k : CellOf(t, k)' = CellOf(t, k)
BY Zenon DEF OnPage, Earlier, LineNo, CellOf

LEMMA SameScreen ==
  ASSUME UNCHANGED <<tests, page, vram>>
  PROVE  /\ NoStray' <=> NoStray
         /\ \A t, n : Shows(t, n)' <=> Shows(t, n)
<1>1. OnPage' = OnPage /\ \A t, k : CellOf(t, k)' = CellOf(t, k)
  BY SamePage
<1>2. \A t : Row(t)' = Row(t)
  BY SameRows
<1>3. vram' = vram
  OBVIOUS
<1>4. NoStray' <=> NoStray
  BY <1>1, <1>3, Zenon DEF NoStray
<1>5. \A t, n : Shows(t, n)' <=> Shows(t, n)
  BY <1>1, <1>2, <1>3, Zenon DEF Shows
<1> QED BY <1>4, <1>5, Zenon

LEMMA MeasureScreen ==
  ASSUME FreshInv, ScreenInv, cleared, Measure
  PROVE  ScreenInv'
<1>1. /\ at' = "format" /\ i' = 0 /\ y' = 0
      /\ page' = page /\ vram' = vram
  BY DEF Measure, pages
<1>2. OnPage' = OnPage /\ \A t, k : CellOf(t, k)' = CellOf(t, k)
  BY <1>1, SamePage
<1>3. NoStray'
  BY <1>1, <1>2, Zenon DEF NoStray, ScreenInv
<1>4. Earlier(i)' = {}
  <2>1. \A t \in Ids : ~(t < 0)
    BY Table DEF Ids
  <2> QED BY <1>1, <2>1 DEF Earlier, OnPage
<1>5. LinesDone'
  BY <1>1, <1>4 DEF LinesDone
<1>6. LinesLeft'
  BY <1>1, <1>4, FS_EmptySet DEF LinesLeft
<1>7. InLine'
  BY <1>1 DEF InLine
<1> QED BY <1>3, <1>5, <1>6, <1>7 DEF ScreenInv

LEMMA FormatScreen ==
  ASSUME FreshInv, ScreenInv, cleared, Format
  PROVE  ScreenInv'
<1>1. PICK t \in Remaining : (\A o \in Remaining : t <= o) /\ tmp' = Text(t) /\ i' = t + 1
  BY DEF Format
<1>2. /\ at = "format" /\ at' = "draw" /\ str' = 1 /\ ofs' = (2 + y) * Columns /\ color' = "0"
      /\ UNCHANGED tests /\ UNCHANGED <<page, y, vram>>
  BY DEF Format, pages
<1>3. UNCHANGED <<tests, page, vram>>
  BY <1>2
<1>4. t \in OnPage /\ t \in Ids /\ t >= i /\ t \in Int /\ i \in Nat /\ i' - 1 = t
  BY <1>1, Table DEF Remaining, OnPage, Ids, FreshInv, Types
<1>5. Earlier(t) = Earlier(i)
  <2>1. ASSUME NEW j \in OnPage
        PROVE  j < t <=> j < i
    <3>1. j \in Int /\ (j >= i => j \in Remaining)
      BY Table DEF OnPage, Ids, Remaining
    <3> QED BY <1>1, <1>4, <3>1
  <2> QED BY <2>1, Zenon DEF Earlier
<1>6. NoStray'
  BY <1>3, SameScreen DEF ScreenInv
<1>7. LinesDone'
  <2>1. \A u \in Earlier(i) : Shows(u, LineWidth(u))
    BY <1>2 DEF ScreenInv, LinesDone
  <2>2. Earlier(i - 1)' = Earlier(t)
    <3>1. OnPage' = OnPage
      BY <1>2, SamePage
    <3> QED BY <1>4, <3>1, Zenon DEF Earlier
  <2>3. \A u \in Earlier(i - 1)' : Shows(u, LineWidth(u))'
    BY <1>3, <1>5, <2>1, <2>2, SameScreen, Zenon
  <2> QED BY <1>2, <2>3 DEF LinesDone
<1>8. LinesLeft'
  BY <1>2 DEF LinesLeft
<1>9. Drawing(t)'
  <2>1. (t \in OnPage)' /\ Earlier(t)' = Earlier(t) /\ \A k : CellOf(t, k)' = CellOf(t, k)
    BY <1>2, <1>4, SamePage, Zenon
  <2>2. y = Cardinality(Earlier(t))
    BY <1>2, <1>5 DEF ScreenInv, LinesLeft
  <2>3. tmp' = Text(t)' /\ Shade(t)' = Shade(t)
    BY <1>1, <1>2, SameRows, Zenon
  <2>4. Reaches(t, str, 0, color)'
    <3>1. StopAt(TickPlaces(t), Shade(t), 1, 0, "0")
      BY StopPlaces, Zenon
    <3>2. Reaches(t, str, 0, color)' <=> StopAt(TickPlaces(t), Shade(t)', str', 0, color')
      BY Zenon DEF Reaches
    <3> QED BY <1>2, <2>3, <3>1, <3>2, Zenon
  <2>5. ofs' = CellOf(t, 0 + 1)'
    <3>1. CellOf(t, 0 + 1) = (2 + y) * Columns
      <4>1. Columns \in Nat /\ LineNo(t) = 2 + y /\ LineNo(t) \in Nat
        <5>1. Columns \in Nat
          BY DisplayAssumption
        <5>2. LineNo(t) = 2 + y
          BY <2>2, Zenon DEF LineNo
        <5>3. LineNo(t) \in Nat
          BY <1>4, LineBound
        <5> QED BY <5>1, <5>2, <5>3
      <4> QED BY <4>1 DEF CellOf
    <3> QED BY <1>2, <2>1, <3>1, Zenon
  <2>6. Shows(t, 0)'
    BY DEF Shows
  <2>7. 0 \in Nat /\ y' = Cardinality(Earlier(t)')
    BY <1>2, <2>1, <2>2
  <2> QED BY <2>1, <2>3, <2>4, <2>5, <2>6, <2>7, Zenon DEF Drawing
<1>10. InLine'
  BY <1>4, <1>9 DEF InLine
<1> QED BY <1>6, <1>7, <1>8, <1>10 DEF ScreenInv

\* Where draw_pf_text is in the line it draws.
LEMMA InTheLine ==
  ASSUME FreshInv, ScreenInv, cleared, at = "draw"
  PROVE  \E t \in OnPage, n \in Nat :
           /\ t = i - 1 /\ t \in Ids /\ t \in Int /\ i = t + 1
           /\ y = Cardinality(Earlier(t)) /\ tmp = Text(t)
           /\ Draws(t) /\ Reaches(t, str, n, color) /\ ofs = CellOf(t, n + 1) /\ Shows(t, n)
           /\ StopMove(TickPlaces(t), Shade(t), str, n, color, tmp, Row(t))
<1> DEFINE t == i - 1
<1>1. Drawing(t)
  BY DEF ScreenInv, InLine
<1>2. PICK n \in Nat : Reaches(t, str, n, color) /\ ofs = CellOf(t, n + 1) /\ Shows(t, n)
  BY <1>1 DEF Drawing
<1>3. t \in OnPage /\ y = Cardinality(Earlier(t)) /\ tmp = Text(t)
  BY <1>1 DEF Drawing
<1>4. t \in Ids /\ t \in Int /\ i = t + 1
  BY <1>3, Table DEF OnPage, Ids, FreshInv, Types
<1>5. test_results[t] \in Measured
  BY <1>4 DEF FreshInv, OfThisRound, Done
<1> HIDE DEF t
<1>6. Draws(t)
  BY <1>4, <1>5, LineDraws
<1>7. StopMove(TickPlaces(t), Shade(t), str, n, color, tmp, Row(t))
  BY <1>2, <1>3, <1>6, Zenon DEF Draws
<1>8. t = i - 1
  BY DEF t
<1> QED BY <1>2, <1>3, <1>4, <1>6, <1>7, <1>8, Zenon

LEMMA ColorScreen ==
  ASSUME FreshInv, ScreenInv, cleared, TakeColor
  PROVE  ScreenInv'
<1>1. /\ at = "draw" /\ at' = "draw" /\ tmp' = tmp /\ i' = i /\ y' = y /\ ofs' = ofs
      /\ UNCHANGED <<tests, page, vram>> /\ page' = page /\ UNCHANGED tests
      /\ str <= Len(tmp) /\ tmp[str] = "^" /\ color' = tmp[str + 1] /\ str' = str + 2
  BY DEF TakeColor, TextLeft, pages, line
<1>2. PICK t \in OnPage, n \in Nat :
           /\ t = i - 1 /\ t \in Ids /\ t \in Int /\ i = t + 1
           /\ y = Cardinality(Earlier(t)) /\ tmp = Text(t)
           /\ Draws(t) /\ Reaches(t, str, n, color) /\ ofs = CellOf(t, n + 1) /\ Shows(t, n)
           /\ StopMove(TickPlaces(t), Shade(t), str, n, color, tmp, Row(t))
  BY <1>1, InTheLine
<1>3. /\ OnPage' = OnPage
      /\ \A u : Earlier(u)' = Earlier(u) /\ Text(u)' = Text(u) /\ Shade(u)' = Shade(u)
      /\ \A u, k : CellOf(u, k)' = CellOf(u, k)
  BY <1>1, SamePage, SameRows, Zenon
<1>4. (NoStray' <=> NoStray) /\ \A u, m : Shows(u, m)' <=> Shows(u, m)
  BY <1>1, SameScreen
<1>5. LinesDone'
  <2>1. Earlier(i - 1)' = Earlier(i - 1)
    BY <1>1, <1>3, Zenon DEF Earlier
  <2> QED BY <1>1, <1>4, <2>1, Zenon DEF LinesDone, ScreenInv
<1>6. LinesLeft'
  BY <1>1 DEF LinesLeft
<1>7. Reaches(t, str, n, color)'
  <2>1. Len(tmp) = 19 + TickPlaces(t) /\ TickPlaces(t) \in 1 .. 3
    BY <1>2, Zenon DEF Draws
  <2>2. StopAt(TickPlaces(t), Shade(t), str + 2, n, tmp[str + 1])
    <3>1. str # 20 + TickPlaces(t)
      BY <1>1, <2>1
    <3> QED BY <1>1, <1>2, <3>1, Zenon DEF StopMove
  <2>3. Reaches(t, str, n, color)' <=> StopAt(TickPlaces(t), Shade(t)', str', n, color')
    BY Zenon DEF Reaches
  <2> QED BY <1>1, <1>3, <2>2, <2>3, Zenon
<1>8. Drawing(t)'
  <2>1. (t \in OnPage)' /\ y' = Cardinality(Earlier(t)') /\ tmp' = Text(t)'
    BY <1>1, <1>2, <1>3, Zenon
  <2>2. ofs' = CellOf(t, n + 1)' /\ Shows(t, n)'
    BY <1>1, <1>2, <1>3, <1>4, Zenon
  <2> QED BY <1>2, <1>7, <2>1, <2>2, Zenon DEF Drawing
<1>9. InLine'
  BY <1>1, <1>2, <1>8, Zenon DEF InLine
<1> QED BY <1>4, <1>5, <1>6, <1>9, Zenon DEF ScreenInv

LEMMA GlyphScreen ==
  ASSUME FreshInv, ScreenInv, cleared, PutGlyph
  PROVE  ScreenInv'
<1>1. /\ at = "draw" /\ at' = "draw" /\ tmp' = tmp /\ i' = i /\ y' = y /\ color' = color
      /\ page' = page /\ UNCHANGED tests
      /\ str <= Len(tmp) /\ tmp[str] # "^" /\ str' = str + 1 /\ ofs' = ofs + 1
      /\ vram' = [vram EXCEPT ![ofs] = <<tmp[str], color>>]
  BY DEF PutGlyph, TextLeft, pages, line
<1>2. PICK t \in OnPage, n \in Nat :
           /\ t = i - 1 /\ t \in Ids /\ t \in Int /\ i = t + 1
           /\ y = Cardinality(Earlier(t)) /\ tmp = Text(t)
           /\ Draws(t) /\ Reaches(t, str, n, color) /\ ofs = CellOf(t, n + 1) /\ Shows(t, n)
           /\ StopMove(TickPlaces(t), Shade(t), str, n, color, tmp, Row(t))
  BY <1>1, InTheLine
<1>3. /\ OnPage' = OnPage
      /\ \A u : /\ Earlier(u)' = Earlier(u) /\ Text(u)' = Text(u) /\ Shade(u)' = Shade(u)
                /\ Row(u)' = Row(u)
      /\ \A u, k : CellOf(u, k)' = CellOf(u, k)
  BY <1>1, SamePage, SameRows, Zenon
<1>4. /\ n \in 0 .. 10 + TickPlaces(t) /\ Row(t)[n + 1] = <<tmp[str], color>>
      /\ StopAt(TickPlaces(t), Shade(t), str + 1, n + 1, color)
  <2>1. Len(tmp) = 19 + TickPlaces(t) /\ TickPlaces(t) \in 1 .. 3
    BY <1>2, Zenon DEF Draws
  <2>2. str # 20 + TickPlaces(t)
    BY <1>1, <2>1
  <2> QED BY <1>1, <1>2, <2>2, Zenon DEF StopMove
\* The glyph is put in the next cell of its line, and no other line has it.
<1>5. /\ LineWidth(t) \in 12 .. 14 /\ n + 1 \in 1 .. LineWidth(t) /\ n + 1 \in 1 .. Columns
      /\ \A u \in OnPage : LineWidth(u) \in 12 .. 14 /\ \A k \in 1 .. LineWidth(u) : k \in 1 .. Columns
  <2>1. \A u \in OnPage : TickPlaces(u) \in 1 .. 3
    <3>1. \A u \in OnPage : timing_tests(u).hw_ticks \in 0 .. 255
      BY Table DEF OnPage
    <3> QED BY <3>1, DecimalType, Zenon DEF TickPlaces
  <2>2. Columns \in Nat /\ Columns >= 14
    BY DisplayAssumption
  <2> QED BY <1>4, <2>1, <2>2 DEF LineWidth
<1>6. ofs \in Cells /\ DOMAIN vram = Cells
  BY <1>2, <1>5, CellOfs, Zenon DEF FreshInv, Types
<1>7. /\ vram'[ofs] = <<tmp[str], color>>
      /\ \A d \in Cells : d # ofs => vram'[d] = vram[d]
  BY <1>1, <1>6
<1>8. ASSUME NEW u \in OnPage, NEW k \in 1 .. LineWidth(u), ~(u = t /\ k = n + 1)
      PROVE  vram'[CellOf(u, k)] = vram[CellOf(u, k)]
  <2>1. k \in 1 .. Columns /\ CellOf(u, k) \in Cells /\ CellOf(u, k) # CellOf(t, n + 1)
    BY <1>5, <1>8, CellOfs, Zenon
  <2> QED BY <1>2, <1>7, <2>1, Zenon
<1>9. NoStray'
  <2>1. ASSUME NEW d \in Cells
        PROVE  vram'[d] = Blank \/ \E u \in OnPage : \E k \in 1 .. LineWidth(u) : d = CellOf(u, k)
    <3>1. CASE d = ofs
      BY <1>2, <1>5, <3>1, Zenon
    <3>2. CASE d # ofs
      BY <1>7, <3>2, Zenon DEF ScreenInv, NoStray
    <3> QED BY <3>1, <3>2
  <2> QED BY <1>3, <2>1, Zenon DEF NoStray
<1>10. LinesDone'
  <2>1. ASSUME NEW u \in Earlier(t)
        PROVE  Shows(u, LineWidth(u))'
    <3>1. u \in OnPage /\ u # t
      BY <1>2, Table DEF Earlier, OnPage, Ids
    <3>2. Shows(u, LineWidth(u))
      <4>1. u \in Earlier(i - 1)
        BY <1>2, Zenon
      <4> QED BY <1>1, <4>1, Zenon DEF ScreenInv, LinesDone
    <3>3. \A k \in 1 .. LineWidth(u) : vram'[CellOf(u, k)] = Row(u)[k]
      BY <1>8, <3>1, <3>2, Zenon DEF Shows
    <3> QED BY <1>3, <3>3, Zenon DEF Shows
  <2>2. Earlier(i - 1)' = Earlier(t)
    <3>1. Earlier(i - 1)' = Earlier(i - 1)
      BY <1>1, <1>3, Zenon DEF Earlier
    <3> QED BY <1>2, <3>1, Zenon
  <2> QED BY <1>1, <2>1, <2>2, Zenon DEF LinesDone
<1>11. LinesLeft'
  BY <1>1 DEF LinesLeft
<1>12. Drawing(t)'
  <2>1. (t \in OnPage)' /\ y' = Cardinality(Earlier(t)') /\ tmp' = Text(t)'
    BY <1>1, <1>2, <1>3, Zenon
  <2>2. Reaches(t, str, n + 1, color)'
    <3>1. Reaches(t, str, n + 1, color)' <=> StopAt(TickPlaces(t), Shade(t)', str', n + 1, color')
      BY Zenon DEF Reaches
    <3> QED BY <1>1, <1>3, <1>4, <3>1, Zenon
  <2>3. ofs' = CellOf(t, (n + 1) + 1)'
    <3>1. CellOf(t, (n + 1) + 1) = CellOf(t, n + 1) + 1
      <4>1. Columns \in Nat
        BY DisplayAssumption
      <4>2. LineNo(t) \in Nat
        BY LineBound
      <4> QED BY <4>1, <4>2 DEF CellOf
    <3> QED BY <1>1, <1>2, <1>3, <3>1, Zenon
  <2>4. Shows(t, n + 1)'
    <3>1. ASSUME NEW k \in 1 .. n + 1
          PROVE  vram'[CellOf(t, k)] = Row(t)[k]
      <4>1. CASE k = n + 1
        BY <1>2, <1>4, <1>7, <4>1, Zenon
      <4>2. CASE k # n + 1
        <5>1. k \in 1 .. n /\ k \in 1 .. LineWidth(t)
          BY <1>5, <4>2
        <5> QED BY <1>2, <1>8, <4>2, <5>1, Zenon DEF Shows
      <4> QED BY <4>1, <4>2
    <3> QED BY <1>3, <3>1, Zenon DEF Shows
  <2>5. n + 1 \in Nat
    OBVIOUS
  <2> QED BY <2>1, <2>2, <2>3, <2>4, <2>5, Zenon DEF Drawing
<1>13. InLine'
  BY <1>1, <1>2, <1>12, Zenon DEF InLine
<1> QED BY <1>9, <1>10, <1>11, <1>13, Zenon DEF ScreenInv

LEMMA LineScreen ==
  ASSUME FreshInv, ScreenInv, cleared, LineDone
  PROVE  ScreenInv'
<1>1. /\ at = "draw" /\ at' = "format" /\ i' = i /\ y' = y + 1
      /\ UNCHANGED <<tests, page, vram>> /\ page' = page
      /\ ~(str <= Len(tmp) /\ (tmp[str] = "^" => str < Len(tmp)))
  BY DEF LineDone, TextLeft, pages
<1>2. PICK t \in OnPage, n \in Nat :
           /\ t = i - 1 /\ t \in Ids /\ t \in Int /\ i = t + 1
           /\ y = Cardinality(Earlier(t)) /\ tmp = Text(t)
           /\ Draws(t) /\ Reaches(t, str, n, color) /\ ofs = CellOf(t, n + 1) /\ Shows(t, n)
           /\ StopMove(TickPlaces(t), Shade(t), str, n, color, tmp, Row(t))
  BY <1>1, InTheLine
<1>3. Shows(t, LineWidth(t))
  <2>1. Len(tmp) = 19 + TickPlaces(t) /\ TickPlaces(t) \in 1 .. 3
    BY <1>2, Zenon DEF Draws
  <2>2. /\ str \in 1 .. 19 + TickPlaces(t) => str <= Len(tmp)
        /\ str \in 1 .. 18 + TickPlaces(t) => str <= Len(tmp) /\ str < Len(tmp)
    BY <2>1
  <2>3. n = 11 + TickPlaces(t)
    BY <1>1, <1>2, <2>2, Zenon DEF StopMove
  <2> QED BY <1>2, <2>3, Zenon DEF LineWidth
<1>4. Earlier(i) = Earlier(t) \cup {t} /\ t \notin Earlier(t)
  <2>1. \A j \in OnPage : j < i <=> j < t \/ j = t
    BY <1>2, Table DEF OnPage, Ids
  <2>2. ~(t < t)
    BY <1>2
  <2> QED BY <2>1, <2>2, Zenon DEF Earlier
<1>5. (NoStray' <=> NoStray) /\ \A u, m : Shows(u, m)' <=> Shows(u, m)
  BY <1>1, SameScreen
<1>6. Earlier(i)' = Earlier(i)
  BY <1>1, SamePage, Zenon DEF Earlier
<1>7. LinesDone'
  <2>1. \A u \in Earlier(t) : Shows(u, LineWidth(u))
    BY <1>1, <1>2, Zenon DEF ScreenInv, LinesDone
  <2>2. \A u \in Earlier(i)' : Shows(u, LineWidth(u))'
    BY <1>3, <1>4, <1>5, <1>6, <2>1, Zenon
  <2> QED BY <1>1, <2>2 DEF LinesDone
<1>8. LinesLeft'
  <2>1. Cardinality(Earlier(i)) = Cardinality(Earlier(t)) + 1
    BY <1>4, EarlierFinite, FS_AddElement
  <2>2. y' = Cardinality(Earlier(i)')
    BY <1>1, <1>2, <1>6, <2>1, Zenon
  <2> QED BY <1>1, <2>2 DEF LinesLeft
<1>9. InLine'
  BY <1>1 DEF InLine
<1> QED BY <1>5, <1>7, <1>8, <1>9, Zenon DEF ScreenInv

LEMMA DrawnScreen ==
  ASSUME FreshInv, ScreenInv, cleared, Drawn
  PROVE  ScreenInv'
<1>1. /\ at = "format" /\ at' = "wait" /\ i' = i /\ Remaining = {}
      /\ UNCHANGED <<tests, page, vram>> /\ page' = page
  BY DEF Drawn, pages, line
<1>2. OnPage = Earlier(i)
  <2>1. \A j \in OnPage : j \in Int /\ ~(j >= i) /\ i \in Nat
    <3>1. \A j \in OnPage : j \in Int /\ i \in Nat
      BY Table DEF OnPage, Ids, FreshInv, Types
    <3>2. \A j \in OnPage : ~(j >= i)
      BY <1>1, Zenon DEF OnPage, Remaining
    <3> QED BY <3>1, <3>2
  <2> QED BY <2>1 DEF Earlier
<1>3. (NoStray' <=> NoStray) /\ \A u, m : Shows(u, m)' <=> Shows(u, m)
  BY <1>1, SameScreen
<1>4. Earlier(i)' = Earlier(i) /\ OnPage' = OnPage
  BY <1>1, SamePage, Zenon DEF Earlier
<1>5. LinesDone'
  BY <1>1, <1>3, <1>4 DEF LinesDone, ScreenInv
<1>6. LinesLeft'
  BY <1>1, <1>2, <1>4 DEF LinesLeft
<1>7. InLine'
  BY <1>1 DEF InLine
<1> QED BY <1>3, <1>5, <1>6, <1>7, Zenon DEF ScreenInv

LEMMA WaitScreen ==
  ASSUME FreshInv, ScreenInv, WaitVblank
  PROVE  ScreenInv'
<1>1. at' = "measure" /\ UNCHANGED tests
  BY DEF WaitVblank
<1>2. LinesDone' /\ LinesLeft' /\ InLine'
  BY <1>1 DEF LinesDone, LinesLeft, InLine
<1>3. CASE vram' = memsetw
  <2>1. NoStray'
    BY <1>3 DEF NoStray, memsetw
  <2> QED BY <1>2, <2>1, Zenon DEF ScreenInv
<1>4. CASE UNCHANGED <<page, vram, cleared>>
  <2>1. OnPage' = OnPage /\ \A t, k : CellOf(t, k)' = CellOf(t, k)
    BY <1>4, SamePage
  <2>2. NoStray => NoStray'
    BY <1>4, <2>1, Zenon DEF NoStray
  <2> QED BY <1>2, <1>4, <2>2, Zenon DEF ScreenInv
<1> QED BY <1>3, <1>4 DEF WaitVblank

LEMMA ScreenStep ==
  ASSUME FreshInv, ScreenInv, [Next]_vars
  PROVE  ScreenInv'
<1>1. CASE Next
  <2>1. CASE WaitVblank
    BY <2>1, WaitScreen
  <2>2. CASE ~WaitVblank
    <3>1. cleared' = cleared
      BY <1>1, <2>2 DEF Next, Measure, Format, TakeColor, PutGlyph, LineDone, Drawn
    <3>2. CASE ~cleared
      BY <3>1, <3>2 DEF ScreenInv
    <3>3. CASE cleared
      BY <1>1, <2>2, <3>3, MeasureScreen, FormatScreen, ColorScreen, GlyphScreen, LineScreen,
         DrawnScreen, Zenon DEF Next
    <3> QED BY <3>2, <3>3
  <2> QED BY <2>1, <2>2
<1>2. CASE UNCHANGED vars
  <2>1. /\ UNCHANGED <<tests, page, vram>> /\ page' = page /\ UNCHANGED tests
        /\ UNCHANGED <<at, i, y, tmp, str, ofs, color, cleared>>
    BY <1>2 DEF vars, pages, line, drawn
  <2>2. /\ OnPage' = OnPage
        /\ \A u : Earlier(u)' = Earlier(u) /\ Text(u)' = Text(u) /\ Shade(u)' = Shade(u)
        /\ \A u, k : CellOf(u, k)' = CellOf(u, k)
    BY <2>1, SamePage, SameRows, Zenon
  <2>3. (NoStray' <=> NoStray) /\ \A u, m : Shows(u, m)' <=> Shows(u, m)
    BY <2>1, SameScreen
  <2>4. Earlier(i)' = Earlier(i) /\ Earlier(i - 1)' = Earlier(i - 1)
    BY <2>1, <2>2, Zenon DEF Earlier
  <2>5. LinesDone => LinesDone'
    BY <2>1, <2>3, <2>4, Zenon DEF LinesDone
  <2>6. LinesLeft => LinesLeft'
    BY <2>1, <2>2, <2>4, Zenon DEF LinesLeft
  <2>7. InLine => InLine'
    BY <2>1, <2>2, <2>3, Zenon DEF InLine, Drawing, Reaches
  <2> QED BY <2>1, <2>3, <2>5, <2>6, <2>7, Zenon DEF ScreenInv
<1> QED BY <1>1, <1>2

LEMMA SpecScreen == Spec => []ScreenInv
<1>1. Init => ScreenInv
  BY DEF Init, ScreenInv
<1>2. FreshInv /\ ScreenInv /\ [Next]_vars => ScreenInv'
  BY ScreenStep
<1> QED BY <1>1, <1>2, SpecFresh, PTL DEF Spec

(***************************************************************************)
(* While the loop waits for the next frame, the screen shows exactly the   *)
(* page (main.c:366-386 and draw_pf_text): a line per test of the page, in *)
(* the order of the table, with its name, the last result and the board's  *)
(* ticks right-aligned and coloured; and nothing of an earlier page or of  *)
(* the longer numbers test_results held at first.                          *)
(***************************************************************************)
THEOREM ScreenIsExact == Spec => []ScreenExact
<1>1. FreshInv /\ ScreenInv => ScreenExact
  <2> SUFFICES ASSUME FreshInv, ScreenInv, at = "wait", cleared
               PROVE  ShowsPage
    BY DEF ScreenExact
  <2>1. NoStray /\ \A t \in OnPage : Shows(t, LineWidth(t))
    BY Zenon DEF ScreenInv, LinesDone, LinesLeft
  <2>2. DOMAIN LineOf = OnPage /\ \A t \in OnPage : LineOf[t] = LineNo(t)
    <3>1. \A t : {j \in Ids : j < t /\ timing_tests(j).page = page} = Earlier(t)
      BY Zenon DEF Earlier, OnPage
    <3> QED BY <3>1, Zenon DEF LineOf, OnPage, LineNo
  <2>3. Columns \in Nat /\ Lines \in Nat /\ Columns >= 14
    BY DisplayAssumption
  <2>4. ASSUME NEW t \in OnPage
        PROVE  /\ Len(Row(t)) = LineWidth(t) /\ LineWidth(t) \in 12 .. 14 /\ t \in Ids
               /\ LineNo(t) \in Nat /\ LineNo(t) \in 0 .. Lines - 1
    <3>1. t \in Ids
      BY DEF OnPage
    <3>2. test_results[t] \in Measured
      BY <3>1 DEF FreshInv, OfThisRound, Done
    <3>3. Draws(t)
      BY <3>1, <3>2, LineDraws
    <3>4. Len(Row(t)) = LineWidth(t) /\ TickPlaces(t) \in 1 .. 3
      BY <3>3, Zenon DEF Draws
    <3>5. LineWidth(t) \in 12 .. 14
      BY <3>4 DEF LineWidth
    <3>6. LineNo(t) \in Nat /\ LineNo(t) \in 0 .. Lines - 1
      BY <2>3, LineBound
    <3> QED BY <3>1, <3>4, <3>5, <3>6
  <2>5. ASSUME NEW t \in OnPage, NEW k \in 1 .. Columns
        PROVE  vram[LineNo(t) * Columns + k - 1] = IF k <= Len(Row(t)) THEN Row(t)[k] ELSE Blank
    <3>1. vram[LineNo(t) * Columns + k - 1] = vram[CellOf(t, k)]
      BY Zenon DEF CellOf
    <3>2. CASE k <= Len(Row(t))
      <4>1. k \in 1 .. LineWidth(t)
        BY <2>4, <3>2
      <4> QED BY <2>1, <3>1, <3>2, <4>1, Zenon DEF Shows
    <3>3. CASE ~(k <= Len(Row(t)))
      <4>1. k \notin 1 .. LineWidth(t) /\ \A u \in OnPage : \A j \in 1 .. LineWidth(u) : j \in 1 .. Columns
        BY <2>3, <2>4, <3>3
      <4>2. CellOf(t, k) \in Cells
        BY CellOfs, Zenon
      <4>3. vram[CellOf(t, k)] = Blank
        <5>1. ASSUME NEW u \in OnPage, NEW j \in 1 .. LineWidth(u)
              PROVE  CellOf(t, k) # CellOf(u, j)
          BY <4>1, CellOfs, Zenon
        <5> QED BY <2>1, <4>2, <5>1, Zenon DEF NoStray
      <4> QED BY <3>1, <3>3, <4>3, Zenon
    <3> QED BY <3>2, <3>3
  <2>6. ASSUME NEW l \in (0 .. Lines - 1) \ {LineOf[t] : t \in DOMAIN LineOf},
               NEW k \in 0 .. Columns - 1
        PROVE  vram[l * Columns + k] = Blank
    <3>1. l \in 0 .. Lines - 1 /\ l \in Nat /\ k + 1 \in 1 .. Columns
      BY <2>3
    <3>2. l * Columns + (k + 1) - 1 \in Cells
      BY <2>3, <3>1, CellBound DEF Cells
    <3>3. l * Columns + (k + 1) - 1 = l * Columns + k
      BY <2>3, <3>1
    <3>4. ASSUME NEW u \in OnPage, NEW j \in 1 .. LineWidth(u)
          PROVE  l * Columns + (k + 1) - 1 # CellOf(u, j)
      <4>1. LineNo(u) \in Nat /\ j \in 1 .. Columns
        BY <2>3, <2>4
      <4>2. l # LineNo(u)
        BY <2>2, Zenon
      <4>3. ASSUME l * Columns + (k + 1) - 1 = LineNo(u) * Columns + j - 1
            PROVE  l = LineNo(u)
        BY <2>3, <3>1, <4>1, <4>3, CellUnique
      <4> QED BY <4>2, <4>3, Zenon DEF CellOf
    <3> QED BY <2>1, <3>2, <3>3, <3>4, Zenon DEF NoStray
  <2> QED BY <2>2, <2>5, <2>6, Zenon DEF ShowsPage
<1> QED BY <1>1, SpecFresh, SpecScreen, PTL

-----------------------------------------------------------------------------
(***************************************************************************)
(* The format                                                              *)
(***************************************************************************)
LEMMA FormatShape ==
  ASSUME NEW c \in Inputs
  PROVE  /\ Len(c.format) \in Nat \ {0} /\ DOMAIN c.format = 1 .. Len(c.format)
         /\ c.format[Len(c.format)] = "NUL"
<1>1. c.format # <<>> /\ c.format[Len(c.format)] = "NUL" /\ c.format \in Seq(STRING)
  BY PrintfAssumption
<1> QED BY <1>1, LenProperties, EmptySeq

(***************************************************************************)
(* Inside a conversion specification the terminator is still to come: where*)
(* the code runs over flags and digits, there is something before it that  *)
(* ends the run.                                                           *)
(***************************************************************************)
End == Len(call.format)
RunEnds == \E j \in format .. End - 1 : ~Unchecked(call.format[j])

Running == {"flags", "width", "digits of width", "after the dot", "digits of precision"}

InFormat ==
  /\ call \in Inputs
  /\ format \in 1 .. End
  /\ stage \in Running => RunEnds
  /\ stage \in {"precision", "length", "specifier"} => format < End

LEMMA NulEnds ==
  ASSUME InFormat, Here # NUL PROVE format < End /\ Here = call.format[format]
<1>1. End \in Nat \ {0} /\ DOMAIN call.format = 1 .. End /\ call.format[End] = "NUL"
  BY FormatShape DEF InFormat, End
<1>2. format \in DOMAIN call.format /\ Here = call.format[format]
  BY <1>1 DEF InFormat, Here, Char
<1> QED BY <1>1, <1>2 DEF InFormat, NUL

LEMMA RunGoesOn ==
  ASSUME InFormat, stage \in Running
  PROVE  format < End /\ Here = call.format[format]
<1>1. End \in Nat \ {0} /\ DOMAIN call.format = 1 .. End
  BY FormatShape DEF InFormat, End
<1>2. PICK j \in format .. End - 1 : ~Unchecked(call.format[j])
  BY DEF InFormat, RunEnds
<1>3. format < End /\ format \in DOMAIN call.format
  BY <1>1, <1>2 DEF InFormat
<1> QED BY <1>3 DEF Here, Char

\* A flag or a digit is not the end of its run.
LEMMA RunStep ==
  ASSUME InFormat, stage \in Running, Unchecked(Here), format' = format + 1, call' = call
  PROVE  RunEnds' /\ format' \in 1 .. End'
<1>1. End \in Nat \ {0} /\ End' = End
  BY FormatShape DEF InFormat, End
<1>2. PICK j \in format .. End - 1 : ~Unchecked(call.format[j])
  BY DEF InFormat, RunEnds
<1>3. Here = call.format[format] /\ format \in Nat \ {0} /\ format < End
  BY RunGoesOn, <1>1 DEF InFormat
<1>4. j # format
  BY <1>2, <1>3
<1>5. j \in format' .. End' - 1 /\ ~Unchecked(call'.format[j])
  BY <1>1, <1>2, <1>3, <1>4
<1>6. ~Unchecked(call.format[j])' <=> ~Unchecked(call'.format[j])
  BY DEF Unchecked, is_digit
<1> QED BY <1>1, <1>3, <1>5 DEF RunEnds, Unchecked, is_digit

\* ADVANCE_IN_FORMAT_STRING: the end, or another character before it.
LEMMA AdvanceStep ==
  ASSUME InFormat, format < End, NEW to, Advance(1, to), call' = call
  PROVE  /\ format' \in 1 .. End' /\ End' = End
         /\ stage' = "terminate" \/ (stage' = to /\ format' < End')
<1>1. End \in Nat \ {0} /\ DOMAIN call.format = 1 .. End /\ call.format[End] = "NUL" /\ End' = End
  BY FormatShape DEF InFormat, End
<1>2. format' = format + 1 /\ format' \in 1 .. End
  BY <1>1 DEF Advance, InFormat
<1>3. CASE format' = End
  <2>1. Char(format + 1) = NUL
    BY <1>1, <1>2, <1>3 DEF Char, NUL
  <2> QED BY <1>1, <1>2, <2>1 DEF Advance
<1>4. CASE format' # End
  <2>1. stage' \in {"terminate", to} /\ format' < End'
    BY <1>1, <1>2, <1>4 DEF Advance
  <2> QED BY <1>1, <1>2, <2>1
<1> QED BY <1>3, <1>4

\* From the '%' to the precision only flags and a width have been read.
InSpecifier ==
  stage \in {"flags", "width", "digits of width", "precision"} => Percented(call.format, format)

LEMMA PercentedOn ==
  ASSUME InFormat, Percented(call.format, format) \/ Here = "%",
         Here \in {"%", "*"} \/ Unchecked(Here)
  PROVE  Percented(call.format, format + 1)
<1>1. format \in Nat \ {0} /\ Here = call.format[format]
  <2>1. End \in Nat \ {0} /\ DOMAIN call.format = 1 .. End
    BY FormatShape DEF InFormat, End
  <2>2. format \in DOMAIN call.format /\ format \in Nat \ {0}
    BY <2>1 DEF InFormat
  <2> QED BY <2>2 DEF Here, Char
<1>2. CASE Here = "%"
  <2>1. format \in 1 .. (format + 1) - 1 /\ \A j \in format + 1 .. (format + 1) - 1 : FALSE
    BY <1>1
  <2> QED BY <1>1, <1>2, <2>1 DEF Percented
<1>3. CASE Here # "%"
  <2>1. PICK m \in 1 .. format - 1 :
          call.format[m] = "%" /\ \A j \in m + 1 .. format - 1 : Unchecked(call.format[j]) \/ call.format[j] = "*"
    BY <1>3 DEF Percented
  <2>2. m \in 1 .. (format + 1) - 1
    BY <1>1, <2>1
  <2>3. \A j \in m + 1 .. (format + 1) - 1 : j = format \/ j \in m + 1 .. format - 1
    BY <1>1, <2>1
  <2>4. Unchecked(call.format[format]) \/ call.format[format] = "*"
    BY <1>1, <1>3
  <2> QED BY <2>1, <2>2, <2>3, <2>4 DEF Percented
<1> QED BY <1>2, <1>3

LEMMA SpecifierStep ==
  ASSUME InFormat, InSpecifier, [PrintfNext]_printf_vars, call' = call
  PROVE  InSpecifier'
<1> DEFINE Early == {"flags", "width", "digits of width", "precision"}
<1>1. ASSUME Percented(call.format, format') PROVE InSpecifier'
  BY <1>1 DEF InSpecifier, Percented, Unchecked, is_digit
<1>2. CASE Percent
  BY <1>1, <1>2, PercentedOn DEF Percent, Advance
<1>3. CASE parse_flags
  <2>1. CASE Here \in FlagChars
    BY <1>1, <1>3, <2>1, PercentedOn DEF parse_flags, InSpecifier, Unchecked
  <2>2. CASE Here \notin FlagChars
    BY <1>1, <1>3, <2>2 DEF parse_flags, InSpecifier
  <2> QED BY <2>1, <2>2
<1>4. CASE StarWidth
  BY <1>1, <1>4, PercentedOn DEF StarWidth, Advance, InSpecifier
<1>5. CASE Width
  BY <1>1, <1>5, PercentedOn DEF Width, InSpecifier, Unchecked
<1>6. CASE WidthDone
  BY <1>1, <1>6 DEF WidthDone, next, InSpecifier
<1>7. CASE UNCHANGED printf_vars
  BY <1>1, <1>7 DEF printf_vars, next, InSpecifier
<1>8. CASE Content \/ FormatEnd \/ Integer \/ Character \/ String \/ Pointer \/ NullString \/ NullPointer
           \/ WriteBack \/ Other
  <2>1. stage' \notin Early
    BY <1>8 DEF Content, FormatEnd, Integer, Character, String, Pointer, NullString, NullPointer, WriteBack, Other
  <2> QED BY <2>1 DEF InSpecifier
<1>9. CASE Dot \/ StarPrecision \/ Precision \/ PrecisionDone \/ Length
  <2>1. stage' \notin Early
    <3>1. CASE Dot
      BY <3>1 DEF Dot, Advance
    <3>2. CASE StarPrecision \/ Precision \/ PrecisionDone
      BY <3>2 DEF StarPrecision, Precision, PrecisionDone, Advance
    <3>3. CASE Length
      BY <3>3 DEF Length, Advance
    <3> QED BY <1>9, <3>1, <3>2, <3>3
  <2> QED BY <2>1 DEF InSpecifier
<1>10. CASE print_integer \/ Zeros \/ Prefix \/ Sign \/ out_rev \/ Terminate
  <2>1. stage' \notin Early
    BY <1>10 DEF print_integer, Zeros, Prefix, Sign, out_rev, Terminate
  <2> QED BY <2>1 DEF InSpecifier
<1> QED
  BY <1>2, <1>3, <1>4, <1>5, <1>6, <1>7, <1>8, <1>9, <1>10 DEF PrintfNext, Returned

\* The '%', or the dot of a precision: the run after it ends.
LEMMA RunBegins ==
  ASSUME AllComplete, InFormat, format < End, NEW to, Advance(1, to), call' = call,
         Here = "%" \/ (Here = "." /\ Percented(call.format, format))
  PROVE  /\ format' \in 1 .. End'
         /\ stage' = "terminate" \/ (stage' = to /\ RunEnds')
<1>1. /\ format' \in 1 .. End' /\ End' = End
      /\ stage' = "terminate" \/ (stage' = to /\ format' < End')
  BY AdvanceStep
<1>2. CASE stage' = to /\ format' < End'
  <2>1. End \in Nat \ {0} /\ DOMAIN call.format = 1 .. End
    BY FormatShape DEF InFormat, End
  <2>2. format' = format + 1 /\ format \in 1 .. End - 2
    BY <1>1, <1>2, <2>1 DEF Advance, InFormat
  <2>3. call.format[format] = "%" \/ (call.format[format] = "." /\ Percented(call.format, format))
    BY <2>1, <2>2 DEF Here, Char
  <2>4. Complete(call.format)
    BY DEF AllComplete, InFormat
  <2>5. PICK j \in format + 1 .. End - 1 : ~Unchecked(call.format[j])
    BY <2>2, <2>3, <2>4 DEF Complete, End
  <2>6. ~Unchecked(call'.format[j]) /\ j \in format' .. End' - 1
    BY <1>1, <2>2, <2>5
  <2> QED BY <1>1, <1>2, <2>6 DEF RunEnds, Unchecked, is_digit
<1> QED BY <1>1, <1>2

LEMMA FormatStep ==
  ASSUME AllComplete, InFormat, InSpecifier, [PrintfNext]_printf_vars
  PROVE  InFormat' /\ call' = call
<1>1. call' = call /\ call' \in Inputs /\ End' = End /\ End \in Nat \ {0}
  <2>1. call' = call
    BY DEF PrintfNext, printf_vars, Content, Percent, FormatEnd, parse_flags, StarWidth, Width, WidthDone, Dot,
       StarPrecision, Precision, PrecisionDone, Length, Integer, Character, String, Pointer, NullString,
       NullPointer, WriteBack, Other, print_integer, Zeros, Prefix, Sign, out_rev, Terminate, Returned
  <2> QED BY <2>1, FormatShape DEF InFormat, End
<1>2. format \in 1 .. End /\ format \in Nat
  BY <1>1 DEF InFormat
<1>3. CASE Content
  <2>1. format < End
    BY <1>3, NulEnds DEF Content
  <2> QED BY <1>1, <1>2, <1>3, <2>1 DEF Content, InFormat, Running
<1>4. CASE Percent
  <2>1. format < End
    BY <1>4, NulEnds DEF Percent, NUL
  <2>2. format' \in 1 .. End' /\ (stage' = "terminate" \/ (stage' = "flags" /\ RunEnds'))
    BY <1>1, <1>4, <2>1, RunBegins DEF Percent
  <2> QED BY <1>1, <2>2 DEF InFormat, Running
<1>5. CASE FormatEnd
  BY <1>1, <1>2, <1>5 DEF FormatEnd, next, InFormat, Running
<1>6. CASE parse_flags
  <2>1. CASE Here \in FlagChars
    BY <1>1, <1>6, <2>1, RunStep DEF parse_flags, InFormat, Running, Unchecked
  <2>2. CASE Here \notin FlagChars
    <3>1. stage' = "width" /\ stage = "flags" /\ format' = format
      BY <1>6, <2>2 DEF parse_flags
    <3>2. RunEnds'
      BY <1>1, <3>1 DEF InFormat, Running, RunEnds, Unchecked, is_digit
    <3> QED BY <1>1, <1>2, <3>1, <3>2 DEF InFormat
  <2> QED BY <2>1, <2>2
<1>7. CASE StarWidth
  <2>1. format < End
    BY <1>7, RunGoesOn DEF StarWidth, Running
  <2>2. format' \in 1 .. End' /\ (stage' = "terminate" \/ (stage' = "precision" /\ format' < End'))
    BY <1>1, <1>7, <2>1, AdvanceStep DEF StarWidth
  <2> QED BY <1>1, <2>2 DEF InFormat, Running
<1>8. CASE Width
  <2>1. RunEnds' /\ format' \in 1 .. End'
    BY <1>1, <1>8, RunStep DEF Width, Running, Unchecked
  <2> QED BY <1>1, <1>8, <2>1 DEF Width, InFormat
<1>9. CASE WidthDone
  <2>1. format < End
    BY <1>9, RunGoesOn DEF WidthDone, Running
  <2> QED BY <1>1, <1>2, <1>9, <2>1 DEF WidthDone, next, InFormat, Running
<1>10. CASE Dot
  <2>1. format < End
    BY <1>10 DEF Dot, InFormat
  <2>2. CASE Here = "."
    <3>1. format' \in 1 .. End' /\ (stage' = "terminate" \/ (stage' = "after the dot" /\ RunEnds'))
      BY <1>1, <1>10, <2>1, <2>2, RunBegins DEF Dot, InSpecifier
    <3> QED BY <1>1, <3>1 DEF InFormat, Running
  <2>3. CASE Here # "."
    BY <1>1, <1>2, <1>10, <2>1, <2>3 DEF Dot, InFormat, Running
  <2> QED BY <2>2, <2>3
<1>11. CASE StarPrecision
  <2>1. format < End
    BY <1>11, RunGoesOn DEF StarPrecision, Running
  <2>2. format' \in 1 .. End' /\ (stage' = "terminate" \/ (stage' = "length" /\ format' < End'))
    BY <1>1, <1>11, <2>1, AdvanceStep DEF StarPrecision
  <2> QED BY <1>1, <2>2 DEF InFormat, Running
<1>12. CASE Precision
  <2>1. RunEnds' /\ format' \in 1 .. End'
    BY <1>1, <1>12, RunStep DEF Precision, Running, Unchecked
  <2> QED BY <1>1, <1>12, <2>1 DEF Precision, InFormat
<1>13. CASE PrecisionDone
  <2>1. format < End
    BY <1>13, RunGoesOn DEF PrecisionDone, Running
  <2> QED BY <1>1, <1>2, <1>13, <2>1 DEF PrecisionDone, next, InFormat, Running
<1>14. CASE Length
  <2>1. format < End
    BY <1>14 DEF Length, InFormat
  <2>2. CASE Here \in {"l", "h"} /\ Char(format + 1) = Here
    <3>1. format + 1 < End
      <4>1. DOMAIN call.format = 1 .. End /\ call.format[End] = "NUL"
        BY FormatShape DEF End, InFormat
      <4>2. format + 1 \in 1 .. End
        BY <1>1, <1>2, <2>1
      <4>3. call.format[format + 1] \in {"l", "h"}
        BY <2>2, <4>1, <4>2 DEF Char
      <4> QED BY <1>1, <1>2, <4>1, <4>2, <4>3
    <3>2. format' = format + 2 /\ stage' \in {"terminate", "specifier"}
          /\ (stage' = "terminate" \/ Char(format + 2) # NUL)
      BY <1>14, <2>2 DEF Length, Advance
    <3>3. format' < End \/ stage' = "terminate"
      <4>1. CASE format + 2 = End
        BY <1>1, <3>2, <4>1, FormatShape DEF Char, End, InFormat, NUL
      <4>2. CASE format + 2 # End
        BY <1>1, <1>2, <3>1, <3>2, <4>2
      <4> QED BY <4>1, <4>2
    <3>4. format' \in 1 .. End'
      BY <1>1, <1>2, <3>1, <3>2
    <3>5. stage' \notin Running \cup {"precision", "length"} /\ (stage' = "specifier" => format' < End')
      BY <1>1, <3>2, <3>3 DEF Running
    <3> QED BY <1>1, <3>4, <3>5 DEF InFormat
  <2>3. CASE Here \in {"l", "h", "t", "j", "z"} /\ ~(Here \in {"l", "h"} /\ Char(format + 1) = Here)
    <3>1. Advance(1, "specifier")
      BY <1>14, <2>3 DEF Length
    <3>2. format' \in 1 .. End' /\ (stage' = "terminate" \/ (stage' = "specifier" /\ format' < End'))
      BY <1>1, <2>1, <3>1, AdvanceStep
    <3> QED BY <1>1, <3>2 DEF InFormat, Running
  <2>4. CASE Here \notin {"l", "h", "t", "j", "z"}
    BY <1>1, <1>2, <1>14, <2>1, <2>4 DEF Length, InFormat, Running
  <2> QED BY <2>2, <2>3, <2>4
<1>15. CASE Integer \/ Character \/ String \/ Pointer \/ NullString \/ NullPointer \/ WriteBack \/ Other
  <2>1. format < End /\ format' = format + 1 /\ stage' \in {"loop", "print_integer"}
    <3>1. CASE Integer
      BY <3>1 DEF InFormat, Integer
    <3>2. CASE Character
      BY <3>2 DEF InFormat, Character
    <3>3. CASE String
      BY <3>3 DEF InFormat, String
    <3>4. CASE Pointer
      BY <3>4 DEF InFormat, Pointer
    <3>5. CASE NullString
      BY <3>5 DEF InFormat, NullString
    <3>6. CASE NullPointer
      BY <3>6 DEF InFormat, NullPointer
    <3>7. CASE WriteBack
      BY <3>7 DEF InFormat, WriteBack
    <3>8. CASE Other
      BY <3>8 DEF InFormat, Other
    <3> QED BY <1>15, <3>1, <3>2, <3>3, <3>4, <3>5, <3>6, <3>7, <3>8
  <2>2. format' \in 1 .. End'
    BY <1>1, <1>2, <2>1
  <2>3. stage' \notin Running \cup {"precision", "length", "specifier"}
    BY <2>1 DEF Running
  <2> QED BY <1>1, <2>2, <2>3 DEF InFormat
<1>16. CASE print_integer \/ Zeros \/ Prefix \/ Sign \/ out_rev \/ Terminate
  <2>1. format' = format /\ stage' \in {"zeros", "prefix", "sign", "out_rev", "loop", "done"}
    BY <1>16 DEF print_integer, Zeros, Prefix, Sign, out_rev, Terminate, next
  <2> QED BY <1>1, <1>2, <2>1 DEF InFormat, Running
<1>17. CASE UNCHANGED printf_vars
  <2>1. format' = format /\ stage' = stage
    BY <1>17 DEF printf_vars, next
  <2>2. RunEnds => RunEnds'
    BY <1>1, <2>1 DEF RunEnds, Unchecked, is_digit
  <2> QED BY <1>1, <1>2, <2>1, <2>2 DEF InFormat
<1> QED
  BY <1>1, <1>3, <1>4, <1>5, <1>6, <1>7, <1>8, <1>9, <1>10, <1>11, <1>12, <1>13, <1>14, <1>15, <1>16, <1>17
  DEF PrintfNext, Returned

\* printf.c:125: "don't assume format specifiers are completed correctly": in a
\* format in which every run of flags and digits ends, nothing is read beyond
\* the terminator, wherever else it is cut short.
THEOREM StaysInFormat == AllComplete /\ PrintfSpec => []WithinFormat
<1>1. PrintfInit => InFormat /\ InSpecifier
  BY FormatShape DEF PrintfInit, InFormat, InSpecifier, End, Running
<1>2. AllComplete /\ InFormat /\ InSpecifier /\ [PrintfNext]_printf_vars => InFormat' /\ InSpecifier'
  BY FormatStep, SpecifierStep
<1>3. AllComplete => []AllComplete
  OBVIOUS
<1>4. InFormat => WithinFormat
  BY FormatShape DEF InFormat, WithinFormat, End
<1> QED BY <1>1, <1>2, <1>3, <1>4, PTL DEF PrintfSpec

-----------------------------------------------------------------------------
(***************************************************************************)
(* The conversion buffer                                                   *)
(***************************************************************************)
Below == {p \in Nat \X Nat : p[1] < p[2]}

LEMMA LeastPlace ==
  ASSUME NEW K, K \subseteq Nat, K # {}
  PROVE  \E k \in K : \A j \in K : ~(j < k)
<1>1. IsWellFoundedOn(Below, Nat)
  BY NatLessThanWellFounded DEF OpToRel, Below
<1>2. PICK k \in K : \A j \in K : ~(<<j, k>> \in Below)
  BY <1>1, WFMin
<1> QED BY <1>2 DEF Below

LEMMA NumDigitsFit ==
  ASSUME NEW v, NEW b PROVE NumDigits(v, b) \in 1 .. Size
<1> DEFINE last(k) == k = Size \/ v \div b ^ (k - 1) < b
           K == {k \in 1 .. Size : last(k)}
<1>1. Size \in K /\ Size \in Nat
  BY PrintfAssumption DEF Size
<1>2. PICK k \in K : \A j \in K : ~(j < k)
  <2>1. K \subseteq Nat /\ K # {}
    BY <1>1
  <2> HIDE DEF K
  <2> QED BY <2>1, LeastPlace
<1>3. \A j \in 1 .. k - 1 : j \in 1 .. Size /\ j < k
  BY <1>1, <1>2
<1>4. \A j \in 1 .. k - 1 : ~last(j)
  BY <1>2, <1>3
<1>5. \E m \in 1 .. Size : last(m) /\ \A j \in 1 .. m - 1 : ~last(j)
  BY <1>2, <1>4
<1> HIDE DEF last
<1>6. (CHOOSE m \in 1 .. Size : last(m) /\ \A j \in 1 .. m - 1 : ~last(j)) \in 1 .. Size
  BY <1>5
<1> QED BY <1>6 DEF NumDigits, last

\* A sequence of whatever.
AText(s) == \E S : s \in Seq(S)

LEMMA TextLen == ASSUME NEW s, AText(s) PROVE Len(s) \in Nat
<1>1. PICK S : s \in Seq(S)
  BY DEF AText
<1> QED BY <1>1, LenProperties

LEMMA TextOf ==
  ASSUME NEW n \in Nat, NEW f, f = [k \in 1 .. n |-> f[k]]
  PROVE  AText(f) /\ Len(f) = n
<1> DEFINE S == {f[k] : k \in 1 .. n}
<1>1. f \in [1 .. n -> S]
  OBVIOUS
<1>2. f \in Seq(S)
  BY <1>1, SeqDef
<1>3. Len(f) \in Nat /\ DOMAIN f = 1 .. Len(f) /\ DOMAIN f = 1 .. n
  BY <1>1, <1>2, LenProperties
<1>4. Len(f) = n
  BY <1>3
<1> QED BY <1>2, <1>4 DEF AText

LEMMA TextJoined ==
  ASSUME NEW s, NEW t, AText(s), AText(t)
  PROVE  AText(s \o t) /\ Len(s \o t) = Len(s) + Len(t)
<1>1. PICK S : s \in Seq(S)
  BY DEF AText
<1>2. PICK T : t \in Seq(T)
  BY DEF AText
<1>3. s \in Seq(S \cup T) /\ t \in Seq(S \cup T)
  BY <1>1, <1>2, SeqMonotonic
<1> QED BY <1>3, ConcatProperties DEF AText

LEMMA TextAppended ==
  ASSUME NEW s, NEW c, AText(s)
  PROVE  AText(Append(s, c)) /\ Len(Append(s, c)) = Len(s) + 1
<1>1. PICK S : s \in Seq(S)
  BY DEF AText
<1>2. s \in Seq(S \cup {c})
  BY <1>1, SeqMonotonic
<1> QED BY <1>2, AppendProperties DEF AText

LEMMA TextCut ==
  ASSUME NEW s, AText(s), NEW n \in 0 .. Len(s)
  PROVE  AText(SubSeq(s, 1, n)) /\ Len(SubSeq(s, 1, n)) = n
<1>1. PICK S : s \in Seq(S)
  BY DEF AText
<1>2. n \in Nat /\ Len(s) \in Nat /\ n <= Len(s)
  BY <1>1, LenProperties
<1>3. SubSeq(s, 1, n) = [k \in 1 .. n |-> s[k]]
  BY <1>1, <1>2
<1>4. SubSeq(s, 1, n) = [k \in 1 .. n |-> SubSeq(s, 1, n)[k]]
  BY <1>3
<1> QED BY <1>2, <1>4, TextOf

LEMMA RepeatText ==
  ASSUME NEW c, NEW k \in Int
  PROVE  AText(Repeat(c, k)) /\ Len(Repeat(c, k)) = (IF k <= 0 THEN 0 ELSE k)
<1>1. CASE k <= 0
  <2>1. Repeat(c, k) = <<>>
    BY <1>1 DEF Repeat
  <2>2. <<>> \in Seq({}) /\ Len(<<>>) = 0
    OBVIOUS
  <2> QED BY <1>1, <2>1, <2>2 DEF AText
<1>2. CASE k > 0
  <2>1. Repeat(c, k) = [m \in 1 .. k |-> c]
    BY <1>2 DEF Repeat
  <2>2. Repeat(c, k) = [m \in 1 .. k |-> Repeat(c, k)[m]]
    BY <2>1
  <2> QED BY <1>2, <2>2, TextOf
<1> QED BY <1>1, <1>2

LEMMA FitsText ==
  ASSUME NEW s, NEW c, AText(s), Len(s) <= Size
  PROVE  AText(Fits(s, c)) /\ Len(Fits(s, c)) <= Size
<1>1. Size \in Nat /\ Len(s) \in Nat
  BY PrintfAssumption, TextLen DEF Size
<1>2. CASE Len(s) < Size
  BY <1>1, <1>2, TextAppended DEF Fits
<1>3. CASE ~(Len(s) < Size)
  BY <1>3 DEF Fits
<1> QED BY <1>2, <1>3

(***************************************************************************)
(* From its digits to out_rev_ the buffer holds a text of at most Size     *)
(* characters, the first unpadded_len of which are digits.                 *)
(***************************************************************************)
Converting == {"zeros", "prefix", "sign", "out_rev"}

BufferInv ==
  /\ width \in Int /\ precision \in Int
  /\ stage \in Converting =>
       AText(buf) /\ Len(buf) <= Size
  /\ stage \in {"zeros", "prefix"} => unpadded_len \in Nat /\ unpadded_len <= Len(buf)

LEMMA AtouNumber == ASSUME NEW v \in Int, is_digit(Here) PROVE atou(v) \in Int
<1>1. DigitValue(Here) \in Int
  <2>1. \E d \in 1 .. 10 : Digits[d] = Here
    BY DEF is_digit
  <2> DEFINE place == CHOOSE d \in 1 .. 10 : Digits[d] = Here
  <2>2. place \in 1 .. 10
    BY <2>1
  <2>3. DigitValue(Here) = place - 1
    BY Zenon DEF DigitValue
  <2> HIDE DEF place
  <2> QED BY <2>2, <2>3
<1> QED BY <1>1 DEF atou, UINT

LEMMA NumbersStep ==
  ASSUME BufferInv, ArgumentsFit, [PrintfNext]_printf_vars
  PROVE  width' \in Int /\ precision' \in Int
<1>1. CASE Percent
  BY <1>1 DEF Percent
<1>2. CASE StarWidth
  <2>1. Arg.int \in Int
    BY <1>2 DEF StarWidth, ArgumentsFit, TakesInt
  <2> QED BY <1>2, <2>1 DEF StarWidth, BufferInv
<1>3. CASE Width
  BY <1>3, AtouNumber DEF Width, BufferInv
<1>4. CASE StarPrecision
  <2>1. Arg.int \in Int
    BY <1>4 DEF StarPrecision, ArgumentsFit, TakesInt
  <2>2. Most(Arg.int, 0) \in Int
    BY <2>1 DEF Most
  <2>3. precision' = Most(Arg.int, 0) /\ width' = width
    BY <1>4 DEF StarPrecision
  <2> QED BY <2>2, <2>3 DEF BufferInv
<1>5. CASE Precision
  BY <1>5, AtouNumber DEF Precision, BufferInv
<1>6. CASE Pointer
  BY <1>6 DEF Pointer, BufferInv
<1>7. CASE Zeros
  BY <1>7 DEF Zeros, BufferInv
<1>8. CASE \/ Content \/ FormatEnd \/ parse_flags \/ WidthDone \/ Dot \/ PrecisionDone \/ Length \/ Integer
           \/ Character \/ String \/ NullString \/ NullPointer \/ WriteBack \/ Other
           \/ print_integer \/ Prefix \/ Sign \/ out_rev \/ Terminate \/ UNCHANGED printf_vars
  <2>1. UNCHANGED <<width, precision>>
    BY <1>8
       DEF Content, FormatEnd, parse_flags, WidthDone, Dot, PrecisionDone, Length, Integer, Character, String,
           NullString, NullPointer, WriteBack, Other, print_integer, Prefix, Sign, out_rev, Terminate,
           spec, printf_vars
  <2> QED BY <2>1 DEF BufferInv
<1> QED
  BY <1>1, <1>2, <1>3, <1>4, <1>5, <1>6, <1>7, <1>8 DEF PrintfNext, Returned

LEMMA print_integerFits ==
  ASSUME print_integer
  PROVE  AText(buf') /\ Len(buf') <= Size /\ unpadded_len' = Len(buf')
<1>1. Size \in Nat \ {0}
  BY PrintfAssumption DEF Size
<1>2. CASE value = 0
  <2>1. buf' = <<>> \/ buf' = <<"0">>
    BY <1>2 DEF print_integer
  <2>2. <<>> \in Seq({"0"}) /\ Len(<<>>) = 0
    BY EmptySeq
  <2>3. <<"0">> \in Seq({"0"}) /\ Len(<<"0">>) = 1
    OBVIOUS
  <2>4. unpadded_len' = Len(buf')
    BY DEF print_integer
  <2>5. AText(<<>>) /\ AText(<<"0">>)
    BY <2>2, <2>3 DEF AText
  <2> QED BY <1>1, <2>1, <2>2, <2>3, <2>4, <2>5
<1>3. CASE value # 0
  <2>1. buf' = [k \in 1 .. NumDigits(value, base) |-> DigitChar((value \div base ^ (k - 1)) % base)]
    BY <1>3 DEF print_integer
  <2>2. buf' = [k \in 1 .. NumDigits(value, base) |-> buf'[k]]
    BY <2>1
  <2>3. NumDigits(value, base) \in Nat /\ NumDigits(value, base) <= Size
    BY <1>1, NumDigitsFit
  <2>4. AText(buf') /\ Len(buf') = NumDigits(value, base)
    BY <2>2, <2>3, TextOf
  <2> QED BY <2>3, <2>4 DEF print_integer
<1> QED BY <1>2, <1>3

LEMMA ZerosFit ==
  ASSUME BufferInv, Zeros
  PROVE  AText(buf') /\ Len(buf') <= Size /\ unpadded_len' = unpadded_len /\ unpadded_len <= Len(buf')
<1>1. /\ Size \in Nat \ {0} /\ AText(buf) /\ Len(buf) \in Nat /\ Len(buf) <= Size
      /\ unpadded_len \in Nat /\ unpadded_len <= Len(buf) /\ width' \in Int /\ precision \in Int
  BY PrintfAssumption, TextLen DEF Size, BufferInv, Converting, Zeros
<1> DEFINE filled == IF "-" \notin flags /\ "0" \in flags THEN Most(Len(buf), Least(width', Size)) ELSE Len(buf)
           len == Most(filled, Least(precision, Size))
<1>2. filled \in Nat /\ filled >= Len(buf) /\ filled <= Size
  BY <1>1 DEF Most, Least
<1> HIDE DEF filled
<1>3. len \in Nat /\ len >= Len(buf) /\ len <= Size
  BY <1>1, <1>2 DEF Most, Least
<1>4. buf' = buf \o Repeat("0", len - Len(buf)) /\ unpadded_len' = unpadded_len
  BY DEF Zeros, filled
<1> HIDE DEF len
<1>5. AText(Repeat("0", len - Len(buf))) /\ Len(Repeat("0", len - Len(buf))) = len - Len(buf)
  <2>1. len - Len(buf) \in Int /\ len - Len(buf) >= 0
    BY <1>1, <1>3
  <2> QED BY <2>1, RepeatText
<1>6. AText(buf') /\ Len(buf') = Len(buf) + (len - Len(buf))
  BY <1>1, <1>4, <1>5, TextJoined
<1> QED BY <1>1, <1>3, <1>4, <1>6

LEMMA PrefixFits ==
  ASSUME BufferInv, Prefix
  PROVE  AText(buf') /\ Len(buf') <= Size /\ unpadded_len' = unpadded_len
<1>1. /\ Size \in Nat \ {0} /\ AText(buf) /\ Len(buf) \in Nat /\ Len(buf) <= Size
      /\ unpadded_len \in Nat /\ unpadded_len <= Len(buf) /\ unpadded_len' = unpadded_len
  BY PrintfAssumption, TextLen DEF Size, BufferInv, Converting, Prefix
<1>2. TakenBack \in 0 .. Len(buf)
  BY <1>1 DEF TakenBack, Least
<1> DEFINE kept == SubSeq(buf, 1, Len(buf) - TakenBack)
           marked == CASE base = 16 -> Fits(kept, IF "UPPERCASE" \in flags THEN "X" ELSE "x")
                       [] base = 2 -> Fits(kept, "b")
                       [] OTHER -> kept
<1>3. AText(kept) /\ Len(kept) <= Size
  <2>1. Len(buf) - TakenBack \in 0 .. Len(buf)
    BY <1>1, <1>2
  <2> QED BY <1>1, <2>1, TextCut
<1>4. buf' = buf \/ buf' = Fits(marked, "0")
  BY DEF Prefix
<1> HIDE DEF kept
<1>5. AText(marked) /\ Len(marked) <= Size
  <2>1. \A c : AText(Fits(kept, c)) /\ Len(Fits(kept, c)) <= Size
    BY <1>3, FitsText
  <2> QED BY <1>3, <2>1
<1> HIDE DEF marked
<1> QED BY <1>1, <1>4, <1>5, FitsText

LEMMA SignFits ==
  ASSUME BufferInv, Sign
  PROVE  AText(buf') /\ Len(buf') <= Size /\ unpadded_len' = unpadded_len
<1>1. AText(buf) /\ Len(buf) <= Size /\ unpadded_len' = unpadded_len
  BY DEF BufferInv, Converting, Sign
<1>2. \A c : AText(Fits(buf, c)) /\ Len(Fits(buf, c)) <= Size
  BY <1>1, FitsText
<1>3. buf' \in {Fits(buf, "-"), Fits(buf, "+"), Fits(buf, " "), buf}
  BY DEF Sign
<1> QED BY <1>1, <1>2, <1>3

LEMMA BufferStep ==
  ASSUME BufferInv, ArgumentsFit, [PrintfNext]_printf_vars
  PROVE  BufferInv'
<1>1. width' \in Int /\ precision' \in Int
  BY NumbersStep
<1>2. CASE print_integer
  <2>1. stage' = "zeros" /\ Len(buf') \in Nat
    BY <1>2, print_integerFits, TextLen DEF print_integer
  <2> QED BY <1>1, <1>2, <2>1, print_integerFits DEF BufferInv, Converting, Size, AText
<1>3. CASE Zeros
  <2>1. stage' = "prefix" /\ unpadded_len \in Nat
    BY <1>3 DEF Zeros, BufferInv
  <2> QED BY <1>1, <1>3, <2>1, ZerosFit DEF BufferInv, Converting, Size, AText
<1>4. CASE Prefix
  <2>1. stage' = "sign"
    BY <1>4 DEF Prefix
  <2> QED BY <1>1, <1>4, <2>1, PrefixFits DEF BufferInv, Converting, Size, AText
<1>5. CASE Sign
  <2>1. stage' = "out_rev"
    BY <1>5 DEF Sign
  <2> QED BY <1>1, <1>5, <2>1, SignFits DEF BufferInv, Converting, Size, AText
<1>6. CASE UNCHANGED printf_vars
  <2>1. UNCHANGED <<stage, buf, unpadded_len>>
    BY <1>6 DEF printf_vars, integer
  <2> QED BY <1>1, <2>1 DEF BufferInv, Size, AText
<1>7. CASE PrintfNext /\ ~(print_integer \/ Zeros \/ Prefix \/ Sign \/ UNCHANGED printf_vars)
  <2>1. stage' \notin Converting
    <3>1. CASE Content \/ Percent \/ FormatEnd \/ parse_flags \/ StarWidth \/ Width \/ WidthDone
      BY <3>1 DEF Content, Percent, FormatEnd, parse_flags, StarWidth, Width, WidthDone, Advance, Converting
    <3>2. CASE Dot \/ StarPrecision \/ Precision \/ PrecisionDone
      BY <3>2 DEF Dot, StarPrecision, Precision, PrecisionDone, Advance, Converting
    <3>3. CASE Length
      BY <3>3 DEF Length, Advance, Converting
    <3>4. CASE Integer \/ Character \/ String \/ Pointer
      BY <3>4 DEF Integer, Character, String, Pointer, Converting
    <3>5. CASE NullString \/ NullPointer \/ WriteBack \/ Other \/ out_rev \/ Terminate
      BY <3>5 DEF NullString, NullPointer, WriteBack, Other, out_rev, Terminate, Converting
    <3> QED BY <1>7, <3>1, <3>2, <3>3, <3>4, <3>5 DEF PrintfNext, Returned
  <2> QED BY <1>1, <2>1 DEF BufferInv, Converting
<1> QED BY <1>2, <1>3, <1>4, <1>5, <1>6, <1>7

\* print_integer and print_integer_finalization: whatever the width and the
\* precision, the digits, zeros, prefix and sign of a number stay within the
\* conversion buffer, of any size, if the arguments fit the format.
THEOREM StaysInBuffer == PrintfSpec /\ []ArgumentsFit => []WithinBuffer
<1>1. PrintfInit => BufferInv
  BY DEF PrintfInit, BufferInv, Converting
<1>2. BufferInv /\ ArgumentsFit /\ [PrintfNext]_printf_vars => BufferInv'
  BY BufferStep
<1>3. BufferInv => WithinBuffer
  BY DEF BufferInv, Converting, WithinBuffer
<1> QED BY <1>1, <1>2, <1>3, PTL DEF PrintfSpec
=============================================================================
