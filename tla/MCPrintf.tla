------------------------------ MODULE MCPrintf ------------------------------
(***************************************************************************)
(* Calls of snprintf and what the C standard says of them.  An item of a   *)
(* format is a piece of text or a conversion specification; a precision or *)
(* a width of None is left out, and those of star come as arguments.       *)
(***************************************************************************)
EXTENDS Printf, FiniteSets

None == -1
Text(c) == [text |-> c]
Cvt(fs, w, p, l, c, v) ==       \* v: an argument
  [flags |-> fs, width |-> w, precision |-> p, length |-> l, conv |-> c, arg |-> v, star |-> {}]
Num(fs, w, p, l, c, v) == Cvt(fs, w, p, l, c, [int |-> v])
Star(item, what) == [item EXCEPT !.star = what]
IsText(item) == "text" \in DOMAIN item

\* v in base b
DigitsOf(v, b, ten) ==
  LET f[x \in Nat] == IF x < b THEN <<ten[x + 1]>> ELSE f[x \div b] \o <<ten[(x % b) + 1]>>
  IN  f[v]
Lower == Digits \o <<"a", "b", "c", "d", "e", "f">>
Upper == Digits \o <<"A", "B", "C", "D", "E", "F">>
Decimal(v) == DigitsOf(v, 10, Lower)

-----------------------------------------------------------------------------
(***************************************************************************)
(* The item as it stands in a format, and its arguments                    *)
(***************************************************************************)
FlagText(fs) == LET f == <<"-", "+", " ", "#", "0">> IN SelectSeq(f, LAMBDA c : c \in fs)

FormatOf(item) ==
  IF IsText(item) THEN item.text
  ELSE <<"%">> \o FlagText(item.flags)
       \o (IF "width" \in item.star THEN <<"*">>
           ELSE IF item.width = None THEN <<>> ELSE Decimal(item.width))
       \o (IF "precision" \in item.star THEN <<".", "*">>
           ELSE IF item.precision = None THEN <<>> ELSE <<".">> \o Decimal(item.precision))
       \o item.length \o <<item.conv>>

ArgsOf(item) ==
  IF IsText(item) THEN <<>>
  ELSE (IF "width" \in item.star THEN <<[int |-> item.width]>> ELSE <<>>)
       \o (IF "precision" \in item.star THEN <<[int |-> item.precision]>> ELSE <<>>)
       \o (IF item.conv = "%" THEN <<>> ELSE <<item.arg>>)

-----------------------------------------------------------------------------
(***************************************************************************)
(* The text of an item, after C11 7.21.6.1 (and C23 for %b)                *)
(***************************************************************************)
\* s in a field of the item's width
Field(item, s) ==
  LET w == IF item.width < 0 /\ "width" \in item.star THEN -item.width ELSE item.width
      spaces == Repeat(" ", w - Len(s))
  IN  IF "-" \in item.flags \/ ("width" \in item.star /\ item.width < 0) THEN s \o spaces ELSE spaces \o s

\* A negative precision argument is taken as if the precision were omitted.
Precise(item) == item.precision >= 0

NumberText(item) ==
  LET v0 == item.arg.int
      signed == item.conv \in {"d", "i"}
      v == IF item.length # <<"h", "h">> THEN v0
           ELSE IF signed THEN ((v0 + 128) % 256) - 128 ELSE v0 % 256
      b == CASE item.conv \in {"x", "X"} -> 16 [] item.conv = "o" -> 8 [] item.conv = "b" -> 2 [] OTHER -> 10
      abs == IF v < 0 THEN -v ELSE v
      shortest == IF abs = 0 THEN <<>> ELSE DigitsOf(abs, b, IF item.conv = "X" THEN Upper ELSE Lower)
      least == Repeat("0", (IF Precise(item) THEN item.precision ELSE 1) - Len(shortest)) \o shortest
      number == IF "#" \in item.flags /\ b = 8 /\ (IF least = <<>> THEN TRUE ELSE Head(least) # "0")
                THEN <<"0">> \o least ELSE least
      prefix == IF ~signed
                THEN IF "#" \in item.flags /\ b \in {2, 16} /\ v # 0 THEN <<"0", item.conv>> ELSE <<>>
                ELSE IF v < 0 THEN <<"-">>
                ELSE IF "+" \in item.flags THEN <<"+">>
                ELSE IF " " \in item.flags THEN <<" ">> ELSE <<>>
      fill == IF "0" \in item.flags /\ "-" \notin item.flags /\ ~Precise(item) /\ item.width > 0
              THEN Repeat("0", item.width - Len(prefix) - Len(number)) ELSE <<>>
  IN  Field(item, prefix \o fill \o number)

\* %p and the null pointer are as printf.c defines them.
TextOf(item) ==
  IF IsText(item) THEN item.text
  ELSE CASE item.conv = "%" -> <<"%">>
         [] item.conv = "n" -> <<>>
         [] item.conv = "c" -> Field(item, <<item.arg.char>>)
         [] item.conv = "s" /\ item.arg = NULL -> Field(item, <<"(", "n", "u", "l", "l", ")">>)
         [] item.conv = "s" /\ item.arg # NULL ->
              Field(item, IF Precise(item) THEN SubSeq(item.arg.str, 1, Least(item.precision, Len(item.arg.str)))
                          ELSE item.arg.str)
         [] item.conv = "p" /\ item.arg = NULL -> <<"(", "n", "i", "l", ")">>
         [] item.conv = "p" /\ item.arg # NULL ->
              LET x == DigitsOf(item.arg.int, 16, Lower) IN <<"0", "x">> \o Repeat("0", 4 - Len(x)) \o x
         [] OTHER -> NumberText(item)

\* f of every item, one after the other
Each(f(_), items) ==
  LET all[k \in 0 .. Len(items)] == IF k = 0 THEN <<>> ELSE all[k - 1] \o f(items[k])
  IN  all[Len(items)]

CountAt(items) ==
  LET ns == {k \in DOMAIN items : ~IsText(items[k]) /\ items[k].conv = "n"}
  IN  IF ns = {} THEN -1 ELSE Len(Each(TextOf, SubSeq(items, 1, CHOOSE k \in ns : TRUE)))

Call(items, n) ==
  [format |-> Append(Each(FormatOf, items), NUL), args |-> Each(ArgsOf, items), out |-> "buffer", n |-> n,
   expected |-> Each(TextOf, items), count |-> CountAt(items), defined |-> TRUE]

Through(function, items) == [Call(items, 0) EXCEPT !.out = function]

\* Calls the standard, or the conversion buffer, leaves undefined.
Incomplete(f, a) ==
  [format |-> Append(f, NUL), args |-> a, out |-> "buffer", n |-> 4, expected |-> <<>>, count |-> -1, defined |-> FALSE]

-----------------------------------------------------------------------------
Sizes == {0, 1, 4, 64}
Widths == {None, 2, 5}
Precisions == {None, 0, 3}
h == <<"h">>
hh == <<"h", "h">>
l == <<"l">>
int == <<>>

Signeds ==
  {Num(fs, w, p, len, "d", v) : fs \in SUBSET {"0", "-", "+", " "}, w \in Widths, p \in Precisions,
                                len \in {int, hh}, v \in {0, 7, -1, 128, -32768}}
Unsigneds ==
  {Num(fs, w, p, int, c, v) : fs \in SUBSET {"0", "-", "#"}, w \in Widths, p \in Precisions,
                              c \in {"x", "X", "o"}, v \in {0, 8, 255, 65535}}
Others ==
  {Num(fs, w, None, int, c, v) : fs \in SUBSET {"0", "-", "#"}, w \in {None, 5}, c \in {"b"}, v \in {0, 6, 65535}}
  \cup {Num(fs, w, None, len, "u", v) : fs \in {{}, {"+", " ", "0"}}, w \in {None, 5}, len \in {int, h, hh, l},
                                        v \in {0, 300, 65535}}
  \cup {Num({}, None, None, l, "d", v) : v \in {70000, -70000, 2147483647}}
  \cup {Cvt({"0"}, None, None, int, "p", v) : v \in {NULL, [int |-> 18], [int |-> 65535]}}
  \cup {Cvt(fs, w, p, int, "s", [str |-> s]) : fs \in {{}, {"-"}}, w \in Widths, p \in Precisions,
                                     s \in {<<>>, <<"a">>, <<"a", "b", "c", "d">>}}
  \cup {Cvt(fs, w, None, int, "s", NULL) : fs \in {{}, {"-"}}, w \in {None, 8}}
  \cup {Cvt(fs, w, None, int, "c", [char |-> "z"]) : fs \in {{}, {"-"}}, w \in Widths}
  \cup {Star(Num({}, w, None, int, c, 7), {"width"}) : w \in {-5, 0, 5}, c \in {"d", "u"}}
  \cup {Star(Num({}, 5, p, int, "d", v), {"precision"}) : p \in {0, 3}, v \in {0, -7}}

\* Several items in a format, with %n between them.
Long ==
  {<<Text(<<"P", "C", ":">>), Num({"0"}, 4, None, int, "X", 4096), Text(<<" ">>), Num({}, None, None, int, "%", 0),
     Num({}, None, None, len, "n", 0), Num({"-"}, 5, None, int, "d", -3), Cvt({}, None, None, int, "c", [char |-> "!"])>>
   : len \in {int, hh}}

\* The line of the display (main.c:363), with the longest results.
Line(c, v) ==
  <<Text(<<"^", "6">>), Cvt({}, None, None, int, "c", [char |-> "*"]), Text(<<" ", "^", "7">>),
    Cvt({}, 20, None, int, "s", [str |-> <<"N", "O", "P">>]),
    Text(<<":", " ", "^">>), Num({}, None, None, int, "u", c), Num({}, 3, None, int, "u", v), Text(<<" ", "^", "4", "(">>),
    Num({}, None, None, int, "u", 8), Text(<<")">>)>>
Lines == {Line(c, v) : c \in {3, 5}, v \in {8, 255, 65535}}

\* A field wider, or a precision larger, than the conversion buffer.
TooWide ==
  {Incomplete(<<"%">> \o f \o <<"4", "0", c>>, <<[int |-> v]>>) :
     f \in {<<>>, <<"0">>, <<"#", "0">>, <<"+", "0">>, <<".">>, <<"#", ".">>},
     c \in {"d", "x", "b", "o"}, v \in {0, 65535}}

\* Formats that end within a conversion specification, where the code looks
\* for the end (the others are in Unfinished).
Finished ==
  {Incomplete(<<"a", "%">> \o f, <<[int |-> 1], [int |-> 2]>>) :
     f \in {<<>>, <<"-", "5", ".">>, <<"l">>, <<"l", "l">>, <<"h">>, <<"h", "h">>, <<"z">>, <<"*">>, <<".", "*">>}}

MCInputs ==
  {Call(<<i>>, n) : i \in Signeds \cup Unsigneds \cup Others, n \in Sizes}
  \cup {Call(i, n) : i \in Long \cup Lines, n \in Sizes}
  \cup {Through("function", i) : i \in Long \cup Lines} \cup TooWide \cup Finished

ASSUME \A c \in MCInputs : Complete(c.format)

\* Flags, a width or the digits of a precision, and then the end.
Unfinished ==
  {Incomplete(<<"a", "%">> \o f, <<>>) : f \in {<<"-">>, <<"5">>, <<".", "5">>}}

\* A negative precision argument.
NegativePrecision ==
  {Call(<<Star(Num({}, None, p, int, "d", v), {"precision"})>>, 8) : p \in {-1, 2}, v \in {0, 7}}
=============================================================================
