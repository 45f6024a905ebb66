------------------------------- MODULE Printf -------------------------------
(***************************************************************************)
(* The functions of printf/printf.c as the Makefile builds them (no        *)
(* floats, no long long; int and size_t have 16 bits): the format is read  *)
(* character by character, an integer is converted in reverse into a       *)
(* buffer of its own, and every character goes through an output gadget    *)
(* that counts all of them and stores those that fit (snprintf, sprintf),  *)
(* or hands each to a function (fctprintf, printf with putchar_).          *)
(*                                                                         *)
(* The state follows the code from one part of a conversion specification  *)
(* to the next.  A flag is the character it is written as, or the name of  *)
(* one the code sets itself.                                               *)
(***************************************************************************)
EXTENDS Integers, Sequences

CONSTANTS
  Inputs,                       \* calls: format, args; out, a "buffer" of
                                \* n characters or a "function"
  PRINTF_INTEGER_BUFFER_SIZE

\* A format is a string: its last character is the terminator.
ASSUME PrintfAssumption ==
  /\ PRINTF_INTEGER_BUFFER_SIZE \in Nat \ {0}
  /\ \A c \in Inputs : c.format # <<>> /\ c.format[Len(c.format)] = "NUL" /\ c.format \in Seq(STRING)

VARIABLES
  call,                         \* the call
  stage,                        \* place in format_string_loop, print_integer
  format, args,                 \* indices of the next character, argument
  flags, width, precision,
  base, value, negative,        \* print_integer
  buf, unpadded_len,
  pos, buffer,                  \* the output gadget
  stored                        \* %n

next    == <<format, args>>
spec    == <<flags, width, precision>>
integer == <<base, value, negative, buf, unpadded_len>>
gadget  == <<pos, buffer>>
printf_vars == <<call, stage, next, spec, integer, gadget, stored>>

NUL == "NUL"
UINT == 65536

PrintfInit ==
  /\ call \in Inputs
  /\ stage = "loop" /\ format = 1 /\ args = 1
  /\ flags = {} /\ width = 0 /\ precision = 0
  /\ base = 10 /\ value = 0 /\ negative = FALSE /\ buf = <<>> /\ unpadded_len = 0
  /\ pos = 0 /\ buffer = [p \in 0 .. (IF call.out = "buffer" THEN call.n ELSE 0) - 1 |-> "?"]
  /\ stored = -1

-----------------------------------------------------------------------------
(***************************************************************************)
(* Helpers                                                                 *)
(***************************************************************************)
Char(k) == IF k \in DOMAIN call.format THEN call.format[k] ELSE "past the end"
Here == Char(format)
\* An argument: [int |-> i], [char |-> c], [str |-> s] or a null pointer.
Arg == call.args[args]
NULL == [null |-> TRUE]

Least(m, k) == IF m < k THEN m ELSE k
Most(m, k) == IF m < k THEN k ELSE m
Repeat(c, k) == IF k <= 0 THEN <<>> ELSE [i \in 1 .. k |-> c]
Reverse(s) == [i \in 1 .. Len(s) |-> s[Len(s) + 1 - i]]

Digits == <<"0", "1", "2", "3", "4", "5", "6", "7", "8", "9">>
is_digit(c) == \E d \in 1 .. 10 : Digits[d] = c
DigitValue(c) == (CHOOSE d \in 1 .. 10 : Digits[d] = c) - 1

\* One turn of the loop of atou_.
atou(i) == (i * 10 + DigitValue(Here)) % UINT

\* Places that hold characters; a function gets as many as there are.
Places(count) == IF call.out = "function" THEN 0 .. count - 1 ELSE 0 .. call.n - 1

\* putchar_via_gadget for each character of s
Put(s) ==
  /\ pos' = pos + Len(s)
  /\ buffer' = [p \in Places(pos + Len(s)) |->
                  IF p \in pos .. pos + Len(s) - 1 THEN s[p - pos + 1] ELSE buffer[p]]

\* ADVANCE_IN_FORMAT_STRING by k characters; the format may end there.
AdvanceUnchecked(k, to) ==      \* mutant: the end is not looked for
  /\ format' = format + k
  /\ stage' = to

Advance(k, to) ==
  /\ format' = format + k
  /\ stage' = IF Char(format + k) = NUL THEN "terminate" ELSE to

-----------------------------------------------------------------------------
(***************************************************************************)
(* format_string_loop                                                      *)
(***************************************************************************)
Content ==
  /\ stage = "loop" /\ Here \notin {NUL, "%"}
  /\ Put(<<Here>>) /\ format' = format + 1
  /\ UNCHANGED <<call, stage, args, spec, integer, stored>>

Percent ==
  /\ stage = "loop" /\ Here = "%"
  /\ Advance(1, "flags")
  /\ flags' = {} /\ width' = 0 /\ precision' = 0
  /\ UNCHANGED <<call, args, integer, gadget, stored>>

FormatEnd ==
  /\ stage = "loop" /\ Here = NUL
  /\ stage' = "terminate"
  /\ UNCHANGED <<call, next, spec, integer, gadget, stored>>

FlagChars == {"0", "-", "+", " ", "#"}

parse_flags ==
  /\ stage = "flags"
  /\ IF Here \in FlagChars
     THEN flags' = flags \cup {Here} /\ format' = format + 1 /\ UNCHANGED stage
     ELSE stage' = "width" /\ UNCHANGED <<flags, format>>
  /\ UNCHANGED <<call, args, width, precision, integer, gadget, stored>>

StarWidth ==
  /\ stage = "width" /\ Here = "*"
  /\ width' = IF Arg.int < 0 THEN -Arg.int ELSE Arg.int
  /\ flags' = IF Arg.int < 0 THEN flags \cup {"-"} ELSE flags
  /\ args' = args + 1
  /\ Advance(1, "precision")
  /\ UNCHANGED <<call, precision, integer, gadget, stored>>

Width ==
  /\ stage \in {"width", "digits of width"} /\ is_digit(Here)
  /\ width' = atou(width) /\ format' = format + 1 /\ stage' = "digits of width"
  /\ UNCHANGED <<call, args, flags, precision, integer, gadget, stored>>

WidthDone ==
  /\ \/ stage = "width" /\ Here # "*"
     \/ stage = "digits of width"
  /\ ~is_digit(Here)
  /\ stage' = "precision"
  /\ UNCHANGED <<call, next, spec, integer, gadget, stored>>

Dot ==
  /\ stage = "precision"
  /\ IF Here = "."
     THEN flags' = flags \cup {"PRECISION"} /\ Advance(1, "after the dot")
     ELSE stage' = "length" /\ UNCHANGED <<flags, format>>
  /\ UNCHANGED <<call, args, width, precision, integer, gadget, stored>>

StarPrecision ==
  /\ stage = "after the dot" /\ Here = "*"
  /\ precision' = Most(Arg.int, 0)
  /\ args' = args + 1
  /\ Advance(1, "length")
  /\ UNCHANGED <<call, flags, width, integer, gadget, stored>>

Precision ==
  /\ stage \in {"after the dot", "digits of precision"} /\ is_digit(Here)
  /\ precision' = atou(precision) /\ format' = format + 1 /\ stage' = "digits of precision"
  /\ UNCHANGED <<call, args, flags, width, integer, gadget, stored>>

PrecisionDone ==
  /\ \/ stage = "after the dot" /\ Here # "*"
     \/ stage = "digits of precision"
  /\ ~is_digit(Here)
  /\ stage' = "length"
  /\ UNCHANGED <<call, next, spec, integer, gadget, stored>>

\* t, j and z: their types do not have the size of a long.
Length ==
  /\ stage = "length"
  /\ LET twice == Char(format + 1) = Here IN
     CASE Here \in {"l", "h"} /\ twice ->
            Advance(2, "specifier") /\
            flags' = flags \cup (IF Here = "l" THEN {"LONG", "LONG_LONG"} ELSE {"SHORT", "CHAR"})
       [] Here \in {"l", "h"} /\ ~twice ->
            Advance(1, "specifier") /\ flags' = flags \cup {IF Here = "l" THEN "LONG" ELSE "SHORT"}
       [] Here \in {"t", "j", "z"} ->
            Advance(1, "specifier") /\ flags' = flags \cup {"LONG_LONG"}
       [] OTHER ->
            stage' = "specifier" /\ UNCHANGED <<flags, format>>
  /\ UNCHANGED <<call, args, width, precision, integer, gadget, stored>>

-----------------------------------------------------------------------------
(***************************************************************************)
(* The specifiers.  An argument has its type after the promotions.         *)
(***************************************************************************)
Signed == Here \in {"d", "i"}
Base == CASE Here \in {"x", "X"} -> 16 [] Here = "o" -> 8 [] Here = "b" -> 2 [] OTHER -> 10

\* (signed char) and (unsigned char); short has the size of int.
Narrowed(v) ==
  IF "CHAR" \notin flags THEN v
  ELSE IF Signed THEN ((v + 128) % 256) - 128 ELSE v % 256

ABS_FOR_PRINTING(v) == IF v < 0 THEN -v ELSE v

Integer ==
  /\ stage = "specifier" /\ Here \in {"d", "i", "u", "x", "X", "o", "b"}
  /\ format' = format + 1
  /\ base' = Base
  /\ flags' = (flags \ ((IF Base = 10 THEN {"#"} ELSE {})
                          \cup (IF "PRECISION" \in flags THEN {"0"} ELSE {})
                          \cup (IF Signed THEN {} ELSE {"+", " "})))
              \cup (IF Here = "X" THEN {"UPPERCASE"} ELSE {})
  /\ IF "LONG_LONG" \in flags
     THEN stage' = "loop" /\ UNCHANGED <<args, value, negative>>
     ELSE /\ stage' = "print_integer" /\ args' = args + 1
          /\ value' = ABS_FOR_PRINTING(Narrowed(Arg.int))
          /\ negative' = (Narrowed(Arg.int) < 0)
  /\ UNCHANGED <<call, width, precision, buf, unpadded_len, gadget, stored>>

PadBefore(l) == IF "-" \in flags THEN <<>> ELSE Repeat(" ", width - l)
PadAfter(l)  == IF "-" \in flags THEN Repeat(" ", width - l) ELSE <<>>

Character ==
  /\ stage = "specifier" /\ Here = "c"
  /\ Put(PadBefore(1) \o <<Arg.char>> \o PadAfter(1))
  /\ stage' = "loop" /\ format' = format + 1 /\ args' = args + 1
  /\ UNCHANGED <<call, spec, integer, stored>>

String ==
  /\ stage = "specifier" /\ Here = "s" /\ Arg # NULL
  /\ LET l == IF "PRECISION" \in flags THEN Least(Len(Arg.str), precision) ELSE Len(Arg.str)
     IN  Put(PadBefore(l) \o SubSeq(Arg.str, 1, l) \o PadAfter(l))
  /\ stage' = "loop" /\ format' = format + 1 /\ args' = args + 1
  /\ UNCHANGED <<call, spec, integer, stored>>

Pointer ==
  /\ stage = "specifier" /\ Here = "p" /\ Arg # NULL
  /\ width' = 6 /\ flags' = flags \cup {"0", "POINTER"}
  /\ base' = 16 /\ value' = Arg.int /\ negative' = FALSE
  /\ stage' = "print_integer" /\ format' = format + 1 /\ args' = args + 1
  /\ UNCHANGED <<call, precision, buf, unpadded_len, gadget, stored>>

\* out_rev_ of a text that stands there in its order.
InField(text) ==
  (IF "0" \in flags THEN <<>> ELSE PadBefore(Len(text))) \o text \o PadAfter(Len(text))

NullString ==
  /\ stage = "specifier" /\ Here = "s" /\ Arg = NULL
  /\ Put(InField(<<"(", "n", "u", "l", "l", ")">>))
  /\ stage' = "loop" /\ format' = format + 1 /\ args' = args + 1
  /\ UNCHANGED <<call, spec, integer, stored>>

\* Its field has 6 places; with FLAGS_ZEROPAD out_rev_ puts nothing before it.
NullPointer ==
  /\ stage = "specifier" /\ Here = "p" /\ Arg = NULL
  /\ Put(<<"(", "n", "i", "l", ")">> \o (IF "-" \in flags THEN <<" ">> ELSE <<>>))
  /\ stage' = "loop" /\ format' = format + 1 /\ args' = args + 1
  /\ UNCHANGED <<call, spec, integer, stored>>

WriteBack ==
  /\ stage = "specifier" /\ Here = "n"
  /\ stored' = IF "CHAR" \in flags THEN ((pos + 128) % 256) - 128 ELSE pos
  /\ stage' = "loop" /\ format' = format + 1 /\ args' = args + 1
  /\ UNCHANGED <<call, spec, integer, gadget>>

\* %% and whatever is no specifier: the character itself.
Other ==
  /\ stage = "specifier" /\ Here \notin {"d", "i", "u", "x", "X", "o", "b", "c", "s", "p", "n"}
  /\ Put(<<Here>>)
  /\ stage' = "loop" /\ format' = format + 1
  /\ UNCHANGED <<call, args, spec, integer, stored>>

-----------------------------------------------------------------------------
(***************************************************************************)
(* print_integer and print_integer_finalization: buf holds the number in   *)
(* reverse, and every character is kept from going beyond its size.        *)
(***************************************************************************)
Size == PRINTF_INTEGER_BUFFER_SIZE
DigitChar(d) ==
  IF d < 10 THEN Digits[d + 1]
  ELSE IF "UPPERCASE" \in flags THEN <<"A", "B", "C", "D", "E", "F">>[d - 9]
  ELSE <<"a", "b", "c", "d", "e", "f">>[d - 9]

\* Turns of the loop that divides v by the base until nothing is left, or
\* the buffer is full.
NumDigits(v, b) ==
  LET last(k) == k = Size \/ v \div b ^ (k - 1) < b
  IN  CHOOSE k \in 1 .. Size : last(k) /\ \A j \in 1 .. k - 1 : ~last(j)

print_integer ==
  /\ stage = "print_integer" /\ stage' = "zeros"
  /\ IF value = 0
     THEN /\ buf' = IF "PRECISION" \in flags THEN <<>> ELSE <<"0">>
          /\ flags' = IF "PRECISION" \notin flags \/ base = 16 THEN flags \ {"#"} ELSE flags
     ELSE /\ buf' = [k \in 1 .. NumDigits(value, base) |->
                       DigitChar((value \div base ^ (k - 1)) % base)]
          /\ UNCHANGED flags
  /\ unpadded_len' = Len(buf')
  /\ UNCHANGED <<call, next, width, precision, base, value, negative, gadget, stored>>

\* Room for a sign in a field that zeros fill.
SignRoom == "-" \notin flags /\ "0" \in flags /\ (negative \/ flags \cap {"+", " "} # {})

NoSignRoom ==                   \* mutant: width-- left out
  /\ stage = "zeros" /\ stage' = "prefix"
  /\ UNCHANGED width
  /\ LET filled == IF "-" \notin flags /\ "0" \in flags THEN Most(Len(buf), Least(width', Size)) ELSE Len(buf)
         len == Most(filled, Least(precision, Size))
     IN  /\ buf' = buf \o Repeat("0", len - Len(buf))
         /\ flags' = IF base = 8 /\ len > unpadded_len THEN flags \ {"#"} ELSE flags
  /\ UNCHANGED <<call, next, precision, base, value, negative, unpadded_len, gadget, stored>>

UncheckedZeros ==               \* mutant: len is not compared with the size
  /\ stage = "zeros" /\ stage' = "prefix"
  /\ width' = IF width > 0 /\ SignRoom THEN width - 1 ELSE width
  /\ LET filled == IF "-" \notin flags /\ "0" \in flags THEN Most(Len(buf), width') ELSE Len(buf)
         len == Most(filled, precision)
     IN  /\ buf' = buf \o Repeat("0", len - Len(buf))
         /\ flags' = IF base = 8 /\ len > unpadded_len THEN flags \ {"#"} ELSE flags
  /\ UNCHANGED <<call, next, precision, base, value, negative, unpadded_len, gadget, stored>>

Zeros ==
  /\ stage = "zeros" /\ stage' = "prefix"
  /\ width' = IF width > 0 /\ SignRoom THEN width - 1 ELSE width
  /\ LET filled == IF "-" \notin flags /\ "0" \in flags THEN Most(Len(buf), Least(width', Size)) ELSE Len(buf)
         len == Most(filled, Least(precision, Size))
     IN  /\ buf' = buf \o Repeat("0", len - Len(buf))
         /\ flags' = IF base = 8 /\ len > unpadded_len THEN flags \ {"#"} ELSE flags
  /\ UNCHANGED <<call, next, precision, base, value, negative, unpadded_len, gadget, stored>>

Fits(s, c) == IF Len(s) < Size THEN Append(s, c) ELSE s

\* Padding zeros taken back for the prefix to take their place.
TakenBack ==
  IF "PRECISION" \in flags \/ buf = <<>> \/ Len(buf) \notin {precision, width} THEN 0
  ELSE Least(Len(buf) - unpadded_len, IF base \in {2, 16} THEN 2 ELSE 1)

Prefix ==
  /\ stage = "prefix" /\ stage' = "sign"
  /\ IF flags \cap {"#", "POINTER"} = {} THEN UNCHANGED buf
     ELSE LET kept == SubSeq(buf, 1, Len(buf) - TakenBack)
              marked == CASE base = 16 -> Fits(kept, IF "UPPERCASE" \in flags THEN "X" ELSE "x")
                          [] base = 2 -> Fits(kept, "b")
                          [] OTHER -> kept
          IN  buf' = Fits(marked, "0")
  /\ UNCHANGED <<call, next, spec, base, value, negative, unpadded_len, gadget, stored>>

Sign ==
  /\ stage = "sign" /\ stage' = "out_rev"
  /\ buf' = CASE negative -> Fits(buf, "-")
              [] ~negative /\ "+" \in flags -> Fits(buf, "+")
              [] ~negative /\ "+" \notin flags /\ " " \in flags -> Fits(buf, " ")
              [] OTHER -> buf
  /\ UNCHANGED <<call, next, spec, base, value, negative, unpadded_len, gadget, stored>>

out_rev ==
  /\ stage = "out_rev" /\ stage' = "loop"
  /\ Put(InField(Reverse(buf)))
  /\ buf' = <<>>
  /\ UNCHANGED <<call, next, spec, base, value, negative, unpadded_len, stored>>

-----------------------------------------------------------------------------
\* append_termination_with_gadget; the result of the call is pos.
Terminate ==
  /\ stage = "terminate" /\ stage' = "done"
  /\ buffer' = [p \in DOMAIN buffer |->
                  IF call.out = "buffer" /\ p = Least(pos, call.n - 1) THEN NUL ELSE buffer[p]]
  /\ UNCHANGED <<call, next, spec, integer, pos, stored>>

\* The call is over; elsewhere there is always a next step.
Returned == stage = "done" /\ UNCHANGED printf_vars

PrintfNext ==
  \/ Content \/ Percent \/ FormatEnd
  \/ parse_flags \/ StarWidth \/ Width \/ WidthDone
  \/ Dot \/ StarPrecision \/ Precision \/ PrecisionDone \/ Length
  \/ Integer \/ Character \/ String \/ Pointer \/ NullString \/ NullPointer \/ WriteBack \/ Other
  \/ print_integer \/ Zeros \/ Prefix \/ Sign \/ out_rev
  \/ Terminate \/ Returned

PrintfSpec == PrintfInit /\ [][PrintfNext]_printf_vars

-----------------------------------------------------------------------------
(***************************************************************************)
(* Properties.  A call of Inputs also says what the C standard makes of it *)
(* (fprintf, C11 7.21.6.1): whether the call is defined, within the limits *)
(* printf.c states for its conversion buffer; the whole text, expected;    *)
(* and count, what %n stores (see MCPrintf).                               *)
(***************************************************************************)
\* printf.h: "An implementation of the C standard's snprintf/vsnprintf": the
\* result is the length of the whole text, of which the first n - 1 characters
\* are stored, with a terminator; %n stores the count of those so far.
Stored == IF call.out = "function" THEN pos ELSE Least(pos, call.n - 1)

Conforms ==
  stage = "done" /\ call.defined =>
    /\ pos = Len(call.expected)
    /\ \A p \in 0 .. Stored - 1 : buffer[p] = call.expected[p + 1]
    /\ Stored \in DOMAIN buffer => buffer[Stored] = NUL
    /\ stored = call.count

\* print_integer and its finalization never write past the conversion
\* buffer, also for a width or a precision larger than the buffer.
WithinBuffer ==
  stage \in {"zeros", "prefix", "sign", "out_rev"} =>
    Len(buf) <= Size

\* Where the code takes an int or a pointer, the caller has given one.
TakesInt ==
  \/ stage \in {"width", "after the dot"} /\ Here = "*"
  \/ stage = "specifier" /\ Here \in {"d", "i", "u", "x", "X", "o", "b"}
  \/ stage = "specifier" /\ Here = "p" /\ Arg # NULL
ArgumentsFit == TakesInt => Arg.int \in Int

\* printf.c:125: "don't assume format specifiers are completed correctly
\* before the format string end": nothing beyond the terminator is read.
WithinFormat == format <= Len(call.format)

\* The formats this holds for: a run of flags and digits after a '%', or after
\* the dot of its precision, ends before the terminator.
Unchecked(c) == c \in FlagChars \/ is_digit(c)

Percented(f, k) ==              \* from a '%' to here: flags and a width
  \E i \in 1 .. k - 1 : f[i] = "%" /\ \A j \in i + 1 .. k - 1 : Unchecked(f[j]) \/ f[j] = "*"

Complete(f) ==
  \A k \in 1 .. Len(f) - 2 :
    f[k] = "%" \/ (f[k] = "." /\ Percented(f, k)) => \E j \in k + 1 .. Len(f) - 1 : ~Unchecked(f[j])

AllComplete == \A c \in Inputs : Complete(c.format)

=============================================================================
