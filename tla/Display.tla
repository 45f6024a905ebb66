------------------------------ MODULE Display -------------------------------
(***************************************************************************)
(* The main loop of main.c and what it shows: one timing test is measured  *)
(* per frame, the results of the current page are drawn as text, and after *)
(* a while the screen is cleared for the next page.                        *)
(*                                                                         *)
(* Vblank models what the measurement and the wait for the frame do with   *)
(* interrupts, CmdServer the host's commands.                              *)
(***************************************************************************)
EXTENDS Integers, Sequences, FiniteSets

CONSTANTS
  Tests,         \* the table timing_tests: name, page and hw_ticks
  Measured,      \* results a measurement may have (a byte)
  Garbage,       \* results before the first (test_results is on the stack)
  FORCE_PAGE,    \* the page that is always shown, or -1
  PageDelay,     \* frames a page is shown (300)
  Columns, Lines \* text cells of the screen (64 columns)

NUM_TIMING_TESTS == Len(Tests)
Ids == 0 .. NUM_TIMING_TESTS - 1
timing_tests(t) == Tests[t + 1]

\* A name is one glyph, so a line has at most 14; each page has its lines on
\* the screen, from line 2 on.
ASSUME DisplayAssumption ==
  /\ Tests \in Seq([name : STRING, page : Nat, hw_ticks : 0 .. 255]) /\ Tests # <<>>
  /\ \A t \in Ids : timing_tests(t).name # "^"
  /\ FORCE_PAGE \in Nat \cup {-1}
  /\ Measured \subseteq 0 .. 255 /\ Garbage \subseteq 0 .. 2^16 - 1
  /\ PageDelay \in Nat /\ PageDelay >= NUM_TIMING_TESTS
  /\ Columns \in Nat /\ Columns >= 14 /\ Lines \in Nat
  /\ \A t \in Ids : 2 + Cardinality({o \in Ids : timing_tests(o).page = timing_tests(t).page}) <= Lines

VARIABLES
  at,                           \* place in the loop
  current_test, test_results,
  page, page_delay,
  i, y, tmp,                    \* the line drawn: test, line, text
  str, ofs, color,              \* draw_pf_text: its place in the text, the
                                \* cell of the next glyph, its colour
  vram,                         \* text cell -> glyph and colour
  cleared,                      \* history: a new page has been begun
  age                           \* history: frames since each test was measured

tests  == <<current_test, test_results>>
pages  == <<page, page_delay>>
line   == <<i, y, tmp>>
drawn  == <<str, ofs, color>>
vars   == <<at, tests, pages, line, drawn, vram, cleared, age>>

Cells == 0 .. Columns * Lines - 1
Blank == <<"", "0">>
memsetw == [c \in Cells |-> Blank]

OnePageLess ==                  \* mutant: > page instead of > page + 1
  LET needed == {timing_tests(t).page : t \in Ids} \cup {1}
  IN  CHOOSE m \in needed : \A k \in needed : k <= m

num_pages ==
  LET needed == {timing_tests(t).page + 1 : t \in Ids} \cup {1}
  IN  CHOOSE m \in needed : \A k \in needed : k <= m

Init ==
  /\ at = "measure"
  /\ current_test = 0 /\ test_results \in [Ids -> Garbage]
  /\ page = (IF FORCE_PAGE >= 0 THEN FORCE_PAGE ELSE 0)
  /\ page_delay = 0
  /\ i = 0 /\ y = 0 /\ tmp = <<>>
  /\ str = 0 /\ ofs = 0 /\ color = "0"
  /\ vram = memsetw
  /\ cleared = FALSE
  /\ age = [t \in Ids |-> NUM_TIMING_TESTS]

-----------------------------------------------------------------------------
(***************************************************************************)
(* Text                                                                    *)
(***************************************************************************)
Digit(d) == <<"0", "1", "2", "3", "4", "5", "6", "7", "8", "9">>[d + 1]

\* %u
Power == <<1, 10, 100, 1000, 10000>>

Decimal(v) ==
  LET places == {k \in 1 .. 5 : v >= Power[k]} \cup {1}
      len    == CHOOSE k \in places : \A j \in places : j <= k
  IN  [k \in 1 .. len |-> Digit((v \div Power[len - k + 1]) % 10)]

\* %3u
Padded(v) == LET d == Decimal(v) IN SubSeq(<<" ", " ">>, 1, 3 - Len(d)) \o d

\* snprintf of a line; the name, padded to 20 columns, is taken as one cell.
Text(t) ==
  LET test == timing_tests(t)
      mark == IF t = current_test THEN "*" ELSE " "
      tick_color == IF test_results[t] # test.hw_ticks THEN "5" ELSE "3"
  IN  <<"^", "6", mark, " ", "^", "7", test.name, ":", " ", "^", tick_color>>
        \o Padded(test_results[t]) \o <<" ", "^", "4", "(">> \o Decimal(test.hw_ticks) \o <<")">>

-----------------------------------------------------------------------------
(***************************************************************************)
(* One pass of the loop                                                    *)
(***************************************************************************)
Older(t) == IF age[t] < 2 * NUM_TIMING_TESTS THEN age[t] + 1 ELSE age[t]

SkipsLast ==                    \* mutant: modulo NUM_TIMING_TESTS - 1
  /\ at = "measure" /\ at' = "format"
  /\ \E r \in Measured : test_results' = [test_results EXCEPT ![current_test] = r]
  /\ current_test' = (current_test + 1) % (NUM_TIMING_TESTS - 1)
  /\ i' = 0 /\ y' = 0
  /\ age' = [t \in Ids |-> IF t = current_test THEN 0 ELSE Older(t)]
  /\ UNCHANGED <<pages, tmp, drawn, vram, cleared>>

Measure ==
  /\ at = "measure" /\ at' = "format"
  /\ \E r \in Measured : test_results' = [test_results EXCEPT ![current_test] = r]
  /\ current_test' = (current_test + 1) % NUM_TIMING_TESTS
  /\ i' = 0 /\ y' = 0
  /\ age' = [t \in Ids |-> IF t = current_test THEN 0 ELSE Older(t)]
  /\ UNCHANGED <<pages, tmp, drawn, vram, cleared>>

\* The loop goes on to the next test of the page, if there is one.
Remaining == {t \in Ids : t >= i /\ timing_tests(t).page = page}

\* snprintf, and the call of draw_pf_text(0, 2 + y, tmp).
Format ==
  /\ at = "format" /\ at' = "draw"
  /\ \E t \in Remaining : (\A o \in Remaining : t <= o) /\ tmp' = Text(t) /\ i' = t + 1
  /\ str' = 1 /\ ofs' = (2 + y) * Columns /\ color' = "0"
  /\ UNCHANGED <<tests, pages, y, vram, cleared, age>>

(***************************************************************************)
(* draw_pf_text, a character at a time: a '^' takes the next one as the    *)
(* colour of the glyphs that follow.  The texts drawn are of one line.     *)
(***************************************************************************)
TextLeft == str <= Len(tmp) /\ (tmp[str] = "^" => str < Len(tmp))

TakeColor ==
  /\ at = "draw" /\ TextLeft
  /\ tmp[str] = "^"
  /\ color' = tmp[str + 1] /\ str' = str + 2
  /\ UNCHANGED <<at, tests, pages, line, ofs, vram, cleared, age>>

PutGlyph ==
  /\ at = "draw" /\ TextLeft
  /\ tmp[str] # "^"
  /\ vram' = [vram EXCEPT ![ofs] = <<tmp[str], color>>]
  /\ ofs' = ofs + 1 /\ str' = str + 1
  /\ UNCHANGED <<at, tests, pages, line, color, cleared, age>>

LineDone ==
  /\ at = "draw" /\ at' = "format" /\ ~TextLeft
  /\ y' = y + 1
  /\ tmp' = <<>> /\ str' = 0 /\ ofs' = 0 /\ color' = "0"
  /\ UNCHANGED <<tests, pages, i, vram, cleared, age>>

Drawn ==
  /\ at = "format" /\ at' = "wait"
  /\ Remaining = {}
  /\ UNCHANGED <<tests, pages, line, drawn, vram, cleared, age>>

StaysDirty ==                   \* mutant: no memsetw
  /\ at = "wait" /\ at' = "measure"
  /\ IF page_delay + 1 > PageDelay /\ FORCE_PAGE = -1
     THEN /\ page' = (page + 1) % num_pages /\ page_delay' = 0
          /\ cleared' = TRUE /\ UNCHANGED vram
     ELSE page_delay' = page_delay + 1 /\ UNCHANGED <<page, vram, cleared>>
  /\ UNCHANGED <<tests, line, drawn, age>>

\* wait_vblank returns; page_delay stops growing here only to be finite when
\* FORCE_PAGE is set (it is never read then).
WaitVblank ==
  /\ at = "wait" /\ at' = "measure"
  /\ IF page_delay + 1 > PageDelay /\ FORCE_PAGE = -1
     THEN /\ page' = (page + 1) % num_pages /\ page_delay' = 0
          /\ vram' = memsetw /\ cleared' = TRUE
     ELSE /\ page_delay' = IF page_delay <= PageDelay THEN page_delay + 1 ELSE page_delay
          /\ UNCHANGED <<page, vram, cleared>>
  /\ UNCHANGED <<tests, line, drawn, age>>

Next == Measure \/ Format \/ TakeColor \/ PutGlyph \/ LineDone \/ Drawn \/ WaitVblank

\* wait_vblank returns (Vblank!WaitReturns), the host's commands end.
Spec == Init /\ [][Next]_vars /\ WF_vars(Next)

-----------------------------------------------------------------------------
(***************************************************************************)
(* Properties                                                              *)
(***************************************************************************)
(***************************************************************************)
(* What a reader of the screen expects: a line per test of the page, in    *)
(* the order of the table from line 2 on, right-aligned numbers, a result  *)
(* that differs from the board's in another colour; and nothing else.      *)
(***************************************************************************)
InColor(c, text) == [k \in DOMAIN text |-> <<text[k], c>>]

Row(t) ==
  LET test == timing_tests(t)
      agrees == test_results[t] = test.hw_ticks
  IN  InColor("6", <<IF t = current_test THEN "*" ELSE " ", " ">>)
        \o InColor("7", <<test.name, ":", " ">>)
        \o InColor(IF agrees THEN "3" ELSE "5", Padded(test_results[t]) \o <<" ">>)
        \o InColor("4", <<"(">> \o Decimal(test.hw_ticks) \o <<")">>)

\* The line of each test of the page.
LineOf == [t \in {k \in Ids : timing_tests(k).page = page} |->
             2 + Cardinality({j \in Ids : j < t /\ timing_tests(j).page = page})]

ShowsPage ==
  /\ \A t \in DOMAIN LineOf : \A row \in {Row(t)} : \A k \in 1 .. Columns :
       vram[LineOf[t] * Columns + k - 1] = IF k <= Len(row) THEN row[k] ELSE Blank
  /\ \A l \in (0 .. Lines - 1) \ {LineOf[t] : t \in DOMAIN LineOf} :
       \A k \in 0 .. Columns - 1 : vram[l * Columns + k] = Blank

\* From the first new page on the screen shows exactly the page, nothing of
\* an earlier page or of the longer numbers that test_results held at first.
ScreenExact == at = "wait" /\ cleared => ShowsPage

\* Every result was measured within the last round of the tests.
ResultsFresh == cleared => \A t \in Ids : age[t] < NUM_TIMING_TESTS

\* Every test's page comes up again and again.
EveryTestShown == FORCE_PAGE = -1 => \A t \in Ids : []<>(page = timing_tests(t).page)
=============================================================================
