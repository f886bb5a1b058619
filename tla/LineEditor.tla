----------------------------- MODULE LineEditor -----------------------------
(***************************************************************************)
(* What the console promises to the user at the keyboard: a line that is   *)
(* edited at the cursor, lines that were entered and can be recalled, text *)
(* that is copied and pasted, and an expression that is replaced by its    *)
(* value.  Keys are folded over a record; characters are strings.          *)
(***************************************************************************)
EXTENDS Integers, Sequences, SequencesExt

CONSTANT HIST   \* lines remembered (10 in console.c)

Digits == <<"0", "1", "2", "3", "4", "5", "6", "7", "8", "9">>
Operation == {"+", "-", "*", "/"}
IsDigit(c) == \E d \in 0 .. 9 : Digits[d + 1] = c
DigitValue(c) == CHOOSE d \in 0 .. 9 : Digits[d + 1] = c
Glyph(d) == Digits[d + 1]

\* before, after: the line on the two sides of the cursor, each character with
\* its mark; past: lines entered; at: the line of past that Up has reached.
Blank == [before |-> << >>, after |-> << >>, marking |-> FALSE, copying |-> FALSE,
          sent |-> << >>, past |-> << >>, at |-> 0]

Chars(s) == [k \in DOMAIN s |-> s[k].ch]
Unmarked(s) == [k \in DOMAIN s |-> [ch |-> s[k], m |-> FALSE]]
Line(ed) == Chars(ed.before) \o Chars(ed.after)

Number(s) == FoldLeft(LAMBDA n, c : 10 * n + DigitValue(c), 0, s)

RECURSIVE Numeral(_)
Numeral(n) == (IF n < 10 THEN << >> ELSE Numeral(n \div 10)) \o <<Glyph(n % 10)>>

\* The value of n1 op n2 in tenths, rounded towards zero.
Tenths(n1, op, n2) ==
  LET Abs(n) == IF n < 0 THEN -n ELSE n
      Quot == (10 * Abs(n1)) \div Abs(n2) IN
  CASE op = "+" -> 10 * (n1 + n2)
    [] op = "-" -> 10 * (n1 - n2)
    [] op = "*" -> 10 * n1 * n2
    [] op = "/" -> IF (n1 < 0) = (n2 < 0) THEN Quot ELSE -Quot

Decimal(t) ==
  LET a == IF t < 0 THEN -t ELSE t IN
  (IF t < 0 THEN <<"-">> ELSE << >>) \o Numeral(a \div 10)
  \o (IF a % 10 = 0 THEN << >> ELSE <<".", Glyph(a % 10)>>)

IsNumber(s) == s # << >> /\ \A k \in DOMAIN s : IsDigit(s[k])
IsSigned(s) == IsNumber(s) \/ (s # << >> /\ Head(s) = "-" /\ IsNumber(Tail(s)))
Signed(s) == IF Head(s) = "-" THEN -Number(Tail(s)) ELSE Number(s)

\* The ways to read the end of a text as n1 op n2=?, by the places where n1 and
\* op are.  n1 is as long as it can be.
Readings(t) ==
  LET end == Len(t) - 2 IN
  IF end < 1 \/ SubSeq(t, end + 1, end + 2) # <<"=", "?">> THEN {}
  ELSE {x \in (1 .. end) \X (1 .. end) :
          /\ x[1] < x[2]
          /\ t[x[2]] \in Operation
          /\ IsSigned(SubSeq(t, x[1], x[2] - 1))
          /\ IsSigned(SubSeq(t, x[2] + 1, end))
          /\ \A k \in 1 .. x[1] - 1 : ~IsSigned(SubSeq(t, k, x[2] - 1))}

\* The characters that stay in front of n1, and the value.
Evaluate(t) ==
  LET x == CHOOSE y \in Readings(t) : TRUE IN
  [keep |-> x[1] - 1,
   text |-> Decimal(Tenths(Signed(SubSeq(t, x[1], x[2] - 1)), t[x[2]],
                           Signed(SubSeq(t, x[2] + 1, Len(t) - 2))))]
-----------------------------------------------------------------------------
Insert(ed, c) == [ed EXCEPT !.before = Append(@, [ch |-> c, m |-> ed.marking])]

Enter(ed) ==
  LET lines == Append(ed.past, Line(ed))
      kept == IF Len(lines) > HIST THEN Tail(lines) ELSE lines IN
  [ed EXCEPT !.sent = @ \o Line(ed), !.past = kept, !.at = Len(kept) + 1,
             !.before = << >>, !.after = << >>, !.copying = FALSE]

Recall(ed, k) == [ed EXCEPT !.at = k, !.before = Unmarked(Front(ed.past[k])),
                            !.after = << >>, !.copying = FALSE]

Marked(ed) == SelectSeq(ed.before \o ed.after, LAMBDA x : x.m)

\* An expression in front of the cursor gives way to its value.
Ask(ed) ==
  LET t == Chars(ed.before)
      v == Evaluate(t) IN
  IF Readings(t) = {} THEN ed
  ELSE FoldLeft(Insert, [ed EXCEPT !.before = SubSeq(@, 1, v.keep)], v.text)

EditKey(ed, c) ==
  CASE c = "^H" -> IF ed.before = << >> THEN ed ELSE [ed EXCEPT !.before = Front(@)]
    [] c = "^U" -> [ed EXCEPT !.before = << >>, !.after = << >>]
    [] c = "left" -> IF ed.before = << >> THEN ed
                     ELSE [ed EXCEPT !.before = Front(@),
                                     !.after = <<Last(ed.before)>> \o @]
    [] c = "right" -> IF ed.after = << >> THEN ed
                      ELSE [ed EXCEPT !.before = Append(@, Head(ed.after)),
                                      !.after = Tail(@)]
    [] c = "up" -> IF ed.past # << >> /\ ed.at > 1 THEN Recall(ed, ed.at - 1) ELSE ed
    [] c = "down" -> IF ed.past # << >> /\ ed.at < Len(ed.past) THEN Recall(ed, ed.at + 1)
                     ELSE ed
    [] c = "^S" -> [ed EXCEPT !.before = Unmarked(Chars(@)), !.after = Unmarked(Chars(@)),
                              !.marking = TRUE, !.copying = TRUE]
    [] c = "^F" -> IF ~ed.copying THEN ed
                   ELSE [ed EXCEPT !.before = @ \o Unmarked(Chars(Marked(ed))),
                                   !.marking = FALSE]
    [] c = "\n" -> Enter([ed EXCEPT !.before = @ \o ed.after \o Unmarked(<<"\n">>),
                                    !.after = << >>])
    [] c = "^D" -> Enter(Insert(ed, c))
    [] c = "?" -> Ask(Insert(ed, c))
    [] OTHER -> Insert(ed, c)
=============================================================================
