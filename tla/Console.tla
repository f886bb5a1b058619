------------------------------ MODULE Console ------------------------------
(***************************************************************************)
(* The console input of console.c: consoleintr() with its line editing,    *)
(* history, copy and paste and arithmetic, and consoleread().  con is      *)
(* struct Input with the static variables beside it; a key is a function   *)
(* of it, since cons.lock is held from the first key of an interrupt to    *)
(* the last.  The screen (crt, the cursor, the uart) is left out.  Indices *)
(* into buf are the code's own, with % INPUT_BUF only where it has it; the *)
(* instance stays below INPUT_BUF, where both are the same.                *)
(*                                                                         *)
(* ed is the editor of LineEditor under the same keys, and odd records     *)
(* that something happened for which the code makes no such promise.       *)
(***************************************************************************)
EXTENDS LineEditor, FiniteSets

CONSTANTS INPUT_BUF,   \* size of buf
          Bursts,      \* sequences of keys that one interrupt may deliver
          Counts,      \* the n of consoleread()
          MaxBursts    \* bound: interrupts

VARIABLES con,      \* struct Input, lefts, history, non.sign_n1
          reader,   \* the process in consoleread(): [at, n, target]
          got,      \* characters taken out of buf by consoleread()
          ed, odd,
          nbursts

vars == <<con, reader, got, ed, odd, nbursts>>

Index == 0 .. INPUT_BUF - 1
NUL == "nul"
NoInput == [buf |-> [i \in Index |-> NUL], copy |-> [i \in Index |-> FALSE],
            r |-> 0, w |-> 0, e |-> 0, flag_copy |-> FALSE, flag_paste |-> FALSE]

Init ==
  /\ con = [in |-> NoInput, lefts |-> 0, hist |-> [k \in 0 .. HIST - 1 |-> NoInput],
            index |-> -1, count |-> 0, last |-> -1, sign_n1 |-> FALSE]
  /\ reader = [at |-> "user", n |-> 0, target |-> 0]
  /\ got = << >>
  /\ ed = Blank
  /\ odd = FALSE
  /\ nbursts = 0
-----------------------------------------------------------------------------
(* consputc() *)

\* The place in buf of the character after the cursor.
Cursor(c) == c.in.e - c.lefts

Moved(c, from, to, d) ==
  [c EXCEPT
    !.in.buf = [i \in Index |-> IF i \in from .. to THEN c.in.buf[i + d] ELSE @[i]],
    !.in.copy = [i \in Index |-> IF i \in from .. to THEN c.in.copy[i + d] ELSE @[i]]]

\* Mutant of shift_left_next_chars: the last character stays behind.
shift_left_short(c) == Moved(c, Cursor(c), c.in.e - 2, 1)

shift_left_next_chars(c) == Moved(c, Cursor(c), c.in.e - 1, 1)
shift_right_next_chars(c) == Moved(c, Cursor(c) + 1, c.in.e + 1, -1)

Put(c, ch) == IF ch = "\n" THEN [c EXCEPT !.lefts = 0] ELSE shift_right_next_chars(c)

Backspace(c) ==
  LET k == Cursor(c) - 1 IN
  shift_left_next_chars([c EXCEPT !.in.e = @ - 1, !.in.buf[k] = NUL, !.in.copy[k] = FALSE])

\* input.buf[(input.e - lefts) % INPUT_BUF] = ch, its mark, and input.e++.
Store(c, ch) ==
  LET k == Cursor(c) % INPUT_BUF IN
  [c EXCEPT !.in.buf[k] = ch, !.in.copy[k] = @ \/ c.in.flag_paste, !.in.e = @ + 1]

Type(c, ch) == Store(Put(c, ch), ch)

RECURSIVE Erase(_, _)
Erase(c, n) == IF n = 0 THEN c ELSE Erase(Backspace(c), n - 1)
-----------------------------------------------------------------------------
(* The arithmetic of "?" *)

Text(in, from, to) == [k \in 1 .. to - from |-> in.buf[from + k - 1]]

LastNot(in, from, to) ==   \* the last place of from..to without a digit
  {i \in from .. to : ~IsDigit(in.buf[i]) /\ \A j \in i + 1 .. to : IsDigit(in.buf[j])}
Op(in, i) == i >= 0 /\ in.buf[i] \in Operation

\* The place of the operator, -1 without the pattern, and whether the second
\* number is negative.
Operator(c) ==
  LET in == c.in
      end == Cursor(c)
      no == [op |-> -1, sign_n2 |-> FALSE] IN
  IF end < 3 \/ in.buf[end - 2] # "=" \/ ~IsDigit(in.buf[end - 3]) THEN no
  ELSE IF LastNot(in, in.r, end - 4) = {} THEN no
  ELSE LET i == CHOOSE x \in LastNot(in, in.r, end - 4) : TRUE IN
       CASE ~Op(in, i) -> no
         [] Op(in, i) /\ Op(in, i - 1) /\ in.buf[i] # "-" -> no
         [] Op(in, i) /\ Op(in, i - 1) /\ in.buf[i] = "-" ->
              [op |-> i - 1, sign_n2 |-> TRUE]
         [] OTHER -> [op |-> i, sign_n2 |-> FALSE]

\* non.S_n1 and non.sign_n1.  A number at the start of the line leaves sign_n1 as
\* it was, except at the start of buf, where the loop runs on to buf[-1].
First(c, op) ==
  LET before == LastNot(c.in, c.in.r, op - 2) IN
  IF before # {} THEN
    LET i == CHOOSE x \in before : TRUE IN [S_n1 |-> i + 1, sign_n1 |-> c.in.buf[i] = "-"]
  ELSE [S_n1 |-> c.in.r, sign_n1 |-> c.in.r # 0 /\ c.sign_n1]

check_NON_pattern(c) ==
  LET op == Operator(c).op IN op > 0 /\ IsDigit(c.in.buf[op - 1])

\* getting_NON_values(), replacing_NON() and print_NON_result().
Answer(c) ==
  LET o == Operator(c)
      f == First(c, o.op)
      num1 == Number(Text(c.in, f.S_n1, o.op))
      num2 == Number(Text(c.in, o.op + (IF o.sign_n2 THEN 2 ELSE 1), Cursor(c) - 2))
      v == Tenths(IF f.sign_n1 THEN -num1 ELSE num1, c.in.buf[o.op],
                  IF o.sign_n2 THEN -num2 ELSE num2)
      start == IF f.sign_n1 THEN f.S_n1 - 1 ELSE f.S_n1 IN
  FoldLeft(Type, Erase([c EXCEPT !.sign_n1 = f.sign_n1], Cursor(c) - start), Decimal(v))
-----------------------------------------------------------------------------
(* The keys *)

RECURSIVE KillLine(_)
KillLine(c) ==
  IF c.in.e = c.in.w \/ c.in.buf[(c.in.e - 1) % INPUT_BUF] = "\n" THEN c
  ELSE KillLine(Backspace(c))

clear_buf_copy(c) ==
  [c EXCEPT !.in.copy = [i \in Index |-> IF i \in c.in.r .. c.in.e - 1 THEN FALSE ELSE @[i]]]

\* move_through_history(): input becomes the k-th one saved, less its last
\* character; echoing it leaves its trace behind input.e.
Restore(c, k) ==
  LET in == [c.hist[k] EXCEPT !.e = @ - 1, !.buf[c.hist[k].e - 1] = NUL]
      d == [c EXCEPT !.in = in, !.lefts = 0, !.index = k] IN
  IF in.r < in.e THEN shift_right_next_chars(d) ELSE d

get_last_index_copy(in) ==
  CHOOSE i \in in.r .. in.e : in.copy[i] /\ \A j \in i + 1 .. in.e : ~in.copy[j]

\* (input.e - lefts) - 1 < x, on unsigned integers.
IsAhead(c, x) == Cursor(c) # 0 /\ Cursor(c) - 1 < x

\* The loop of C('F') from i up to temp.
RECURSIVE Paste(_, _, _)
Paste(c, i, temp) ==
  IF i >= temp THEN c
  ELSE IF ~c.in.copy[i] THEN Paste(c, i + 1, temp)
  ELSE LET d == [Put(c, c.in.buf[i]) EXCEPT
                   !.in.buf[Cursor(c) % INPUT_BUF] = c.in.buf[i],
                   !.in.copy[Cursor(c) % INPUT_BUF] = FALSE] IN
       Paste([d EXCEPT !.in.e = @ + 1],
             IF IsAhead(d, i) THEN i + 2 ELSE i + 1,
             IF IsAhead(d, get_last_index_copy(d.in)) THEN temp + 1 ELSE temp)

\* The line is complete: saved in history and given to consoleread().
Commit(c) ==
  LET full == c.count = HIST
      last == IF full THEN c.last ELSE c.last + 1
      in == [c.in EXCEPT !.flag_copy = FALSE]
      old == IF full THEN [k \in 0 .. HIST - 1 |-> c.hist[IF k < HIST - 1 THEN k + 1 ELSE k]]
             ELSE c.hist IN
  [c EXCEPT !.in = [in EXCEPT !.w = in.e],
            !.hist = [old EXCEPT ![last] = in],
            !.count = IF full THEN @ ELSE @ + 1,
            !.last = last,
            !.index = IF full THEN HIST ELSE last + 1]

\* A character that is typed, as the default of the switch.
Default(c, ch) ==
  IF c.in.e - c.in.r >= INPUT_BUF THEN c
  ELSE LET t == Type(c, ch)
           d == IF ch = "?" /\ check_NON_pattern(t) THEN Answer(t) ELSE t IN
       IF ch \in {"\n", "^D"} \/ d.in.e = d.in.r + INPUT_BUF THEN Commit(d) ELSE d

PasteKey(c) ==
  IF c.in.flag_copy THEN [Paste(c, c.in.r, c.in.e) EXCEPT !.in.flag_paste = FALSE] ELSE c

Key(c, ch) ==
  CASE ch = "^U" -> KillLine([c EXCEPT !.lefts = 0])
    [] ch = "^H" -> IF Cursor(c) > c.in.w THEN Backspace(c) ELSE c
    [] ch = "^S" -> [clear_buf_copy(c) EXCEPT !.in.flag_copy = TRUE, !.in.flag_paste = TRUE]
    [] ch = "^F" -> PasteKey(c)
    [] ch = "left" -> IF Cursor(c) > c.in.w THEN [c EXCEPT !.lefts = @ + 1] ELSE c
    [] ch = "right" -> IF c.lefts > 0 THEN [c EXCEPT !.lefts = @ - 1] ELSE c
    [] ch = "up" -> IF c.count > 0 /\ c.index > 0 THEN Restore(c, c.index - 1) ELSE c
    [] ch = "down" -> IF c.count > 0 /\ c.index < c.count - 1 THEN Restore(c, c.index + 1)
                      ELSE c
    [] OTHER -> Default(c, ch)
-----------------------------------------------------------------------------
(* The console *)

\* What the code makes no promise for: leaving a line with the cursor inside it
\* by other keys than enter; recalling a line while input is unread, or from an
\* input in which some was; pasting in front of the first character of buf; an
\* expression at the start of a line after one whose first number was negative;
\* after a paste, a character in front of a marked one, whose mark it takes.
Odd(c, ch) ==
  LET t == Type(c, ch) IN
  \/ c.lefts > 0 /\ ch \in {"^D", "up", "down"}
  \/ /\ ch \in {"up", "down"}
     /\ c.in.r # c.in.w \/ \E k \in 0 .. HIST - 1 : c.hist[k].r # c.hist[k].w
  \/ ch = "^F" /\ Cursor(c) = 0
  \/ /\ ch = "?" /\ check_NON_pattern(t)
     /\ LastNot(t.in, t.in.r, Operator(t).op - 2) = {}
     /\ c.in.r # 0 /\ c.sign_n1
  \/ c.in.flag_copy /\ ~c.in.flag_paste /\ c.in.copy[Cursor(c)]

RECURSIVE OddBurst(_, _)
OddBurst(c, keys) ==
  keys # << >> /\ (Odd(c, Head(keys)) \/ OddBurst(Key(c, Head(keys)), Tail(keys)))

Ends(ch) == ch \in {"\n", "^D"}

\* wakeup(&input.r) after a line.
consoleintr ==
  \E keys \in Bursts :
    /\ nbursts < MaxBursts
    /\ nbursts' = nbursts + 1
    /\ con' = FoldLeft(Key, con, keys)
    /\ ed' = FoldLeft(EditKey, ed, keys)
    /\ odd' = (odd \/ OddBurst(con, keys))
    /\ reader' = IF reader.at = "asleep" /\ \E k \in DOMAIN keys : Ends(keys[k])
                 THEN [reader EXCEPT !.at = "reading"] ELSE reader
    /\ UNCHANGED got

\* consolewrite() of one character.
consolewrite ==
  \E ch \in {"o", "\n"} :
    /\ con' = Put(con, ch)
    /\ odd' = (odd \/ con.lefts > 0)
    /\ UNCHANGED <<reader, got, ed, nbursts>>

consoleread ==
  /\ reader.at = "user"
  /\ \E n \in Counts : reader' = [at |-> "reading", n |-> n, target |-> n]
  /\ UNCHANGED <<con, got, ed, odd, nbursts>>

Smaller(a, b) == IF a < b THEN a ELSE b

\* Mutant of Taken: a character more than was looked at.
Taken_more(k, save) == IF save THEN k ELSE k + 1

\* "Save ^D for next time", after characters in front of it.
Taken(k, save) == IF save THEN k - 1 ELSE k

\* The loop, until n characters, a line or the end of file; or sleep().
read_input ==
  LET in == con.in
      room == Smaller(reader.n, in.w - in.r)
      ends == {k \in 1 .. room : in.buf[(in.r + k - 1) % INPUT_BUF] \in {"\n", "^D"}}
      k == IF ends = {} THEN room ELSE CHOOSE x \in ends : \A y \in ends : x <= y
      eof == ends # {} /\ in.buf[(in.r + k - 1) % INPUT_BUF] = "^D"
      used == Taken(k, eof /\ reader.n - (k - 1) < reader.target) IN
  /\ reader.at = "reading"
  /\ con' = [con EXCEPT !.in.r = @ + used]
  /\ got' = got \o Text(in, in.r, in.r + used)
  /\ reader' = IF ends # {} \/ k = reader.n THEN [at |-> "user", n |-> 0, target |-> 0]
               ELSE [reader EXCEPT !.at = "asleep", !.n = @ - k]
  /\ UNCHANGED <<ed, odd, nbursts>>

\* kill() makes the sleeping process runnable, and the call returns -1.
killed ==
  /\ reader.at = "asleep"
  /\ reader' = [at |-> "user", n |-> 0, target |-> 0]
  /\ UNCHANGED <<con, got, ed, odd, nbursts>>

Next == consoleintr \/ consolewrite \/ consoleread \/ read_input \/ killed

Spec == Init /\ [][Next]_vars
-----------------------------------------------------------------------------
(* Properties *)

\* The indices of the input buffer and of the history have their types.
TypeOK ==
  /\ con.in.r \in Nat /\ con.in.w \in Nat /\ con.in.e \in Nat
  /\ con.lefts \in Nat /\ con.index \in -1 .. HIST
  /\ con.count \in 0 .. HIST /\ con.last \in -1 .. HIST - 1
  /\ reader.at \in {"user", "reading", "asleep"}
  /\ odd \in BOOLEAN

\* The keys of console.c are those of the line editor: the line under edit, the
\* place of the cursor and, while a copy is going on, the marked characters.
\* Every variable keeps its type.
LineIsEdited ==
  TypeOK /\ (~odd =>
    /\ Text(con.in, con.in.w, Cursor(con)) = Chars(ed.before)
    /\ Text(con.in, Cursor(con), con.in.e) = Chars(ed.after)
    /\ con.in.flag_copy = ed.copying
    /\ ed.copying => \A k \in 1 .. Len(ed.before \o ed.after) :
                       con.in.copy[con.in.w + k - 1] = (ed.before \o ed.after)[k].m)

\* consoleread() hands out every line that was entered, once and in order, and
\* a process sleeps in it only while there is nothing to read.
LinesAreRead ==
  ~odd =>
    /\ got \o Text(con.in, con.in.r, con.in.w) = ed.sent
    /\ reader.at = "asleep" => con.in.r = con.in.w
=============================================================================
