------------------------------ MODULE Console -------------------------------
(***************************************************************************)
(* What a virtual console (drivers/char/console.c) does with one character *)
(* of output: the escape sequences and the cursor.  What is on the screen, *)
(* its colours and its scrolling are left out.                             *)
(*                                                                         *)
(* v is the struct vconsole:                                               *)
(*   x, y, top, lines, cx  the cursor, the margins and check_x             *)
(*   esc, sb, semi, quest, p1, p2   the state of the sequence being read   *)
(*   num      the sequence had a digit since vconsole_write() was called   *)
(*   sx, sy   saved_x and saved_y                                          *)
(*   tabs     the columns with a tab stop                                  *)
(*   scr      scrlock                                                      *)
(*   cell     where put_char() put the last character                      *)
(*   rep      the answer that insert_seq() is to type, if any              *)
(*   off      history: lf() has left the last row of the screen            *)
(***************************************************************************)
EXTENDS Integers, Sequences, FiniteSets, FiniteSetsExt

CONSTANTS Columns, Lines, TAB_SIZE

ASSUME ConsoleAssumption == Columns \in Nat \ {0} /\ Lines \in Nat \ {0} /\ TAB_SIZE \in Nat \ {0}

Digits == <<"0", "1", "2", "3", "4", "5", "6", "7", "8", "9">>
Digit(ch) == (CHOOSE i \in 1 .. 10 : Digits[i] = ch) - 1
IS_NUMERIC(ch) == \E i \in 1 .. 10 : Digits[i] = ch
VT100ID == <<"esc", "[", "?", "1", ";", "2", "c">>
DEVICE_OK == <<"esc", "[", "0", "n">>
CursorReport(v) == <<"esc", "[", Digits[1 + (v.y % 10)], ";", Digits[1 + (v.x % 10)], "R">>    \* the units

adjust(v, x, y) == [v EXCEPT !.x = Max({0, Min({x, Columns - 1})}),
                             !.y = Max({0, Min({y, v.lines - 1})})]
cr(v) == [v EXCEPT !.x = 0]
lf(v) == IF v.y = v.lines THEN v ELSE [v EXCEPT !.y = @ + 1, !.off = @ \/ v.y >= Lines - 1]
scrolled(v) == IF v.y >= v.lines THEN [v EXCEPT !.y = @ - 1] ELSE v

(* Forward over n tab stops, or to the last column *)
tabbed(v, n) ==
  LET stops == {c \in v.tabs : c > v.x}
  IN  IF Cardinality(stops) < n THEN Max({Columns - 1, v.x})
      ELSE CHOOSE c \in stops : Cardinality({d \in stops : d <= c}) = n

(* put_char() and the step to the right, after the wrap that the last column put off *)
put_char_nowrap(v, ch) ==               \* mutant: scrolls only after the character is put
  LET w == IF v.x = Columns - 1 /\ v.cx THEN [v EXCEPT !.x = 0, !.y = @ + 1] ELSE v
      u == [w EXCEPT !.cell = <<w.x, w.y>>]
  IN  IF u.x < Columns - 1 THEN [u EXCEPT !.x = @ + 1, !.cx = FALSE] ELSE [u EXCEPT !.cx = TRUE]
put_char(v, ch) ==
  LET w == scrolled(IF v.x = Columns - 1 /\ v.cx THEN [v EXCEPT !.x = 0, !.y = @ + 1] ELSE v)
      u == [w EXCEPT !.cell = <<w.x, w.y>>]
  IN  IF u.x < Columns - 1 THEN [u EXCEPT !.x = @ + 1, !.cx = FALSE] ELSE [u EXCEPT !.cx = TRUE]

echo_char(v, ch) ==
  scrolled(CASE ch = "bs"  -> [v EXCEPT !.x = Max({0, @ - 1})]
             [] ch = "cr"  -> cr(v)
             [] ch = "nl"  -> [cr(v) EXCEPT !.y = @ + 1]
             [] ch = "tab" -> [v EXCEPT !.x = tabbed(v, 1), !.cx = TRUE]
             [] OTHER      -> put_char(v, ch))

init_tabs == {c \in 0 .. Columns - 1 : c % TAB_SIZE = 0}
vconsole_reset(v) ==
  [v EXCEPT !.top = 0, !.lines = Lines, !.cx = FALSE, !.scr = FALSE, !.esc = FALSE, !.sb = FALSE,
            !.semi = FALSE, !.quest = FALSE, !.p1 = 0, !.p2 = 0, !.sx = 0, !.sy = 0, !.tabs = init_tabs]

-----------------------------------------------------------------------------
(* <ESC> [ : a parameter, a separator, or the letter that ends the sequence *)
digit(v, d) == IF v.semi THEN [v EXCEPT !.num = TRUE, !.p2 = 10 * @ + d]
               ELSE [v EXCEPT !.num = TRUE, !.p1 = 10 * @ + d]
Times(v) == IF v.p1 = 0 THEN 1 ELSE v.p1
Place(n) == IF n = 0 THEN 0 ELSE n - 1

(* <ESC>[ top ; bottom r *)
margins(v, first, last) ==
  IF first < last /\ last <= Lines
  THEN adjust([v EXCEPT !.top = first - 1, !.lines = last], 0, 0) ELSE v

(* The letters that erase, insert, delete, scroll or colour cells move nothing. *)
csi(v, ch) ==
  CASE ch = "A" -> adjust(v, v.x, v.y - Times(v))
    [] ch = "B" -> adjust(v, v.x, v.y + Times(v))
    [] ch = "C" -> adjust(v, v.x + Times(v), v.y)
    [] ch = "D" -> adjust(v, v.x - Times(v), v.y)
    [] ch = "E" -> adjust(v, 0, v.y + Times(v))
    [] ch = "F" -> adjust(v, 0, v.y - Times(v))
    [] ch \in {"G", "hpa"} -> adjust(v, Place(v.p1), v.y)
    [] ch \in {"H", "f"} -> adjust(v, Place(v.p2), Place(v.p1))
    [] ch = "I" -> adjust(v, tabbed(v, Times(v)), v.y)
    [] ch = "d" -> adjust(v, v.x, Place(v.p1))
    [] ch = "g" -> IF v.p1 = 0 THEN [v EXCEPT !.tabs = @ \ {v.x}]
                   ELSE IF v.p1 \in {3, 5} THEN [v EXCEPT !.tabs = {}] ELSE v
    [] ch = "c" -> IF v.num THEN v ELSE [v EXCEPT !.rep = VT100ID]
    [] ch = "n" -> IF v.quest \/ v.p1 \notin {5, 6} THEN v
                   ELSE [v EXCEPT !.rep = IF v.p1 = 5 THEN DEVICE_OK ELSE CursorReport(v)]
    [] ch = "r" -> margins(v, Times(v), IF v.p2 = 0 THEN Lines ELSE v.p2)
    [] ch = "s" -> [v EXCEPT !.sx = v.x, !.sy = v.y]
    [] ch = "u" -> [v EXCEPT !.x = v.sx, !.y = v.sy]
    [] OTHER -> v
CsiLetters == {"@", "A", "B", "C", "D", "E", "F", "G", "hpa", "H", "f", "I", "J", "K", "L", "M", "P",
               "S", "T", "X", "c", "d", "g", "h", "l", "m", "n", "r", "s", "u"}

(* <ESC> and a letter *)
escape(v, ch) ==
  CASE ch = "7" -> [v EXCEPT !.sx = v.x, !.sy = v.y]
    [] ch = "8" -> [v EXCEPT !.x = v.sx, !.y = v.sy]
    [] ch = "D" -> lf(v)
    [] ch = "E" -> lf(cr(v))
    [] ch = "H" -> [v EXCEPT !.tabs = @ \cup {v.x}]
    [] ch = "M" -> v
    [] ch = "Z" -> [v EXCEPT !.rep = VT100ID]
    [] ch = "c" -> [vconsole_reset(v) EXCEPT !.x = 0, !.y = 0]
EscLetters == {"7", "8", "D", "E", "H", "M", "Z", "c"}

(* The end of the loop: a character that is not part of a sequence *)
plain(v, ch) ==
  IF ch = "esc" THEN [v EXCEPT !.esc = TRUE, !.sb = FALSE, !.semi = FALSE, !.quest = FALSE, !.p1 = 0, !.p2 = 0]
  ELSE echo_char(v, ch)
ended(v) == [v EXCEPT !.esc = FALSE]

(* One turn of the loop of vconsole_write() *)
vc_char(v, ch) ==
  IF ~v.esc THEN plain(v, ch)
  ELSE IF v.sb THEN
    IF IS_NUMERIC(ch) THEN digit(v, Digit(ch))
    ELSE IF ch = ";" THEN [v EXCEPT !.semi = TRUE, !.p2 = 0]
    ELSE IF ch = "?" THEN [v EXCEPT !.quest = TRUE]
    ELSE IF ch \in CsiLetters THEN ended(csi(v, ch))
    ELSE plain(ended(v), ch)
  ELSE IF ch = "[" THEN [v EXCEPT !.sb = TRUE, !.semi = FALSE, !.quest = FALSE, !.p1 = 0, !.p2 = 0]
  ELSE IF ch \in EscLetters THEN ended(escape(v, ch))
  ELSE plain(ended(v), ch)

InitConsole ==
  vconsole_reset([x |-> 0, y |-> 0, top |-> 0, lines |-> Lines, cx |-> FALSE, esc |-> FALSE,
                  sb |-> FALSE, semi |-> FALSE, quest |-> FALSE, p1 |-> 0, p2 |-> 0, num |-> FALSE,
                  sx |-> 0, sy |-> 0, tabs |-> {}, scr |-> FALSE, cell |-> <<0, 0>>, rep |-> <<>>,
                  off |-> FALSE])
=============================================================================
