------------------------------ MODULE Keyboard ------------------------------
(***************************************************************************)
(* irq_keyboard() of drivers/char/keyboard.c: from scan codes to           *)
(* characters, and to the work it leaves to its bottom half.               *)
(*                                                                         *)
(* b holds the driver's variables (shift, ctrl, alt, altgr, extkey as ext, *)
(* deadkey as dead, altsysrq as sysrq, leds), the consoles with caps lock  *)
(* and num lock on (caps, nums), what the bottom half is to do             *)
(* (do_switch_console as sw, do_setleds, do_tty_stop, do_tty_start,        *)
(* do_sysrq) and, for one scan code, out: the characters putc() is called  *)
(* with.  A scan code is [key, up]; Keymap[key][mod] is [type, c].         *)
(***************************************************************************)
EXTENDS Integers, Sequences

CONSTANTS Keymap

Modifiers == {"CTRL", "ALT", "SHIFT"}
LedKeys == {"CAPS", "NUMS", "SCRL"}

InitKeyboard == [shift |-> FALSE, ctrl |-> FALSE, alt |-> FALSE, altgr |-> FALSE, ext |-> FALSE,
                 dead |-> "", sysrq |-> FALSE, leds |-> FALSE, caps |-> {}, nums |-> {},
                 sw |-> 0, setleds |-> FALSE, stop |-> FALSE, start |-> FALSE, dump |-> FALSE,
                 out |-> <<>>]

release(b, key) ==
  LET r == CASE key = "CTRL" -> [b EXCEPT !.ctrl = FALSE]
             [] key = "ALT" /\ ~b.ext -> [b EXCEPT !.alt = FALSE, !.sysrq = FALSE]
             [] key = "ALT" /\ b.ext -> [b EXCEPT !.altgr = FALSE]
             [] key = "SHIFT" /\ ~b.ext -> [b EXCEPT !.shift = FALSE]
             [] key \in LedKeys -> [b EXCEPT !.leds = FALSE]
             [] OTHER -> b
  IN  [r EXCEPT !.ext = FALSE]

(* cons is the current console, scr its scrlock *)
Flip(S, x) == IF x \in S THEN S \ {x} ELSE S \cup {x}
press_led(b, key, cons, scr) ==
  IF b.leds THEN b
  ELSE CASE key = "CAPS" -> [b EXCEPT !.leds = TRUE, !.caps = Flip(@, cons), !.setleds = TRUE]
         [] key = "NUMS" -> [b EXCEPT !.leds = TRUE, !.nums = Flip(@, cons), !.setleds = TRUE]
         [] key = "SCRL" /\ scr -> [b EXCEPT !.leds = TRUE, !.start = TRUE]
         [] key = "SCRL" /\ ~scr -> [b EXCEPT !.leds = TRUE, !.stop = TRUE]
press_modifier(b, key) ==
  CASE key = "CTRL" -> [b EXCEPT !.ctrl = TRUE]
    [] key = "ALT" /\ ~b.ext -> [b EXCEPT !.alt = TRUE]
    [] key = "ALT" /\ b.ext -> [b EXCEPT !.altgr = TRUE]
    [] key = "SHIFT" -> [b EXCEPT !.shift = TRUE, !.ext = FALSE]

(* The column of the keymap: the last of these conditions that holds *)
modifier(b, key, cons) ==
  IF b.alt THEN 8 ELSE IF b.ctrl THEN 4 ELSE IF b.altgr THEN 2
  ELSE IF cons \in b.caps /\ Keymap[key][0].type = "letter" THEN (IF b.shift THEN 0 ELSE 1)
  ELSE IF b.shift /\ ~b.ext THEN 1 ELSE 0

(* What the key types, by the type of its entry *)
typed_as(b, type, c, cons) ==
  CASE type = "fn" -> [b EXCEPT !.out = <<"esc", "[", c>>, !.dead = ""]
    [] type = "cr" -> [b EXCEPT !.out = <<"cr">>, !.dead = ""]
    [] type = "sysrq" -> [b EXCEPT !.sysrq = TRUE, !.dead = ""]
    [] type = "pad" -> [b EXCEPT !.out = IF cons \in b.nums THEN <<c>> ELSE <<"esc", "[", c>>, !.dead = ""]
    [] type = "dead" /\ b.dead = "" -> [b EXCEPT !.dead = c]
    [] type = "dead" /\ b.dead # "" -> [b EXCEPT !.dead = "", !.out = <<c>>]
    [] type = "meta" /\ ~b.sysrq -> [b EXCEPT !.out = <<"esc", c>>, !.dead = ""]
    [] type = "letter" -> [b EXCEPT !.out = <<c>>, !.dead = ""]
    [] type = "other" /\ ~b.sysrq -> [b EXCEPT !.out = <<c>>, !.dead = ""]
    [] type \in {"meta", "other"} /\ b.sysrq -> [b EXCEPT !.dump = TRUE, !.dead = ""]

press(b, key, cons) ==
  LET e == Keymap[key][modifier(b, key, cons)]
  IN  IF e.type = "console" THEN [b EXCEPT !.sw = e.c] ELSE typed_as(b, e.type, e.c, cons)

(* In raw mode the scan code itself is typed; in medium raw mode the key.   *)
irq_keyboard(b0, key, up, mode, cons, scr) ==
  LET b == [b0 EXCEPT !.out = <<>>]
  IN  CASE mode = "RAW" -> [b EXCEPT !.out = <<key>>]
        [] mode # "RAW" /\ key = "EXT" -> [b EXCEPT !.ext = TRUE]
        [] mode = "MEDIUMRAW" /\ key # "EXT" -> [b EXCEPT !.out = <<key>>, !.ext = FALSE]
        [] OTHER -> IF up THEN release(b, key)
                    ELSE IF key \in LedKeys THEN press_led(b, key, cons, scr)
                    ELSE IF key \in Modifiers THEN press_modifier(b, key)
                    ELSE press(b, key, cons)
=============================================================================
