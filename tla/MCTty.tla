------------------------------- MODULE MCTty --------------------------------
(***************************************************************************)
(* Two or three processes of one session, two consoles of three, one       *)
(* serial line, one pseudo-terminal; blocks of two characters, two to a    *)
(* queue.                                                                  *)
(***************************************************************************)
EXTENDS Tty

Letter(c, u) == [m \in 0 .. 8 |-> CASE m = 0 -> [type |-> "letter", c |-> c] [] m = 1 -> [type |-> "letter", c |-> u]
                                    [] m = 8 -> [type |-> "meta", c |-> c] [] OTHER -> [type |-> "other", c |-> "intr"]]
Plain(c) == [m \in 0 .. 8 |-> [type |-> "other", c |-> c]]
Of(type, c) == [m \in 0 .. 8 |-> [type |-> type, c |-> c]]
MCKeymap == [A |-> Letter("a", "b"), SP |-> Plain(" "), ERASE |-> Plain("erase"), KILL |-> Plain("kill"),
             WERASE |-> Plain("werase"), LNEXT |-> Plain("lnext"), EOF |-> Plain("eof"), RET |-> Of("cr", ""),
             STOP |-> Plain("stop"), START |-> Plain("start"), REPR |-> Plain("reprint"), INTR |-> Plain("intr"),
             F1 |-> Of("console", 1), F2 |-> Of("console", 2), F3 |-> Of("console", 3),
             SYSRQ |-> Of("sysrq", ""), PAD |-> Of("pad", "7"), DEAD |-> Of("dead", "'"), FN |-> Of("fn", "A"),
             CTRL |-> Plain(""), ALT |-> Plain(""), SHIFT |-> Plain(""),
             CAPS |-> Plain(""), NUMS |-> Plain(""), SCRL |-> Plain("")]

Raw == [Default EXCEPT !.canon = FALSE, !.isig = FALSE, !.vmin = 2]
Timed == [Raw EXCEPT !.vmin = 0, !.vtime = TRUE]
TimedMin == [Raw EXCEPT !.vtime = TRUE]
Quiet == [Default EXCEPT !.echo = FALSE, !.opost = FALSE, !.tostop = TRUE, !.noflsh = TRUE]
MCModes == {Default, Raw, Timed, TimedMin, Quiet}

Base == [procs |-> {1, 2}, opens |-> <<>>, calls |-> {}, ttys |-> {1}, texts |-> {}, line |-> {}, keys |-> {}, ups |-> {FALSE},
         n |-> 0, m |-> 0]
Cons1 == << <<1, 1>>, <<2, 1>> >>
MCMenus ==
  {(* editing a line *)
   [Base EXCEPT !.opens = << <<1, 1>> >>, !.calls = {"read"}, !.n = 1, !.m = 5,
                !.keys = {"A", "ERASE", "LNEXT", "RET"}],
   [Base EXCEPT !.opens = << <<1, 1>> >>, !.calls = {"read", "tcflsh"}, !.n = 2, !.m = 4,
                !.keys = {"SP", "A", "WERASE", "KILL", "EOF"}],
   [Base EXCEPT !.opens = << <<1, 1>> >>, !.calls = {"read", "tcflsh"}, !.n = 2, !.m = 4,
                !.keys = {"A", "REPR", "INTR", "RET"}],
   (* reading in every mode *)
   [Base EXCEPT !.opens = Cons1, !.calls = {"read", "tcsets"}, !.n = 3, !.m = 3, !.keys = {"A", "RET"}],
   [Base EXCEPT !.opens = Cons1, !.calls = {"read", "kbmode"}, !.n = 3, !.m = 3, !.keys = {"A", "EXT"}],
   (* the keyboard *)
   [Base EXCEPT !.opens = << <<1, 1>> >>, !.m = 4, !.ups = BOOLEAN,
                !.keys = {"A", "CTRL", "ALT", "SHIFT", "CAPS", "NUMS", "SYSRQ", "PAD", "DEAD", "FN", "EXT"}],
   (* two writers, the keyboard echoing and stopping them *)
   [Base EXCEPT !.opens = Cons1, !.calls = {"write"}, !.n = 2, !.m = 3, !.texts = {<<"x", "y", "nl">>, <<"x">>},
                !.keys = {"A", "STOP", "START", "SCRL"}],
   [Base EXCEPT !.opens = Cons1, !.calls = {"write", "tcsetsw", "tcflsh", "tcxonc"}, !.n = 3, !.m = 1,
                !.texts = {<<"x", "y", "x", "y", "x">>}, !.keys = {"START"}],
   (* escape sequences *)
   [Base EXCEPT !.opens = << <<1, 1>> >>, !.calls = {"write"}, !.n = 3,
                !.texts = {<<"x", "x">>, <<"nl", "tab">>, <<"esc", "[", "2", ";", "3", "H">>, <<"esc", "[", "B">>,
                           <<"esc", "[", "1", ";", "2", "r">>, <<"esc", "c">>,
                           <<"esc", "[", "5", "n">>, <<"esc", "Z", "bs">>, <<"esc", "[", "C", "esc", "H">>}],
   [Base EXCEPT !.opens = << <<1, 1>> >>, !.calls = {"write"}, !.n = 2,
                !.texts = {<<"esc", "D", "esc", "7">>, <<"esc", "E", "x">>, <<"esc", "M", "esc", "8">>}],
   [Base EXCEPT !.opens = << <<1, 1>> >>, !.calls = {"write"}, !.n = 4,
                !.texts = {<<"esc", "[", "4", "d", "esc", "7">>, <<"esc", "[", "1", ";", "2", "r">>, <<"esc", "8", "nl">>,
                           <<"esc", "8", "x", "x", "x", "x">>, <<"esc", "D">>}],
   (* switching consoles *)
   [Base EXCEPT !.opens = << <<1, 1>>, <<2, 2>> >>, !.ttys = {1, 2}, !.n = 4, !.m = 2, !.keys = {"F1", "F2"},
                !.calls = {"vtmode", "reldisp", "activate", "kdmode", "exit"}],
   (* sessions *)
   [Base EXCEPT !.ttys = {1, 2}, !.n = 6, !.m = 0,
                !.calls = {"open", "close", "setsid", "sctty", "notty", "exit"}],
   [Base EXCEPT !.procs = {1, 2, 3}, !.opens = << <<1, 1>>, <<2, 1>>, <<3, 1>> >>, !.n = 6, !.m = 0,
                !.calls = {"open", "close", "setsid", "sctty", "notty", "exit"}],
   [Base EXCEPT !.opens = Cons1, !.n = 4, !.m = 2, !.keys = {"A", "INTR"}, !.texts = {<<"x">>},
                !.calls = {"setpgid", "spgrp", "read", "write"}],
   (* the serial line *)
   [Base EXCEPT !.opens = << <<1, Serial>> >>, !.ttys = {Serial}, !.n = 3, !.m = 2, !.line = {"a", "nl", "stop"},
                !.texts = {<<"x", "y">>}, !.calls = {"open", "close", "read", "write"}],
   [Base EXCEPT !.opens = << <<1, Serial>> >>, !.ttys = {Serial}, !.n = 4, !.m = 2, !.line = {"a", "nl", "stop"},
                !.texts = {<<"x", "y">>}, !.calls = {"read", "write"}],
   (* the pseudo-terminal *)
   [Base EXCEPT !.opens = << <<1, Ptmx>> >>, !.ttys = {Pts}, !.n = 7, !.line = {"a", "nl"}, !.texts = {<<"x", "y", "x", "y", "x">>},
                !.calls = {"open", "close", "unlock", "read", "write", "ptyread", "ptywrite"}],
   (* the mouse *)
   [Base EXCEPT !.calls = {"mouse"}, !.n = 4, !.m = 3]}
=============================================================================
