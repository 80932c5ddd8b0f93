-------------------------------- MODULE Tty ---------------------------------
(***************************************************************************)
(* The terminals: the line discipline of drivers/char/tty.c over virtual   *)
(* consoles (console.c, vt.c, keyboard.c), a serial line (serial.c) and a  *)
(* pseudo-terminal (pty.c), and the PS/2 mouse (psaux.c), which uses the   *)
(* same queues.                                                            *)
(*                                                                         *)
(* A process runs from one sleep to the next.  Interrupts come between any *)
(* two steps, and also while a process writes to a console: there the      *)
(* bottom half can run between charq_getchar() and echo_char(), so that    *)
(* loop takes one step per character.                                      *)
(*                                                                         *)
(* k has, for every terminal: cnt (count), tm (termios), lnext             *)
(* (TTY_HAS_LNEXT), canon (canon_data), mode (kbd.mode), sid, pgid; for    *)
(* every process: psid, ppg, ctty, opn (the terminals it has open), sig (a *)
(* signal that is not blocked is pending), pc (where in the kernel it is), *)
(* slp (the address it sleeps on, <<>> if none), job (the locals of its    *)
(* call).  cur is current_cons, focus the consoles with                    *)
(* CONSOLE_HAS_FOCUS, kbh and sbh the BH_ACTIVE flags of the two bottom    *)
(* halves, thre the transmitter interrupt's enable bit, pty whether the    *)
(* slave is registered and pts whether its minor is.  Four histories are   *)
(* kept: sent and done (the bytes of Marks that tty_write() has queued,    *)
(* and those that have left the queue), typed and lost (what do_cook() has *)
(* read since the line was empty; whether the line no longer follows).     *)
(*                                                                         *)
(* Left out: the screen's contents, tab erasing, ISTRIP, IUCLC, IGNCR,     *)
(* INLCR, IXANY and OLCUC (off by default), the termio variants of the     *)
(* termios calls, the window size, and the wake-ups of select().           *)
(***************************************************************************)
EXTENDS Charq, Console, Keyboard

CONSTANTS Proc,             \* process ids
          NR_VCONSOLES, UART_FIFO_SIZE,
          Serial, Pts, Ptmx,                    \* the terminals that are no consoles
          Modes, Counts, Nonblock,       \* what processes ask for
          Marks,            \* the bytes that only processes write
          Hazards,          \* the cases the named passages of README.md are about
          Menus             \* which operations a behaviour consists of, and how many

VARIABLES k, menu, left

vars == <<k, menu, left>>
Consoles == 1 .. NR_VCONSOLES
Ttys == Consoles \cup {Serial, Pts, Ptmx}
Mouse == <<0, "rd">>
Queues == (Ttys \X {"rd", "ck", "wr"}) \cup {Mouse}
RD(t) == <<t, "rd">>
CK(t) == <<t, "ck">>
WR(t) == <<t, "wr">>
PtyRead == <<0, "pty_read">>
PsauxRead == <<0, "psaux_read">>

Controls == {"intr", "quit", "susp", "erase", "werase", "kill", "eof", "lnext", "start", "stop",
             "reprint", "esc", "bs"}
Erasers == {"erase", "werase", "kill"}

OnlyMarks(seq) == SelectSeq(seq, LAMBDA c : c \in Marks)
Left(s, t, seq) == [s EXCEPT !.done[t] = @ \o OnlyMarks(seq)]
(* What is typed from now on is compared with an empty line, or not at all *)
Fresh(s, t) == [s EXCEPT !.typed[t] = IF s.lnext[t] THEN <<"lnext">> ELSE <<>>,
                         !.lost[t] = s.q[CK(t)] # <<>>]

wakeup(s, a) == [s EXCEPT !.slp = [p \in Proc |-> IF @[p] = a THEN <<>> ELSE @[p]],
                          !.missed = [p \in Proc |-> @[p] \/ s.gap[p] = a]]
kill_pgrp(s, g) ==
  [s EXCEPT !.sig = [p \in Proc |-> @[p] \/ s.ppg[p] = g],
            !.slp = [p \in Proc |-> IF s.ppg[p] = g THEN <<>> ELSE @[p]]]

-----------------------------------------------------------------------------
(* Output *)
opost(s, t, ch) ==
  IF s.tm[t].opost /\ ch = "nl"
  THEN IF charq_room(s, WR(t)) >= 2 THEN charq_putchar(charq_putchar(s, WR(t), "cr"), WR(t), ch) ELSE s
  ELSE charq_putchar(s, WR(t), ch)
Accepts_room(s, t, ch) ==               \* mutant: counts a character the queue refused
  IF s.tm[t].opost /\ ch = "nl" THEN charq_room(s, WR(t)) >= 2 ELSE charq_room(s, WR(t)) > 0
(* opost() returns 0: its last charq_putchar() found room *)
Accepts(s, t, ch) ==
  IF s.tm[t].opost /\ ch = "nl"
  THEN charq_room(s, WR(t)) >= 2 /\ Fits(charq_putchar(s, WR(t), "cr"), WR(t))
  ELSE Fits(s, WR(t))

out_char(s, t, ch) ==
  IF ch \in Controls /\ s.tm[t].echoctl
  THEN IF s.lnext[t] \/ ch # "eof" THEN charq_puts(s, WR(t), <<"^", "C">>) ELSE s
  ELSE opost(s, t, ch)

Wipe == <<"bs", " ", "bs">>
erase_one(s, t) ==
  LET ch == LAST_CHAR(s, CK(t))
      u == charq_unputchar(s, CK(t))
  IN  IF ~s.tm[t].echo THEN u
      ELSE charq_puts(u, WR(t), IF ch \in Controls /\ s.tm[t].echoctl THEN Wipe \o Wipe ELSE Wipe)
erase_many(s, t, n) == FoldLeft(LAMBDA r, i : erase_one(r, t), s, [i \in 1 .. n |-> i])

(* How many characters VWERASE takes: the blanks at the end and the word    *)
(* before them.                                                             *)
WordLength(c) ==
  LET w == SelectLastInSubSeq(c, 1, Len(c), LAMBDA x : x # " ")
  IN  IF w = 0 THEN Len(c)
      ELSE Len(c) - SelectLastInSubSeq(c, 1, w, LAMBDA x : x = " ")
erase_char(s, t, ch) ==
  CASE ch = "erase" -> IF s.q[CK(t)] = <<>> THEN s ELSE erase_one(s, t)
    [] ch = "werase" -> erase_many(s, t, WordLength(Chars(s, CK(t))))
    [] ch = "kill" -> erase_many(s, t, Count(s, CK(t)))

vconsole_stop(s, t) == [s EXCEPT !.vc[t].scr = TRUE]
vconsole_start(s, t) == [s EXCEPT !.vc[t].scr = FALSE]
serial_stop(s) == [s EXCEPT !.thre = FALSE]
serial_start(s) == [s EXCEPT !.thre = TRUE]
Stop(s, t) == IF t \in Consoles THEN vconsole_stop(s, t) ELSE IF t = Serial THEN serial_stop(s) ELSE s
Start(s, t) == IF t \in Consoles THEN vconsole_start(s, t) ELSE IF t = Serial THEN serial_start(s) ELSE s

Default == [canon |-> TRUE, echo |-> TRUE, isig |-> TRUE, echoctl |-> TRUE, opost |-> TRUE,
            noflsh |-> FALSE, tostop |-> FALSE, vmin |-> 1, vtime |-> FALSE]
termios_reset(s, t) == [s EXCEPT !.tm[t] = Default, !.mode[t] = "XLATE"]
tty_reset(s, t) == [termios_reset(s, t) EXCEPT !.lnext[t] = FALSE, !.closed[t] = FALSE, !.locked[t] = FALSE]
init_vt(s, t) == [s EXCEPT !.vt[t] = [mode |-> "AUTO", owner |-> 0, to |-> -1, gfx |-> FALSE]]

-----------------------------------------------------------------------------
(* Input: one character of do_cook(); stop is its break *)
Cooked(s, stop) == [s |-> s, stop |-> stop]
Signals == {"intr", "quit", "susp"}
Signal(s, t, ch) ==
  LET f == IF ch = "intr" /\ ~s.tm[t].noflsh
           THEN Fresh(charq_flush(charq_flush(s, RD(t)), CK(t)), t) ELSE s
  IN  IF s.pgid[t] > 0 THEN kill_pgrp(f, s.pgid[t]) ELSE f

Enter_quoting(s, t, ch) ==              \* mutant: TTY_HAS_LNEXT is not cleared
  [charq_putchar(s, CK(t), ch) EXCEPT !.lost[t] = @ \/ ~Fits(s, CK(t)),
                                      !.canon[t] = IF s.tm[t].canon /\ ch = "nl" THEN 1 ELSE @]
(* The character enters the line; lost says that there was no room for it *)
Enter(s, t, ch) ==
  [charq_putchar(s, CK(t), ch) EXCEPT !.lnext[t] = FALSE, !.lost[t] = @ \/ ~Fits(s, CK(t)),
                                      !.canon[t] = IF s.tm[t].canon /\ ch = "nl" THEN 1 ELSE @]
cook_data(s, t, ch) ==
  Enter(IF s.tm[t].echo \/ (s.tm[t].canon /\ ch \in Controls /\ s.tm[t].echoctl)
        THEN out_char(s, t, ch) ELSE s, t, ch)
cook_canon(s, t, ch) ==
  CASE ch \in Erasers -> Cooked(erase_char(s, t, ch), FALSE)
    [] ch = "reprint" ->
         Cooked(FoldLeft(LAMBDA r, c : out_char(r, t, c),
                         charq_putchar(out_char(s, t, ch), WR(t), "nl"), Chars(s, CK(t))), FALSE)
    [] ch = "lnext" ->
         Cooked([(IF s.tm[t].echoctl THEN charq_puts(s, WR(t), <<"^", "bs">>) ELSE s) EXCEPT !.lnext[t] = TRUE], TRUE)
    [] ch = "start" -> Cooked(Start(s, t), FALSE)
    [] ch = "stop" -> Cooked(Stop(s, t), FALSE)
    [] OTHER -> Cooked(cook_data(s, t, ch), FALSE)
cook_char(s0, t, ch) ==
  LET s == [s0 EXCEPT !.typed[t] = Append(@, ch), !.lost[t] = @ \/ ch = "werase"]
  IN  IF s.tm[t].isig /\ ~s.lnext[t] /\ ch \in Signals THEN Cooked(Signal(s0, t, ch), TRUE)
      ELSE IF s.lnext[t] THEN Cooked(cook_data(s, t, ch), FALSE)
      ELSE IF s.tm[t].canon THEN cook_canon(s, t, IF ch = "cr" THEN "nl" ELSE ch)
      ELSE Cooked(cook_data(s, t, IF ch = "cr" THEN "nl" ELSE ch), FALSE)

RECURSIVE cook_loop(_, _)
cook_loop(s, t) ==
  IF s.q[RD(t)] = <<>> THEN s
  ELSE LET c == cook_char(charq_getchar(s, RD(t)), t, FirstChar(s, RD(t)))
       IN  IF c.stop THEN c.s ELSE cook_loop(c.s, t)

(* vc_char() and what it asks of the terminal: an answer to be typed, and   *)
(* tty_reset() after <ESC>c                                                 *)
RECURSIVE vconsole_write(_, _)
output(s, t) == CASE t \in Consoles ->
                       [vconsole_write([s EXCEPT !.vc[t].num = FALSE], t) EXCEPT !.vc[t].num = FALSE]
                  [] t = Serial -> [s EXCEPT !.thre = TRUE]
                  [] t = Pts -> wakeup(s, PtyRead)
do_cook_quiet(s, t) ==                  \* mutant: readers are not woken
  output(cook_loop(s, t), t)
do_cook(s, t) == wakeup(output(cook_loop(s, t), t), RD(t))
insert_seq(s, t, seq) == IF seq = <<>> THEN s ELSE do_cook(charq_puts(s, RD(t), seq), t)
Show(s, t, ch) ==
  LET v == vc_char(s.vc[t], ch)
      u == Left([s EXCEPT !.vc[t] = [v EXCEPT !.rep = <<>>]], t, <<ch>>)
      reset == ch = "c" /\ s.vc[t].esc /\ ~s.vc[t].sb
  IN  IF reset THEN [init_vt(tty_reset(u, t), t) EXCEPT !.kb.caps = @ \ {t}, !.kb.nums = @ \ {t}]
      ELSE [insert_seq(u, t, v.rep) EXCEPT !.vc[t].num = v.num]
vconsole_write(s, t) ==
  IF s.vc[t].scr \/ s.q[WR(t)] = <<>> THEN s
  ELSE LET u == Show(charq_getchar(s, WR(t)), t, FirstChar(s, WR(t)))
       IN  wakeup(vconsole_write(u, t), WR(t))

-----------------------------------------------------------------------------
(* Processes: a call runs until it returns, sleeps, or is to show a character *)
NoJob == [t |-> 0, n |-> 0, min |-> 0, want |-> 0, text |-> <<>>, tm |-> Default, flush |-> FALSE,
          canon |-> FALSE, held |-> "", num |-> FALSE, shown |-> FALSE]
Return(s, p) == [s EXCEPT !.pc[p] = "user", !.job[p] = NoJob, !.slp[p] = <<>>, !.missed[p] = FALSE]
SESS_LEADER(s, p) == s.ppg[p] = p /\ s.psid[p] = p

(* The process has tested what it waits for and is about to call sleep(),   *)
(* with the interrupts enabled; fall_asleep() is sleep() up to do_sched().  *)
sleep(s, p, a, at) == [s EXCEPT !.pc[p] = at, !.gap[p] = a, !.missed[p] = FALSE]
fall_asleep(s, p) == [s EXCEPT !.gap[p] = <<>>, !.slp[p] = IF s.sig[p] THEN <<>> ELSE s.gap[p]]
block(s, p, a, at) == IF p \in Nonblock THEN Return(s, p) ELSE sleep(s, p, a, at)

Take(s, p, n, m) == [charq_get(s, n, m) EXCEPT !.job[p].n = @ + m]
TakeLine(s, p, t, m) == Fresh(Return(charq_get([s EXCEPT !.canon[t] = 0], CK(t), m), p), t)
read_canon(s, p, t, last) ==
  IF last \notin {"nl", "eof"} THEN block([s EXCEPT !.job[p].canon = TRUE], p, RD(t), "read")
  ELSE LET u == IF last = "eof" THEN charq_unputchar(s, CK(t)) ELSE s
       IN  TakeLine(u, p, t, Min({s.job[p].want - s.job[p].n, Count(u, CK(t))}))
read_vtime(s, p, t) ==
  IF s.q[CK(t)] = <<>> THEN block(s, p, RD(t), IF s.tm[t].vmin = 0 THEN "read_timed" ELSE "read")
  ELSE IF s.tm[t].vmin = 0 THEN Fresh(Return(charq_get(s, CK(t), Min({s.job[p].want, Count(s, CK(t))})), p), t)
  ELSE LET u == Fresh(Take(s, p, CK(t), 1), t)
       IN  IF u.job[p].n >= Min({s.tm[t].vmin, s.job[p].want}) THEN Return(u, p)
           ELSE block(u, p, RD(t), "read_more")
read_min(s, p, t, m) ==
  LET u == Fresh([Take(s, p, CK(t), m) EXCEPT !.canon[t] = Max({0, @ - m}), !.job[p].min = @ + m], t)
  IN  IF u.job[p].min >= s.tm[t].vmin THEN Return(u, p) ELSE block(u, p, RD(t), "read")
RawKeys(s, t) == s.mode[t] # "XLATE" /\ s.q[RD(t)] # <<>>
tty_read(s0, p) ==
  LET s == [s0 EXCEPT !.job[p].canon = FALSE]
      t == s.job[p].t
  IN  IF RawKeys(s, t) THEN Return(charq_get(s, RD(t), Min({s.job[p].want, Count(s, RD(t))})), p)
      ELSE IF s.closed[t] THEN Return(s, p)
      ELSE IF s.tm[t].canon THEN read_canon(s, p, t, LAST_CHAR(s, CK(t)))
      ELSE IF s.tm[t].vtime THEN read_vtime(s, p, t)
      ELSE read_min(s, p, t, Min({s.job[p].want - s.job[p].n, Count(s, CK(t))}))
Background(s, p, t) == s.ctty[p] = t /\ s.ppg[p] # s.pgid[t]
start_read(s, p, t, want) ==
  IF Background(s, p, t) THEN kill_pgrp(s, s.ppg[p])
  ELSE tty_read([s EXCEPT !.job[p] = [NoJob EXCEPT !.t = t, !.want = want]], p)

(* One turn of tty_write()'s loop, up to the call of output() and after it  *)
RECURSIVE fill(_, _, _)
fill(s, p, t) ==
  IF s.job[p].text = <<>> \/ ~Accepts(s, t, Head(s.job[p].text))
  THEN IF s.job[p].text = <<>> THEN s ELSE opost(s, t, Head(s.job[p].text))
  ELSE fill([opost(s, t, Head(s.job[p].text)) EXCEPT
               !.job[p].text = Tail(@), !.sent[t] = @ \o OnlyMarks(<<Head(s.job[p].text)>>)], p, t)
after_output(s, p, t) ==
  IF s.job[p].text = <<>> \/ p \in Nonblock THEN Return(s, p)
  ELSE IF s.q[WR(t)] # <<>> THEN sleep(s, p, WR(t), "write")
  ELSE [s EXCEPT !.pc[p] = "write"]
write_turn(s, p, t) ==
  IF t \in Consoles THEN [fill(s, p, t) EXCEPT !.pc[p] = "drain", !.job[p].num = FALSE, !.job[p].shown = FALSE]
  ELSE after_output(output(fill(s, p, t), t), p, t)
tty_write(s, p) == IF s.sig[p] THEN Return(s, p) ELSE write_turn(s, p, s.job[p].t)
start_write(s, p, t, text) ==
  IF Background(s, p, t) /\ s.tm[t].tostop THEN kill_pgrp(s, s.ppg[p])
  ELSE tty_write([s EXCEPT !.job[p] = [NoJob EXCEPT !.t = t, !.text = text]], p)

(* vconsole_write() called by a process: charq_getchar(), then the rest *)
drain_get(s, p, t) ==
  IF s.vc[t].scr \/ s.q[WR(t)] = <<>>
  THEN after_output(IF s.job[p].shown THEN wakeup(s, WR(t)) ELSE s, p, t)
  ELSE [charq_getchar(s, WR(t)) EXCEPT !.job[p].held = FirstChar(s, WR(t)), !.job[p].shown = TRUE]
drain_show(s, p, t) ==
  LET u == Show([s EXCEPT !.vc[t].num = s.job[p].num], t, s.job[p].held)
  IN  [u EXCEPT !.job[p].held = "", !.job[p].num = u.vc[t].num, !.vc[t].num = FALSE]
drain(s, p) == IF s.job[p].held = "" THEN drain_get(s, p, s.job[p].t) ELSE drain_show(s, p, s.job[p].t)

(* TCSETS, TCSETSW and TCSETSF *)
set_termios(s, t, tm) == Fresh([s EXCEPT !.tm[t] = tm], t)
tcsetsw(s, p, t) ==
  IF s.q[WR(t)] # <<>> THEN sleep(s, p, WR(t), "setw")
  ELSE LET u == Return(set_termios(s, t, s.job[p].tm), p)
       IN  IF s.job[p].flush THEN charq_flush(u, RD(t)) ELSE u
tcflsh(s, t, which) ==
  LET i == Fresh(charq_flush(charq_flush(s, RD(t)), CK(t)), t)
      o(u) == charq_flush(Left(u, t, Chars(u, WR(t))), WR(t))
  IN  CASE which = "in" -> i [] which = "out" -> o(s) [] which = "both" -> o(i)

-----------------------------------------------------------------------------
(* Opening and closing; f is what was opened, the terminal is Slave(f) *)
Slave(f) == IF f = Ptmx THEN Pts ELSE f
SetCtty(s, p, t) == [s EXCEPT !.ctty[p] = t, !.sid[t] = s.psid[p], !.pgid[t] = s.ppg[p]]
register_pty(s) ==
  [tty_reset(s, Pts) EXCEPT !.pty = TRUE, !.pts = TRUE, !.locked[Pts] = TRUE, !.cnt[Pts] = 1,
                            !.lnext[Pts] = FALSE, !.closed[Pts] = FALSE, !.canon[Pts] = 0,
                            !.sid[Pts] = 0, !.pgid[Pts] = 0]
CanOpen(s, p, f) ==
  /\ f \notin s.opn[p]
  /\ CASE f = Ptmx -> ~s.pty          \* devpts has an inode for one more pty
       [] f = Pts -> s.pts /\ ~s.locked[Pts]
       [] OTHER -> TRUE
Opened(s, p, f) ==
  LET u == [s EXCEPT !.opn[p] = @ \cup {f}, !.cnt[f] = @ + 1]
  IN  CASE f = Ptmx -> register_pty(u) [] f = Serial -> serial_stop(u) [] OTHER -> u
tty_open(s, p, f, noctty) ==
  LET u == Opened(s, p, f)
  IN  IF SESS_LEADER(s, p) /\ ~noctty /\ s.ctty[p] = 0 /\ s.sid[f] = 0 THEN SetCtty(u, p, f) ELSE u

pty_close(s) ==
  IF s.cnt[Pts] > 2 THEN s
  ELSE LET u == wakeup(wakeup([s EXCEPT !.closed[Pts] = TRUE, !.pts = FALSE], RD(Pts)), PtyRead)
       IN  IF s.cnt[Pts] < 2 THEN [u EXCEPT !.cnt[Ptmx] = @ - 1, !.pty = FALSE] ELSE u
serial_close(s) == IF s.cnt[Serial] > 1 THEN s ELSE serial_stop(s)
LoseCtty(s, t) == [s EXCEPT !.ctty = [p \in Proc |-> IF @[p] = t THEN 0 ELSE @[p]]]
last_close(s, t) == LoseCtty([termios_reset(s, t) EXCEPT !.pgid[t] = 0, !.sid[t] = 0], t)
(* The freed slave keeps nothing: a new one is registered with empty queues *)
forget_pty(s) ==
  IF s.pty THEN s
  ELSE [s EXCEPT !.q = [n \in Queues |-> IF n[1] = Pts THEN <<>> ELSE @[n]],
                 !.sent[Pts] = <<>>, !.done[Pts] = <<>>, !.typed[Pts] = <<>>, !.lost[Pts] = FALSE]
tty_close(s, p, f) ==
  LET t == Slave(f)
      c == CASE t = Pts -> pty_close(s) [] t = Serial -> serial_close(s) [] OTHER -> s
      u == [c EXCEPT !.cnt[t] = @ - 1, !.opn[p] = @ \ {f}]
  IN  forget_pty(IF u.cnt[t] = 0 THEN last_close(u, t) ELSE u)
close_all(s, p) == FoldLeft(LAMBDA r, f : IF f \in s.opn[p] THEN tty_close(r, p, f) ELSE r,
                            s, [i \in 1 .. Ptmx |-> i])

(* The master's side of a pseudo-terminal *)
pty_read(s, p) ==
  LET m == Min({s.job[p].want, Count(s, WR(Pts))})
  IN  IF m = 0 /\ ~s.closed[Pts] /\ ~s.sig[p] THEN sleep(s, p, PtyRead, "ptyread")
      ELSE wakeup(Return(charq_get(Left(s, Pts, SubSeq(Chars(s, WR(Pts)), 1, m)), WR(Pts), m), p), WR(Pts))
pty_write(s, text) == do_cook(charq_puts(s, RD(Pts), text), Pts)

psaux_open(s, p) ==
  [s EXCEPT !.mcnt = @ + 1, !.mopn = @ \cup {p}, !.q[Mouse] = IF s.mcnt = 0 THEN <<>> ELSE @]
psaux_close(s, p) == [s EXCEPT !.mcnt = @ - 1, !.mopn = @ \ {p}]
psaux_read(s, p) ==
  IF s.q[Mouse] = <<>> THEN block(s, p, PsauxRead, "mouse")
  ELSE Return(charq_get(s, Mouse, Min({s.job[p].want, Count(s, Mouse)})), p)

-----------------------------------------------------------------------------
(* Sessions *)
sys_setsid(s, p) == [s EXCEPT !.psid[p] = p, !.ppg[p] = p, !.ctty[p] = 0]
disassociate_ctty(s, p, t) ==
  kill_pgrp([s EXCEPT !.pgid[t] = 0, !.sid[t] = 0,
                      !.ctty = [q \in Proc |-> IF s.psid[q] = s.psid[p] THEN 0 ELSE @[q]]], s.ppg[p])
(* The process table is in the order of the pids.  The loop of do_exit()    *)
(* clears the leader's own pgid when it comes by it, and is done with the   *)
(* session: SESS_LEADER() is false for the processes after it.              *)
hangup(s, p) ==
  IF ~SESS_LEADER(s, p) THEN s
  ELSE LET In == {q \in Proc : q <= p /\ s.psid[q] = s.psid[p] /\ s.pc[q] # "gone"}
       IN  [s EXCEPT !.ppg = [q \in Proc |-> IF q \in In THEN 0 ELSE @[q]],
                     !.psid = [q \in Proc |-> IF q \in In THEN 0 ELSE @[q]],
                     !.ctty = [q \in Proc |-> IF q \in In THEN 0 ELSE @[q]],
                     !.sig = [q \in Proc |-> @[q] \/ q \in In],
                     !.slp = [q \in Proc |-> IF q \in In THEN <<>> ELSE @[q]]]
(* For the same reason disassociate_ctty() is not called.                   *)
sys_exit(s, p) ==
  LET h == hangup(s, p)
      d == IF SESS_LEADER(h, p) /\ h.ctty[p] # 0 THEN disassociate_ctty(h, p, h.ctty[p]) ELSE h
      c == close_all(d, p)
      m == IF p \in s.mopn THEN psaux_close(c, p) ELSE c
  IN  [m EXCEPT !.pc[p] = "gone", !.ctty[p] = 0]
tiocsctty_shared(s, p, t) ==            \* mutant: a stolen terminal stays with its session too
  IF SESS_LEADER(s, p) /\ s.psid[p] = s.sid[t] THEN s ELSE SetCtty(s, p, t)
tiocsctty(s, p, t) ==
  IF SESS_LEADER(s, p) /\ s.psid[p] = s.sid[t] THEN s
  ELSE SetCtty(IF s.sid[t] # 0 THEN LoseCtty(s, t) ELSE s, p, t)

-----------------------------------------------------------------------------
(* Virtual consoles *)
Alive(s, p) == p \in Proc /\ s.pc[p] # "gone"
kill_pid(s, p) == [s EXCEPT !.sig[p] = TRUE, !.slp[p] = <<>>]
vconsole_select_final(s, c) ==
  IF s.cur = c THEN s
  ELSE LET u == IF s.vt[c].mode = "AUTO" THEN s
                ELSE IF Alive(s, s.vt[c].owner) THEN kill_pid(s, s.vt[c].owner) ELSE init_vt(s, c)
       IN  [u EXCEPT !.focus = (@ \ {s.cur}) \cup {c}, !.cur = c]
vconsole_select_blind(s, c) ==          \* mutant: graphics mode is not looked at
  LET v == s.vt[s.cur]
      u == IF v.mode = "PROCESS" THEN init_vt(s, s.cur) ELSE s
  IN  IF s.cur = c \/ c > NR_VCONSOLES THEN s
      ELSE IF v.mode = "PROCESS" /\ Alive(s, v.owner) THEN [kill_pid(s, v.owner) EXCEPT !.vt[s.cur].to = c]
      ELSE vconsole_select_final(u, c)
vconsole_select(s, c) ==
  LET v == s.vt[s.cur]
      u == IF v.mode = "PROCESS" THEN init_vt(s, s.cur) ELSE s
  IN  IF s.cur = c \/ c > NR_VCONSOLES THEN s
      ELSE IF v.mode = "PROCESS" /\ Alive(s, v.owner) THEN [kill_pid(s, v.owner) EXCEPT !.vt[s.cur].to = c]
      ELSE IF u.vt[s.cur].gfx THEN u
      ELSE vconsole_select_final(u, c)
vt_setmode(s, p, t, mode) == [s EXCEPT !.vt[t].mode = mode, !.vt[t].owner = p, !.vt[t].to = 0]
vt_reldisp(s, t, yes) ==
  IF s.vt[t].mode # "PROCESS" \/ s.vt[t].to < 0 THEN s
  ELSE LET u == [s EXCEPT !.vt[t].to = -1]
       IN  IF yes THEN vconsole_select_final(u, s.vt[t].to) ELSE u
kdskbmode(s, t, mode) == charq_flush([s EXCEPT !.mode[t] = mode], RD(t))

-----------------------------------------------------------------------------
(* Interrupts and bottom halves *)
putc(s, t, seq) == IF s.cnt[t] > 0 THEN charq_puts(s, RD(t), seq) ELSE s
Key(s, key, up) ==
  LET b == irq_keyboard(s.kb, key, up, s.mode[s.cur], s.cur, s.vc[s.cur].scr)
  IN  putc([s EXCEPT !.kb = [b EXCEPT !.out = <<>>], !.kbh = TRUE], s.cur, b.out)
StartStop(s, t) ==
  LET u == [s EXCEPT !.kb.start = FALSE, !.kb.stop = FALSE]
  IN  IF s.kb.start THEN vconsole_start(u, t) ELSE IF s.kb.stop THEN vconsole_stop(u, t) ELSE u
feed(s, t) ==
  IF s.q[RD(t)] = <<>> THEN s ELSE IF s.mode[t] # "XLATE" THEN wakeup(s, RD(t)) ELSE do_cook(s, t)
irq_keyboard_bh(s) ==
  LET b == [s EXCEPT !.kbh = FALSE, !.kb.sw = 0, !.kb.setleds = FALSE, !.kb.dump = FALSE]
      w == IF s.kb.sw = 0 THEN b ELSE vconsole_select(b, s.kb.sw)
  IN  FoldLeft(feed, StartStop(w, s.cur), [t \in 1 .. NR_VCONSOLES - 1 |-> t])

serial_receive(s, c) ==
  IF charq_room(s, RD(Serial)) = 0 THEN [s EXCEPT !.sbh = TRUE]
  ELSE [charq_putchar(s, RD(Serial), c) EXCEPT !.sbh = TRUE]
serial_send(s) ==
  LET m == Min({UART_FIFO_SIZE, Count(s, WR(Serial))})
      u == charq_get(Left(s, Serial, SubSeq(Chars(s, WR(Serial)), 1, m)), WR(Serial), m)
  IN  [u EXCEPT !.thre = u.q[WR(Serial)] # <<>>]       \* and wakes &tty_write, where nobody sleeps
irq_serial_bh(s) ==
  LET b == [s EXCEPT !.sbh = FALSE] IN IF s.q[RD(Serial)] = <<>> THEN b ELSE do_cook(b, Serial)
irq_psaux(s) == IF s.mcnt = 0 THEN s ELSE wakeup(charq_putchar(s, Mouse, "m"), PsauxRead)

-----------------------------------------------------------------------------
(* The machine when the terminals have been registered and a menu's first   *)
(* calls, a sequence of <<process, terminal>>, have opened some of them.    *)
Boot ==
  [q |-> [n \in Queues |-> <<>>], pool |-> CB_POOL_SIZE,
   vc |-> [t \in Consoles |-> InitConsole], cur |-> 1, focus |-> {1},
   vt |-> [t \in Consoles |-> [mode |-> "AUTO", owner |-> 0, to |-> -1, gfx |-> FALSE]],
   kb |-> InitKeyboard, kbh |-> FALSE, sbh |-> FALSE, thre |-> FALSE, pty |-> FALSE, pts |-> FALSE,
   mcnt |-> 0, mopn |-> {}, cnt |-> [t \in Ttys |-> 0], tm |-> [t \in Ttys |-> Default],
   mode |-> [t \in Ttys |-> "XLATE"], lnext |-> [t \in Ttys |-> FALSE], canon |-> [t \in Ttys |-> 0],
   closed |-> [t \in Ttys |-> FALSE], locked |-> [t \in Ttys |-> FALSE],
   sid |-> [t \in Ttys |-> 0], pgid |-> [t \in Ttys |-> 0],
   psid |-> [p \in Proc |-> 1], ppg |-> [p \in Proc |-> 1], ctty |-> [p \in Proc |-> 0],
   opn |-> [p \in Proc |-> {}], sig |-> [p \in Proc |-> FALSE], pc |-> [p \in Proc |-> "user"],
   slp |-> [p \in Proc |-> <<>>], gap |-> [p \in Proc |-> <<>>], missed |-> [p \in Proc |-> FALSE], job |-> [p \in Proc |-> NoJob],
   sent |-> [t \in Ttys |-> <<>>], done |-> [t \in Ttys |-> <<>>],
   typed |-> [t \in Ttys |-> <<>>], lost |-> [t \in Ttys |-> FALSE]]

(* The others are children that process 1, the session's leader, has forked *)
Forked(s) == [s EXCEPT !.ctty = [p \in Proc |-> IF p \in menu.procs THEN @[1] ELSE 0],
                       !.pc = [p \in Proc |-> IF p \in menu.procs THEN @[p] ELSE "gone"]]
Init == /\ menu \in Menus
        /\ left = [calls |-> menu.n, irqs |-> menu.m]
        /\ k = Forked(FoldLeft(LAMBDA s, e : tty_open(s, e[1], e[2], FALSE), Boot, menu.opens))

(* No process runs while a bottom half is due or another is on the CPU *)
Free == ~k.kbh /\ ~k.sbh /\ \A p \in Proc : k.pc[p] # "drain" /\ k.gap[p] = <<>>
Asleep(a) == \E p \in Proc : a \in {k.slp[p], k.gap[p]}
Unless(hazard, cond) == hazard \in Hazards \/ cond
(* The cases that README.md describes under their names *)
Excluded ==
  /\ Unless("serial_full", \A p \in Proc : k'.slp[p] # WR(Serial))
  /\ Unless("lf", \A t \in Consoles : ~k'.vc[t].off)
  /\ Unless("pty_queued", k.pty => k'.pty \/ \A n \in {RD(Pts), CK(Pts), WR(Pts)} : k.q[n] = <<>>)
Call(p, name) == /\ Free /\ k.pc[p] = "user" /\ ~k.sig[p]
                 /\ name \in menu.calls /\ left.calls > 0
                 /\ left' = [left EXCEPT !.calls = @ - 1] /\ menu' = menu
Becomes(s) == k' = s /\ k' # k /\ Excluded
Step(s) == k' = s /\ UNCHANGED <<menu, left>> /\ Excluded

Open(p) == /\ Call(p, "open")
           /\ \E f \in menu.ttys, noctty \in BOOLEAN :
                CanOpen(k, p, f) /\ Becomes(tty_open(k, p, f, noctty))
Close(p) == Call(p, "close") /\ \E f \in k.opn[p] : Becomes(tty_close(k, p, f))
Read(p) == /\ Call(p, "read")
           /\ \E f \in k.opn[p] \ {Ptmx}, n \in Counts : Becomes(start_read(k, p, f, n))
Write(p) == /\ Call(p, "write")
            /\ \E f \in k.opn[p] \ {Ptmx}, x \in menu.texts : Becomes(start_write(k, p, f, x))
MasterRead(p) ==
  /\ Call(p, "ptyread") /\ Ptmx \in k.opn[p]
  /\ \E n \in Counts : Becomes(pty_read([k EXCEPT !.job[p] = [NoJob EXCEPT !.want = n]], p))
MasterWrite(p) == /\ Call(p, "ptywrite") /\ Ptmx \in k.opn[p]
                  /\ \E x \in menu.line : Becomes(pty_write(k, <<x>>))
Unlock(p) == Call(p, "unlock") /\ Ptmx \in k.opn[p] /\ Becomes([k EXCEPT !.locked[Pts] = FALSE])
TcSets(p) == /\ Call(p, "tcsets")
             /\ \E f \in k.opn[p], tm \in Modes : Becomes(set_termios(k, Slave(f), tm))
TcSetsWait(p) ==
  /\ Call(p, "tcsetsw")
  /\ \E f \in k.opn[p], tm \in Modes, fl \in BOOLEAN :
       Becomes(tcsetsw([k EXCEPT !.job[p] = [NoJob EXCEPT !.t = Slave(f), !.tm = tm, !.flush = fl]], p, Slave(f)))
TcFlush(p) == /\ Call(p, "tcflsh")
              /\ \E f \in k.opn[p], which \in {"in", "out", "both"} :
                   /\ Unless("oflush", which # "in" => ~Asleep(WR(Slave(f))))
                   /\ Becomes(tcflsh(k, Slave(f), which))
TcXonc(p) == /\ Call(p, "tcxonc")
             /\ \E f \in k.opn[p] : \/ Becomes(Stop(k, Slave(f)))
                                    \/ /\ Unless("start", ~Asleep(WR(Slave(f))))
                                       /\ Becomes(Start(k, Slave(f)))
Sctty(p) == /\ Call(p, "sctty") /\ SESS_LEADER(k, p) /\ k.ctty[p] = 0
            /\ \E f \in k.opn[p] : Becomes(tiocsctty(k, p, Slave(f)))
Notty(p) == /\ Call(p, "notty") /\ SESS_LEADER(k, p)
            /\ \E f \in k.opn[p] : k.ctty[p] = Slave(f) /\ Becomes(disassociate_ctty(k, p, Slave(f)))
Spgrp(p) == /\ Call(p, "spgrp")
            /\ \E f \in k.opn[p], g \in Proc : Becomes([k EXCEPT !.pgid[Slave(f)] = g])
Setsid(p) == /\ Call(p, "setsid") /\ \A q \in Proc : k.ppg[q] # p
             /\ Becomes(sys_setsid(k, p))
Setpgid(p) == /\ Call(p, "setpgid") /\ k.psid[p] # p
              /\ \E g \in Proc : /\ \A q \in Proc : k.ppg[q] = g => k.psid[q] = k.psid[p]
                                 /\ Becomes([k EXCEPT !.ppg[p] = g])
Exit(p) == Call(p, "exit") /\ Becomes(sys_exit(k, p))
KdSetMode(p) == /\ Call(p, "kdmode")
                /\ \E t \in k.opn[p] \cap Consoles, g \in BOOLEAN : Becomes([k EXCEPT !.vt[t].gfx = g])
KdSkbMode(p) == /\ Call(p, "kbmode")
                /\ \E t \in k.opn[p] \cap Consoles, m \in {"XLATE", "RAW", "MEDIUMRAW"} :
                     Becomes(kdskbmode(k, t, m))
VtSetMode(p) == /\ Call(p, "vtmode")
                /\ \E t \in k.opn[p] \cap Consoles, m \in {"AUTO", "PROCESS"} : Becomes(vt_setmode(k, p, t, m))
VtRelDisp(p) == /\ Call(p, "reldisp")
                /\ \E t \in k.opn[p] \cap Consoles, yes \in BOOLEAN :
                     Unless("reldisp", k.vt[t].to # 0) /\ Becomes(vt_reldisp(k, t, yes))
VtActivate(p) == /\ Call(p, "activate") /\ k.opn[p] \cap Consoles # {}
                 /\ \E c \in menu.ttys \cap Consoles : Becomes(vconsole_select(k, c))
MouseOpen(p) == /\ Call(p, "mouse") /\ p \notin k.mopn
                /\ Unless("psaux_reopen", k.mcnt = 0 => k.q[Mouse] = <<>>)
                /\ Becomes(psaux_open(k, p))
MouseClose(p) == Call(p, "mouse") /\ p \in k.mopn /\ Becomes(psaux_close(k, p))
MouseRead(p) == /\ Call(p, "mouse") /\ p \in k.mopn
                /\ \E n \in Counts : Becomes(psaux_read([k EXCEPT !.job[p] = [NoJob EXCEPT !.want = n]], p))

(* A process goes on: it was woken, or is in the middle of its call *)
Resumed(s, p) ==
  CASE s.pc[p] = "ptyread" -> {pty_read(s, p)}
    [] s.pc[p] # "ptyread" /\ s.sig[p] -> {Return(s, p)}
    [] s.pc[p] = "read" /\ ~s.sig[p] -> {tty_read(s, p)}
    [] s.pc[p] = "read_timed" /\ ~s.sig[p] -> {read_vtime(s, p, s.job[p].t), Return(s, p)}
    [] s.pc[p] = "read_more" /\ ~s.sig[p] ->
         {IF s.q[CK(s.job[p].t)] = <<>> THEN Return(s, p) ELSE tty_read(s, p)}
    [] s.pc[p] = "write" /\ ~s.sig[p] -> {tty_write(s, p)}
    [] s.pc[p] = "setw" /\ ~s.sig[p] -> {tcsetsw(s, p, s.job[p].t)}
    [] s.pc[p] = "mouse" /\ ~s.sig[p] -> {psaux_read(s, p)}
Resume(p) == /\ Free /\ k.pc[p] \notin {"user", "gone"} /\ k.slp[p] = <<>>
             /\ \E s \in Resumed(k, p) : Step(s)
FallAsleep(p) == ~k.kbh /\ ~k.sbh /\ k.gap[p] # <<>> /\ Step(fall_asleep(k, p))
Drain(p) == ~k.kbh /\ ~k.sbh /\ k.pc[p] = "drain" /\ Step(drain(k, p))
TakeSignal(p) == Free /\ k.pc[p] = "user" /\ k.sig[p] /\ Step([k EXCEPT !.sig[p] = FALSE])

Irq(s) == /\ left.irqs > 0 /\ left' = [left EXCEPT !.irqs = @ - 1] /\ menu' = menu
          /\ k' = s
KeyIrq == \E key \in menu.keys, up \in menu.ups : ~k.kbh /\ Irq(Key(k, key, up))
KeyboardBh == /\ k.kbh
              /\ Unless("start", k.kb.start => ~Asleep(WR(k.cur)))
              /\ Step(irq_keyboard_bh(k))
SerialIn == \E c \in menu.line : k.cnt[Serial] > 0 /\ Irq(serial_receive(k, c))
SerialOut == k.cnt[Serial] > 0 /\ k.thre /\ Step(serial_send(k))
SerialBh == k.sbh /\ Step(irq_serial_bh(k))
MouseIrq == "mouse" \in menu.calls /\ Irq(irq_psaux(k))

ProcNext(p) ==
  \/ Open(p) \/ Close(p) \/ Read(p) \/ Write(p) \/ MasterRead(p) \/ MasterWrite(p) \/ Unlock(p)
  \/ TcSets(p) \/ TcSetsWait(p) \/ TcFlush(p) \/ TcXonc(p) \/ Sctty(p) \/ Notty(p) \/ Spgrp(p)
  \/ Setsid(p) \/ Setpgid(p) \/ Exit(p) \/ KdSetMode(p) \/ KdSkbMode(p) \/ VtSetMode(p)
  \/ VtRelDisp(p) \/ VtActivate(p) \/ MouseOpen(p) \/ MouseClose(p) \/ MouseRead(p)
  \/ Resume(p) \/ FallAsleep(p) \/ Drain(p) \/ TakeSignal(p)
Next == \/ \E p \in Proc : ProcNext(p)
        \/ KeyIrq \/ KeyboardBh \/ SerialIn \/ SerialOut \/ SerialBh \/ MouseIrq

Spec == Init /\ [][Next]_vars

-----------------------------------------------------------------------------
(* Properties *)

(* Every block of the pool is free or in one queue: no path of the drivers  *)
(* loses a block or frees it twice (get_free_cblock(), put_free_cblock()).  *)
PoolConserved ==
  /\ k.pool + FoldFunction(LAMBDA b, n : n + Len(b), 0, k.q) = CB_POOL_SIZE
  /\ \A n \in Queues : \A i \in DOMAIN k.q[n] : k.q[n][i].d # <<>>

(* What tty_write() counted as written leaves the queue exactly once, while *)
(* echoing, bottom halves and other writers use the same queue; on a serial *)
(* line and on a pseudo-terminal it also leaves in the order of the writes. *)
Pending(t) == OnlyMarks(Chars(k, WR(t)))
Held(t, c) == Cardinality({p \in Proc : k.job[p].t = t /\ k.job[p].held = c})
Times1(seq, c) == Cardinality({i \in DOMAIN seq : seq[i] = c})
OutputOnce ==
  /\ \A t \in Consoles, c \in Marks :
       Times1(k.sent[t], c) = Times1(k.done[t], c) + Times1(Pending(t), c) + Held(t, c)
  /\ \A t \in {Serial, Pts} : k.sent[t] = k.done[t] \o Pending(t)

(* The line a reader will get is the one that was typed: a character is in  *)
(* it unless the erase characters after it outnumber the others after it, a *)
(* kill character follows, or it edits; VLNEXT makes the next one ordinary  *)
(* (do_cook(), erase_char() and the queue's blocks).                        *)
Typed(t) == k.typed[t]
Quoted(s, i) == \E j \in 1 .. i - 1 : /\ s[j] = "lnext" /\ (i - j) % 2 = 1
                                      /\ \A l \in j .. i - 1 : s[l] = "lnext"
                                      /\ (j = 1 \/ s[j - 1] # "lnext")
Edits(s, i) == ~Quoted(s, i) /\ s[i] \in Erasers \cup {"reprint", "lnext", "start", "stop"}
Number(s, a, b, C) == Cardinality({i \in a .. b : IF C = {} THEN ~Edits(s, i) ELSE Edits(s, i) /\ s[i] \in C})
Kept(s, i) == /\ ~Edits(s, i)
              /\ \A j \in i + 1 .. Len(s) : /\ Number(s, i + 1, j, {"kill"}) = 0
                                            /\ Number(s, i + 1, j, {"erase"}) <= Number(s, i + 1, j, {})
Survivors(s) == LET I == {i \in 1 .. Len(s) : Kept(s, i)}
                    c(i) == IF s[i] = "cr" /\ ~Quoted(s, i) THEN "nl" ELSE s[i]
                IN  [n \in 1 .. Cardinality(I) |-> c(CHOOSE i \in I : Cardinality({j \in I : j <= i}) = n)]
EditedAsTyped ==
  \A t \in Ttys : k.tm[t].canon /\ ~k.lost[t] => Chars(k, CK(t)) = Survivors(Typed(t))

(* Whoever sleeps in a terminal has to: a reader of lines while there is no *)
(* complete line, the reader of a master while its slave has written        *)
(* nothing and is open, a writer while its queue is not empty and, on a     *)
(* console, while output is stopped.  Every change that lets one go on      *)
(* wakes it; the only wakeup that is lost is one in the moment between its  *)
(* test and its sleep() (missed), when the interrupts are enabled.          *)
SleepersHaveCause ==
  \A p \in Proc : k.missed[p] \/
    /\ \A t \in Ttys : k.slp[p] = RD(t) /\ k.job[p].canon /\ k.tm[t].canon =>
         LAST_CHAR(k, CK(t)) \notin {"nl", "eof"} /\ ~k.closed[t]
    /\ k.slp[p] = PtyRead => k.q[WR(Pts)] = <<>> /\ ~k.closed[Pts]
    /\ k.slp[p] = PsauxRead => k.q[Mouse] = <<>>
    /\ \A t \in Ttys : k.slp[p] = WR(t) => k.q[WR(t)] # <<>> /\ (t \in Consoles => k.vc[t].scr)

(* A process's controlling terminal belongs to the session of the process   *)
(* (tty_open(), tty_close(), TIOCSCTTY, TIOCNOTTY, setsid() and exit()).    *)
CttyOfSession == \A p \in Proc : k.ctty[p] # 0 => k.sid[k.ctty[p]] = k.psid[p]

(* No sequence of output moves the cursor off the screen, and no character  *)
(* is put outside it (vconsole_write(), echo_char(), adjust(), the margins  *)
(* and the saved cursor), apart from lf() in the last row (Excluded).       *)
CursorOnScreen ==
  \A t \in Consoles : /\ k.vc[t].x \in 0 .. Columns - 1 /\ k.vc[t].y \in 0 .. Lines - 1
                      /\ k.vc[t].cell \in (0 .. Columns - 1) \X (0 .. Lines - 1)

(* One console has the screen, and it gives it up only as its owner allows: *)
(* never while it shows graphics, and under VT_PROCESS only to the console  *)
(* its owner was asked for, unless the owner is gone.                       *)
SwitchAllowed ==
  [][/\ k'.focus = {k'.cur}
     /\ LET v == k.vt[k.cur]
        IN  k'.cur # k.cur => IF v.mode = "PROCESS" THEN v.to = k'.cur \/ ~Alive(k, v.owner) ELSE ~v.gfx]_vars
=============================================================================
