------------------------------ MODULE Lifecycle ------------------------------
(***************************************************************************)
(* The life of processes: sys_fork(), do_exit(), sys_wait4(), the signals  *)
(* of kernel/signal.c, process groups and sessions.                        *)
(*                                                                         *)
(* A process runs in the kernel until it sleeps or returns to user mode,   *)
(* so an action is what one process does between two such points, with     *)
(* the signal check of the way back to user mode.  `at' is where the       *)
(* process is: in user mode, asleep in sys_wait4() or sys_pause(), or at   *)
(* one of the points of sys_fork() and do_exit() where it may sleep        *)
(* uninterruptibly for memory or I/O.  Nothing here can tell such a sleep  *)
(* from the process being runnable, so its state remains "RUNNING".  The   *)
(* status a process exits with is left out: exit_code is the stop signal   *)
(* that sys_wait4() has not reported yet.                                  *)
(*                                                                         *)
(* All processes belong to the superuser.  `sys' holds the process table   *)
(* and the slots; the operators on it take it as their first argument.     *)
(***************************************************************************)
EXTENDS Integers, SequencesExt

CONSTANTS
    Slots,           \* proc_table[], without the kernel's own processes
    init,            \* the slot of the process INIT
    IDLE,            \* the parent of INIT
    NULL,
    Groups,          \* the process group ids given to setpgid()
    Handlers,        \* what programs set as their disposition of SIGCHLD
    MaxStrays,       \* bound on `strays'
    Programs         \* what the processes of a behaviour do: the system
                     \* calls, the signals sent, the arguments of wait4(),
                     \* and how many slots the process table has

SIGHUP  == 1
SIGKILL == 9
SIGCHLD == 17
SIGCONT == 18
SIGSTOP == 19
SIGPROF == 27
Signals == {SIGHUP, SIGKILL, SIGCHLD, SIGCONT, SIGSTOP, SIGPROF}
InOrder == SortSeq(SetToSeq(Signals), LAMBDA m, n : m < n)
INIT == 1

ASSUME LifeAssumption ==
    /\ init \in Slots
    /\ MaxStrays \in Nat
    /\ \A g \in Programs : g.sent \subseteq Signals
    /\ Groups \subseteq Nat \ {0}
    /\ Handlers \subseteq {"DFL", "IGN", "handler"}

VARIABLES
    sys,
    program

vars == <<sys, program>>

\* As many numbers as slots, so that they are soon used again.
MAX_PID_VALUE == program.slots

----------------------------------------------------------------------------
(* The process table.                                                      *)

\* A slot of the pool, as release_proc() leaves it.
Released ==
    [state |-> "FREE", at |-> "user", ppid |-> NULL, children |-> 0,
     pid |-> 0, pgid |-> 0, sid |-> 0, exit_code |-> 0, sigpending |-> {},
     sigblocked |-> {}, sigexecuting |-> {},
     handler |-> [g \in Signals |-> "DFL"],
     local |-> NULL]  \* the child of sys_fork(), the pid of sys_wait4()

Table(s) == ToSet(s.table)
SESS_LEADER(s, p) ==
    /\ s.proc[p].pid = s.proc[p].pgid
    /\ s.proc[p].pid = s.proc[p].sid
PG_LEADER(s, p) == s.proc[p].pid = s.proc[p].pgid

release_proc(s, p) ==
    [s EXCEPT !.table = SelectSeq(@, LAMBDA q : q # p), !.proc[p] = Released]

\* The slots get_proc_free() may hand out, and the place of one in the table.
get_proc_free(s) ==
    IF Len(s.table) < program.slots THEN Slots \ Table(s) ELSE {}
proc_slot_init(s, p) == [s EXCEPT !.table = Append(@, p), !.proc[p].state = "IDLE"]

remove_zombie(s, p) ==
    [release_proc(s, p) EXCEPT !.proc[s.proc[p].ppid].children = @ - 1]

\* The children of p that sys_wait4() has something to tell about.
Reportable(s, p, q) ==
    /\ s.proc[q].ppid = p
    /\ \/ s.proc[q].state = "ZOMBIE"
       \/ s.proc[q].state = "STOPPED" /\ s.proc[q].exit_code # 0

\* What sys_wait4() does with the child q it found.
Report(s, q) ==
    IF s.proc[q].state = "ZOMBIE" THEN remove_zombie(s, q)
    ELSE [s EXCEPT !.proc[q].exit_code = 0]

\* while(sys_waitpid(-1, NULL, WNOHANG) > 0): all children of p.
ReapAll(s, p) ==
    FoldLeft(LAMBDA t, q : IF t.proc[p].children # 0 /\ Reportable(t, p, q)
                           THEN Report(t, q) ELSE t,
             s, s.table)

\* lastpid after one step, and the first number no process uses; 0 when the
\* search went round twice.
NextPid(n) == IF n = MAX_PID_VALUE THEN INIT ELSE n + 1

InUse(s, n) ==
    \E q \in Table(s) : n \in {s.proc[q].pid, s.proc[q].pgid, s.proc[q].sid}

get_unused_pid(s) ==
    LET from[n \in 0 .. 2 * MAX_PID_VALUE] ==
            IF n = 0 THEN s.lastpid ELSE NextPid(from[n - 1])
        tries == (MAX_PID_VALUE - s.lastpid) + MAX_PID_VALUE
        good == {n \in 1 .. tries : ~InUse(s, from[n])}
    IN  IF good = {} THEN 0
        ELSE from[CHOOSE n \in good : \A m \in good : n <= m]

----------------------------------------------------------------------------
(* Signals.                                                                *)

\* Of the sleepers only those that a signal interrupts are "SLEEPING".
wakeup_proc(s, p) ==
    IF s.proc[p].state \in {"SLEEPING", "STOPPED"}
    THEN [s EXCEPT !.proc[p].state = "RUNNING"] ELSE s

Continue(s, p) ==
    [s EXCEPT !.proc[p].state = IF @ = "STOPPED" THEN "RUNNING" ELSE @,
              !.proc[p].sigpending = @ \ {SIGSTOP}]

Discard(s, p, sig) ==
    IF sig \in {SIGKILL, SIGCONT} THEN Continue(s, p)
    ELSE IF sig = SIGSTOP THEN [s EXCEPT !.proc[p].sigpending = @ \ {SIGCONT}]
    ELSE s

\* Variant: the process is not woken up.
PostQuietly(s, p, sig) == [s EXCEPT !.proc[p].sigpending = @ \cup {sig}]

Post(s, p, sig) ==
    LET t == [s EXCEPT !.proc[p].sigpending = @ \cup {sig}] IN
    IF sig \in s.proc[p].sigblocked THEN t ELSE wakeup_proc(t, p)

\* send_sig(p, sig), called by `current'.  When p ignores SIGCHLD it is the
\* caller whose children are reaped.
send_sig(s, current, p, sig) ==
    LET t == Discard(s, p, sig)
        h == s.proc[p].handler[sig]
    IN  IF p = IDLE THEN s
        ELSE IF h = "DFL" /\ (s.proc[p].pid = INIT \/ sig \in {SIGCONT, SIGCHLD})
        THEN t
        ELSE IF h = "IGN" THEN IF sig = SIGCHLD THEN ReapAll(t, current) ELSE t
        ELSE Post(t, p, sig)

\* The parent asleep in sys_wait4() is woken up.
WakeWaiter(s, p) ==
    IF p # IDLE /\ s.proc[p].at = "wait4" THEN wakeup_proc(s, p) ELSE s

\* issig(): the signal it returns, 0 for none, and the state it leaves.
Acted(s, p) ==
    {g \in s.proc[p].sigpending :
        IF g = SIGCHLD THEN s.proc[p].handler[g] = "handler"
        ELSE s.proc[p].handler[g] # "IGN"}

issig(s, p) ==
    IF s.proc[p].sigpending \subseteq s.proc[p].sigblocked
       \/ Acted(s, p) = {}
    THEN 0
    ELSE CHOOSE g \in Acted(s, p) : \A m \in Acted(s, p) : g <= m

AfterIssig(s, p) ==
    LET sig == issig(s, p)
        gone == IF s.proc[p].sigpending \subseteq s.proc[p].sigblocked THEN {}
                ELSE {g \in s.proc[p].sigpending : sig = 0 \/ g < sig}
        zombies == {q \in Table(s) : /\ s.proc[q].ppid = p
                                     /\ s.proc[q].state = "ZOMBIE"}
        t == IF SIGCHLD \in gone /\ s.proc[p].handler[SIGCHLD] = "IGN"
             THEN FoldLeft(remove_zombie, s, SetToSeq(zombies)) ELSE s
    IN  [t EXCEPT !.proc[p].sigpending = @ \ gone]

\* The default action of a stop signal in psig().
Stop(s, p, sig) ==
    LET t == [s EXCEPT !.proc[p].exit_code = sig, !.proc[p].state = "STOPPED"]
        u == send_sig(t, p, s.proc[p].ppid, SIGCHLD)
        waiters == {q \in Table(u) : u.proc[q].at = "wait4"
                                     /\ u.proc[q].state = "SLEEPING"}
    IN  FoldLeft(wakeup_proc, u, SetToSeq(waiters))

\* One pending signal in the loop of psig(); the loop ends with a handler and
\* with do_exit(), which a process also enters that has just been stopped.
Deliver(s, p, sig) ==
    LET t == [s EXCEPT !.proc[p].sigpending = @ \ {sig}] IN
    IF s.proc[p].handler[sig] # "DFL"
    THEN [t EXCEPT !.proc[p].sigexecuting = {sig},
                   !.proc[p].sigblocked = @ \cup {sig},
                   !.proc[p].at = "handler"]
    ELSE IF sig \in {SIGCONT, SIGCHLD} THEN t
    ELSE IF sig = SIGSTOP THEN Stop(t, p, sig)
    ELSE [t EXCEPT !.proc[p].at = "exit", !.proc[p].state = "RUNNING"]

psig(s, p) ==
    LET loop == FoldLeft(LAMBDA t, sig :
                    IF sig \in t.proc[p].sigpending /\ t.proc[p].at = "user"
                    THEN Deliver(t, p, sig) ELSE t,
                    s, InOrder)
    IN  IF loop.proc[p].at = "handler"
        THEN [loop EXCEPT !.proc[p].at = "user"] ELSE loop

\* The way back to user mode: issig(), and psig() when there is one.
Return(s, p) ==
    LET t == [s EXCEPT !.proc[p].at = "user", !.proc[p].local = NULL]
        u == AfterIssig(t, p)
    IN  IF issig(t, p) = 0 THEN u ELSE psig(u, p)

\* sleep(..., PROC_INTERRUPTIBLE), or the way back with the signal it found.
Sleep(s, p, where) ==
    IF issig(s, p) # 0 THEN Return(AfterIssig(s, p), p)
    ELSE [AfterIssig(s, p) EXCEPT !.proc[p].at = where,
                                  !.proc[p].state = "SLEEPING"]

----------------------------------------------------------------------------
Init ==
    /\ program \in Programs
    /\ sys = [table |-> <<init>>,
              proc |-> [p \in Slots |->
                          IF p = init
                          THEN [Released EXCEPT !.state = "RUNNING",
                                                !.ppid = IDLE, !.pid = INIT]
                          ELSE Released],
              lastpid |-> INIT,
              nr_processes |-> 1,
              strays |-> 0,
              pid_locked |-> FALSE]   \* pid_resource

\* p is in the kernel, or in user mode, at the point l.
At(p, l) ==
    /\ p \in Table(sys)
    /\ sys.proc[p].state = "RUNNING"
    /\ sys.proc[p].at = l

Calls(p, call) == At(p, "user") /\ call \in program.calls /\ UNCHANGED program
Goes(p, l) == At(p, l) /\ UNCHANGED program

(* sys_fork().  The child is in the table from the start; the calls of     *)
(* kmalloc() for its page directory, and for its regions, kernel stack and *)
(* pages, may sleep, and may fail.                                         *)
Fork(p) ==
    LET pid == get_unused_pid(sys)
        s == [sys EXCEPT !.lastpid = IF pid = 0 THEN INIT ELSE pid]
    IN  /\ Calls(p, "fork")
        /\ ~sys.pid_locked
        /\ \/ /\ pid = 0
              /\ sys' = Return([s EXCEPT !.pid_locked = TRUE], p)
           \/ /\ pid # 0
              /\ get_proc_free(sys) = {}
              /\ sys' = Return(s, p)
           \/ /\ pid # 0
              /\ \E c \in get_proc_free(sys) :
                    sys' = proc_slot_init([s EXCEPT
                        !.proc[c] = [sys.proc[p] EXCEPT !.pid = pid],
                        !.proc[p].at = "fork_pgdir",
                        !.proc[p].local = c], c)

ForkFails(p) ==
    /\ \E l \in {"fork_pgdir", "fork_vma", "fork_pages"} : Goes(p, l)
    /\ sys' = Return(release_proc(sys, sys.proc[p].local), p)

ForkPgdir(p) ==
    LET c == sys.proc[p].local IN
    /\ Goes(p, "fork_pgdir")
    /\ sys' = [sys EXCEPT !.proc[c].ppid = p, !.proc[c].children = 0,
                          !.proc[p].at = "fork_vma"]

ForkVma(p) ==
    LET c == sys.proc[p].local IN
    /\ Goes(p, "fork_vma")
    /\ sys' = [sys EXCEPT !.proc[c].sigpending = {},
                          !.proc[c].sigexecuting = {},
                          !.proc[p].at = "fork_pages"]

ForkDone(p) ==
    LET c == sys.proc[p].local IN
    /\ Goes(p, "fork_pages")
    /\ sys' = Return([sys EXCEPT !.proc[c].state = "RUNNING",
                                 !.proc[p].children = @ + 1,
                                 !.nr_processes = @ + 1], p)

(* do_exit(): release_binary() may sleep, then the other processes are     *)
(* looked through, then closing the files may sleep.                       *)
Exit(p) ==
    /\ Calls(p, "exit")
    /\ p # init
    /\ sys' = [sys EXCEPT !.proc[p].at = "exit"]

\* The turn of process q in the loop.  Its own turn takes the exiting leader
\* out of its session, so it does not hang up the processes after it.
HangUp(s, p, q) ==
    IF SESS_LEADER(s, p) /\ s.proc[q].sid = s.proc[p].sid
                         /\ s.proc[q].state # "ZOMBIE"
    THEN LET t == [s EXCEPT !.proc[q].pgid = 0, !.proc[q].sid = 0] IN
         send_sig(send_sig(t, p, q, SIGHUP), p, q, SIGCONT)
    ELSE s

\* INIT gets a child of p.  It may be one that sys_fork() is building for a
\* child of p: then it still has the parent of its parent, INIT counts it for
\* good, and `strays' (not in the code) says how often that happened.
Adopt(s, p, q) ==
    [s EXCEPT !.proc[q].ppid = init, !.proc[init].children = @ + 1,
              !.proc[p].children = @ - 1,
              !.strays = IF s.proc[q].state = "IDLE" THEN @ + 1 ELSE @]

\* Variant: a zombie is not given to INIT.
InheritLiving(s, p, q) ==
    IF s.proc[q].ppid # p \/ s.proc[q].state = "ZOMBIE" THEN s
    ELSE Adopt(s, p, q)

\* Variant: INIT is not told of the zombies it gets.
InheritQuietly(s, p, q) ==
    IF s.proc[q].ppid # p THEN s ELSE Adopt(s, p, q)

Inherit(s, p, q) ==
    LET t == Adopt(s, p, q) IN
    IF s.proc[q].ppid # p THEN s
    ELSE IF s.proc[q].state # "ZOMBIE" THEN t
    ELSE WakeWaiter(send_sig(t, p, init, SIGCHLD), init)

ExitFamily(p) ==
    /\ Goes(p, "exit")
    /\ LET s == FoldLeft(LAMBDA t, q : IF q \in Table(t)
                                       THEN Inherit(HangUp(t, p, q), p, q)
                                       ELSE t,
                         sys, sys.table)
       IN  /\ s.strays <= MaxStrays
           /\ sys' = [s EXCEPT !.proc[p].at = "exit_files"]

ExitDone(p) ==
    /\ Goes(p, "exit_files")
    /\ LET parent == sys.proc[p].ppid
           s == [sys EXCEPT !.nr_processes = @ - 1]
           t == WakeWaiter(send_sig(s, p, parent, SIGCHLD), parent)
       IN  sys' = [t EXCEPT !.proc[p].state = "ZOMBIE",
                            !.proc[p].at = "user",
                            !.proc[p].exit_code = 0,
                            !.proc[p].sigpending = {},
                            !.proc[p].sigblocked = {},
                            !.proc[p].sigexecuting = {},
                            !.proc[p].handler = [g \in Signals |-> "IGN"]]

\* sys_wait4(): does child q match the pid argument?
Matches(s, p, q, pid) ==
    \/ pid = -1
    \/ pid > 0 /\ s.proc[q].pid = pid
    \/ pid = 0 /\ s.proc[q].pgid = s.proc[p].pgid
    \/ pid < -1 /\ s.proc[q].pgid = -pid

\* The first child with something to report, or NULL.  `flag' says that the
\* child matches; it remains set after a stopped child reported before, so
\* that the child after it is taken to match as well.
Found(s, p, pid) ==
    FoldLeft(LAMBDA r, q :
        LET flag == r.flag \/ Matches(s, p, q, pid) IN
        IF s.proc[q].ppid # p \/ r.child # NULL THEN r
        ELSE IF flag /\ Reportable(s, p, q) THEN [r EXCEPT !.child = q]
        ELSE [r EXCEPT !.flag = flag /\ s.proc[q].state = "STOPPED"],
        [flag |-> FALSE, child |-> NULL], s.table).child

\* One round of its loop.
WaitLoop(s, p, pid, nohang) ==
    LET f == Found(s, p, pid) IN
    IF s.proc[p].children = 0 THEN Return(s, p)
    ELSE IF f # NULL THEN Return(Report(s, f), p)
    ELSE IF nohang THEN Return(s, p)
    ELSE Sleep([s EXCEPT !.proc[p].local = pid], p, "wait4")

Wait4(p, pid, nohang) ==
    /\ Calls(p, "wait4")
    /\ sys' = WaitLoop(sys, p, pid, nohang)

\* Back from its sleep(): interrupted, or another round without SIGCHLD.
Wait4Woken(p) ==
    /\ Goes(p, "wait4")
    /\ LET s == AfterIssig(sys, p) IN
       sys' = IF issig(sys, p) # 0 THEN Return(s, p)
              ELSE WaitLoop([s EXCEPT !.proc[p].sigpending = @ \ {SIGCHLD}],
                            p, s.proc[p].local, FALSE)

Pause(p) ==
    /\ Calls(p, "pause")
    /\ sys' = Sleep(sys, p, "pause")

PauseWoken(p) ==
    /\ Goes(p, "pause")
    /\ sys' = IF issig(sys, p) # 0 THEN Return(AfterIssig(sys, p), p)
              ELSE Sleep(AfterIssig(sys, p), p, "pause")

(* kill(): one process, a group, or all but INIT and the caller.           *)
SendAll(s, p, to, sig) ==
    FoldLeft(LAMBDA t, q : IF q \in to \cap Table(t)
                           THEN send_sig(t, p, q, sig) ELSE t,
             s, s.table)

NotZombie == {q \in Table(sys) : sys.proc[q].state # "ZOMBIE"}

Kill(p, sig) ==
    /\ Calls(p, "kill")
    /\ \E to \in {{q} : q \in NotZombie}
              \cup {{q \in NotZombie : sys.proc[q].pgid = sys.proc[r].pgid} :
                        r \in Table(sys)}
              \cup {Table(sys) \ {init, p}} :
          sys' = Return(SendAll(sys, p, to, sig), p)

\* An interrupt taken in user mode.
Interrupted(p) ==
    /\ Goes(p, "user")
    /\ sys.proc[p].sigpending # {}
    /\ sys' = Return(sys, p)

\* sigaction() of SIGCHLD, which keeps a pending one.
Sigaction(p, h) ==
    /\ Calls(p, "sigaction")
    /\ sys' = Return([sys EXCEPT !.proc[p].handler[SIGCHLD] = h], p)

Sigreturn(p) ==
    /\ Calls(p, "sigaction")
    /\ sys.proc[p].sigexecuting # {}
    /\ sys' = Return([sys EXCEPT !.proc[p].sigblocked =
                                     @ \ sys.proc[p].sigexecuting,
                                 !.proc[p].sigexecuting = {}], p)

(* Process groups and sessions.                                            *)
Setsid(p) ==
    /\ Calls(p, "setsid")
    /\ ~PG_LEADER(sys, p)
    /\ \A q \in Table(sys) \ {p} : sys.proc[q].pgid # sys.proc[p].pid
    /\ sys' = Return([sys EXCEPT !.proc[p].sid = sys.proc[p].pid,
                                 !.proc[p].pgid = sys.proc[p].pid], p)

\* Variant: the group may be one of another session.
SetpgidAnySession(p, q, pgid) ==
    /\ Calls(p, "setpgid")
    /\ q = p \/ sys.proc[q].ppid = p
    /\ sys.proc[q].sid # sys.proc[q].pid
    /\ sys.proc[q].sid = sys.proc[p].sid
    /\ sys' = Return([sys EXCEPT !.proc[q].pgid = pgid], p)

Setpgid(p, q, pgid) ==
    /\ Calls(p, "setpgid")
    /\ q = p \/ sys.proc[q].ppid = p
    /\ sys.proc[q].sid # sys.proc[q].pid
    /\ sys.proc[q].sid = sys.proc[p].sid
    /\ \A r \in Table(sys) : sys.proc[r].pgid = pgid
                                => sys.proc[r].sid = sys.proc[p].sid
    /\ sys' = Return([sys EXCEPT !.proc[q].pgid = pgid], p)

Next ==
    \E p \in Slots :
        \/ Fork(p) \/ ForkFails(p) \/ ForkPgdir(p) \/ ForkVma(p) \/ ForkDone(p)
        \/ Exit(p) \/ ExitFamily(p) \/ ExitDone(p)
        \/ \E pid \in program.waits, nohang \in BOOLEAN : Wait4(p, pid, nohang)
        \/ Wait4Woken(p)
        \/ Pause(p) \/ PauseWoken(p)
        \/ \E sig \in program.sent : Kill(p, sig)
        \/ Interrupted(p)
        \/ \E h \in Handlers : Sigaction(p, h)
        \/ Sigreturn(p)
        \/ Setsid(p)
        \/ \E q \in Table(sys), pgid \in Groups : Setpgid(p, q, pgid)

Spec == Init /\ [][Next]_vars

----------------------------------------------------------------------------
\* Every process has a parent in the table that is still there to be told of
\* its end: do_exit() gives all the children of a process to INIT before it
\* becomes a zombie, the ones that a sys_fork() is just building as well.
\* The counter sys_wait4() goes by is the number of children of a process
\* until do_exit() has given them away.  INIT counts its children and, for
\* good, those that do_exit() gave it while a sys_fork() was building them
\* for somebody else.  nr_processes counts the processes alive.
Counted(p) ==
    Cardinality({q \in Table(sys) : sys.proc[q].ppid = p
                                    /\ sys.proc[q].state # "IDLE"})

FamilyIntact ==
    /\ \A p \in Table(sys) \ {init} :
          sys.proc[p].ppid # IDLE => sys.proc[p].ppid \in NotZombie
    /\ \A p \in NotZombie \ {init} :
          sys.proc[p].state # "IDLE" /\ sys.proc[p].at # "exit_files"
              => sys.proc[p].children = Counted(p)
    /\ sys.proc[init].children = Counted(init) + sys.strays
    /\ sys.nr_processes =
          Cardinality({p \in NotZombie : sys.proc[p].state # "IDLE"})

\* No process sleeps in sys_wait4() while a child it waits for is a zombie,
\* its own or one it inherited.  (Waiting for a group is left out: setpgid()
\* changes the groups of sleepers and zombies without telling anybody.)
ZombieAnnounced ==
    \A p \in Table(sys), q \in Table(sys) :
        /\ sys.proc[p].at = "wait4"
        /\ sys.proc[p].state = "SLEEPING"
        /\ sys.proc[p].local = -1 \/ sys.proc[p].local > 0
        /\ sys.proc[q].ppid = p
        /\ sys.proc[q].state = "ZOMBIE"
        => ~Matches(sys, p, q, sys.proc[p].local)

\* No process sleeps interruptibly on a signal it does not block, and none is
\* stopped with SIGKILL pending.
SignalNotSleptOn ==
    \A p \in Table(sys) :
        /\ sys.proc[p].state = "SLEEPING"
              => sys.proc[p].sigpending \subseteq sys.proc[p].sigblocked
        /\ sys.proc[p].state = "STOPPED" => SIGKILL \notin sys.proc[p].sigpending

\* All processes of a group are in one session, which is what the checks of
\* setpgid() and setsid() are for.
GroupInSession ==
    \A p, q \in Table(sys) :
        sys.proc[p].pgid = sys.proc[q].pgid /\ sys.proc[p].pgid # 0
            => sys.proc[p].sid = sys.proc[q].sid
============================================================================
