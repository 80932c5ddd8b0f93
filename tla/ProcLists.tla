------------------------------ MODULE ProcLists ------------------------------
(***************************************************************************)
(* The doubly linked run list and the hash table of sleeping processes of  *)
(* kernel/sleep.c, pointer by pointer, with do_sched() choosing the next   *)
(* process in the order of the run list.                                   *)
(*                                                                         *)
(* A list is a record: `head' maps each list to its first process, `next'  *)
(* and `prev' are the links.  The run list is the only list of `run'; the  *)
(* lists of `slp' are the buckets of sleep_hash_table[].  wakeup_proc()    *)
(* and runnable() test the state of the process before they disable the    *)
(* interrupts, so a process that calls them can be interrupted in between. *)
(***************************************************************************)
EXTENDS Integers, Sequences, FiniteSets, Functions

CONSTANTS
    Procs, Idle, NULL,
    Addresses,   \* what processes sleep on
    Buckets,     \* the indices of sleep_hash_table[]
    SLEEP_HASH,  \* [Addresses -> Buckets]
    Priority,    \* p->priority
    IrqSignalled,  \* the processes an interrupt handler sends signals to
    Continued      \* the processes that are sent SIGCONT by another process

ASSUME HashAssumption == SLEEP_HASH \in [Addresses -> Buckets]
ASSUME ProcListsAssumption ==
    /\ IsFiniteSet(Procs) /\ Idle \notin Procs /\ NULL \notin Procs \cup Addresses
    /\ NULL \notin {"wakeup_proc", "runnable"} \X Procs
    /\ Priority \in Nat /\ IrqSignalled \subseteq Procs /\ Continued \subseteq Procs

VARIABLES
    run, slp, state, sleep_address, notint, cpu_count, need_resched, current,
    op   \* the call that is past its test: <<function, process>>, or NULL

vars == <<run, slp, state, sleep_address, notint, cpu_count, need_resched,
          current, op>>

----------------------------------------------------------------------------
NoLinks == [p \in Procs |-> NULL]

\* The insertion at the head in runnable(): nothing but the links it writes.
PushRun(l, p) ==
    LET h == l.head["run"] IN
    [head |-> [l.head EXCEPT !["run"] = p],
     next |-> IF h = NULL THEN l.next ELSE [l.next EXCEPT ![p] = h],
     prev |-> IF h = NULL THEN l.prev ELSE [l.prev EXCEPT ![h] = p]]

\* The insertion at the head of bucket i in sleep().
PushSleep(l, i, p) ==
    LET h == l.head[i] IN
    [head |-> [l.head EXCEPT ![i] = p],
     next |-> [l.next EXCEPT ![p] = h],
     prev |-> IF h = NULL THEN [l.prev EXCEPT ![p] = NULL]
              ELSE [l.prev EXCEPT ![p] = NULL, ![h] = p]]

\* The removal, as wakeup(), wakeup_proc() and not_runnable() write it.
Detach(l, i, p) ==
    [head |-> IF l.head[i] = p THEN [l.head EXCEPT ![i] = l.next[p]]
              ELSE l.head,
     next |-> IF l.prev[p] = NULL THEN l.next
              ELSE [l.next EXCEPT ![l.prev[p]] = l.next[p]],
     prev |-> IF l.next[p] = NULL THEN l.prev
              ELSE [l.prev EXCEPT ![l.next[p]] = l.prev[p]]]

\* The links of p are cleared, as proc_slot_init() does.
ClearLinks(l, p) ==
    [head |-> l.head,
     next |-> [l.next EXCEPT ![p] = NULL],
     prev |-> [l.prev EXCEPT ![p] = NULL]]

\* Variant: not_runnable() leaves the links of the process.
DetachRunStale(l, p) == Detach(l, "run", p)

\* not_runnable() also clears the links of the process.
DetachRun(l, p) == ClearLinks(Detach(l, "run", p), p)

\* The processes a walk along the links meets, cut when it does not end.
Chain(l, i) ==
    LET size == Cardinality(Procs) + 1
        node[n \in 1 .. size] ==
            IF n = 1 THEN l.head[i]
            ELSE LET p == node[n - 1] IN IF p = NULL THEN NULL ELSE l.next[p]
    IN  [n \in {m \in 1 .. size : node[m] # NULL} |-> node[n]]

\* do_sched() over run list l: a new quantum for all when the largest is 0,
\* then the first process with the largest quantum.
Quantum(l, cc) ==
    LET r == Range(Chain(l, "run")) IN
    IF \A p \in r : cc[p] = 0
    THEN [p \in Procs |-> IF p \in r THEN Priority ELSE cc[p]]
    ELSE cc

First(l, cc) ==
    LET c == Chain(l, "run")
        best == {n \in DOMAIN c : \A m \in DOMAIN c : cc[c[m]] <= cc[c[n]]}
    IN  IF c = <<>> THEN Idle
        ELSE c[CHOOSE n \in best : \A m \in best : n <= m]

do_sched(l, cc) ==
    /\ need_resched' = FALSE
    /\ cpu_count' = Quantum(l, cc)
    /\ current' = First(l, cpu_count')

----------------------------------------------------------------------------
EmptyLists(I) == [head |-> [i \in I |-> NULL], next |-> NoLinks, prev |-> NoLinks]

\* The kernel starts with one process; the others are forked.
Init ==
    /\ \E k \in Procs :
          /\ run = PushRun(EmptyLists({"run"}), k)
          /\ state = [p \in Procs |-> IF p = k THEN "RUNNING" ELSE "UNUSED"]
    /\ slp = EmptyLists(Buckets)
    /\ sleep_address = [p \in Procs |-> NULL]
    /\ notint = [p \in Procs |-> FALSE]
    /\ cpu_count = [p \in Procs |-> 0]
    /\ need_resched = TRUE
    /\ current = Idle
    /\ op = NULL

\* A process executes kernel code.  It may be one that psig() has stopped: it
\* goes on with the signals that are left until it is rescheduled.
Executing == op = NULL /\ current \in Procs

\* sys_fork() in a slot that was never used or whose process has been waited
\* for.
Fork(p) ==
    LET half == cpu_count[current] \div 2 IN
    /\ Executing /\ state[current] = "RUNNING"
    /\ state[p] \in {"UNUSED", "ZOMBIE"}
    /\ run' = PushRun(ClearLinks(run, p), p)
    /\ slp' = ClearLinks(slp, p)
    /\ state' = [state EXCEPT ![p] = "RUNNING"]
    /\ cpu_count' = [cpu_count EXCEPT ![current] = half, ![p] = half]
    /\ UNCHANGED <<sleep_address, notint, need_resched, current, op>>

\* The end of do_exit(), with its do_sched().
Exit ==
    /\ Executing
    /\ run' = DetachRun(run, current)
    /\ state' = [state EXCEPT ![current] = "ZOMBIE"]
    /\ do_sched(run', cpu_count)
    /\ UNCHANGED <<slp, sleep_address, notint, op>>

\* sleep(a, ...) and its do_sched(), all under CLI.
Sleep(a, interruptible) ==
    /\ Executing
    /\ slp' = PushSleep(slp, SLEEP_HASH[a], current)
    /\ sleep_address' = [sleep_address EXCEPT ![current] = a]
    /\ notint' = [notint EXCEPT ![current] = ~interruptible]
    /\ run' = DetachRun(run, current)
    /\ state' = [state EXCEPT ![current] = "SLEEPING"]
    /\ do_sched(run', cpu_count)
    /\ UNCHANGED op

\* The processes wakeup(a) finds in the bucket; variant: the walk ends with
\* the first.
WokenFirst(a) ==
    LET c == Chain(slp, SLEEP_HASH[a])
        hits == {n \in DOMAIN c : sleep_address[c[n]] = a}
    IN  {c[n] : n \in {m \in hits : \A k \in hits : m <= k}}

Woken(a) == {p \in Range(Chain(slp, SLEEP_HASH[a])) : sleep_address[p] = a}

\* The walk of wakeup() along bucket i: it inserts each process of W in the
\* run list and removes it from the bucket.
Walk(i, W) ==
    LET c == Chain(slp, i)
        after[n \in 0 .. Len(c)] ==
            IF n = 0 THEN [run |-> run, slp |-> slp]
            ELSE LET l == after[n - 1] IN
                 IF c[n] \notin W THEN l
                 ELSE [run |-> PushRun(l.run, c[n]), slp |-> Detach(l.slp, i, c[n])]
    IN  after[Len(c)]

\* wakeup(a), by a process or by an interrupt handler.
Wakeup(a) ==
    LET W == Woken(a)
        l == Walk(SLEEP_HASH[a], W)
    IN  /\ slp' = l.slp
        /\ run' = l.run
        /\ state' = [p \in Procs |-> IF p \in W THEN "RUNNING" ELSE state[p]]
        /\ sleep_address' =
             [p \in Procs |-> IF p \in W THEN NULL ELSE sleep_address[p]]
        /\ notint' = [p \in Procs |-> IF p \in W THEN FALSE ELSE notint[p]]
        /\ cpu_count' =
             [p \in Procs |-> IF p \in W THEN Priority ELSE cpu_count[p]]
        /\ need_resched' = (need_resched \/ W # {})
        /\ UNCHANGED <<current, op>>

\* The part of wakeup_proc(p) under CLI; runnable() refuses a process that
\* is already running.
WakeupProcBody(p) ==
    /\ slp' = IF sleep_address[p] = NULL THEN slp
              ELSE Detach(slp, SLEEP_HASH[sleep_address[p]], p)
    /\ run' = IF state[p] = "RUNNING" THEN run ELSE PushRun(run, p)
    /\ state' = [state EXCEPT ![p] = "RUNNING"]
    /\ sleep_address' = [sleep_address EXCEPT ![p] = NULL]
    /\ cpu_count' = [cpu_count EXCEPT ![p] = Priority]
    /\ need_resched' = TRUE
    /\ UNCHANGED <<notint, current>>

\* The tests at the top of wakeup_proc().
Wakeable(p) == state[p] \in {"SLEEPING", "STOPPED"} /\ ~notint[p]

\* send_sig() of an interrupt handler.
IrqSignal(p) ==
    /\ Wakeable(p)
    /\ WakeupProcBody(p)
    /\ UNCHANGED op

\* send_sig() of the current process, with the interrupts enabled.
SignalTest(p) ==
    /\ Executing /\ Wakeable(p)
    /\ op' = <<"wakeup_proc", p>>
    /\ UNCHANGED <<run, slp, state, sleep_address, notint, cpu_count,
                   need_resched, current>>

SignalWake(p) ==
    /\ op = <<"wakeup_proc", p>>
    /\ op' = NULL
    /\ WakeupProcBody(p)

\* SIGCONT sent by the current process or, to itself, found by psig(): the
\* tests, the last of them in runnable(), then the insertion.
ContTest(p) ==
    /\ Executing /\ state[p] = "STOPPED"
    /\ op' = <<"runnable", p>>
    /\ UNCHANGED <<run, slp, state, sleep_address, notint, cpu_count,
                   need_resched, current>>

ContInsert(p) ==
    /\ op = <<"runnable", p>>
    /\ op' = NULL
    /\ run' = PushRun(run, p)
    /\ state' = [state EXCEPT ![p] = "RUNNING"]
    /\ need_resched' = TRUE
    /\ UNCHANGED <<slp, sleep_address, notint, cpu_count, current>>

\* psig() stops the current process, perhaps for a second stop signal.
Stop ==
    /\ Executing
    /\ run' = DetachRun(run, current)
    /\ state' = [state EXCEPT ![current] = "STOPPED"]
    /\ need_resched' = TRUE
    /\ UNCHANGED <<slp, sleep_address, notint, cpu_count, current, op>>

\* do_sched() of the return path to user mode and of the idle loop.
Resched ==
    /\ op = NULL /\ need_resched
    /\ ~ (Executing /\ state[current] = "RUNNING" /\ cpu_count[current] > 0)
    /\ do_sched(run, cpu_count)
    /\ UNCHANGED <<run, slp, state, sleep_address, notint, op>>

\* irq_timer_bh(): the quantum of the current process.
Tick ==
    /\ current \in Procs
    /\ cpu_count' = [cpu_count EXCEPT ![current] = IF @ > 0 THEN @ - 1 ELSE 0]
    /\ need_resched' = (need_resched \/ cpu_count'[current] = 0)
    /\ UNCHANGED <<run, slp, state, sleep_address, notint, current, op>>

Next ==
    \/ \E p \in Procs : Fork(p)
    \/ Exit
    \/ \E a \in Addresses, i \in BOOLEAN : Sleep(a, i)
    \/ \E a \in Addresses : Wakeup(a)
    \/ \E p \in IrqSignalled : IrqSignal(p)
    \/ \E p \in Procs : SignalTest(p) \/ SignalWake(p)
    \/ \E p \in Continued : ContTest(p) \/ ContInsert(p)
    \/ Stop
    \/ Resched
    \/ Tick

Spec == Init /\ [][Next]_vars

----------------------------------------------------------------------------
\* The links of list i of l are consistent: the walk along `next' ends and
\* meets exactly the processes of S, each once, and `prev' is its inverse.
Threads(l, i, S) ==
    LET c == Chain(l, i) IN
    /\ IsInjective(c) /\ Range(c) = S
    /\ \A n \in DOMAIN c : n > 1 => l.prev[c[n]] = c[n - 1]
    /\ c # <<>> => l.prev[c[1]] = NULL

Running == {p \in Procs : state[p] = "RUNNING"}

Sleepers(i) == {p \in Procs : state[p] = "SLEEPING" /\ SLEEP_HASH[sleep_address[p]] = i}

\* The run list holds exactly the processes in state RUNNING, although
\* runnable() leaves stale links in the process it inserts; every sleeping
\* process is in the bucket wakeup() will search for it, and no process that
\* does not sleep is in any bucket.
ListsIntact ==
    /\ Threads(run, "run", Running)
    /\ \A i \in Buckets : Threads(slp, i, Sleepers(i))

\* The wait queues, as the fields of the processes have them: wakeup() and
\* do_sched() find the processes in their lists, and must find those that
\* wait and those that are runnable.
Abstract == INSTANCE WaitQueues WITH
    runq <- Running,
    wchan <- sleep_address,
    deaf <- {p \in Procs : notint[p]},
    cpu <- current

\* Every step of the linked lists is a step of the wait queues: a wakeup
\* reaches every sleeper of the address and no other process, and do_sched()
\* gives the CPU to a runnable process whenever there is one.
ImplementsWaitQueues == Abstract!Spec
=============================================================================
