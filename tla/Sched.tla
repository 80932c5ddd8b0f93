------------------------------- MODULE Sched -------------------------------
(***************************************************************************)
(* Sleeping, waking, resource locks and the scheduler of the kernel:       *)
(* kernel/sleep.c, kernel/sched.c, the quantum accounting of               *)
(* kernel/timer.c, the part of kernel/signal.c that changes the scheduling *)
(* state of a process, the return path to user mode of kernel/core386.S    *)
(* and the idle loop of kernel/main.c.                                     *)
(*                                                                         *)
(* The kernel is not preemptive: only the current process takes kernel     *)
(* steps and it gives the CPU away in do_sched() alone.  Interrupts occur  *)
(* between any two steps; a stretch of code under CLI is one step.  The    *)
(* process calls lock_resource(), unlock_resource(), sleep(), wakeup() and *)
(* send_sig() in the ways the rest of the kernel does.  The run list is    *)
(* the set of RUNNING processes: do_sched() depends on its order only to   *)
(* break ties, which are broken arbitrarily here (ProcLists keeps the      *)
(* order).                                                                 *)
(***************************************************************************)
EXTENDS Naturals

CONSTANTS
    Procs,      \* the processes other than IDLE
    Idle,       \* proc_table[IDLE]
    Resources,  \* the struct resource objects
    Channels,   \* the addresses a process sleeps on interruptibly
    IoChannels, \* the addresses the holder of a resource sleeps on
    Signalled,  \* the processes they are sent to
    Signals,    \* the signals sent: a subset of {"catch", "stop", "cont"}
    Priority,   \* p->priority, the quantum in ticks
    NULL

Addresses == Resources \cup Channels \cup IoChannels

ASSUME PriorityAssumption == Priority \in Nat \ {0}
ASSUME IdleAssumption == Idle \notin Procs
ASSUME NullAssumption == NULL \notin Procs \cup {Idle} \cup Addresses
ASSUME AddressAssumption == Resources \cap (Channels \cup IoChannels) = {}
ASSUME SignalAssumption ==
    Signals \subseteq {"catch", "stop", "cont"} /\ Signalled \subseteq Procs

VARIABLES
    state,          \* p->state: "RUNNING", "SLEEPING" or "STOPPED"
    sleep_address,  \* p->sleep_address
    notint,         \* p->flags & PF_NOTINTERRUPT
    cpu_count,      \* p->cpu_count
    sigpending,     \* p->sigpending, the signals that are not blocked
    locked,         \* resource->locked
    wanted,         \* resource->wanted
    need_resched,
    current,
    selected,       \* do_sched()'s choice while interrupts are enabled
    pc,             \* where a process continues when it has the CPU
    res             \* the resource a process is locking or holds

procvars == <<state, sleep_address, notint>>
lockvars == <<locked, wanted>>
vars == <<state, sleep_address, notint, cpu_count, sigpending, locked,
          wanted, need_resched, current, selected, pc, res>>

----------------------------------------------------------------------------
Run(st) == {p \in Procs : st[p] = "RUNNING"}

\* No process of the run list has quantum left.
Exhausted(st, cc) == \A p \in Run(st) : cc[p] = 0

\* The second loop of do_sched(): a new quantum for every running process.
Requantum(st, cc) ==
    [p \in Procs |-> IF Exhausted(st, cc) /\ p \in Run(st)
                     THEN Priority ELSE cc[p]]

\* The first loop of do_sched(): the processes with the largest cpu_count,
\* IDLE when the run list is empty.
Best(st, cc) ==
    IF Run(st) = {} THEN {Idle}
    ELSE {p \in Run(st) : \A q \in Run(st) : cc[q] <= cc[p]}

Sleepers(a) == {p \in Procs : sleep_address[p] = a}

\* f with value v for the processes of S.
Set(f, S, v) == [p \in Procs |-> IF p \in S THEN v ELSE f[p]]

\* Variant: wakeup() does not set need_resched.
WakeQuietly(S) ==
    /\ state' = Set(state, S, "RUNNING")
    /\ sleep_address' = Set(sleep_address, S, NULL)
    /\ notint' = Set(notint, S, FALSE)
    /\ cpu_count' = Set(cpu_count, S, Priority)
    /\ UNCHANGED need_resched

\* What wakeup() and wakeup_proc() do to the processes of S they wake.
Wake(S) ==
    /\ state' = Set(state, S, "RUNNING")
    /\ sleep_address' = Set(sleep_address, S, NULL)
    /\ notint' = Set(notint, S, FALSE)
    /\ cpu_count' = Set(cpu_count, S, Priority)
    /\ need_resched' = (need_resched \/ S # {})

\* wakeup(address): all the processes that sleep on it.
wakeup(a) == Wake(Sleepers(a))

\* wakeup_proc(p): only a process that sleeps interruptibly or is stopped.
Wakeable(p) == state[p] \in {"SLEEPING", "STOPPED"} /\ ~notint[p]

\* sleep(a, ...) of the current process p followed by do_sched(), all of it
\* under CLI; p goes on at `next' when it runs again.
Sleep(p, a, interruptible, next) ==
    LET st == [state EXCEPT ![p] = "SLEEPING"] IN
    /\ state' = st
    /\ sleep_address' = [sleep_address EXCEPT ![p] = a]
    /\ notint' = [notint EXCEPT ![p] = ~interruptible]
    /\ need_resched' = FALSE
    /\ cpu_count' = Requantum(st, cpu_count)
    /\ current' \in Best(st, cpu_count')
    /\ pc' = [pc EXCEPT ![p] = next]

----------------------------------------------------------------------------
Init ==
    /\ state = [p \in Procs |-> "RUNNING"]
    /\ sleep_address = [p \in Procs |-> NULL]
    /\ notint = [p \in Procs |-> FALSE]
    /\ cpu_count = [p \in Procs |-> 0]
    /\ sigpending = [p \in Procs |-> {}]
    /\ locked = [r \in Resources |-> FALSE]
    /\ wanted = [r \in Resources |-> FALSE]
    /\ need_resched = TRUE
    /\ current = Idle
    /\ selected = NULL
    /\ pc = [p \in Procs \cup {Idle} |-> IF p = Idle THEN "check" ELSE "user"]
    /\ res = [p \in Procs |-> NULL]

\* p executes: it is current and not in the middle of do_sched().
At(p, label) == current = p /\ selected = NULL /\ pc[p] = label

Goto(p, label) == pc' = [pc EXCEPT ![p] = label]

\* A system call that will lock r enters the kernel.
CallLock(p, r) ==
    /\ At(p, "user")
    /\ Goto(p, "trylock")
    /\ res' = [res EXCEPT ![p] = r]
    /\ UNCHANGED <<procvars, cpu_count, sigpending, lockvars, need_resched,
                   current, selected>>

\* Variant: lock_resource() does not say that it wants the resource.
LockResourceNotWanted(p) ==
    /\ At(p, "trylock")
    /\ IF locked[res[p]]
       THEN Goto(p, "gap") /\ UNCHANGED locked
       ELSE Goto(p, "crit") /\ locked' = [locked EXCEPT ![res[p]] = TRUE]
    /\ UNCHANGED <<procvars, cpu_count, sigpending, wanted, need_resched,
                   current, selected, res>>

\* One turn of the loop of lock_resource(): the test and the assignment are
\* under CLI, the sleep() that follows RESTORE_FLAGS is another step.
LockResource(p) ==
    /\ At(p, "trylock")
    /\ IF locked[res[p]]
       THEN /\ wanted' = [wanted EXCEPT ![res[p]] = TRUE]
            /\ Goto(p, "gap")
            /\ UNCHANGED locked
       ELSE /\ locked' = [locked EXCEPT ![res[p]] = TRUE]
            /\ Goto(p, "crit")
            /\ UNCHANGED wanted
    /\ UNCHANGED <<procvars, cpu_count, sigpending, need_resched, current,
                   selected, res>>

\* sleep(resource, PROC_UNINTERRUPTIBLE) of lock_resource().
LockSleep(p) ==
    /\ At(p, "gap")
    /\ Sleep(p, res[p], FALSE, "trylock")
    /\ UNCHANGED <<sigpending, lockvars, selected, res>>

\* The holder of a resource waits for I/O, memory or a page (once: bound).
HolderSleep(p, c) ==
    /\ At(p, "crit")
    /\ Sleep(p, c, FALSE, "done")
    /\ UNCHANGED <<sigpending, lockvars, selected, res>>

\* Variant: unlock_resource() forgets the wakeup().
UnlockResourceNoWakeup(p) ==
    /\ At(p, "crit") \/ At(p, "done")
    /\ locked' = [locked EXCEPT ![res[p]] = FALSE]
    /\ wanted' = [wanted EXCEPT ![res[p]] = FALSE]
    /\ Goto(p, "ret")
    /\ res' = [res EXCEPT ![p] = NULL]
    /\ UNCHANGED <<procvars, cpu_count, need_resched, sigpending, current,
                   selected>>

\* unlock_resource(): wakes everybody when somebody wants the resource.
UnlockResource(p) ==
    /\ At(p, "crit") \/ At(p, "done")
    /\ locked' = [locked EXCEPT ![res[p]] = FALSE]
    /\ wanted' = [wanted EXCEPT ![res[p]] = FALSE]
    /\ IF wanted[res[p]]
       THEN wakeup(res[p])
       ELSE UNCHANGED <<procvars, cpu_count, need_resched>>
    /\ Goto(p, "ret")
    /\ res' = [res EXCEPT ![p] = NULL]
    /\ UNCHANGED <<sigpending, current, selected>>

\* A system call that sleeps with PROC_INTERRUPTIBLE: sleep() returns at
\* once when a signal is pending.
CallSleep(p, c) ==
    /\ At(p, "user")
    /\ IF sigpending[p] # {}
       THEN /\ Goto(p, "ret")
            /\ UNCHANGED <<procvars, cpu_count, need_resched, current>>
       ELSE Sleep(p, c, TRUE, "ret")
    /\ UNCHANGED <<sigpending, lockvars, selected, res>>

\* A system call that wakes the sleepers of c.
CallWakeup(p, c) ==
    /\ At(p, "user")
    /\ wakeup(c)
    /\ Goto(p, "ret")
    /\ UNCHANGED <<sigpending, lockvars, current, selected, res>>

\* send_sig(): SIGCONT restarts a stopped process, discards the pending stop
\* signals and is ignored otherwise; the others are made pending and wake
\* the process up.
send_sig(q, sig) ==
    /\ sigpending' = [sigpending EXCEPT ![q] =
                        IF sig = "cont" THEN @ \ {"stop"} ELSE @ \cup {sig}]
    /\ IF sig = "cont"
       THEN /\ state' = [state EXCEPT ![q] =
                           IF @ = "STOPPED" THEN "RUNNING" ELSE @]
            /\ need_resched' = (need_resched \/ state[q] = "STOPPED")
            /\ UNCHANGED <<sleep_address, notint, cpu_count>>
       ELSE Wake(IF Wakeable(q) THEN {q} ELSE {})

CallKill(p, q, sig) ==
    /\ At(p, "user")
    /\ send_sig(q, sig)
    /\ Goto(p, "ret")
    /\ UNCHANGED <<lockvars, current, selected, res>>

\* CHECK_IF_SIGNALS on the way to user mode.  psig() takes the signals in
\* the order of their numbers: a caught one ends it, a stop signal takes the
\* process off the run list and psig() goes on.
Psig(p) ==
    /\ At(p, "ret")
    /\ \E done \in SUBSET sigpending[p] :
         /\ sigpending[p] # {} => done # {}
         /\ "catch" \notin done => done = sigpending[p]
         /\ sigpending' = [sigpending EXCEPT ![p] = @ \ done]
         /\ state' = [state EXCEPT ![p] =
                        IF "stop" \in done THEN "STOPPED" ELSE @]
         /\ need_resched' = (need_resched \/ "stop" \in done)
    /\ Goto(p, "sched")
    /\ UNCHANGED <<sleep_address, notint, cpu_count, lockvars, current,
                   selected, res>>

\* do_sched() called with interrupts enabled, by the return path of a
\* process or by the idle loop: the choice ...
SchedSelect(p) ==
    /\ At(p, IF p = Idle THEN "check" ELSE "sched")
    /\ IF \/ ~need_resched
          \/ p # Idle /\ state[p] = "RUNNING" /\ cpu_count[p] > 0
       THEN /\ Goto(p, IF p = Idle THEN "tested" ELSE "user")
            /\ UNCHANGED <<need_resched, cpu_count, selected>>
       ELSE /\ need_resched' = FALSE
            /\ cpu_count' = Requantum(state, cpu_count)
            /\ selected' \in Best(state, cpu_count')
            /\ UNCHANGED pc
    /\ UNCHANGED <<procvars, sigpending, lockvars, current, res>>

\* ... and the context switch.  IDLE comes back to where it halts, a process
\* to user mode.
ContextSwitch ==
    /\ selected # NULL
    /\ current' = selected
    /\ selected' = NULL
    /\ Goto(current, IF current = Idle THEN "tested" ELSE "user")
    /\ UNCHANGED <<procvars, cpu_count, sigpending, lockvars, need_resched,
                   res>>

\* The HLT of cpu_idle(): an interrupt between the test of need_resched and
\* this step does not keep the CPU from halting.
Halt ==
    /\ At(Idle, "tested")
    /\ Goto(Idle, "halt")
    /\ UNCHANGED <<procvars, cpu_count, sigpending, lockvars, need_resched,
                   current, selected, res>>

----------------------------------------------------------------------------
\* Where an interrupt leaves the interrupted context: a process in user mode
\* takes the return path, the idle loop leaves HLT, kernel code goes on.
Interrupted ==
    pc' = [pc EXCEPT ![current] = IF @ = "user" THEN "ret"
                                  ELSE IF @ = "halt" THEN "check" ELSE @]

\* irq_timer_bh(): the quantum of the current process.
Tick ==
    /\ cpu_count' = [p \in Procs |-> IF p = current /\ cpu_count[p] > 0
                                     THEN cpu_count[p] - 1 ELSE cpu_count[p]]
    /\ need_resched' =
         (need_resched \/ (current # Idle /\ cpu_count'[current] = 0))
    /\ Interrupted
    /\ UNCHANGED <<procvars, sigpending, lockvars, current, selected, res>>

\* A device interrupt wakes the sleepers of c.
IrqWakeup(c) ==
    /\ wakeup(c)
    /\ Interrupted
    /\ UNCHANGED <<sigpending, lockvars, current, selected, res>>

\* The timer or the keyboard sends a signal.
IrqSignal(q, sig) ==
    /\ send_sig(q, sig)
    /\ Interrupted
    /\ UNCHANGED <<lockvars, current, selected, res>>

----------------------------------------------------------------------------
\* The steps a process takes by itself once it is in the kernel.
KernelStep(p) ==
    \/ LockResource(p)
    \/ LockSleep(p)
    \/ UnlockResource(p)
    \/ Psig(p)
    \/ SchedSelect(p)

SystemCall(p) ==
    \/ \E r \in Resources : CallLock(p, r)
    \/ \E c \in Channels : CallSleep(p, c)
    \/ \E c \in Channels : CallWakeup(p, c)
    \/ \E c \in IoChannels : HolderSleep(p, c)
    \/ \E q \in Signalled, sig \in Signals : CallKill(p, q, sig)

Interrupt ==
    \/ Tick
    \/ \E c \in Channels \cup IoChannels : IrqWakeup(c)
    \/ \E q \in Signalled, sig \in Signals \ {"cont"} : IrqSignal(q, sig)

Next ==
    \/ \E p \in Procs : KernelStep(p) \/ SystemCall(p)
    \/ SchedSelect(Idle)
    \/ ContextSwitch
    \/ Halt
    \/ Interrupt

Spec == Init /\ [][Next]_vars

\* The CPU executes the code it is in, the timer interrupts, and a device on
\* which somebody waits answers.
Fairness ==
    /\ \A p \in Procs : WF_vars(KernelStep(p))
    /\ WF_vars(SchedSelect(Idle))
    /\ WF_vars(ContextSwitch)
    /\ WF_vars(Halt)
    /\ WF_vars(Tick)
    /\ \A c \in IoChannels : WF_vars(Sleepers(c) # {} /\ IrqWakeup(c))

FairSpec == Spec /\ Fairness

----------------------------------------------------------------------------
States == {"RUNNING", "SLEEPING", "STOPPED"}
Labels == {"user", "trylock", "gap", "crit", "done", "ret", "sched"}

\* The types of the fields of struct proc and struct resource.
TypeOK ==
    /\ state \in [Procs -> States]
    /\ sleep_address \in [Procs -> Addresses \cup {NULL}]
    /\ notint \in [Procs -> BOOLEAN]
    /\ cpu_count \in [Procs -> 0 .. Priority]
    /\ sigpending \in [Procs -> SUBSET {"catch", "stop"}]
    /\ locked \in [Resources -> BOOLEAN]
    /\ wanted \in [Resources -> BOOLEAN]
    /\ need_resched \in BOOLEAN
    /\ current \in Procs \cup {Idle}
    /\ selected \in Procs \cup {Idle, NULL}
    /\ pc \in [Procs \cup {Idle} -> Labels \cup {"check", "tested", "halt"}]
    /\ res \in [Procs -> Resources \cup {NULL}]

Holds(p, r) == pc[p] \in {"crit", "done"} /\ res[p] = r

\* lock_resource() gives a resource to one process at a time, also when its
\* holder sleeps in the middle and when unlock_resource() wakes all waiters
\* at once; the resource is marked locked exactly while somebody holds it.
MutualExclusion ==
    \A r \in Resources :
        /\ \A p, q \in Procs : Holds(p, r) /\ Holds(q, r) => p = q
        /\ locked[r] <=> \E p \in Procs : Holds(p, r)

\* A process that sleeps in lock_resource(), or is about to (the interrupts
\* are enabled between the test and sleep()), waits for a resource that is
\* locked and wanted: the unlock that will free it does call wakeup().
NoLostWakeup ==
    \A p \in Procs : \A r \in Resources :
        sleep_address[p] = r \/ (pc[p] = "gap" /\ res[p] = r)
            => locked[r] /\ wanted[r]

\* A process that sleeps has an address to be woken by and no other process
\* has one (wakeup_proc(): "stopped processes don't have sleep address"); only
\* a sleeping process is marked PF_NOTINTERRUPT, so a signal reaches a
\* stopped one.
SleepersHaveAddress ==
    \A p \in Procs :
        /\ state[p] = "SLEEPING" <=> sleep_address[p] # NULL
        /\ notint[p] => state[p] = "SLEEPING"

\* The CPU does not run a process that is off the run list, except on the
\* few instructions between psig() stopping it and do_sched() leaving it,
\* and do_sched() never chooses such a process.
CurrentIsRunnable ==
    /\ selected \in Procs => state[selected] = "RUNNING"
    /\ current \in Procs /\ state[current] # "RUNNING" =>
         /\ state[current] = "STOPPED"
         /\ pc[current] = "sched"
         /\ selected # NULL \/ need_resched

\* The CPU is not left idle with a process on the run list unless a
\* rescheduling is due: every path that makes a process runnable sets
\* need_resched, also when it interrupts do_sched() after it chose IDLE.
IdleOnlyWhenNothingToRun ==
    Run(state) # {} /\ selected \notin Procs /\ Idle \in {current, selected}
        => need_resched

\* do_sched() does not pass over the runnable holder of r for ever.  The code
\* does not guarantee it: it chooses by cpu_count, which every wakeup refills,
\* and two processes that keep waking each other keep a third off the CPU.
HolderRuns(r) ==
    \A q \in Procs :
        []<>(Holds(q, r) /\ state[q] = "RUNNING" => current = q)

\* A process asleep in lock_resource() gets to try again, whatever is stopped,
\* continued, woken and interrupted meanwhile, unless do_sched() keeps the
\* holder of the resource from the CPU: no other step leaves it asleep for ever.
LockWaiterRetries ==
    \A r \in Resources : HolderRuns(r) =>
        \A p \in Procs : sleep_address[p] = r ~> sleep_address[p] # r

\* A process on the run list does not see the CPU stay in the idle loop.
IdleLeavesCPU == (current = Idle /\ Run(state) # {}) ~> current # Idle
=============================================================================
