----------------------------- MODULE WaitQueues -----------------------------
(***************************************************************************)
(* What kernel/sleep.c promises its callers, without its lists: a process  *)
(* is runnable, waits on one address, or is stopped.  A wakeup makes all   *)
(* the processes waiting on the address runnable, and nobody else; the CPU *)
(* is given to a runnable process, or to nobody when there is none.        *)
(***************************************************************************)
CONSTANTS Procs, Idle, Addresses, NULL

VARIABLES
    runq,    \* the processes that can be given the CPU
    wchan,   \* the address a process can be woken by, or NULL
    deaf,    \* the processes whose wait no signal ends
    cpu      \* who has the CPU

vars == <<runq, wchan, deaf, cpu>>

TypeOK ==
    /\ runq \subseteq Procs
    /\ wchan \in [Procs -> Addresses \cup {NULL}]
    /\ deaf \subseteq {p \in Procs : wchan[p] # NULL}
    /\ cpu \in Procs \cup {Idle}

Init ==
    /\ \E p \in Procs : runq = {p}
    /\ wchan = [p \in Procs |-> NULL]
    /\ deaf = {}
    /\ cpu = Idle

Dispatch(q) == cpu' \in IF q = {} THEN {Idle} ELSE q

\* A process starts, ...
Fork(p) ==
    /\ UNCHANGED <<cpu, deaf>>
    /\ p \notin runq /\ wchan[p] = NULL
    /\ runq' = runq \cup {p}
    /\ UNCHANGED wchan

\* ... or ends.
Exit ==
    /\ cpu # Idle
    /\ UNCHANGED <<deaf, wchan>>
    /\ runq' = runq \ {cpu}
    /\ Dispatch(runq')

Sleep(a) ==
    /\ cpu # Idle
    /\ deaf' \in {deaf, deaf \cup {cpu}}
    /\ wchan' = [wchan EXCEPT ![cpu] = a]
    /\ runq' = runq \ {cpu}
    /\ Dispatch(runq')

Wakeup(a) ==
    /\ UNCHANGED cpu
    /\ runq' = runq \cup {p \in Procs : wchan[p] = a}
    /\ wchan' = [p \in Procs |-> IF wchan[p] = a THEN NULL ELSE wchan[p]]
    /\ deaf' = {p \in deaf : wchan[p] # a}

\* A signal takes one process out of its wait or its stop.
WakeupProc(p) ==
    /\ UNCHANGED <<cpu, deaf>>
    /\ p \notin deaf
    /\ runq' = runq \cup {p}
    /\ wchan' = [wchan EXCEPT ![p] = NULL]

Stop ==
    /\ UNCHANGED <<cpu, deaf>>
    /\ runq' = runq \ {cpu}
    /\ UNCHANGED wchan

Resched == Dispatch(runq) /\ UNCHANGED <<runq, wchan, deaf>>

Next ==
    \/ Resched
    \/ Stop
    \/ Exit
    \/ \E p \in Procs : WakeupProc(p) \/ Fork(p)
    \/ \E a \in Addresses : Sleep(a) \/ Wakeup(a)

Spec == Init /\ [][Next]_vars
=============================================================================
