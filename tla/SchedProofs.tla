----------------------------- MODULE SchedProofs -----------------------------
(***************************************************************************)
(* Proofs about Sched for any set of processes, resources and addresses    *)
(* and any quantum.                                                        *)
(***************************************************************************)
EXTENDS Sched, TLAPS

InKernel == {"trylock", "gap", "crit", "done"}

\* A process of the kernel has a label of its own code, IDLE one of its loop.
LabelsOK ==
    /\ \A p \in Procs : pc[p] \in Labels
    /\ pc[Idle] \in {"check", "tested", "halt"}

\* Exactly the processes between lock_resource() and unlock_resource() have
\* a resource.
ResourceOK ==
    \A p \in Procs : pc[p] \in InKernel <=> res[p] # NULL

\* Only the current process is between the test and the sleep() of
\* lock_resource(), or between psig() and do_sched().
CurrentOK ==
    /\ \A p \in Procs : pc[p] = "gap" => p = current /\ selected = NULL
    /\ \A p \in Procs : pc[p] = "sched" => p = current
    /\ selected # NULL =>
         pc[current] = IF current = Idle THEN "check" ELSE "sched"

\* A process sleeps where the code says: on a resource inside
\* lock_resource(), and a stopped process has no resource.
BlockedOK ==
    /\ \A p \in Procs : \A r \in Resources :
         sleep_address[p] = r => pc[p] = "trylock" /\ res[p] = r
    /\ \A p \in Procs : state[p] = "STOPPED" => pc[p] \in {"user", "sched"}
    /\ \A p \in Procs :
         state[p] = "SLEEPING" => pc[p] \in {"trylock", "done", "ret"}

\* The inductive invariant.
SchedInv ==
    /\ TypeOK
    /\ LabelsOK
    /\ ResourceOK
    /\ CurrentOK
    /\ BlockedOK
    /\ MutualExclusion
    /\ NoLostWakeup
    /\ SleepersHaveAddress
    /\ CurrentIsRunnable
    /\ IdleOnlyWhenNothingToRun

USE PriorityAssumption, IdleAssumption, NullAssumption, AddressAssumption,
    SignalAssumption

----------------------------------------------------------------------------
\* What a step that wakes the processes of S does, whoever takes it.
Wakes(S) ==
    /\ state' \in [Procs -> States]
    /\ sleep_address' \in [Procs -> Addresses \cup {NULL}]
    /\ notint' \in [Procs -> BOOLEAN]
    /\ cpu_count' \in [Procs -> 0 .. Priority]
    /\ need_resched' \in BOOLEAN
    /\ need_resched \/ S # {} => need_resched'
    /\ \A p \in S : /\ state'[p] = "RUNNING"
                    /\ sleep_address'[p] = NULL
                    /\ ~notint'[p]
    /\ \A p \in Procs \ S : /\ state'[p] = state[p]
                            /\ sleep_address'[p] = sleep_address[p]
                            /\ notint'[p] = notint[p]

\* Only processes that sleep or are stopped are woken.
NotRunning(S) == \A p \in S : state[p] # "RUNNING"

\* wakeup() and wakeup_proc() wake the processes they mean to and leave the
\* others alone.
LEMMA WakeWakes ==
    ASSUME TypeOK, NEW S \in SUBSET Procs, Wake(S)
    PROVE  Wakes(S)
<1>1. /\ state' \in [Procs -> States]
      /\ sleep_address' \in [Procs -> Addresses \cup {NULL}]
      /\ cpu_count' \in [Procs -> 0 .. Priority]
  BY DEF Wake, Set, TypeOK, States
<1>2. notint' \in [Procs -> BOOLEAN]
  BY Zenon DEF Wake, Set, TypeOK
<1>3. need_resched' \in BOOLEAN /\ (need_resched \/ S # {} => need_resched')
  BY Zenon DEF Wake
<1>4. \A p \in S : /\ state'[p] = "RUNNING"
                  /\ sleep_address'[p] = NULL
                  /\ ~notint'[p]
  BY Zenon DEF Wake, Set
<1>5. \A p \in Procs \ S : /\ state'[p] = state[p]
                          /\ sleep_address'[p] = sleep_address[p]
                          /\ notint'[p] = notint[p]
  BY Zenon DEF Wake, Set
<1> QED BY Zenon, <1>1, <1>2, <1>3, <1>4, <1>5 DEF Wakes

\* wakeup(a) wakes the sleepers of a.
LEMMA WakeupWakes ==
    ASSUME TypeOK, SleepersHaveAddress, NEW a \in Addresses, wakeup(a)
    PROVE  Wakes(Sleepers(a)) /\ NotRunning(Sleepers(a))
<1>1. Sleepers(a) \in SUBSET Procs
  BY Zenon DEF Sleepers
<1>2. NotRunning(Sleepers(a))
  BY Zenon DEF NotRunning, Sleepers, SleepersHaveAddress, TypeOK
<1> QED BY Zenon, <1>1, <1>2, WakeWakes DEF wakeup

\* send_sig() wakes the process or nobody.
LEMMA SendSigWakes ==
    ASSUME TypeOK, SleepersHaveAddress, NEW q \in Procs, NEW sig \in Signals,
           send_sig(q, sig)
    PROVE  /\ \E S \in SUBSET Procs : Wakes(S) /\ NotRunning(S)
           /\ sigpending' \in [Procs -> SUBSET {"catch", "stop"}]
<1>1. sigpending' \in [Procs -> SUBSET {"catch", "stop"}]
  BY Zenon DEF send_sig, TypeOK
<1>2. CASE sig = "cont"
  <2> DEFINE S == IF state[q] = "STOPPED" THEN {q} ELSE {}
  <2>1. S \in SUBSET Procs /\ NotRunning(S)
    BY Zenon DEF NotRunning
  <2>2. \A p \in S : sleep_address[p] = NULL /\ ~notint[p]
    BY Zenon DEF SleepersHaveAddress, TypeOK
  <2>3. /\ state' = [state EXCEPT ![q] = IF @ = "STOPPED" THEN "RUNNING" ELSE @]
        /\ need_resched' = (need_resched \/ state[q] = "STOPPED")
        /\ UNCHANGED <<sleep_address, notint, cpu_count>>
    BY Zenon, <1>2 DEF send_sig
  <2>4. need_resched' \in BOOLEAN /\ (need_resched \/ S # {} => need_resched')
    BY Zenon, <2>3
  <2>5. Wakes(S)
    BY <2>2, <2>3, <2>4 DEF Wakes, TypeOK, States
  <2> QED BY Zenon, <1>1, <2>1, <2>5
<1>3. CASE sig # "cont"
  <2> DEFINE S == IF Wakeable(q) THEN {q} ELSE {}
  <2>1. S \in SUBSET Procs /\ NotRunning(S)
    BY Zenon DEF NotRunning, Wakeable
  <2>2. Wake(S)
    BY Zenon, <1>3 DEF send_sig
  <2> QED BY Zenon, <1>1, <2>1, <2>2, WakeWakes
<1> QED BY Zenon, <1>2, <1>3

\* do_sched() gives new quanta of the right type.
LEMMA RequantumType ==
    ASSUME NEW st, NEW cc \in [Procs -> 0 .. Priority]
    PROVE  Requantum(st, cc) \in [Procs -> 0 .. Priority]
BY DEF Requantum

\* do_sched() chooses a running process, and IDLE only when there is none.
LEMMA BestRuns ==
    ASSUME NEW st, NEW cc, NEW b \in Best(st, cc)
    PROVE  \/ b \in Procs /\ st[b] = "RUNNING"
           \/ b = Idle /\ Run(st) = {}
BY Zenon DEF Best, Run

\* sleep() takes the process off the run list and gives the CPU away.
LEMMA SleepSleeps ==
    ASSUME TypeOK, NEW p \in Procs, NEW a \in Addresses, NEW i \in BOOLEAN,
           NEW next \in Labels, Sleep(p, a, i, next)
    PROVE  /\ state' = [state EXCEPT ![p] = "SLEEPING"]
           /\ sleep_address' = [sleep_address EXCEPT ![p] = a]
           /\ notint' = [notint EXCEPT ![p] = ~i]
           /\ pc' = [pc EXCEPT ![p] = next]
           /\ cpu_count' \in [Procs -> 0 .. Priority]
           /\ need_resched' = FALSE
           /\ \/ current' \in Procs /\ state'[current'] = "RUNNING"
              \/ current' = Idle /\ Run(state') = {}
<1>1. cpu_count' \in [Procs -> 0 .. Priority]
  BY Zenon, RequantumType DEF Sleep, TypeOK
<1>2. current' \in Best(state', cpu_count')
  BY Zenon DEF Sleep
<1>3. \/ current' \in Procs /\ state'[current'] = "RUNNING"
      \/ current' = Idle /\ Run(state') = {}
  BY Zenon, <1>2, BestRuns
<1> QED BY Zenon, <1>1, <1>3 DEF Sleep

----------------------------------------------------------------------------
\* The kernel starts in the idle loop, with nothing locked.
LEMMA InitSchedInv == Init => SchedInv
BY DEF Init, SchedInv, TypeOK, LabelsOK, ResourceOK, CurrentOK, BlockedOK,
       MutualExclusion, NoLostWakeup, SleepersHaveAddress, CurrentIsRunnable,
       IdleOnlyWhenNothingToRun, InKernel, Labels, States, Holds, Run,
       Addresses

\* A step that only wakes processes, on behalf of a process that returns to
\* user mode or of an interrupt handler.
LEMMA WakingStepInv ==
    ASSUME SchedInv, NEW S \in SUBSET Procs, Wakes(S), NotRunning(S),
           sigpending' \in [Procs -> SUBSET {"catch", "stop"}],
           UNCHANGED <<locked, wanted, current, selected, res>>,
           Interrupted
    PROVE  SchedInv'
<1>0. pc' = [pc EXCEPT ![current] = IF @ = "user" THEN "ret"
                                    ELSE IF @ = "halt" THEN "check" ELSE @]
  BY Zenon DEF Interrupted
<1>1. TypeOK'
  BY ZenonT(40), <1>0 DEF SchedInv, Wakes, TypeOK, Labels
<1>2. LabelsOK'
  BY Zenon, <1>0 DEF SchedInv, TypeOK, LabelsOK, Labels
<1>3. ResourceOK'
  BY Zenon, <1>0 DEF SchedInv, TypeOK, ResourceOK, InKernel
<1>4. CurrentOK'
  BY Zenon, <1>0 DEF SchedInv, TypeOK, CurrentOK
<1>5. BlockedOK'
  BY <1>0 DEF SchedInv, Wakes, TypeOK, BlockedOK, CurrentIsRunnable, Addresses
<1>6. MutualExclusion'
  <2>1. \A p \in Procs : \A r \in Resources : Holds(p, r)' <=> Holds(p, r)
    BY Zenon, <1>0 DEF Holds, SchedInv, TypeOK
  <2> QED BY Zenon, <2>1 DEF SchedInv, MutualExclusion
<1>7. NoLostWakeup'
  <2>1. \A p \in Procs : pc'[p] = "gap" <=> pc[p] = "gap"
    BY Zenon, <1>0 DEF SchedInv, TypeOK
  <2>2. \A p \in Procs : sleep_address'[p] \in {NULL, sleep_address[p]}
    BY Zenon DEF Wakes
  <2> QED BY <2>1, <2>2 DEF SchedInv, NoLostWakeup, Addresses
<1>8. SleepersHaveAddress'
  BY ZenonT(40) DEF SchedInv, Wakes, SleepersHaveAddress
<1>9. CurrentIsRunnable'
  BY Zenon, <1>0 DEF SchedInv, Wakes, TypeOK, CurrentIsRunnable
<1>10. IdleOnlyWhenNothingToRun'
  <2>1. S = {} => Run(state') = Run(state)
    BY DEF Wakes, Run
  <2> QED BY Zenon, <2>1 DEF SchedInv, Wakes, IdleOnlyWhenNothingToRun
<1> QED BY Zenon, <1>1, <1>2, <1>3, <1>4, <1>5, <1>6, <1>7, <1>8, <1>9,
    <1>10 DEF SchedInv

\* Entering the kernel to lock a resource changes no lock.
LEMMA CallLockInv ==
    ASSUME SchedInv, NEW p \in Procs, NEW r \in Resources, CallLock(p, r)
    PROVE  SchedInv'
<1>0. /\ current = p /\ selected = NULL /\ pc[p] = "user"
      /\ pc' = [pc EXCEPT ![p] = "trylock"]
      /\ res' = [res EXCEPT ![p] = r]
      /\ UNCHANGED <<state, sleep_address, notint, cpu_count, sigpending,
                     locked, wanted, need_resched, current, selected>>
  BY Zenon DEF CallLock, At, Goto, procvars, lockvars
<1>1. TypeOK'
  BY Zenon, <1>0 DEF SchedInv, TypeOK, Labels
<1>2. LabelsOK'
  BY Zenon, <1>0 DEF SchedInv, TypeOK, LabelsOK, Labels
<1>3. ResourceOK'
  BY Zenon, <1>0 DEF SchedInv, TypeOK, ResourceOK, InKernel, Addresses
<1>4. CurrentOK'
  BY Zenon, <1>0 DEF SchedInv, TypeOK, CurrentOK
<1>5. BlockedOK'
  BY <1>0 DEF SchedInv, TypeOK, BlockedOK, CurrentIsRunnable
<1>6. MutualExclusion'
  <2>1. \A x \in Procs : \A y \in Resources : Holds(x, y)' <=> Holds(x, y)
    BY Zenon, <1>0 DEF Holds, SchedInv, TypeOK
  <2> QED BY <1>0, <2>1 DEF SchedInv, MutualExclusion
<1>7. NoLostWakeup'
  BY ZenonT(40), <1>0 DEF SchedInv, TypeOK, NoLostWakeup
<1>8. SleepersHaveAddress'
  BY Zenon, <1>0 DEF SchedInv, SleepersHaveAddress
<1>9. CurrentIsRunnable'
  BY Zenon, <1>0 DEF SchedInv, TypeOK, CurrentIsRunnable
<1>10. IdleOnlyWhenNothingToRun'
  BY Zenon, <1>0 DEF SchedInv, IdleOnlyWhenNothingToRun, Run
<1> QED BY Zenon, <1>1, <1>2, <1>3, <1>4, <1>5, <1>6, <1>7, <1>8, <1>9,
    <1>10 DEF SchedInv

\* lock_resource() takes a free resource or marks a locked one wanted.
LEMMA LockResourceInv ==
    ASSUME SchedInv, NEW p \in Procs, LockResource(p)
    PROVE  SchedInv'
<1>0. /\ current = p /\ selected = NULL /\ pc[p] = "trylock"
      /\ res[p] \in Resources
      /\ state[p] = "RUNNING"
      /\ UNCHANGED <<state, sleep_address, notint, cpu_count, sigpending,
                     need_resched, current, selected, res>>
  BY Zenon DEF LockResource, At, procvars, SchedInv, TypeOK, ResourceOK, InKernel,
         CurrentIsRunnable
<1>a. \/ /\ locked[res[p]]
         /\ wanted' = [wanted EXCEPT ![res[p]] = TRUE]
         /\ pc' = [pc EXCEPT ![p] = "gap"]
         /\ locked' = locked
      \/ /\ ~locked[res[p]]
         /\ locked' = [locked EXCEPT ![res[p]] = TRUE]
         /\ pc' = [pc EXCEPT ![p] = "crit"]
         /\ wanted' = wanted
  BY Zenon DEF LockResource, Goto
<1>1. TypeOK'
  <2>1. locked' \in [Resources -> BOOLEAN] /\ wanted' \in [Resources -> BOOLEAN]
    BY ZenonT(40), <1>a DEF SchedInv, TypeOK
  <2>2. pc' \in [Procs \cup {Idle} -> Labels \cup {"check", "tested", "halt"}]
    BY ZenonT(40), <1>a DEF SchedInv, TypeOK, Labels
  <2> QED BY Zenon, <1>0, <2>1, <2>2 DEF SchedInv, TypeOK
<1>2. LabelsOK'
  BY <1>a DEF SchedInv, TypeOK, LabelsOK, Labels
<1>3. ResourceOK'
  BY <1>0, <1>a DEF SchedInv, TypeOK, ResourceOK, InKernel
<1>4. CurrentOK'
  BY ZenonT(40), <1>0, <1>a DEF SchedInv, TypeOK, CurrentOK
<1>5. BlockedOK'
  <2>1. sleep_address[p] = NULL
    BY Zenon, <1>0 DEF SchedInv, TypeOK, SleepersHaveAddress
  <2> QED BY <1>0, <1>a, <2>1 DEF SchedInv, TypeOK, BlockedOK, Addresses
<1>6. MutualExclusion'
  <2>1. CASE locked[res[p]]
    <3>1. \A x \in Procs : \A r \in Resources : Holds(x, r)' <=> Holds(x, r)
      BY SMTT(30), <1>0, <1>a, <2>1 DEF Holds, SchedInv, TypeOK
    <3> QED BY <1>a, <2>1, <3>1 DEF SchedInv, MutualExclusion
  <2>2. CASE ~locked[res[p]]
    <3>1. \A x \in Procs : ~Holds(x, res[p])
      BY Zenon, <1>0, <2>2 DEF SchedInv, MutualExclusion
    <3>2. \A x \in Procs : \A r \in Resources :
            Holds(x, r)' <=> Holds(x, r) \/ (x = p /\ r = res[p])
      BY ZenonT(40), <1>0, <1>a, <2>2 DEF Holds, SchedInv, TypeOK
    <3>3. \A r \in Resources : locked'[r] <=> locked[r] \/ r = res[p]
      BY <1>a, <2>2 DEF SchedInv, TypeOK
    <3> QED BY SMTT(30), <3>1, <3>2, <3>3 DEF SchedInv, MutualExclusion
  <2> QED BY Zenon, <2>1, <2>2
<1>7. NoLostWakeup'
  <2>1. CASE locked[res[p]]
    BY <1>0, <1>a, <2>1 DEF SchedInv, TypeOK, NoLostWakeup
  <2>2. CASE ~locked[res[p]]
    BY SMTT(30), <1>0, <1>a, <2>2 DEF SchedInv, TypeOK, NoLostWakeup
  <2> QED BY Zenon, <2>1, <2>2
<1>8. SleepersHaveAddress'
  BY Zenon, <1>0 DEF SchedInv, SleepersHaveAddress
<1>9. CurrentIsRunnable'
  BY Zenon, <1>0 DEF SchedInv, TypeOK, CurrentIsRunnable
<1>10. IdleOnlyWhenNothingToRun'
  BY Zenon, <1>0 DEF SchedInv, IdleOnlyWhenNothingToRun, Run
<1> QED BY Zenon, <1>1, <1>2, <1>3, <1>4, <1>5, <1>6, <1>7, <1>8, <1>9,
    <1>10 DEF SchedInv

\* A step that puts the current process to sleep.
LEMMA SleepingStepInv ==
    ASSUME SchedInv, NEW p \in Procs, NEW a \in Addresses, NEW i \in BOOLEAN,
           NEW next \in {"trylock", "done", "ret"}, Sleep(p, a, i, next),
           current = p, selected = NULL,
           UNCHANGED <<sigpending, locked, wanted, selected, res>>,
           pc[p] \in InKernel <=> next \in InKernel,
           pc[p] \in {"crit", "done"} <=> next = "done",
           a \in Resources => /\ next = "trylock" /\ res[p] = a
                             /\ locked[a] /\ wanted[a]
    PROVE  SchedInv'
<1>0. /\ state' = [state EXCEPT ![p] = "SLEEPING"]
      /\ sleep_address' = [sleep_address EXCEPT ![p] = a]
      /\ notint' = [notint EXCEPT ![p] = ~i]
      /\ pc' = [pc EXCEPT ![p] = next]
      /\ cpu_count' \in [Procs -> 0 .. Priority]
      /\ need_resched' = FALSE
      /\ \/ current' \in Procs /\ state'[current'] = "RUNNING"
         \/ current' = Idle /\ Run(state') = {}
  <2>1. TypeOK /\ next \in Labels
    BY Zenon DEF SchedInv, Labels
  <2> QED BY ZenonT(40), <2>1, SleepSleeps
<1>1. TypeOK'
  BY Zenon, <1>0 DEF SchedInv, TypeOK, States, Labels
<1>2. LabelsOK'
  BY Zenon, <1>0 DEF SchedInv, TypeOK, LabelsOK, Labels
<1>3. ResourceOK'
  BY Zenon, <1>0 DEF SchedInv, TypeOK, ResourceOK
<1>4. CurrentOK'
  BY Zenon, <1>0 DEF SchedInv, TypeOK, CurrentOK
<1>5. BlockedOK'
  BY SMTT(30), <1>0 DEF SchedInv, TypeOK, BlockedOK
<1>6. MutualExclusion'
  <2>1. \A x \in Procs : \A r \in Resources : Holds(x, r)' <=> Holds(x, r)
    BY Zenon, <1>0 DEF Holds, SchedInv, TypeOK
  <2> QED BY Zenon, <2>1 DEF SchedInv, MutualExclusion
<1>7. NoLostWakeup'
  BY <1>0 DEF SchedInv, TypeOK, NoLostWakeup
<1>8. SleepersHaveAddress'
  BY Zenon, <1>0 DEF SchedInv, TypeOK, SleepersHaveAddress
<1>9. CurrentIsRunnable'
  BY Zenon, <1>0 DEF SchedInv, CurrentIsRunnable
<1>10. IdleOnlyWhenNothingToRun'
  BY Zenon, <1>0 DEF SchedInv, IdleOnlyWhenNothingToRun
<1> QED BY Zenon, <1>1, <1>2, <1>3, <1>4, <1>5, <1>6, <1>7, <1>8, <1>9,
    <1>10 DEF SchedInv

\* The sleep() of lock_resource() waits for a locked, wanted resource.
LEMMA LockSleepInv ==
    ASSUME SchedInv, NEW p \in Procs, LockSleep(p)
    PROVE  SchedInv'
<1>1. res[p] \in Resources /\ pc[p] = "gap" /\ current = p /\ selected = NULL
  BY Zenon DEF LockSleep, At, SchedInv, ResourceOK, InKernel, TypeOK
<1>2. locked[res[p]] /\ wanted[res[p]]
  BY Zenon, <1>1 DEF SchedInv, NoLostWakeup
<1> QED BY Zenon, <1>1, <1>2, SleepingStepInv
    DEF LockSleep, lockvars, InKernel, Addresses

\* A process that sleeps while it holds a resource keeps it.
LEMMA HolderSleepInv ==
    ASSUME SchedInv, NEW p \in Procs, NEW c \in IoChannels, HolderSleep(p, c)
    PROVE  SchedInv'
<1>1. c \in Addresses /\ c \notin Resources
  BY Zenon DEF Addresses
<1> QED BY Zenon, <1>1, SleepingStepInv DEF HolderSleep, At, lockvars, InKernel

\* unlock_resource() leaves nobody asleep on the resource it frees.
LEMMA UnlockResourceInv ==
    ASSUME SchedInv, NEW p \in Procs, UnlockResource(p)
    PROVE  SchedInv'
<1>0. /\ current = p /\ selected = NULL /\ pc[p] \in {"crit", "done"}
      /\ res[p] \in Resources
      /\ locked' = [locked EXCEPT ![res[p]] = FALSE]
      /\ wanted' = [wanted EXCEPT ![res[p]] = FALSE]
      /\ pc' = [pc EXCEPT ![p] = "ret"]
      /\ res' = [res EXCEPT ![p] = NULL]
      /\ UNCHANGED <<sigpending, current, selected>>
  BY Zenon DEF UnlockResource, At, Goto, SchedInv, ResourceOK, InKernel, TypeOK
<1>s. PICK S \in SUBSET Procs : /\ Wakes(S) /\ NotRunning(S)
                                /\ Sleepers(res[p]) \subseteq S
  <2>1. CASE wanted[res[p]]
    <3>1. wakeup(res[p]) /\ res[p] \in Addresses
      BY Zenon, <1>0, <2>1 DEF UnlockResource, Addresses
    <3>2. TypeOK /\ SleepersHaveAddress
      BY Zenon DEF SchedInv
    <3>3. Wakes(Sleepers(res[p])) /\ NotRunning(Sleepers(res[p]))
      BY Zenon, <3>1, <3>2, WakeupWakes
    <3> QED BY Zenon, <3>3 DEF Sleepers
  <2>2. CASE ~wanted[res[p]]
    <3>1. Sleepers(res[p]) = {}
      BY Zenon, <1>0, <2>2 DEF Sleepers, SchedInv, NoLostWakeup
    <3>2. Wakes({}) /\ NotRunning({})
      BY Zenon, <2>2 DEF UnlockResource, Wakes, NotRunning, procvars, SchedInv, TypeOK
    <3> QED BY Zenon, <3>1, <3>2
  <2> QED BY Zenon, <2>1, <2>2
<1>t. \A x \in Procs : sleep_address'[x] # res[p]
  BY <1>0, <1>s DEF Wakes, Sleepers, Addresses
<1>1. TypeOK'
  BY Zenon, <1>0, <1>s DEF SchedInv, Wakes, TypeOK, Labels
<1>2. LabelsOK'
  BY Zenon, <1>0 DEF SchedInv, TypeOK, LabelsOK, Labels
<1>3. ResourceOK'
  BY Zenon, <1>0 DEF SchedInv, TypeOK, ResourceOK, InKernel
<1>4. CurrentOK'
  BY Zenon, <1>0 DEF SchedInv, TypeOK, CurrentOK
<1>5. BlockedOK'
  <2>1. state[p] = "RUNNING" /\ sleep_address[p] = NULL /\ p \notin S
    BY Zenon, <1>0, <1>s DEF SchedInv, TypeOK, CurrentIsRunnable, SleepersHaveAddress,
       NotRunning
  <2> QED BY SMTT(30), <1>0, <1>s, <2>1 DEF SchedInv, Wakes, TypeOK, BlockedOK, Addresses
<1>6. MutualExclusion'
  <2>1. \A x \in Procs : Holds(x, res[p]) => x = p
    BY <1>0 DEF SchedInv, MutualExclusion, Holds
  <2>2. \A x \in Procs : \A r \in Resources :
          Holds(x, r)' <=> Holds(x, r) /\ r # res[p]
    BY Zenon, <1>0, <2>1 DEF Holds, SchedInv, TypeOK
  <2>3. \A r \in Resources : locked'[r] <=> locked[r] /\ r # res[p]
    BY ZenonT(40), <1>0 DEF SchedInv, TypeOK
  <2> QED BY Zenon, <2>2, <2>3 DEF SchedInv, MutualExclusion
<1>7. NoLostWakeup'
  <2>1. \A x \in Procs : pc'[x] # "gap"
    BY Zenon, <1>0 DEF SchedInv, TypeOK, CurrentOK
  <2>2. \A x \in Procs : sleep_address'[x] \in {NULL, sleep_address[x]}
    BY Zenon, <1>s DEF Wakes
  <2> QED BY <1>0, <1>t, <2>1, <2>2
      DEF SchedInv, TypeOK, NoLostWakeup, Addresses
<1>8. SleepersHaveAddress'
  BY ZenonT(40), <1>s DEF SchedInv, Wakes, SleepersHaveAddress
<1>9. CurrentIsRunnable'
  BY Zenon, <1>0, <1>s DEF SchedInv, Wakes, TypeOK, CurrentIsRunnable
<1>10. IdleOnlyWhenNothingToRun'
  BY Zenon, <1>0 DEF SchedInv, IdleOnlyWhenNothingToRun
<1> QED BY Zenon, <1>1, <1>2, <1>3, <1>4, <1>5, <1>6, <1>7, <1>8, <1>9,
    <1>10 DEF SchedInv

\* An interruptible sleep() has nothing to do with the resources.
LEMMA CallSleepInv ==
    ASSUME SchedInv, NEW p \in Procs, NEW c \in Channels, CallSleep(p, c)
    PROVE  SchedInv'
<1>1. CASE sigpending[p] # {}
  <2>1. Wakes({}) /\ NotRunning({})
    BY ZenonT(40), <1>1 DEF CallSleep, procvars, Wakes, NotRunning, SchedInv, TypeOK
  <2>2. Interrupted
    BY Zenon, <1>1 DEF CallSleep, At, Goto, Interrupted, SchedInv, TypeOK
  <2> QED BY Zenon, <1>1, <2>1, <2>2, WakingStepInv
      DEF CallSleep, lockvars, SchedInv, TypeOK
<1>2. CASE sigpending[p] = {}
  <2>1. c \in Addresses /\ c \notin Resources
    BY Zenon DEF Addresses
  <2>2. Sleep(p, c, TRUE, "ret") /\ At(p, "user")
    BY Zenon, <1>2 DEF CallSleep
  <2> QED BY Zenon, <2>1, <2>2, SleepingStepInv
      DEF CallSleep, At, lockvars, InKernel
<1> QED BY Zenon, <1>1, <1>2

\* wakeup() of a process sets need_resched for the processes it wakes.
LEMMA CallWakeupInv ==
    ASSUME SchedInv, NEW p \in Procs, NEW c \in Channels, CallWakeup(p, c)
    PROVE  SchedInv'
<1>1. Wakes(Sleepers(c)) /\ NotRunning(Sleepers(c))
  BY Zenon, WakeupWakes DEF CallWakeup, SchedInv, Addresses
<1>2. Interrupted
  BY Zenon DEF CallWakeup, At, Goto, Interrupted, SchedInv, TypeOK
<1>3. Sleepers(c) \in SUBSET Procs
  BY Zenon DEF Sleepers
<1> QED BY Zenon, <1>1, <1>2, <1>3, WakingStepInv
    DEF CallWakeup, lockvars, SchedInv, TypeOK

\* send_sig() of a process wakes the target at most.
LEMMA CallKillInv ==
    ASSUME SchedInv, NEW p \in Procs, NEW q \in Procs, NEW sig \in Signals,
           CallKill(p, q, sig)
    PROVE  SchedInv'
<1>1. /\ \E S \in SUBSET Procs : Wakes(S) /\ NotRunning(S)
      /\ sigpending' \in [Procs -> SUBSET {"catch", "stop"}]
  BY Zenon, SendSigWakes DEF CallKill, SchedInv
<1>2. Interrupted
  BY Zenon DEF CallKill, At, Goto, Interrupted, SchedInv, TypeOK
<1> QED BY Zenon, <1>1, <1>2, WakingStepInv DEF CallKill, lockvars

\* psig() stops only the current process, which holds nothing.
LEMMA PsigInv ==
    ASSUME SchedInv, NEW p \in Procs, Psig(p)
    PROVE  SchedInv'
<1>0. /\ current = p /\ selected = NULL /\ pc[p] = "ret"
      /\ pc' = [pc EXCEPT ![p] = "sched"]
      /\ UNCHANGED <<sleep_address, notint, cpu_count, locked, wanted,
                     current, selected, res>>
      /\ sigpending' \in [Procs -> SUBSET {"catch", "stop"}]
      /\ need_resched' \in BOOLEAN
      /\ need_resched => need_resched'
  BY SMTT(30) DEF Psig, At, Goto, lockvars, SchedInv, TypeOK
<1>a. state[p] = "RUNNING" /\ sleep_address[p] = NULL /\ ~notint[p]
  BY Zenon, <1>0 DEF SchedInv, TypeOK, CurrentIsRunnable, SleepersHaveAddress
<1>b. \/ state' = state
      \/ state' = [state EXCEPT ![p] = "STOPPED"] /\ need_resched'
  <2>1. PICK done : /\ state' = [state EXCEPT ![p] =
                                   IF "stop" \in done THEN "STOPPED" ELSE @]
                    /\ need_resched' = (need_resched \/ "stop" \in done)
    BY Zenon DEF Psig
  <2>2. CASE "stop" \in done
    BY Zenon, <2>1, <2>2
  <2>3. CASE "stop" \notin done
    BY Zenon, <2>1, <2>3 DEF SchedInv, TypeOK
  <2> QED BY Zenon, <2>2, <2>3
<1>1. TypeOK'
  BY ZenonT(40), <1>0, <1>b DEF SchedInv, TypeOK, Labels, States
<1>2. LabelsOK'
  BY Zenon, <1>0 DEF SchedInv, TypeOK, LabelsOK, Labels
<1>3. ResourceOK'
  BY Zenon, <1>0 DEF SchedInv, TypeOK, ResourceOK, InKernel
<1>4. CurrentOK'
  BY Zenon, <1>0 DEF SchedInv, TypeOK, CurrentOK
<1>5. BlockedOK'
  BY <1>0, <1>a, <1>b DEF SchedInv, TypeOK, BlockedOK, Addresses
<1>6. MutualExclusion'
  <2>1. \A x \in Procs : \A r \in Resources : Holds(x, r)' <=> Holds(x, r)
    BY Zenon, <1>0 DEF Holds, SchedInv, TypeOK
  <2> QED BY SMTT(30), <1>0, <2>1 DEF SchedInv, MutualExclusion
<1>7. NoLostWakeup'
  BY Zenon, <1>0 DEF SchedInv, TypeOK, NoLostWakeup
<1>8. SleepersHaveAddress'
  BY ZenonT(40), <1>0, <1>a, <1>b DEF SchedInv, TypeOK, SleepersHaveAddress
<1>9. CurrentIsRunnable'
  BY Zenon, <1>0, <1>a, <1>b DEF SchedInv, TypeOK, CurrentIsRunnable
<1>10. IdleOnlyWhenNothingToRun'
  BY Zenon, <1>0 DEF SchedInv, IdleOnlyWhenNothingToRun
<1> QED BY Zenon, <1>1, <1>2, <1>3, <1>4, <1>5, <1>6, <1>7, <1>8, <1>9,
    <1>10 DEF SchedInv

\* do_sched() chooses a running process, or IDLE when there is none.
LEMMA SchedSelectInv ==
    ASSUME SchedInv, NEW p \in Procs \cup {Idle}, SchedSelect(p)
    PROVE  SchedInv'
<1>0. /\ current = p /\ selected = NULL
      /\ pc[p] = IF p = Idle THEN "check" ELSE "sched"
      /\ UNCHANGED <<state, sleep_address, notint, sigpending, locked, wanted,
                     current, res>>
  BY Zenon DEF SchedSelect, At, procvars, lockvars
<1>a. \/ /\ ~need_resched \/ (p # Idle /\ state[p] = "RUNNING")
         /\ pc' = [pc EXCEPT ![p] = IF p = Idle THEN "tested" ELSE "user"]
         /\ UNCHANGED <<need_resched, cpu_count, selected>>
      \/ /\ need_resched' = FALSE
         /\ cpu_count' \in [Procs -> 0 .. Priority]
         /\ \/ selected' \in Procs /\ state[selected'] = "RUNNING"
            \/ selected' = Idle /\ Run(state) = {}
         /\ pc' = pc
  <2>1. Requantum(state, cpu_count) \in [Procs -> 0 .. Priority]
    BY Zenon, RequantumType DEF SchedInv, TypeOK
  <2>2. \A b \in Best(state, cpu_count') :
          \/ b \in Procs /\ state[b] = "RUNNING"
          \/ b = Idle /\ Run(state) = {}
    BY Zenon, BestRuns
  <2> QED BY Zenon, <2>1, <2>2 DEF SchedSelect, Goto
<1>1. TypeOK'
  <2>1. pc' \in [Procs \cup {Idle} -> Labels \cup {"check", "tested", "halt"}]
    BY Zenon, <1>a DEF SchedInv, TypeOK, Labels
  <2> QED BY Zenon, <1>0, <1>a, <2>1 DEF SchedInv, TypeOK
<1>2. LabelsOK'
  BY ZenonT(40), <1>a DEF SchedInv, TypeOK, LabelsOK, Labels
<1>3. ResourceOK'
  BY ZenonT(40), <1>0, <1>a DEF SchedInv, TypeOK, ResourceOK, InKernel
<1>4. CurrentOK'
  BY Zenon, <1>0, <1>a DEF SchedInv, TypeOK, CurrentOK
<1>5. BlockedOK'
  <2>1. \A x \in Procs :
          pc'[x] = pc[x] \/ (pc[x] = "sched" /\ pc'[x] = "user")
    <3>1. CASE pc' = pc
      BY Zenon, <3>1
    <3>2. CASE pc' = [pc EXCEPT ![p] = IF p = Idle THEN "tested" ELSE "user"]
      BY Zenon, <1>0, <3>2 DEF SchedInv, TypeOK
    <3> QED BY Zenon, <1>a, <3>1, <3>2
  <2> QED BY SMTT(30), <1>0, <2>1 DEF SchedInv, BlockedOK
<1>6. MutualExclusion'
  <2>1. \A x \in Procs : \A r \in Resources : Holds(x, r)' <=> Holds(x, r)
    BY SMTT(30), <1>0, <1>a DEF Holds, SchedInv, TypeOK
  <2> QED BY Zenon, <1>0, <2>1 DEF SchedInv, MutualExclusion
<1>7. NoLostWakeup'
  <2>1. \A x \in Procs : pc'[x] = "gap" => pc[x] = "gap"
    BY Zenon, <1>0, <1>a DEF SchedInv, TypeOK
  <2> QED BY Zenon, <1>0, <2>1 DEF SchedInv, NoLostWakeup
<1>8. SleepersHaveAddress'
  BY Zenon, <1>0 DEF SchedInv, SleepersHaveAddress
<1>9. CurrentIsRunnable'
  BY SMTT(30), <1>0, <1>a DEF SchedInv, TypeOK, CurrentIsRunnable
<1>10. IdleOnlyWhenNothingToRun'
  BY Zenon, <1>0, <1>a DEF SchedInv, IdleOnlyWhenNothingToRun
<1> QED BY Zenon, <1>1, <1>2, <1>3, <1>4, <1>5, <1>6, <1>7, <1>8, <1>9,
    <1>10 DEF SchedInv

\* The context switch keeps the choice of do_sched(), and a wakeup that came
\* after that choice has left need_resched set.
LEMMA ContextSwitchInv ==
    ASSUME SchedInv, ContextSwitch
    PROVE  SchedInv'
<1>0. /\ selected \in Procs \cup {Idle}
      /\ current \in Procs \cup {Idle}
      /\ pc[current] = IF current = Idle THEN "check" ELSE "sched"
      /\ pc' = [pc EXCEPT ![current] =
                  IF current = Idle THEN "tested" ELSE "user"]
      /\ current' = selected /\ selected' = NULL
      /\ UNCHANGED <<state, sleep_address, notint, cpu_count, sigpending,
                     locked, wanted, need_resched, res>>
  BY Zenon DEF ContextSwitch, Goto, procvars, lockvars, SchedInv, TypeOK, CurrentOK
<1>a. \A x \in Procs : pc'[x] = IF x = current THEN "user" ELSE pc[x]
  BY Zenon, <1>0 DEF SchedInv, TypeOK
<1>1. TypeOK'
  BY Zenon, <1>0 DEF SchedInv, TypeOK, Labels
<1>2. LabelsOK'
  BY Zenon, <1>0 DEF SchedInv, TypeOK, LabelsOK, Labels
<1>3. ResourceOK'
  BY SMTT(30), <1>0, <1>a DEF SchedInv, ResourceOK, InKernel
<1>4. CurrentOK'
  BY SMTT(30), <1>0, <1>a DEF SchedInv, CurrentOK
<1>5. BlockedOK'
  BY SMTT(30), <1>0, <1>a DEF SchedInv, BlockedOK
<1>6. MutualExclusion'
  <2>1. \A x \in Procs : \A r \in Resources : Holds(x, r)' <=> Holds(x, r)
    BY Zenon, <1>0 DEF Holds, SchedInv, TypeOK
  <2> QED BY SMTT(30), <1>0, <2>1 DEF SchedInv, MutualExclusion
<1>7. NoLostWakeup'
  BY SMTT(30), <1>0, <1>a DEF SchedInv, NoLostWakeup
<1>8. SleepersHaveAddress'
  BY Zenon, <1>0 DEF SchedInv, SleepersHaveAddress
<1>9. CurrentIsRunnable'
  BY Zenon, <1>0 DEF SchedInv, CurrentIsRunnable
<1>10. IdleOnlyWhenNothingToRun'
  BY Zenon, <1>0 DEF SchedInv, IdleOnlyWhenNothingToRun, Run
<1> QED BY Zenon, <1>1, <1>2, <1>3, <1>4, <1>5, <1>6, <1>7, <1>8, <1>9,
    <1>10 DEF SchedInv

\* The idle loop halts: no process moves.
LEMMA HaltInv ==
    ASSUME SchedInv, Halt
    PROVE  SchedInv'
<1>0. /\ current = Idle /\ selected = NULL
      /\ pc' = [pc EXCEPT ![Idle] = "halt"]
      /\ UNCHANGED <<state, sleep_address, notint, cpu_count, sigpending,
                     locked, wanted, need_resched, current, selected, res>>
  BY Zenon DEF Halt, At, Goto, procvars, lockvars
<1>a. \A x \in Procs : pc'[x] = pc[x]
  BY Zenon, <1>0 DEF SchedInv, TypeOK
<1>1. TypeOK'
  BY Zenon, <1>0 DEF SchedInv, TypeOK
<1>2. LabelsOK'
  BY Zenon, <1>0 DEF SchedInv, TypeOK, LabelsOK
<1>3. ResourceOK'
  BY SMTT(30), <1>0, <1>a DEF SchedInv, ResourceOK, InKernel
<1>4. CurrentOK'
  BY SMTT(30), <1>0, <1>a DEF SchedInv, CurrentOK
<1>5. BlockedOK'
  BY SMTT(30), <1>0, <1>a DEF SchedInv, BlockedOK
<1>6. MutualExclusion'
  <2>1. \A x \in Procs : \A r \in Resources : Holds(x, r)' <=> Holds(x, r)
    BY Zenon, <1>0, <1>a DEF Holds
  <2> QED BY SMTT(30), <1>0, <2>1 DEF SchedInv, MutualExclusion
<1>7. NoLostWakeup'
  BY SMTT(30), <1>0, <1>a DEF SchedInv, NoLostWakeup
<1>8. SleepersHaveAddress'
  BY Zenon, <1>0 DEF SchedInv, SleepersHaveAddress
<1>9. CurrentIsRunnable'
  BY Zenon, <1>0 DEF SchedInv, CurrentIsRunnable
<1>10. IdleOnlyWhenNothingToRun'
  BY Zenon, <1>0 DEF SchedInv, IdleOnlyWhenNothingToRun, Run
<1> QED BY Zenon, <1>1, <1>2, <1>3, <1>4, <1>5, <1>6, <1>7, <1>8, <1>9,
    <1>10 DEF SchedInv

\* The timer interrupt changes no more than the quantum.
LEMMA TickInv ==
    ASSUME SchedInv, Tick
    PROVE  SchedInv'
<1>1. cpu_count' \in [Procs -> 0 .. Priority]
  BY DEF Tick, SchedInv, TypeOK
<1>2. need_resched' \in BOOLEAN /\ (need_resched => need_resched')
  BY ZenonT(40) DEF Tick
<1>3. Wakes({}) /\ NotRunning({})
  BY Zenon, <1>1, <1>2 DEF Tick, procvars, Wakes, NotRunning, SchedInv, TypeOK
<1> QED BY Zenon, <1>3, WakingStepInv DEF Tick, lockvars, SchedInv, TypeOK

\* A wakeup() of an interrupt handler, in any place of the interrupted code.
LEMMA IrqWakeupInv ==
    ASSUME SchedInv, NEW c \in Channels \cup IoChannels, IrqWakeup(c)
    PROVE  SchedInv'
<1>1. Wakes(Sleepers(c)) /\ NotRunning(Sleepers(c))
  BY Zenon, WakeupWakes DEF IrqWakeup, SchedInv, Addresses
<1>2. Sleepers(c) \in SUBSET Procs
  BY Zenon DEF Sleepers
<1> QED BY Zenon, <1>1, <1>2, WakingStepInv
    DEF IrqWakeup, lockvars, SchedInv, TypeOK

\* A send_sig() of an interrupt handler.
LEMMA IrqSignalInv ==
    ASSUME SchedInv, NEW q \in Procs, NEW sig \in Signals \ {"cont"},
           IrqSignal(q, sig)
    PROVE  SchedInv'
<1>1. /\ \E S \in SUBSET Procs : Wakes(S) /\ NotRunning(S)
      /\ sigpending' \in [Procs -> SUBSET {"catch", "stop"}]
  BY Zenon, SendSigWakes DEF IrqSignal, SchedInv
<1> QED BY Zenon, <1>1, WakingStepInv DEF IrqSignal, lockvars

----------------------------------------------------------------------------
\* Every step preserves the inductive invariant.
LEMMA NextSchedInv == SchedInv /\ [Next]_vars => SchedInv'
<1> SUFFICES ASSUME SchedInv, [Next]_vars PROVE SchedInv'
  BY Zenon
<1>1. ASSUME NEW p \in Procs, KernelStep(p) PROVE SchedInv'
  BY Zenon, <1>1, LockResourceInv, LockSleepInv, UnlockResourceInv, PsigInv,
     SchedSelectInv DEF KernelStep
<1>2. ASSUME NEW p \in Procs, SystemCall(p) PROVE SchedInv'
  BY Zenon, <1>2, CallLockInv, CallSleepInv, CallWakeupInv, HolderSleepInv,
     CallKillInv DEF SystemCall
<1>3. CASE SchedSelect(Idle)
  BY Zenon, <1>3, SchedSelectInv
<1>4. CASE ContextSwitch
  BY Zenon, <1>4, ContextSwitchInv
<1>5. CASE Interrupt
  BY Zenon, <1>5, TickInv, IrqWakeupInv, IrqSignalInv DEF Interrupt
<1>7. CASE Halt
  BY Zenon, <1>7, HaltInv
<1>6. CASE UNCHANGED vars
  <2> USE <1>6 DEF vars, SchedInv
  <2>1. TypeOK'
    BY Zenon DEF TypeOK
  <2>2. LabelsOK'
    BY Zenon DEF LabelsOK
  <2>3. ResourceOK'
    BY ZenonT(40) DEF ResourceOK
  <2>4. CurrentOK'
    BY ZenonT(40) DEF CurrentOK
  <2>5. BlockedOK'
    BY Zenon DEF BlockedOK
  <2>6. MutualExclusion'
    <3>1. \A x \in Procs : \A r \in Resources : Holds(x, r)' <=> Holds(x, r)
      BY Zenon DEF Holds
    <3> QED BY Zenon, <3>1 DEF MutualExclusion
  <2>7. NoLostWakeup'
    BY Zenon DEF NoLostWakeup
  <2>8. SleepersHaveAddress'
    BY Zenon DEF SleepersHaveAddress
  <2>9. CurrentIsRunnable'
    BY Zenon DEF CurrentIsRunnable
  <2>10. IdleOnlyWhenNothingToRun'
    BY Zenon DEF IdleOnlyWhenNothingToRun, Run
  <2> QED BY Zenon, <2>1, <2>2, <2>3, <2>4, <2>5, <2>6, <2>7, <2>8, <2>9,
      <2>10
<1> QED BY Zenon, <1>1, <1>2, <1>3, <1>4, <1>5, <1>6, <1>7 DEF Next

\* The inductive invariant holds in every state of the scheduler, sleep(),
\* wakeup() and lock_resource().
THEOREM SchedInvariance == Spec => []SchedInv
<1>1. Init => SchedInv
  BY Zenon, InitSchedInv
<1>2. SchedInv /\ [Next]_vars => SchedInv'
  BY NextSchedInv
<1> QED BY <1>1, <1>2, PTL DEF Spec

\* The fields of struct proc and struct resource keep their types.
THEOREM TypeCorrect == Spec => []TypeOK
BY SchedInvariance, PTL DEF SchedInv

\* lock_resource() and unlock_resource() give a resource to one process at a
\* time.
THEOREM LockExcludes == Spec => []MutualExclusion
BY SchedInvariance, PTL DEF SchedInv

\* Nobody sleeps in lock_resource() on a resource whose unlock_resource()
\* will not call wakeup(), in spite of the interrupts between the test and
\* the sleep().
THEOREM WakeupNotLost == Spec => []NoLostWakeup
BY SchedInvariance, PTL DEF SchedInv

\* A process can be woken exactly while it sleeps.
THEOREM SleepersAddressed == Spec => []SleepersHaveAddress
BY SchedInvariance, PTL DEF SchedInv

\* do_sched() runs only processes of the run list.
THEOREM RunsRunnable == Spec => []CurrentIsRunnable
BY SchedInvariance, PTL DEF SchedInv

\* The idle loop does not keep the CPU from a runnable process.
THEOREM IdleIsIdle == Spec => []IdleOnlyWhenNothingToRun
BY SchedInvariance, PTL DEF SchedInv
==============================================================================
