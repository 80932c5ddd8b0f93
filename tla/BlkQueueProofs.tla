--------------------------- MODULE BlkQueueProofs ---------------------------
(***************************************************************************)
(* Proofs about BlkQueue: its two safety invariants, for every set of      *)
(* processes, every size of the groups, both kinds of drivers, and with or *)
(* without failing transfers.                                              *)
(***************************************************************************)
EXTENDS BlkQueue, FiniteSetTheorems, SequenceTheorems, TLAPS

----------------------------------------------------------------------------
(* The inductive invariant. *)

Statuses == {"none", "queued", "processing", "completed"}

Labels == {"user", "adding", "run", "test", "tosleep", "asleep", "done"}

\* The types of the variables, `err' and `gerr' left out: they are results.
TypeOK ==
    /\ queue \in Seq(Requests)
    /\ status \in [Requests -> Statuses]
    /\ left \in [Procs -> Int]
    /\ added \in [Procs -> 0..MaxGroup]
    /\ grouped \in SUBSET Procs
    /\ wait_interrupt \in BOOLEAN /\ cli \in BOOLEAN
    /\ pc \in [Procs -> Labels]
    /\ current \in Procs \cup {NULL}
    /\ runner \in Procs \cup {IRQ, NULL}

\* A request is in the queue once, exactly while its status says so.
QueueOnce ==
    /\ \A i, j \in DOMAIN queue : queue[i] = queue[j] => i = j
    /\ \A br \in Requests :
          br \in Queued <=> status[br] \in {"queued", "processing"}

\* The transfer in progress is that of the first request.
Transfer ==
    /\ wait_interrupt => queue # <<>> /\ status[Head(queue)] = "processing"
    /\ \A i \in DOMAIN queue :
          status[queue[i]] = "processing" => i = 1 /\ wait_interrupt

\* What a call can have in the queue.
Pending(p) == {br \in Queued : Owner(br) = p}

CallOK(p) ==
    /\ pc[p] \in {"user", "done"} => Pending(p) = {}
    /\ pc[p] = "user" => p \notin grouped
    /\ pc[p] = "adding" => p \in grouped
    /\ p \in grouped => /\ left[p] = Cardinality(Pending(p))
                        /\ \A br \in Pending(p) : br[2] <= added[p]
    /\ p \notin grouped => Pending(p) \subseteq {<<p, 1>>}
    /\ pc[p] \in {"tosleep", "asleep"} => MustSleep(p)

CallsOK == \A p \in Procs : CallOK(p)

\* Who has the CPU.  Between run_blk_request() and its sleep a process masks
\* the interrupts, or the queue is empty and no interrupt is due.
CpuOK ==
    /\ runner = IRQ => current = NULL
    /\ runner \in Procs => current = runner /\ pc[runner] = "run"
    /\ \A p \in Procs : /\ pc[p] = "run" => runner = p
                        /\ pc[p] \in {"test", "tosleep"} => current = p
    /\ current # NULL =>
          /\ pc[current] \in {"run", "test", "tosleep", "done"}
          /\ runner = NULL => cli \/ queue = <<>>

IInv == TypeOK /\ QueueOnce /\ Transfer /\ CallsOK /\ CpuOK

USE BlkQueueAssumption

----------------------------------------------------------------------------
(* The queue as a set. *)

\* The queue and what a call has in it are finite sets.
LEMMA QueuedFinite ==
    ASSUME TypeOK
    PROVE  /\ IsFiniteSet(Queued)
           /\ \A p \in Procs : IsFiniteSet(Pending(p))
<1>1. IsFiniteSet(DOMAIN queue)
  BY FS_Interval, LenProperties DEF TypeOK
<1>2. queue \in Surjection(DOMAIN queue, Queued)
  BY LenProperties DEF TypeOK, Queued, Surjection
<1>3. IsFiniteSet(Queued)
  BY Zenon, <1>1, <1>2, FS_Surjection
<1> QED BY Zenon, <1>3, FS_Subset DEF Pending

\* add_blk_request() adds one element, at the end.
LEMMA QueueAppend ==
    ASSUME TypeOK, QueueOnce,
           NEW br \in Requests, br \notin Queued, queue' = Append(queue, br)
    PROVE  /\ queue' \in Seq(Requests) /\ queue' # <<>>
           /\ Queued' = Queued \cup {br}
           /\ \A i, j \in DOMAIN queue' : queue'[i] = queue'[j] => i = j
           /\ \A i \in DOMAIN queue' :
                 (i \in DOMAIN queue /\ queue'[i] = queue[i]) \/ queue'[i] = br
           /\ Head(queue') = IF queue = <<>> THEN br ELSE Head(queue)
<1>1. /\ queue \in Seq(Requests) /\ Len(queue) \in Nat
      /\ DOMAIN queue = 1..Len(queue)
      /\ queue = <<>> <=> Len(queue) = 0
  BY Zenon, LenProperties, EmptySeq DEF TypeOK
<1>2. /\ queue' \in Seq(Requests) /\ Len(queue') = Len(queue) + 1
      /\ DOMAIN queue' = 1..(Len(queue) + 1)
      /\ \A i \in 1..Len(queue) : queue'[i] = queue[i]
      /\ queue'[Len(queue) + 1] = br
  BY <1>1, AppendProperties
<1>3. \A i \in DOMAIN queue : queue[i] # br
  BY Zenon DEF Queued
<1>4. Queued' = Queued \cup {br}
  BY <1>1, <1>2 DEF Queued
<1>5. ASSUME NEW i \in DOMAIN queue', NEW j \in DOMAIN queue',
             queue'[i] = queue'[j]
      PROVE  i = j
  BY <1>1, <1>2, <1>3, <1>5 DEF QueueOnce
<1>6. Head(queue') = queue'[1]
  BY <1>2, HeadTailProperties, EmptySeq
<1>7. queue # <<>> => Head(queue) = queue[1]
  BY <1>1, HeadTailProperties
<1>8. Head(queue') = IF queue = <<>> THEN br ELSE Head(queue)
  BY SMTT(30), <1>1, <1>2, <1>6, <1>7
<1>9. queue' # <<>>
  BY <1>1, <1>2, EmptySeq
<1> QED BY SMTT(30), <1>1, <1>2, <1>4, <1>5, <1>8, <1>9

\* The end of a request takes the first element.
LEMMA QueueTail ==
    ASSUME TypeOK, QueueOnce, queue # <<>>, queue' = Tail(queue)
    PROVE  /\ queue' \in Seq(Requests)
           /\ Head(queue) \in Queued /\ Head(queue) \in Requests
           /\ Queued' = Queued \ {Head(queue)}
           /\ \A i, j \in DOMAIN queue' : queue'[i] = queue'[j] => i = j
           /\ \A i \in DOMAIN queue' :
                 \E j \in DOMAIN queue : j # 1 /\ queue'[i] = queue[j]
<1>1. /\ queue \in Seq(Requests) /\ Len(queue) \in Nat \ {0}
      /\ DOMAIN queue = 1..Len(queue)
  BY Zenon, LenProperties, EmptySeq DEF TypeOK
<1>2. /\ Head(queue) = queue[1]
      /\ queue' \in Seq(Requests) /\ DOMAIN queue' = 1..(Len(queue) - 1)
      /\ \A i \in 1..(Len(queue) - 1) : queue'[i] = queue[i + 1]
  BY <1>1, HeadTailProperties, LenProperties
<1>3. queue[1] \in Queued /\ queue[1] \in Requests
  BY <1>1, ElementOfSeq DEF Queued
<1>4. \A i \in DOMAIN queue' :
         /\ i + 1 \in DOMAIN queue /\ i + 1 # 1 /\ queue'[i] = queue[i + 1]
  BY <1>1, <1>2
<1>5. \A j \in DOMAIN queue : j # 1 => j - 1 \in DOMAIN queue' /\ queue'[j - 1] = queue[j]
  BY <1>1, <1>2
<1>6. Queued' = Queued \ {queue[1]}
  <2>1. ASSUME NEW x \in Queued' PROVE x \in Queued /\ x # queue[1]
    BY <1>1, <1>4 DEF Queued, QueueOnce
  <2>2. ASSUME NEW x \in Queued, x # queue[1] PROVE x \in Queued'
    BY <1>5, <2>2 DEF Queued
  <2> QED BY Zenon, <2>1, <2>2
<1>7. ASSUME NEW i \in DOMAIN queue', NEW j \in DOMAIN queue',
             queue'[i] = queue'[j]
      PROVE  i = j
  BY SMTT(30), <1>1, <1>2, <1>4, <1>7 DEF QueueOnce
<1> QED BY ZenonT(40), <1>2, <1>3, <1>4, <1>6, <1>7

----------------------------------------------------------------------------
(* The two ways the queue changes. *)

\* A call none of whose state changes stays as it is.
LEMMA CallSame ==
    ASSUME NEW q \in Procs, CallOK(q),
           pc'[q] = pc[q], left'[q] = left[q], added'[q] = added[q],
           q \in grouped' <=> q \in grouped,
           status'[<<q, 1>>] = status[<<q, 1>>], Pending(q)' = Pending(q)
    PROVE  CallOK(q)'
BY Zenon DEF CallOK, MustSleep

\* add_blk_request() of a request that is not in the queue keeps the queue
\* and the transfer in progress, and only its owner has one request more.
LEMMA AddKeeps ==
    ASSUME IInv, NEW p \in Procs, NEW i \in 1..MaxGroup,
           <<p, i>> \notin Queued,
           add_blk_request(<<p, i>>), UNCHANGED wait_interrupt
    PROVE  /\ queue' \in Seq(Requests) /\ queue' # <<>>
           /\ status' \in [Requests -> Statuses]
           /\ QueueOnce' /\ Transfer'
           /\ Pending(p)' = Pending(p) \cup {<<p, i>>}
           /\ \A q \in Procs \ {p} : Pending(q)' = Pending(q)
           /\ \A br \in Requests \ {<<p, i>>} : status'[br] = status[br]
<1> DEFINE br == <<p, i>>
<1>0. br \in Requests /\ Owner(br) = p
  BY Zenon DEF Requests, Owner
<1> HIDE DEF br
<1>1. /\ queue' = Append(queue, br)
      /\ status' = [status EXCEPT ![br] = "queued"]
      /\ wait_interrupt' = wait_interrupt /\ br \notin Queued
  BY Zenon DEF add_blk_request, br
<1>2. /\ queue' \in Seq(Requests) /\ queue' # <<>>
      /\ Queued' = Queued \cup {br}
      /\ \A m, n \in DOMAIN queue' : queue'[m] = queue'[n] => m = n
      /\ \A m \in DOMAIN queue' :
            (m \in DOMAIN queue /\ queue'[m] = queue[m]) \/ queue'[m] = br
      /\ Head(queue') = IF queue = <<>> THEN br ELSE Head(queue)
  BY Zenon, <1>0, <1>1, QueueAppend DEF IInv
<1>3. /\ status' \in [Requests -> Statuses] /\ status'[br] = "queued"
      /\ \A x \in Requests \ {br} : status'[x] = status[x]
  BY Zenon, <1>0, <1>1 DEF IInv, TypeOK, Statuses
<1>4. QueueOnce'
  BY Zenon, <1>0, <1>2, <1>3 DEF IInv, QueueOnce
<1>5. \A m \in DOMAIN queue : queue[m] \in Requests /\ queue[m] # br
  BY Zenon, <1>1, ElementOfSeq, LenProperties DEF Queued, IInv, TypeOK
<1>6. queue # <<>> => Head(queue) = queue[1] /\ 1 \in DOMAIN queue
  BY SMTT(30), HeadTailProperties, LenProperties, EmptySeq DEF IInv, TypeOK
<1>7. Transfer'
  BY SMTT(30), <1>1, <1>2, <1>3, <1>5, <1>6 DEF IInv, Transfer
<1>8. Pending(p)' = Pending(p) \cup {br} /\ \A q \in Procs \ {p} : Pending(q)' = Pending(q)
  BY Zenon, <1>0, <1>2 DEF Pending
<1> QED BY Zenon, <1>2, <1>3, <1>4, <1>7, <1>8 DEF br

\* The end of the first request, in run_blk_request() or in
\* ata_end_request(), while nobody is between its test and its sleep.
LEMMA EndKeeps ==
    ASSUME IInv, queue # <<>>, NEW e, Dequeue(Head(queue), e),
           WakeOwner(Head(queue)), UNCHANGED <<added, grouped>>,
           ~wait_interrupt',
           \A p \in Procs : pc[p] # "tosleep"
    PROVE  /\ queue' \in Seq(Requests)
           /\ status' \in [Requests -> Statuses]
           /\ left' \in [Procs -> Int]
           /\ pc' \in [Procs -> Labels]
           /\ QueueOnce' /\ Transfer' /\ CallsOK'
           /\ \A q \in Procs :
                 pc'[q] = pc[q] \/ (pc[q] = "asleep" /\ pc'[q] = "done")
<1>1. PICK br \in Requests : br = Head(queue) /\ br \in Queued
  <2>1. queue' = Tail(queue)
    BY Zenon DEF Dequeue
  <2> QED BY Zenon, <2>1, QueueTail DEF IInv
<1>2. PICK p \in Procs : p = Owner(br)
  BY Zenon DEF Requests, Owner
<1>3. /\ queue' = Tail(queue)
      /\ status' = [status EXCEPT ![br] = "completed"]
      /\ left' = IF p \in grouped THEN [left EXCEPT ![p] = @ - 1] ELSE left
      /\ added' = added /\ grouped' = grouped
  BY Zenon, <1>1, <1>2 DEF Dequeue
<1>4. pc' = IF (p \notin grouped \/ left[p] = 1) /\ pc[p] = "asleep"
            THEN [pc EXCEPT ![p] = "done"] ELSE pc
  BY Zenon, <1>1, <1>2 DEF WakeOwner
<1>5. /\ queue' \in Seq(Requests)
      /\ Queued' = Queued \ {br}
      /\ \A m, n \in DOMAIN queue' : queue'[m] = queue'[n] => m = n
      /\ \A m \in DOMAIN queue' :
            \E n \in DOMAIN queue : n # 1 /\ queue'[m] = queue[n]
  BY Zenon, <1>1, <1>3, QueueTail DEF IInv
<1>6. /\ status' \in [Requests -> Statuses] /\ status'[br] = "completed"
      /\ \A x \in Requests \ {br} : status'[x] = status[x]
  BY Zenon, <1>3 DEF IInv, TypeOK, Statuses
<1>7. /\ left' \in [Procs -> Int] /\ left[p] \in Int
      /\ p \in grouped => left'[p] = left[p] - 1
      /\ \A q \in Procs \ {p} : left'[q] = left[q]
  BY SMTT(30), <1>3 DEF IInv, TypeOK
<1>8. /\ pc' \in [Procs -> Labels]
      /\ \A q \in Procs \ {p} : pc'[q] = pc[q]
      /\ pc'[p] = IF (p \notin grouped \/ left[p] = 1) /\ pc[p] = "asleep"
                  THEN "done" ELSE pc[p]
  BY Zenon, <1>4 DEF IInv, TypeOK, Labels
<1>9. QueueOnce'
  BY Zenon, <1>5, <1>6 DEF IInv, QueueOnce
<1>10. Transfer'
  <2>1. \A n \in DOMAIN queue : queue[n] \in Requests
    BY Zenon, ElementOfSeq, LenProperties DEF IInv, TypeOK
  <2>2. ASSUME NEW m \in DOMAIN queue' PROVE status'[queue'[m]] # "processing"
    <3>1. PICK n \in DOMAIN queue : n # 1 /\ queue'[m] = queue[n]
      BY Zenon, <1>5
    <3>2. queue[n] # br => status'[queue[n]] = status[queue[n]]
      BY Zenon, <1>6, <2>1
    <3> QED BY Zenon, <1>6, <3>1, <3>2 DEF IInv, Transfer
  <2> QED BY Zenon, <2>2 DEF Transfer
<1>11. /\ br \in Pending(p) /\ Pending(p)' = Pending(p) \ {br}
       /\ \A q \in Procs \ {p} : Pending(q)' = Pending(q)
  BY Zenon, <1>1, <1>2, <1>5 DEF Pending
<1>12. /\ Cardinality(Pending(p)) \in Nat
       /\ Cardinality(Pending(p)') = Cardinality(Pending(p)) - 1
       /\ Cardinality(Pending(p)') = 0 <=> Pending(p)' = {}
  <2>1. IsFiniteSet(Pending(p))
    BY Zenon, QueuedFinite DEF IInv
  <2>2. IsFiniteSet(Pending(p)')
    BY SMTT(30), <1>11, <2>1, FS_RemoveElement
  <2> QED BY SMTT(30), <1>11, <2>1, <2>2, FS_RemoveElement, FS_CardinalityType, FS_EmptySet
<1>13. CallsOK'
  <2>1. ASSUME NEW q \in Procs \ {p} PROVE CallOK(q)'
    <3>1. <<q, 1>> \in Requests /\ <<q, 1>> # br
      BY SMTT(30), <1>2 DEF Requests, Owner
    <3>2. CallOK(q) /\ status'[<<q, 1>>] = status[<<q, 1>>]
      BY Zenon, <1>6, <3>1 DEF IInv, CallsOK
    <3> QED BY Zenon, <1>3, <1>7, <1>8, <1>11, <3>2, CallSame
  <2>2. CallOK(p) /\ pc[p] # "tosleep"
    BY Zenon DEF IInv, CallsOK
  <2>3. CASE p \in grouped
    <3>1. /\ left'[p] = Cardinality(Pending(p)')
          /\ \A x \in Pending(p)' : x[2] <= added'[p]
          /\ left[p] = 1 => Pending(p)' = {}
          /\ pc[p] \notin {"user", "done"}
      BY SMTT(30), <1>3, <1>7, <1>11, <1>12, <2>2, <2>3 DEF CallOK
    <3>2. pc'[p] = "asleep" => left'[p] # 0
      BY SMTT(30), <1>7, <1>8, <2>3
    <3>3. CallOK(p)'
      BY Zenon, <1>3, <1>8, <2>2, <2>3, <3>1, <3>2 DEF CallOK, MustSleep
    <3> QED BY Zenon, <2>1, <3>3 DEF CallsOK
  <2>4. CASE p \notin grouped
    <3>1. /\ Pending(p)' = {} /\ pc[p] \notin {"user", "done", "adding"}
          /\ pc'[p] \notin {"asleep", "tosleep"}
      BY Zenon, <1>8, <1>11, <2>2, <2>4 DEF CallOK
    <3>2. CallOK(p)'
      BY Zenon, <1>3, <1>8, <2>4, <3>1 DEF CallOK
    <3> QED BY Zenon, <2>1, <3>2 DEF CallsOK
  <2> QED BY Zenon, <2>3, <2>4
<1>14. \A q \in Procs : pc'[q] = pc[q] \/ (pc[q] = "asleep" /\ pc'[q] = "done")
  BY Zenon, <1>8
<1> QED BY Zenon, <1>5, <1>6, <1>7, <1>8, <1>9, <1>10, <1>13, <1>14

----------------------------------------------------------------------------
(* Every step keeps the invariant. *)

\* The queue is empty and nobody is in a call.
LEMMA InitIInv ==
    ASSUME Init
    PROVE  IInv
<1>1. Queued = {} /\ \A p \in Procs : Pending(p) = {}
  BY DEF Init, Queued, Pending
<1>2. TypeOK
  <2>1. queue \in Seq(Requests)
    BY Zenon, EmptySeq DEF Init
  <2>2. /\ status \in [Requests -> Statuses] /\ left \in [Procs -> Int]
        /\ added \in [Procs -> 0..MaxGroup] /\ grouped \in SUBSET Procs
        /\ pc \in [Procs -> Labels]
    BY DEF Init, Statuses, Labels
  <2> QED BY Zenon, <2>1, <2>2 DEF Init, TypeOK
<1>3. QueueOnce /\ Transfer /\ CpuOK
  BY <1>1 DEF Init, QueueOnce, Transfer, CpuOK
<1>4. CallsOK
  BY Zenon, <1>1 DEF Init, CallsOK, CallOK
<1> QED BY Zenon, <1>2, <1>3, <1>4 DEF IInv

\* A process that enters holds no CPU yet: only its call's label is "user".
LEMMA DoBlkRequestKeeps ==
    ASSUME IInv, NEW p \in Procs, do_blk_request(p)
    PROVE  IInv'
<1>0. /\ runner = NULL /\ pc[p] = "user" /\ current \in {NULL, p}
      /\ pc' = [pc EXCEPT ![p] = "run"] /\ current' = p /\ runner' = p
      /\ UNCHANGED <<left, added, grouped, cli, wait_interrupt>>
      /\ add_blk_request(<<p, 1>>)
  BY Zenon DEF do_blk_request, At, callvars
<1>1. p \notin grouped /\ Pending(p) = {} /\ <<p, 1>> \notin Queued
  BY Zenon, <1>0 DEF IInv, CallsOK, CallOK, Pending, Owner
<1>2. /\ queue' \in Seq(Requests) /\ queue' # <<>>
      /\ status' \in [Requests -> Statuses]
      /\ QueueOnce' /\ Transfer'
      /\ Pending(p)' = Pending(p) \cup {<<p, 1>>}
      /\ \A q \in Procs \ {p} : Pending(q)' = Pending(q)
      /\ \A br \in Requests \ {<<p, 1>>} : status'[br] = status[br]
  <2>1. 1 \in 1..MaxGroup /\ wait_interrupt' = wait_interrupt
    BY <1>0
  <2> QED BY Zenon, <1>0, <1>1, <2>1, AddKeeps
<1>3. TypeOK'
  BY Zenon, <1>0, <1>2 DEF IInv, TypeOK, Labels
<1>4. pc'[p] = "run" /\ \A q \in Procs \ {p} : pc'[q] = pc[q]
  BY Zenon, <1>0 DEF IInv, TypeOK
<1>5. CallsOK'
  <2>1. ASSUME NEW q \in Procs \ {p} PROVE CallOK(q)'
    <3>1. <<q, 1>> \in Requests \ {<<p, 1>>}
      BY DEF Requests
    <3>2. CallOK(q)
      BY Zenon DEF IInv, CallsOK
    <3> QED BY Zenon, <1>0, <1>2, <1>4, <3>1, <3>2, CallSame
  <2>2. CallOK(p)'
    BY Zenon, <1>0, <1>1, <1>2, <1>4 DEF CallOK
  <2> QED BY Zenon, <2>1, <2>2 DEF CallsOK
<1>6. CpuOK'
  BY ZenonT(40), <1>0, <1>4 DEF IInv, TypeOK, CpuOK
<1> QED BY Zenon, <1>2, <1>3, <1>5, <1>6 DEF IInv

\* gbread() clears the group header before it queues anything.
LEMMA GbreadKeeps ==
    ASSUME IInv, NEW p \in Procs, gbread(p)
    PROVE  IInv'
<1>0. /\ runner = NULL /\ pc[p] = "user" /\ current \in {NULL, p}
      /\ pc' = [pc EXCEPT ![p] = "adding"]
      /\ left' = [left EXCEPT ![p] = 0] /\ added' = [added EXCEPT ![p] = 0]
      /\ grouped' = grouped \cup {p}
      /\ UNCHANGED <<queue, status, wait_interrupt, current, cli, runner>>
  BY Zenon DEF gbread, At, cpuvars
<1>1. Queued' = Queued /\ \A q \in Procs : Pending(q)' = Pending(q)
  BY Zenon, <1>0 DEF Queued, Pending
<1>7. Pending(p) = {} /\ Cardinality(Pending(p)) = 0
  BY ZenonT(40), <1>0, FS_EmptySet DEF IInv, CallsOK, CallOK
<1>2. TypeOK'
  BY <1>0 DEF IInv, TypeOK, Labels
<1>3. /\ pc'[p] = "adding" /\ left'[p] = 0
      /\ \A q \in Procs \ {p} : pc'[q] = pc[q] /\ left'[q] = left[q] /\ added'[q] = added[q]
  BY Zenon, <1>0 DEF IInv, TypeOK
<1>4. QueueOnce' /\ Transfer'
  BY Zenon, <1>0, <1>1 DEF IInv, QueueOnce, Transfer
<1>5. CallsOK'
  <2>1. ASSUME NEW q \in Procs \ {p} PROVE CallOK(q)'
    <3>1. CallOK(q)
      BY Zenon DEF IInv, CallsOK
    <3> QED BY Zenon, <1>0, <1>1, <1>3, <3>1, CallSame
  <2>2. CallOK(p)'
    BY Zenon, <1>0, <1>1, <1>3, <1>7 DEF CallOK
  <2> QED BY Zenon, <2>1, <2>2 DEF CallsOK
<1>6. CpuOK'
  BY ZenonT(40), <1>0, <1>3 DEF IInv, TypeOK, CpuOK
<1> QED BY Zenon, <1>2, <1>4, <1>5, <1>6 DEF IInv

\* gbread() queues the next request of the group, or passes over a valid buffer.
LEMMA GroupAddKeeps ==
    ASSUME IInv, NEW p \in Procs, GroupAdd(p)
    PROVE  IInv'
<1>0. /\ runner = NULL /\ pc[p] = "adding" /\ current \in {NULL, p}
      /\ added[p] < MaxGroup /\ added' = [added EXCEPT ![p] = @ + 1]
      /\ UNCHANGED <<grouped, wait_interrupt, pc, current, cli, runner>>
      /\ added[p] \in 0..MaxGroup
  BY Zenon DEF GroupAdd, At, cpuvars, IInv, TypeOK
<1>1. PICK i \in 1..MaxGroup : i = added[p] + 1
  BY SMTT(30), <1>0
<1>2. CallOK(p) /\ p \in grouped
  BY Zenon, <1>0 DEF IInv, CallsOK, CallOK
<1>7. <<p, i>> \notin Queued
  <2>1. <<p, i>> \in Queued => i <= added[p]
    BY SMTT(30), <1>2 DEF CallOK, Pending, Owner
  <2> QED BY SMTT(30), <1>0, <1>1, <2>1
<1>3. /\ added' \in [Procs -> 0..MaxGroup] /\ added'[p] = i
      /\ \A q \in Procs \ {p} : added'[q] = added[q]
  BY SMTT(30), <1>0, <1>1 DEF IInv, TypeOK
<1>4. current = NULL
  BY Zenon, <1>0 DEF IInv, CpuOK
<1>5. CASE left' = [left EXCEPT ![p] = @ + 1] /\ add_blk_request(<<p, i>>)
  <2>1. /\ queue' \in Seq(Requests) /\ queue' # <<>>
        /\ status' \in [Requests -> Statuses]
        /\ QueueOnce' /\ Transfer'
        /\ Pending(p)' = Pending(p) \cup {<<p, i>>}
        /\ \A q \in Procs \ {p} : Pending(q)' = Pending(q)
        /\ \A br \in Requests \ {<<p, i>>} : status'[br] = status[br]
    BY Zenon, <1>0, <1>7, <1>5, AddKeeps
  <2>2. /\ left' \in [Procs -> Int] /\ left'[p] = left[p] + 1
        /\ \A q \in Procs \ {p} : left'[q] = left[q]
    BY SMTT(30), <1>5 DEF IInv, TypeOK
  <2>3. TypeOK'
    BY Zenon, <1>0, <1>3, <2>1, <2>2 DEF IInv, TypeOK
  <2>4. left'[p] = Cardinality(Pending(p)')
    <3>1. IsFiniteSet(Pending(p)) /\ <<p, i>> \notin Pending(p)
      BY Zenon, <1>7, QueuedFinite DEF IInv, Pending
    <3>2. Cardinality(Pending(p) \cup {<<p, i>>}) = Cardinality(Pending(p)) + 1
      BY Zenon, <3>1, FS_AddElement
    <3> QED BY Zenon, <1>2, <2>1, <2>2, <3>2 DEF CallOK
  <2>5. \A br \in Pending(p)' : br[2] <= added'[p]
    <3>1. \A br \in Pending(p) : br[2] <= added[p] /\ br[2] \in Int
      <4>1. \A br \in Queued : br[2] \in Int
        BY ElementOfSeq, LenProperties DEF IInv, TypeOK, Queued, Requests
      <4> QED BY Zenon, <1>2, <4>1 DEF CallOK, Pending
    <3>2. <<p, i>>[2] = i /\ added[p] <= i /\ added[p] \in Int
      BY SMTT(30), <1>0, <1>1
    <3> QED BY <1>3, <2>1, <3>1, <3>2
  <2>6. ASSUME NEW q \in Procs \ {p} PROVE CallOK(q)'
    <3>1. <<q, 1>> \in Requests \ {<<p, i>>}
      BY DEF Requests
    <3>2. CallOK(q)
      BY Zenon DEF IInv, CallsOK
    <3> QED BY ZenonT(40), <1>0, <1>3, <2>1, <2>2, <3>1, <3>2, CallSame
  <2>7. CallsOK'
    <3>1. CallOK(p)'
      BY Zenon, <1>0, <1>2, <2>4, <2>5 DEF CallOK
    <3> QED BY Zenon, <2>6, <3>1 DEF CallsOK
  <2>8. CpuOK'
    BY Zenon, <1>0, <1>4 DEF IInv, CpuOK
  <2> QED BY Zenon, <2>1, <2>3, <2>7, <2>8 DEF IInv
<1>6. CASE UNCHANGED <<queue, status, err, left>>
  <2>1. Queued' = Queued /\ \A q \in Procs : Pending(q)' = Pending(q)
    BY Zenon, <1>6 DEF Queued, Pending
  <2>2. TypeOK'
    BY Zenon, <1>0, <1>3, <1>6 DEF IInv, TypeOK
  <2>3. QueueOnce' /\ Transfer'
    BY Zenon, <1>0, <1>6, <2>1 DEF IInv, QueueOnce, Transfer
  <2>4. \A br \in Pending(p)' : br[2] <= added'[p]
    <3>1. \A br \in Pending(p) : br[2] <= added[p] /\ br[2] \in Int
      <4>1. \A br \in Queued : br[2] \in Int
        BY ElementOfSeq, LenProperties DEF IInv, TypeOK, Queued, Requests
      <4> QED BY Zenon, <1>2, <4>1 DEF CallOK, Pending
    <3>2. added[p] <= i /\ added[p] \in Int
      BY SMTT(30), <1>0, <1>1
    <3> QED BY SMTT(30), <1>3, <2>1, <3>1, <3>2
  <2>5. CallsOK'
    <3>1. ASSUME NEW q \in Procs \ {p} PROVE CallOK(q)'
      <4>1. CallOK(q)
        BY Zenon DEF IInv, CallsOK
      <4> QED BY Zenon, <1>0, <1>3, <1>6, <2>1, <4>1, CallSame
    <3>2. CallOK(p)'
      BY Zenon, <1>0, <1>2, <1>6, <2>1, <2>4 DEF CallOK
    <3> QED BY Zenon, <3>1, <3>2 DEF CallsOK
  <2>6. CpuOK'
    BY Zenon, <1>0, <1>4 DEF IInv, CpuOK
  <2> QED BY Zenon, <2>2, <2>3, <2>5, <2>6 DEF IInv
<1> QED BY Zenon, <1>1, <1>5, <1>6 DEF GroupAdd

\* gbread() calls run_blk_request().
LEMMA GroupRunKeeps ==
    ASSUME IInv, NEW p \in Procs, GroupRun(p)
    PROVE  IInv'
<1>0. /\ runner = NULL /\ pc[p] = "adding" /\ current \in {NULL, p}
      /\ pc' = [pc EXCEPT ![p] = "run"] /\ current' = p /\ runner' = p
      /\ UNCHANGED <<queue, status, left, added, grouped, cli, wait_interrupt>>
  BY Zenon DEF GroupRun, At, reqvars, callvars
<1>1. Queued' = Queued /\ \A q \in Procs : Pending(q)' = Pending(q)
  BY Zenon, <1>0 DEF Queued, Pending
<1>2. TypeOK'
  BY Zenon, <1>0 DEF IInv, TypeOK, Labels
<1>3. pc'[p] = "run" /\ \A q \in Procs \ {p} : pc'[q] = pc[q]
  BY Zenon, <1>0 DEF IInv, TypeOK
<1>4. QueueOnce' /\ Transfer'
  BY Zenon, <1>0, <1>1 DEF IInv, QueueOnce, Transfer
<1>5. CallsOK'
  <2>1. ASSUME NEW q \in Procs \ {p} PROVE CallOK(q)'
    <3>1. CallOK(q)
      BY Zenon DEF IInv, CallsOK
    <3> QED BY Zenon, <1>0, <1>1, <1>3, <3>1, CallSame
  <2>2. CallOK(p)'
    BY Zenon, <1>0, <1>1, <1>3 DEF IInv, CallsOK, CallOK
  <2> QED BY Zenon, <2>1, <2>2 DEF CallsOK
<1>6. CpuOK'
  BY ZenonT(40), <1>0, <1>3 DEF IInv, TypeOK, CpuOK
<1> QED BY Zenon, <1>2, <1>4, <1>5, <1>6 DEF IInv

\* The caller of run_blk_request() goes on to its test; the interrupt handler
\* has nothing to test.
LEMMA AfterRunLabels ==
    ASSUME IInv, runner # NULL, pc' = AfterRun
    PROVE  /\ pc' \in [Procs -> Labels]
           /\ \A q \in Procs : \/ pc'[q] = pc[q] /\ q # runner
                               \/ pc[q] = "run" /\ pc'[q] = "test" /\ q = runner
<1>1. CASE runner \in Procs
  <2>1. pc' = [pc EXCEPT ![runner] = "test"] /\ pc[runner] = "run"
    BY Zenon, <1>1 DEF AfterRun, IInv, CpuOK
  <2> QED BY Zenon, <1>1, <2>1 DEF IInv, TypeOK, Labels
<1>2. CASE runner \notin Procs
  BY Zenon, <1>2 DEF AfterRun, IInv, TypeOK
<1> QED BY Zenon, <1>1, <1>2

\* The end of run_blk_request() with the requests as they are, except that
\* the first one may have been started.
LEMMA LeaveRunKeeps ==
    ASSUME IInv, runner # NULL, pc' = AfterRun,
           NEW masked \in BOOLEAN, LeaveRun(masked),
           masked \/ queue = <<>>,
           UNCHANGED <<queue, left, added, grouped, current>>,
           status' \in [Requests -> Statuses], wait_interrupt' \in BOOLEAN,
           QueueOnce', Transfer',
           \A br \in Requests : status'[br] = "completed" <=> status[br] = "completed"
    PROVE  IInv'
<1>1. /\ pc' \in [Procs -> Labels]
      /\ \A q \in Procs : \/ pc'[q] = pc[q] /\ q # runner
                          \/ pc[q] = "run" /\ pc'[q] = "test" /\ q = runner
  BY Zenon, AfterRunLabels
<1>2. /\ runner' = NULL /\ cli' = (masked /\ runner \in Procs)
      /\ queue' = queue /\ left' = left /\ added' = added
      /\ grouped' = grouped /\ current' = current
  BY Zenon DEF LeaveRun
<1>3. cli' \in BOOLEAN
  BY Zenon, <1>2
<1>4. TypeOK'
  BY Zenon, <1>1, <1>2, <1>3 DEF IInv, TypeOK
<1>5. Queued' = Queued /\ \A q \in Procs : Pending(q)' = Pending(q)
  BY Zenon, <1>2 DEF Queued, Pending
<1>6. ASSUME NEW q \in Procs PROVE CallOK(q)'
  <2>1. CallOK(q) /\ <<q, 1>> \in Requests
    BY SMTT(30) DEF IInv, CallsOK, Requests
  <2>2. MustSleep(q)' = MustSleep(q)
    BY Zenon, <1>2, <2>1 DEF MustSleep
  <2>3. pc'[q] = pc[q] \/ pc'[q] = "test"
    BY Zenon, <1>1
  <2> QED BY Zenon, <1>2, <1>5, <2>1, <2>2, <2>3 DEF CallOK
<1>7. CpuOK'
  <2>1. CASE runner \in Procs
    <3>1. current' = runner /\ pc'[runner] = "test"
      BY Zenon, <1>1, <1>2, <2>1 DEF IInv, CpuOK
    <3>2. cli' \/ queue' = <<>>
      BY Zenon, <1>2, <2>1
    <3>3. \A q \in Procs : pc'[q] \in {"run", "test", "tosleep"} => q = runner
      BY SMTT(30), <1>1, <2>1 DEF IInv, CpuOK
    <3> QED BY Zenon, <1>2, <2>1, <3>1, <3>2, <3>3 DEF CpuOK
  <2>2. CASE runner \notin Procs
    <3>1. current' = NULL /\ \A q \in Procs : pc'[q] = pc[q] /\ pc[q] # "run"
      BY <1>1, <1>2, <2>2 DEF IInv, TypeOK, CpuOK
    <3> QED BY Zenon, <1>2, <3>1 DEF IInv, CpuOK
  <2> QED BY Zenon, <2>1, <2>2
<1> QED BY Zenon, <1>4, <1>6, <1>7 DEF IInv, CallsOK

\* The first request of a queue that is not empty.
LEMMA HeadQueued ==
    ASSUME TypeOK, queue # <<>>
    PROVE  /\ Head(queue) = queue[1] /\ 1 \in DOMAIN queue
           /\ Head(queue) \in Queued /\ Head(queue) \in Requests
           /\ \A n \in DOMAIN queue : queue[n] \in Requests
<1>1. /\ queue \in Seq(Requests) /\ Len(queue) \in Nat \ {0}
      /\ DOMAIN queue = 1..Len(queue)
  BY Zenon, LenProperties, EmptySeq DEF TypeOK
<1>2. Head(queue) = queue[1]
  BY SMTT(30), <1>1, HeadTailProperties
<1> QED BY SMTT(30), <1>1, <1>2, ElementOfSeq DEF Queued

\* run_blk_request() starts the transfer of the first request and returns.
LEMMA RunStartKeeps ==
    ASSUME IInv, RunStart
    PROVE  IInv'
<1>1. /\ queue # <<>> /\ status[Head(queue)] = "queued"
      /\ status' = [status EXCEPT ![Head(queue)] = "processing"]
      /\ wait_interrupt' = TRUE /\ runner # NULL /\ pc' = AfterRun
      /\ LeaveRun(TRUE)
      /\ UNCHANGED <<queue, left, added, grouped, current>>
  BY ZenonT(40) DEF RunStart, HeadStartable, Startable, callvars
<1>2. PICK br \in Requests :
         /\ br = Head(queue) /\ br = queue[1] /\ br \in Queued
         /\ 1 \in DOMAIN queue /\ \A n \in DOMAIN queue : queue[n] \in Requests
  BY Zenon, <1>1, HeadQueued DEF IInv
<1>3. /\ status' \in [Requests -> Statuses] /\ status'[br] = "processing"
      /\ \A x \in Requests \ {br} : status'[x] = status[x]
  BY Zenon, <1>1, <1>2 DEF IInv, TypeOK, Statuses
<1>4. QueueOnce'
  <2>1. Queued' = Queued
    BY Zenon, <1>1 DEF Queued
  <2> QED BY Zenon, <1>1, <1>2, <1>3, <2>1 DEF IInv, QueueOnce
<1>5. Transfer'
  <2>1. ~wait_interrupt
    BY Zenon, <1>1 DEF IInv, Transfer
  <2>2. \A n \in DOMAIN queue : status'[queue[n]] = "processing" => n = 1
    BY Zenon, <1>2, <1>3, <2>1 DEF IInv, Transfer, QueueOnce
  <2>3. queue' = queue /\ Head(queue') = br
    BY Zenon, <1>1, <1>2
  <2> QED BY Zenon, <1>1, <1>3, <2>2, <2>3 DEF Transfer
<1>6. \A x \in Requests : status'[x] = "completed" <=> status[x] = "completed"
  BY Zenon, <1>1, <1>2, <1>3
<1> QED BY Zenon, <1>1, <1>3, <1>4, <1>5, <1>6, LeaveRunKeeps

\* run_blk_request() finds nothing to start and returns.
LEMMA RunEndKeeps ==
    ASSUME IInv, RunEnd
    PROVE  IInv'
<1>1. /\ runner # NULL /\ pc' = AfterRun /\ LeaveRun(queue # <<>>)
      /\ UNCHANGED <<queue, status, left, added, grouped, wait_interrupt, current>>
  BY Zenon DEF RunEnd, reqvars, callvars
<1>2. Queued' = Queued
  BY Zenon, <1>1 DEF Queued
<1>3. QueueOnce' /\ Transfer'
  BY Zenon, <1>1, <1>2 DEF IInv, QueueOnce, Transfer
<1>4. status' \in [Requests -> Statuses] /\ wait_interrupt' \in BOOLEAN
  BY Zenon, <1>1 DEF IInv, TypeOK
<1>5. \A x \in Requests : status'[x] = "completed" <=> status[x] = "completed"
  BY Zenon, <1>1
<1>6. (queue # <<>>) \in BOOLEAN /\ ((queue # <<>>) \/ queue = <<>>)
  BY Zenon
<1> QED BY Zenon, <1>1, <1>3, <1>4, <1>5, <1>6, LeaveRunKeeps

\* A driver that answers at once ends the first request.
LEMMA RunAnswerKeeps ==
    ASSUME IInv, NEW e \in {-1, 1}, RunAnswer(e)
    PROVE  IInv'
<1>1. /\ runner # NULL /\ queue # <<>> /\ status[Head(queue)] = "queued"
      /\ Dequeue(Head(queue), e) /\ WakeOwner(Head(queue))
      /\ UNCHANGED <<added, grouped, wait_interrupt, current, cli, runner>>
  BY Zenon DEF RunAnswer, HeadStartable, Startable, callvars, cpuvars
<1>2. ~wait_interrupt'
  BY Zenon, <1>1 DEF IInv, Transfer
<1>3. \A p \in Procs : pc[p] # "tosleep"
  BY Zenon, <1>1 DEF IInv, TypeOK, CpuOK
<1>4. /\ queue' \in Seq(Requests)
      /\ status' \in [Requests -> Statuses]
      /\ left' \in [Procs -> Int]
      /\ pc' \in [Procs -> Labels]
      /\ QueueOnce' /\ Transfer' /\ CallsOK'
      /\ \A q \in Procs :
            pc'[q] = pc[q] \/ (pc[q] = "asleep" /\ pc'[q] = "done")
  BY Zenon, <1>1, <1>2, <1>3, EndKeeps
<1>5. TypeOK'
  BY Zenon, <1>1, <1>4 DEF IInv, TypeOK
<1>6. CpuOK'
  BY Zenon, <1>1, <1>4 DEF IInv, TypeOK, CpuOK
<1> QED BY Zenon, <1>4, <1>5, <1>6 DEF IInv

\* The interrupt comes while nobody has the CPU, or finds the queue empty:
\* nobody is between its test and its sleep.
LEMMA EndRequestKeeps ==
    ASSUME IInv, NEW e \in {-1, 1}, EndRequest(e)
    PROVE  IInv'
<1>1. /\ runner = NULL /\ ~cli /\ queue # <<>> /\ ~wait_interrupt'
      /\ wait_interrupt' \in BOOLEAN
      /\ Dequeue(Head(queue), e) /\ WakeOwner(Head(queue))
      /\ runner' \in {IRQ, NULL}
      /\ UNCHANGED <<added, grouped, current, cli>>
  BY Zenon DEF EndRequest, Interruptible, NextRunner, callvars
<1>2. current = NULL
  BY Zenon, <1>1 DEF IInv, CpuOK
<1>3. \A p \in Procs : pc[p] # "tosleep"
  BY Zenon, <1>2 DEF IInv, CpuOK
<1>4. /\ queue' \in Seq(Requests)
      /\ status' \in [Requests -> Statuses]
      /\ left' \in [Procs -> Int]
      /\ pc' \in [Procs -> Labels]
      /\ QueueOnce' /\ Transfer' /\ CallsOK'
      /\ \A q \in Procs :
            pc'[q] = pc[q] \/ (pc[q] = "asleep" /\ pc'[q] = "done")
  BY Zenon, <1>1, <1>3, EndKeeps
<1>5. TypeOK'
  BY Zenon, <1>1, <1>4 DEF IInv, TypeOK
<1>6. CpuOK'
  BY Zenon, <1>1, <1>2, <1>4 DEF IInv, TypeOK, CpuOK
<1> QED BY Zenon, <1>4, <1>5, <1>6 DEF IInv

\* A call tests whether its answer has come.
LEMMA TestKeeps ==
    ASSUME IInv, NEW p \in Procs, Test(p)
    PROVE  IInv'
<1>0. /\ runner = NULL /\ pc[p] = "test" /\ current \in {NULL, p}
      /\ pc' = [pc EXCEPT ![p] = IF MustSleep(p) THEN "tosleep" ELSE "done"]
      /\ UNCHANGED <<queue, status, left, added, grouped, wait_interrupt,
                     current, cli, runner>>
  BY Zenon DEF Test, At, reqvars, callvars, cpuvars
<1>1. Queued' = Queued /\ \A q \in Procs : Pending(q)' = Pending(q)
  BY Zenon, <1>0 DEF Queued, Pending
<1>2. /\ pc' \in [Procs -> Labels]
      /\ pc'[p] = IF MustSleep(p) THEN "tosleep" ELSE "done"
      /\ \A q \in Procs \ {p} : pc'[q] = pc[q]
  BY Zenon, <1>0 DEF IInv, TypeOK, Labels
<1>3. TypeOK'
  BY Zenon, <1>0, <1>2 DEF IInv, TypeOK
<1>4. QueueOnce' /\ Transfer'
  BY Zenon, <1>0, <1>1 DEF IInv, QueueOnce, Transfer
<1>5. CallOK(p)'
  <2>1. CallOK(p) /\ MustSleep(p)' = MustSleep(p)
    BY Zenon, <1>0 DEF IInv, CallsOK, MustSleep
  <2>2. ~MustSleep(p) => Pending(p) = {}
    <3>1. CASE p \in grouped
      BY Zenon, <2>1, <3>1, QueuedFinite, FS_EmptySet DEF MustSleep, CallOK, IInv
    <3>2. CASE p \notin grouped
      <4>1. <<p, 1>> \in Requests /\ Pending(p) \subseteq {<<p, 1>>}
        BY SMTT(30), <2>1, <3>2 DEF CallOK, Requests
      <4>2. status[<<p, 1>>] = "completed" => <<p, 1>> \notin Queued
        BY Zenon, <4>1 DEF IInv, QueueOnce
      <4> QED BY Zenon, <3>2, <4>1, <4>2 DEF MustSleep, Pending
    <3> QED BY Zenon, <3>1, <3>2
  <2> QED BY ZenonT(40), <1>0, <1>1, <1>2, <2>1, <2>2 DEF CallOK
<1>6. CallsOK'
  <2>1. ASSUME NEW q \in Procs \ {p} PROVE CallOK(q)'
    <3>1. CallOK(q)
      BY Zenon DEF IInv, CallsOK
    <3> QED BY Zenon, <1>0, <1>1, <1>2, <3>1, CallSame
  <2> QED BY Zenon, <1>5, <2>1 DEF CallsOK
<1>7. CpuOK'
  BY Zenon, <1>0, <1>2 DEF IInv, CpuOK
<1> QED BY Zenon, <1>3, <1>4, <1>6, <1>7 DEF IInv

\* A call goes to sleep, which unmasks the interrupts.
LEMMA GoToSleepKeeps ==
    ASSUME IInv, NEW p \in Procs, GoToSleep(p)
    PROVE  IInv'
<1>0. /\ runner = NULL /\ pc[p] = "tosleep" /\ current \in {NULL, p}
      /\ pc' = [pc EXCEPT ![p] = "asleep"]
      /\ current' = NULL /\ cli' = FALSE
      /\ UNCHANGED <<queue, status, left, added, grouped, wait_interrupt, runner>>
  BY Zenon DEF GoToSleep, At, reqvars, callvars
<1>1. Queued' = Queued /\ \A q \in Procs : Pending(q)' = Pending(q)
  BY Zenon, <1>0 DEF Queued, Pending
<1>2. /\ pc' \in [Procs -> Labels] /\ pc'[p] = "asleep"
      /\ \A q \in Procs \ {p} : pc'[q] = pc[q]
  BY Zenon, <1>0 DEF IInv, TypeOK, Labels
<1>3. TypeOK'
  BY ZenonT(40), <1>0, <1>2 DEF IInv, TypeOK
<1>4. QueueOnce' /\ Transfer'
  BY Zenon, <1>0, <1>1 DEF IInv, QueueOnce, Transfer
<1>5. CallsOK'
  <2>1. ASSUME NEW q \in Procs \ {p} PROVE CallOK(q)'
    <3>1. CallOK(q)
      BY Zenon DEF IInv, CallsOK
    <3> QED BY Zenon, <1>0, <1>1, <1>2, <3>1, CallSame
  <2>2. CallOK(p)'
    BY ZenonT(40), <1>0, <1>1, <1>2 DEF IInv, CallsOK, CallOK, MustSleep
  <2> QED BY Zenon, <2>1, <2>2 DEF CallsOK
<1>6. CpuOK'
  BY Zenon, <1>0, <1>2 DEF IInv, CpuOK
<1> QED BY Zenon, <1>3, <1>4, <1>5, <1>6 DEF IInv

\* A call returns and frees its requests.
LEMMA ReturnKeeps ==
    ASSUME IInv, NEW p \in Procs, Return(p)
    PROVE  IInv'
<1>0. /\ runner = NULL /\ pc[p] = "done" /\ current \in {NULL, p}
      /\ pc' = [pc EXCEPT ![p] = "user"]
      /\ status' = [br \in Requests |-> IF Owner(br) = p THEN "none"
                                        ELSE status[br]]
      /\ added' = [added EXCEPT ![p] = 0]
      /\ grouped' = grouped \ {p} /\ current' = NULL /\ cli' = FALSE
      /\ UNCHANGED <<queue, left, wait_interrupt, runner>>
  BY Zenon DEF Return, At
<1>1. Queued' = Queued /\ \A q \in Procs : Pending(q)' = Pending(q)
  BY Zenon, <1>0 DEF Queued, Pending
<1>2. Pending(p) = {}
  BY Zenon, <1>0 DEF IInv, CallsOK, CallOK
<1>3. /\ pc' \in [Procs -> Labels] /\ added' \in [Procs -> 0..MaxGroup]
      /\ pc'[p] = "user"
      /\ \A q \in Procs \ {p} : pc'[q] = pc[q] /\ added'[q] = added[q]
  BY SMTT(30), <1>0 DEF IInv, TypeOK, Labels
<1>4. /\ status' \in [Requests -> Statuses]
      /\ \A br \in Requests : status'[br] = IF Owner(br) = p THEN "none"
                                            ELSE status[br]
  BY Zenon, <1>0 DEF IInv, TypeOK, Statuses
<1>5. TypeOK'
  BY ZenonT(40), <1>0, <1>3, <1>4 DEF IInv, TypeOK
<1>6. \A br \in Queued : Owner(br) # p
  BY Zenon, <1>2 DEF Pending
<1>7. QueueOnce'
  BY Zenon, <1>0, <1>1, <1>4, <1>6 DEF IInv, QueueOnce
<1>8. Transfer'
  <2>1. \A n \in DOMAIN queue : queue[n] \in Queued /\ queue[n] \in Requests
    BY Zenon, ElementOfSeq, LenProperties DEF IInv, TypeOK, Queued
  <2>2. queue # <<>> => Head(queue) \in Queued /\ Head(queue) \in Requests
    BY Zenon, HeadQueued DEF IInv
  <2> QED BY Zenon, <1>0, <1>4, <1>6, <2>1, <2>2 DEF IInv, Transfer
<1>9. CallsOK'
  <2>1. ASSUME NEW q \in Procs \ {p} PROVE CallOK(q)'
    <3>1. CallOK(q) /\ <<q, 1>> \in Requests /\ Owner(<<q, 1>>) # p
      BY SMTT(30) DEF IInv, CallsOK, Requests, Owner
    <3> QED BY Zenon, <1>0, <1>1, <1>3, <1>4, <3>1, CallSame
  <2>2. CallOK(p)'
    <3>1. Pending(p)' = {} /\ p \notin grouped' /\ pc'[p] = "user"
      BY Zenon, <1>0, <1>1, <1>2, <1>3
    <3>2. /\ "user" \notin {"tosleep", "asleep"} /\ "user" # "adding"
          /\ {} \subseteq {<<p, 1>>}
      BY Zenon
    <3> QED BY Zenon, <3>1, <3>2 DEF CallOK
  <2> QED BY Zenon, <2>1, <2>2 DEF CallsOK
<1>10. CpuOK'
  BY Zenon, <1>0, <1>3 DEF IInv, CpuOK
<1> QED BY Zenon, <1>5, <1>7, <1>8, <1>9, <1>10 DEF IInv

\* A step that changes nothing.
LEMMA StutterKeeps ==
    ASSUME IInv, UNCHANGED vars
    PROVE  IInv'
<1>1. /\ queue' = queue /\ status' = status /\ left' = left
      /\ added' = added /\ grouped' = grouped
      /\ wait_interrupt' = wait_interrupt
      /\ pc' = pc /\ current' = current /\ cli' = cli /\ runner' = runner
  BY Zenon DEF vars
<1>2. Queued' = Queued /\ \A p \in Procs : Pending(p)' = Pending(p)
  BY Zenon, <1>1 DEF Queued, Pending
<1>3. TypeOK' /\ QueueOnce' /\ Transfer' /\ CpuOK'
  BY Zenon, <1>1, <1>2 DEF IInv, TypeOK, QueueOnce, Transfer, CpuOK
<1>4. CallsOK'
  BY Zenon, <1>1, <1>2 DEF IInv, CallsOK, CallOK, MustSleep
<1> QED BY Zenon, <1>3, <1>4 DEF IInv

\* The invariant is inductive.
LEMMA StepKeeps ==
    ASSUME IInv, [Next]_vars
    PROVE  IInv'
<1>1. ASSUME NEW p \in Procs,
             do_blk_request(p) \/ gbread(p) \/ GroupAdd(p) \/ ProcNext(p)
      PROVE  IInv'
  BY Zenon, <1>1, DoBlkRequestKeeps, GbreadKeeps, GroupAddKeeps, TestKeeps,
     GoToSleepKeeps, ReturnKeeps, GroupRunKeeps DEF ProcNext
<1>2. CASE Run
  BY Zenon, <1>2, RunStartKeeps, RunEndKeeps, RunAnswerKeeps DEF Run
<1>3. ASSUME NEW e \in {-1, 1}, EndRequest(e) PROVE IInv'
  BY Zenon, <1>3, EndRequestKeeps
<1>4. CASE UNCHANGED vars
  BY Zenon, <1>4, StutterKeeps
<1> QED BY Zenon, <1>1, <1>2, <1>3, <1>4 DEF Next

\* The invariant holds in every reachable state.
LEMMA IInvHolds == Spec => []IInv
<1>1. Init => IInv
  BY Zenon, InitIInv
<1>2. IInv /\ [Next]_vars => IInv'
  BY StepKeeps
<1> QED BY <1>1, <1>2, PTL DEF Spec

----------------------------------------------------------------------------
(* The theorems. *)

\* However the interrupts, the timeouts and the other processes interleave,
\* nobody sleeps in do_blk_request() or gbread() for an answer that has come:
\* run_blk_request() returns with the interrupts masked whenever a request is
\* left in the queue, and sleep() is what unmasks them.
THEOREM NoCompletionIsLost == Spec => []NoLostCompletion
<1>1. IInv => NoLostCompletion
  BY DEF IInv, CallsOK, CallOK, NoLostCompletion
<1> QED BY <1>1, IInvHolds, PTL

\* The queue of the device and the calls that use it agree: a call returns,
\* and frees its requests, only when none of them is queued; brh->left counts
\* the queued requests of a group; the interrupt is that of the first request.
THEOREM QueueStaysIntact == Spec => []QueueIntact
<1>1. ASSUME IInv PROVE QueueIntact
  <2>1. \A br \in Queued : br \in Requests /\ Owner(br) \in Procs
    BY SMTT(30), <1>1, ElementOfSeq, LenProperties DEF IInv, TypeOK, Queued, Requests, Owner
  <2>2. \A br \in Queued : /\ status[br] \in {"queued", "processing"}
                           /\ pc[Owner(br)] \notin {"user", "done"}
    BY Zenon, <1>1, <2>1 DEF IInv, QueueOnce, CallsOK, CallOK, Pending
  <2>3. \A p \in grouped : left[p] = Cardinality({br \in Queued : Owner(br) = p})
    BY Zenon, <1>1 DEF IInv, TypeOK, CallsOK, CallOK, Pending
  <2> QED BY SMTT(30), <1>1, <2>2, <2>3 DEF IInv, Transfer, QueueIntact
<1> QED BY <1>1, IInvHolds, PTL
=============================================================================
