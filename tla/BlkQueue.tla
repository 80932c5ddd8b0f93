------------------------------ MODULE BlkQueue ------------------------------
(***************************************************************************)
(* The queue of I/O requests of a block device (drivers/block/blk_queue.c, *)
(* gbread() of fs/buffer.c) and the two kinds of drivers behind it: those  *)
(* that answer at once (RAM disk, floppy), and the ATA driver, which only  *)
(* starts a transfer and ends it in its interrupt handler or, when the     *)
(* interrupt does not come, in a timer (drivers/block/ata.c).              *)
(*                                                                         *)
(* `current' is the process that has not slept since it entered this code, *)
(* `cli' says that it runs with interrupts disabled, and `runner' is the   *)
(* context inside run_blk_request(), which nothing interrupts.             *)
(***************************************************************************)
EXTENDS Integers, Sequences, FiniteSets

CONSTANTS
    Procs,          \* processes that read and write blocks
    IRQ,            \* the interrupt handler, as a caller of run_blk_request()
    MaxGroup,       \* bound: largest group of requests of gbread()
    Drivers,        \* values of immediate to be considered
    MayFail,        \* transfers may fail
    NULL

ASSUME BlkQueueAssumption ==
    /\ MaxGroup \in Nat \ {0}
    /\ Drivers \subseteq BOOLEAN /\ MayFail \in BOOLEAN
    /\ IRQ \notin Procs /\ NULL \notin Procs \cup {IRQ}

VARIABLES
    queue,          \* d->requests_queue
    status,         \* br->status; "none" outside a call
    err,            \* br->errno: 0, 1 for a number of bytes, -1 for -EIO
    left, gerr,     \* brh->left and brh->errno of the group of each process
    added,          \* requests of the group gone through by gbread()
    grouped,        \* processes whose call is gbread()
    immediate,      \* the driver returns the number of bytes at once
    wait_interrupt, \* ide->wait_interrupt, with its callout pending
    pc, current, cli, runner

vars == <<queue, status, err, left, gerr, added, grouped, wait_interrupt,
          immediate, pc, current, cli, runner>>
reqvars == <<queue, status, err, left, gerr>>
callvars == <<added, grouped, immediate>>
cpuvars == <<current, cli, runner>>

\* The requests a process can have at a time.
Requests == Procs \X (1..MaxGroup)
Owner(br) == br[1]

Init ==
    /\ queue = <<>>
    /\ status = [br \in Requests |-> "none"]
    /\ err = [br \in Requests |-> 0]
    /\ left = [p \in Procs |-> 0]
    /\ gerr = [p \in Procs |-> 0]
    /\ added = [p \in Procs |-> 0]
    /\ grouped = {}
    /\ immediate \in Drivers
    /\ wait_interrupt = FALSE
    /\ pc = [p \in Procs |-> "user"]
    /\ current = NULL /\ cli = FALSE /\ runner = NULL

\* A process runs when no other one is between two sleeps.
At(p, label) == runner = NULL /\ current \in {NULL, p} /\ pc[p] = label

-----------------------------------------------------------------------------
\* add_blk_request(): the request goes to the end of the queue.
add_blk_request(br) ==
    /\ queue' = Append(queue, br)
    /\ status' = [status EXCEPT ![br] = "queued"]
    /\ err' = [err EXCEPT ![br] = 0]

\* do_blk_request() up to run_blk_request().
do_blk_request(p) ==
    /\ At(p, "user")
    /\ add_blk_request(<<p, 1>>)
    /\ pc' = [pc EXCEPT ![p] = "run"]
    /\ current' = p
    /\ runner' = p
    /\ UNCHANGED <<left, gerr, callvars, cli, wait_interrupt>>

\* gbread(): the group header is clear, its requests are not queued yet.
gbread(p) ==
    /\ At(p, "user")
    /\ left' = [left EXCEPT ![p] = 0]
    /\ gerr' = [gerr EXCEPT ![p] = 0]
    /\ added' = [added EXCEPT ![p] = 0]
    /\ grouped' = grouped \cup {p}
    /\ pc' = [pc EXCEPT ![p] = "adding"]
    /\ UNCHANGED <<queue, status, err, immediate, wait_interrupt, cpuvars>>

\* The next block of the group: its buffer may be valid already.  getblk() may
\* sleep, so other processes and the driver run between two blocks.
GroupAdd(p) ==
    /\ At(p, "adding")
    /\ added[p] < MaxGroup
    /\ added' = [added EXCEPT ![p] = @ + 1]
    /\ \/ /\ left' = [left EXCEPT ![p] = @ + 1]
          /\ add_blk_request(<<p, added[p] + 1>>)
       \/ UNCHANGED <<queue, status, err, left>>
    /\ UNCHANGED <<gerr, grouped, immediate, wait_interrupt, pc, cpuvars>>

GroupRun(p) ==
    /\ At(p, "adding")
    /\ added[p] > 0
    /\ pc' = [pc EXCEPT ![p] = "run"]
    /\ current' = p
    /\ runner' = p
    /\ UNCHANGED <<reqvars, callvars, cli, wait_interrupt>>

-----------------------------------------------------------------------------
\* Variant: the first answer wakes the group.
WakeOwnerAtOnce(br) ==
    pc' = IF pc[Owner(br)] = "asleep" THEN [pc EXCEPT ![Owner(br)] = "done"]
                                      ELSE pc

\* wakeup(br), or wakeup(brh) when nothing is left of the group.
WakeOwner(br) ==
    LET p == Owner(br)
        last == p \notin grouped \/ left[p] = 1
    IN  pc' = IF last /\ pc[p] = "asleep"
              THEN [pc EXCEPT ![p] = "done"] ELSE pc

\* The request leaves the queue with the answer e.
Dequeue(br, e) ==
    /\ queue' = Tail(queue)
    /\ status' = [status EXCEPT ![br] = "completed"]
    /\ err' = [err EXCEPT ![br] = e]
    /\ left' = IF Owner(br) \in grouped
               THEN [left EXCEPT ![Owner(br)] = @ - 1] ELSE left

\* Variant: the early returns restore the interrupt flag.
LeaveRunRestoring(masked) ==
    /\ cli' = FALSE
    /\ runner' = NULL

\* run_blk_request() returns, and its two early returns leave the interrupts
\* disabled.
LeaveRun(masked) ==
    /\ cli' = (masked /\ runner \in Procs)
    /\ runner' = NULL

\* What p does after run_blk_request(): test br->status or brh->left.
AfterRun == IF runner \in Procs THEN [pc EXCEPT ![runner] = "test"] ELSE pc

\* Only a request with status 0 is started.
Startable(br) == status[br] = "queued"

HeadStartable == queue /= <<>> /\ Startable(Head(queue))

\* The driver starts the transfer of the first request.
RunStart ==
    /\ runner /= NULL
    /\ HeadStartable
    /\ ~immediate
    /\ status' = [status EXCEPT ![Head(queue)] = "processing"]
    /\ wait_interrupt' = TRUE
    /\ pc' = AfterRun
    /\ LeaveRun(TRUE)
    /\ UNCHANGED <<queue, err, left, gerr, callvars, current>>

\* The driver answers at once, and the loop goes on with the next request.
RunAnswer(e) ==
    /\ runner /= NULL
    /\ HeadStartable
    /\ e = 1 => immediate
    /\ e = -1 => MayFail
    /\ LET br == Head(queue) IN
       /\ Dequeue(br, e)
       /\ gerr' = IF Owner(br) \in grouped
                  THEN [gerr EXCEPT ![Owner(br)] = e] ELSE gerr
       /\ WakeOwner(br)
    /\ UNCHANGED <<callvars, wait_interrupt, cpuvars>>

\* A request is being processed, or the queue is empty.
RunEnd ==
    /\ runner /= NULL
    /\ ~HeadStartable
    /\ pc' = AfterRun
    /\ LeaveRun(queue /= <<>>)
    /\ UNCHANGED <<reqvars, callvars, wait_interrupt, current>>

-----------------------------------------------------------------------------
\* if(br->status != BR_COMPLETED), or if(brh->left), before the sleep().
MustSleep(p) ==
    IF p \in grouped THEN left[p] /= 0 ELSE status[<<p, 1>>] /= "completed"

Test(p) ==
    /\ At(p, "test")
    /\ pc' = [pc EXCEPT ![p] = IF MustSleep(p) THEN "tosleep" ELSE "done"]
    /\ UNCHANGED <<reqvars, callvars, wait_interrupt, cpuvars>>

GoToSleep(p) ==
    /\ At(p, "tosleep")
    /\ pc' = [pc EXCEPT ![p] = "asleep"]
    /\ current' = NULL /\ cli' = FALSE
    /\ UNCHANGED <<reqvars, callvars, wait_interrupt, runner>>

\* The call returns and its requests are freed.
Return(p) ==
    /\ At(p, "done")
    /\ pc' = [pc EXCEPT ![p] = "user"]
    /\ status' = [br \in Requests |-> IF Owner(br) = p THEN "none"
                                      ELSE status[br]]
    /\ err' = [br \in Requests |-> IF Owner(br) = p THEN 0 ELSE err[br]]
    /\ gerr' = [gerr EXCEPT ![p] = 0]
    /\ added' = [added EXCEPT ![p] = 0]
    /\ grouped' = grouped \ {p}
    /\ current' = NULL /\ cli' = FALSE
    /\ UNCHANGED <<queue, left, immediate, wait_interrupt, runner>>

-----------------------------------------------------------------------------
\* Interrupts are served while nobody masks them.
Interruptible == runner = NULL /\ ~cli

\* Variant: the next request is left in the queue after a success, too.
NobodyRuns(e) == NULL

NextRunner(e) == IF e = 1 /\ Tail(queue) /= <<>> THEN IRQ ELSE NULL

\* irq_ide*() or ide*_timer(), then ata_end_request().  While sectors of the
\* request are left the driver starts the next ones and nothing changes here;
\* then the request is over, with e.  After a failure the next request is not
\* started, and the error does not reach the group.
EndRequest(e) ==
    /\ Interruptible
    /\ wait_interrupt
    /\ e = -1 => MayFail
    /\ wait_interrupt' = FALSE
    /\ queue /= <<>>
    /\ Dequeue(Head(queue), e)
    /\ WakeOwner(Head(queue))
    /\ runner' = NextRunner(e)
    /\ UNCHANGED <<gerr, callvars, current, cli>>

-----------------------------------------------------------------------------
ProcNext(p) == Test(p) \/ GoToSleep(p) \/ Return(p) \/ GroupRun(p)

Run == RunStart \/ RunEnd \/ \E e \in {-1, 1} : RunAnswer(e)

Next ==
    \/ \E p \in Procs : do_blk_request(p) \/ gbread(p) \/ GroupAdd(p)
                        \/ ProcNext(p)
    \/ Run
    \/ \E e \in {-1, 1} : EndRequest(e)

Spec == Init /\ [][Next]_vars

\* A process in the kernel goes on when it can, run_blk_request() ends, and a
\* started transfer ends in an interrupt or in a timeout, which stays pending
\* while interrupts are disabled and is served as soon as they are not.
FairSpec ==
    /\ Spec
    /\ \A p \in Procs : WF_vars(ProcNext(p))
    /\ WF_vars(Run)
    /\ SF_vars(\E e \in {-1, 1} : EndRequest(e))

-----------------------------------------------------------------------------
(* Properties *)

Queued == {queue[i] : i \in DOMAIN queue}

\* A process never sleeps in do_blk_request() or gbread() for an answer that
\* has come already: the interrupt cannot fall between its test and its sleep.
NoLostCompletion == \A p \in Procs : pc[p] = "asleep" => MustSleep(p)

\* The queue and the calls agree: no call returns, and frees its requests,
\* while one of them is queued; brh->left is the number of requests of the
\* group still queued; an interrupt is that of the first request, and no other
\* transfer is in progress (the test that ata_end_request() marks with
\* "FIXME: needed?" never fires).
QueueIntact ==
    /\ \A br \in Queued : /\ status[br] \in {"queued", "processing"}
                          /\ pc[Owner(br)] \notin {"user", "done"}
    /\ \A p \in grouped : left[p] = Cardinality({br \in Queued : Owner(br) = p})
    /\ wait_interrupt => queue /= <<>> /\ status[Head(queue)] = "processing"
    /\ \A i \in DOMAIN queue :
          status[queue[i]] = "processing" => i = 1 /\ wait_interrupt

\* Every call that waits for the disk is answered: no request is forgotten in
\* the queue, as long as no transfer fails (after a failure ata_end_request()
\* leaves the queue to the next caller of run_blk_request()).
CallsEndWithoutErrors ==
    \/ \A p \in Procs : pc[p] = "asleep" ~> pc[p] = "done"
    \/ <>(\E br \in Requests : err[br] = -1)
=============================================================================
