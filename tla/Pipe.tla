-------------------------------- MODULE Pipe --------------------------------
(***************************************************************************)
(* A pipe (fs/pipefs): a ring of PIPE_BUF bytes behind an inode, shared by *)
(* the processes that inherited its two file descriptors from sys_pipe().  *)
(*                                                                         *)
(* The kernel is not preemptive: a process inside pipefs_read() or         *)
(* pipefs_write() gives up the CPU only where it sleeps.  `current' is the *)
(* process inside this code that has not slept since its last step, and    *)
(* while there is one no other process moves.  The sleeping places are     *)
(* sleep() on the channels pipefs_read and pipefs_write, lock_resource()   *)
(* (module Sched), and a page fault on the user buffer in the middle of    *)
(* memcpy_b(), with the lock held.                                         *)
(***************************************************************************)
EXTENDS Integers, Sequences, FiniteSets

CONSTANTS
    Readers,        \* processes sharing the read descriptor
    Writers,        \* processes sharing the write descriptor
    Stranger,       \* a user of another pipe: same lock, same channels
    Users,          \* who may share the descriptors, and whether copies sleep
    PIPE_BUF,       \* size of the ring
    MaxCount,       \* bound: largest request of a read or write call
    NonBlock,       \* values O_NONBLOCK may have (fcntl can flip it anytime)
    NULL

ASSUME PipeAssumption ==
    /\ PIPE_BUF \in Nat \ {0}
    /\ MaxCount \in Nat \ {0}
    /\ NonBlock \subseteq BOOLEAN
    /\ IsFiniteSet(Readers) /\ IsFiniteSet(Writers)
    /\ Readers \cap Writers = {}
    /\ Stranger \notin Readers \cup Writers
    /\ NULL \notin Readers \cup Writers \cup {Stranger}
    /\ Users \subseteq [readers : SUBSET Readers, writers : SUBSET Writers,
                        faults : BOOLEAN]

Procs == Readers \cup Writers

VARIABLES
    readoff, writeoff, i_size,  \* i->u.pipefs.i_readoff, i_writeoff, i->i_size
    data,           \* i->u.pipefs.i_data; a byte that was read becomes NULL
    ropen, wopen,   \* processes that still hold the two descriptors
    faults,         \* a copy may find the page of the user buffer not in memory
    lock,           \* holder of pipe_resource
    current,        \* process running in this code
    pc,             \* where each process is
    count,          \* request of the call in progress
    n,              \* size of the copy it decided on
    done            \* bytes_written

ringvars == <<readoff, writeoff, i_size, data>>
fdvars == <<ropen, wopen, faults>>
locals == <<count, n, done>>
vars == <<ringvars, fdvars, lock, current, pc, locals>>

\* pipefs_ialloc() sets i_readers and i_writers to 1, and pipefs_close(), run
\* when the last holder of a descriptor closes it, takes them to 0.
i_readers == IF ropen = {} THEN 0 ELSE 1
i_writers == IF wopen = {} THEN 0 ELSE 1

Byte(w, c, i) == [from |-> w, of |-> c, at |-> i]

MIN(a, b) == IF a < b THEN a ELSE b

-----------------------------------------------------------------------------
\* A process takes its turn only if no other one is between two sleeps.
At(p, label) == current \in {NULL, p} /\ pc[p] = label

\* The call of p is over, and its local variables with it.
Forget(p) ==
    /\ count' = [count EXCEPT ![p] = 0]
    /\ n' = [n EXCEPT ![p] = 0]
    /\ done' = [done EXCEPT ![p] = 0]

\* p goes on at label without sleeping; sleeps at label; returns to user mode.
Continue(p, label) == pc' = [pc EXCEPT ![p] = label] /\ current' = p
Sleep(p, label) == pc' = [pc EXCEPT ![p] = label] /\ current' = NULL
Return(p) == pc' = [pc EXCEPT ![p] = "user"] /\ current' = NULL /\ Forget(p)

\* Variant: the sleepers are not woken.
WakeNobody(p, label, from, to) ==
    pc' = [q \in Procs |-> IF q = p THEN label ELSE pc[q]]

\* wakeup() on a channel returns its sleepers to the loop they slept in, while
\* p moves to label.
WakeAnd(p, label, from, to) ==
    pc' = [q \in Procs |-> IF q = p THEN label
                           ELSE IF pc[q] = from THEN to ELSE pc[q]]

\* pipefs_ialloc() and sys_pipe(): an empty ring and two open descriptors,
\* inherited by some of the processes through fork().
Init ==
    /\ readoff = 0 /\ writeoff = 0 /\ i_size = 0
    /\ data = [i \in 0..PIPE_BUF - 1 |-> NULL]
    /\ \E u \in Users :
          ropen = u.readers /\ wopen = u.writers /\ faults = u.faults
    /\ lock = NULL /\ current = NULL
    /\ pc = [p \in Procs |-> "user"]
    /\ count = [p \in Procs |-> 0]
    /\ n = [p \in Procs |-> 0]
    /\ done = [p \in Procs |-> 0]

-----------------------------------------------------------------------------
\* lock_resource(&pipe_resource): p takes the lock, or sleeps until it is free
\* (then it tries again, having kept the n it computed before).
LockPipe(p, label, next) ==
    /\ At(p, label)
    /\ \/ /\ lock = NULL
          /\ lock' = p
          /\ Continue(p, next)
       \/ /\ lock /= NULL
          /\ current = p
          /\ lock' = lock
          /\ Sleep(p, label)
    /\ UNCHANGED <<ringvars, fdvars, locals>>

\* memcpy_b() touches a page of the user buffer that is not in memory: the
\* process sleeps with the lock held.
Fault(p, label) ==
    /\ faults
    /\ current = p
    /\ pc[p] = label
    /\ current' = NULL
    /\ UNCHANGED <<ringvars, fdvars, lock, pc, locals>>

\* A signal ends the sleep() of p: the call returns -EINTR.
Interrupted(p, label) ==
    /\ At(p, label)
    /\ Return(p)
    /\ UNCHANGED <<ringvars, fdvars, lock>>

-----------------------------------------------------------------------------
\* Contiguous bytes a read may take.
ReadLimit ==
    IF writeoff > 0 /\ readoff < writeoff THEN writeoff - readoff
                                          ELSE PIPE_BUF - readoff

\* An empty pipe starts again at offset 0 (the end of pipefs_read()).
RewindIfEmpty(ro, wo, size) ==
    /\ i_size' = size
    /\ readoff' = IF size = 0 THEN 0 ELSE ro
    /\ writeoff' = IF size = 0 THEN 0 ELSE wo

Read(r, c) ==
    /\ At(r, "user")
    /\ r \in ropen
    /\ count' = [count EXCEPT ![r] = c]
    /\ Continue(r, "rloop")
    /\ UNCHANGED <<ringvars, fdvars, lock, n, done>>

\* The loop of pipefs_read(): decide on a copy, wait, wrap or give up.
ReadHasData(r) == i_size /= 0 /\ MIN(ReadLimit, count[r]) /= 0

ReadDecide(r) ==
    /\ At(r, "rloop")
    /\ ReadHasData(r)
    /\ n' = [n EXCEPT ![r] = MIN(ReadLimit, count[r])]
    /\ Continue(r, "rlock")
    /\ UNCHANGED <<ringvars, fdvars, lock, count, done>>

ReadWait(r) ==
    /\ At(r, "rloop")
    /\ ~ReadHasData(r)
    /\ i_writers /= 0
    /\ \/ TRUE \in NonBlock /\ Return(r)            \* -EAGAIN
       \/ FALSE \in NonBlock /\ Sleep(r, "rsleep") /\ UNCHANGED locals
    /\ UNCHANGED <<ringvars, fdvars, lock>>

ReadWrap(r) ==
    /\ At(r, "rloop")
    /\ ~ReadHasData(r)
    /\ i_writers = 0
    /\ i_size /= 0 /\ readoff >= PIPE_BUF
    /\ readoff' = 0
    /\ Continue(r, "rloop")
    /\ UNCHANGED <<writeoff, i_size, data, fdvars, lock, locals>>

ReadEOF(r) ==
    /\ At(r, "rloop")
    /\ ~ReadHasData(r)
    /\ i_writers = 0
    /\ ~(i_size /= 0 /\ readoff >= PIPE_BUF)
    /\ RewindIfEmpty(readoff, writeoff, i_size)
    /\ Return(r)
    /\ UNCHANGED <<data, fdvars, lock>>

\* What memory holds at offset i; past the ring there is anything but a byte.
Cell(i) == IF i < PIPE_BUF THEN data[i] ELSE NULL

\* The bytes memcpy_b() hands to the reader.
ReadBytes(r) == [k \in 1..n[r] |-> Cell(readoff + k - 1)]

\* The copy of n bytes and the rest of the call.
ReadCopy(r) ==
    /\ At(r, "rcopy")
    /\ data' = [i \in 0..PIPE_BUF - 1 |->
                  IF i \in readoff..readoff + n[r] - 1 THEN NULL ELSE data[i]]
    /\ RewindIfEmpty(readoff + n[r],
                     IF writeoff >= PIPE_BUF THEN 0 ELSE writeoff,
                     i_size - n[r])
    /\ lock' = NULL
    /\ WakeAnd(r, "user", "wsleep", "wloop")
    /\ current' = NULL
    /\ Forget(r)
    /\ UNCHANGED fdvars

-----------------------------------------------------------------------------
\* Variant: equal offsets past 0, a full ring, count as an empty one.
WriteLimitOpen ==
    IF readoff > 0 /\ writeoff < readoff THEN readoff ELSE PIPE_BUF

\* Where the next write must stop.
WriteLimit ==
    IF readoff > 0 /\ writeoff <= readoff THEN readoff ELSE PIPE_BUF

Write(w, c) ==
    /\ At(w, "user")
    /\ w \in wopen
    /\ count' = [count EXCEPT ![w] = c]
    /\ done' = [done EXCEPT ![w] = 0]
    /\ Continue(w, "wloop")
    /\ UNCHANGED <<ringvars, fdvars, lock, n>>

\* Nobody can read any more: SIGPIPE and -EPIPE.
WriteBroken(w) ==
    /\ At(w, "wloop")
    /\ done[w] < count[w]
    /\ i_readers = 0
    /\ Return(w)
    /\ UNCHANGED <<ringvars, fdvars, lock>>

WriteRoom(w) == MIN(count[w] - done[w], WriteLimit - writeoff)

WriteDecide(w) ==
    /\ At(w, "wloop")
    /\ done[w] < count[w]
    /\ i_readers /= 0
    /\ WriteRoom(w) \in 1..PIPE_BUF
    /\ n' = [n EXCEPT ![w] = WriteRoom(w)]
    /\ Continue(w, "wlock")
    /\ UNCHANGED <<ringvars, fdvars, lock, count, done>>

\* No room: the readers are woken and the writer sleeps or gets -EAGAIN, even
\* if it has written some bytes already.
WriteWait(w) ==
    /\ At(w, "wloop")
    /\ done[w] < count[w]
    /\ i_readers /= 0
    /\ WriteRoom(w) \notin 1..PIPE_BUF
    /\ \/ /\ TRUE \in NonBlock
          /\ WakeAnd(w, "user", "rsleep", "rloop")
          /\ Forget(w)
       \/ /\ FALSE \in NonBlock
          /\ WakeAnd(w, "wsleep", "rsleep", "rloop")
          /\ UNCHANGED locals
    /\ current' = NULL
    /\ UNCHANGED <<ringvars, fdvars, lock>>

WriteCopy(w) ==
    /\ At(w, "wcopy")
    /\ data' = [i \in 0..PIPE_BUF - 1 |->
                  IF i \in writeoff..writeoff + n[w] - 1
                  THEN Byte(w, count[w], done[w] + 1 + i - writeoff)
                  ELSE data[i]]
    /\ done' = [done EXCEPT ![w] = @ + n[w]]
    /\ writeoff' = writeoff + n[w]
    /\ i_size' = i_size + n[w]
    /\ readoff' = IF readoff >= PIPE_BUF THEN 0 ELSE readoff
    /\ lock' = NULL
    /\ WakeAnd(w, "wloop", "rsleep", "rloop")
    /\ current' = w
    /\ n' = [n EXCEPT ![w] = 0]
    /\ UNCHANGED <<fdvars, count>>

WriteReturn(w) ==
    /\ At(w, "wloop")
    /\ done[w] >= count[w]
    /\ Return(w)
    /\ UNCHANGED <<ringvars, fdvars, lock>>

-----------------------------------------------------------------------------
\* sys_close(): the last holder of a descriptor runs pipefs_close().
CloseRead(r) ==
    /\ At(r, "user")
    /\ r \in ropen
    /\ ropen' = ropen \ {r}
    /\ IF ropen' = {} THEN WakeAnd(r, "user", "wsleep", "wloop") ELSE pc' = pc
    /\ UNCHANGED <<ringvars, wopen, faults, lock, current, locals>>

CloseWrite(w) ==
    /\ At(w, "user")
    /\ w \in wopen
    /\ wopen' = wopen \ {w}
    /\ IF wopen' = {} THEN WakeAnd(w, "user", "rsleep", "rloop") ELSE pc' = pc
    /\ UNCHANGED <<ringvars, ropen, faults, lock, current, locals>>

\* Another pipe's user wakes the sleepers of this one, for the channels are
\* the addresses of the functions, and sleeps with the one lock held.
StrangerWakes(from, to) ==
    /\ current = NULL
    /\ \E p \in Procs : pc[p] = from
    /\ WakeAnd(Stranger, "user", from, to)
    /\ UNCHANGED <<ringvars, fdvars, lock, current, locals>>

StrangerLocks ==
    /\ faults
    /\ current = NULL
    /\ lock \in {NULL, Stranger}
    /\ lock' = IF lock = NULL THEN Stranger ELSE NULL
    /\ UNCHANGED <<ringvars, fdvars, current, pc, locals>>

-----------------------------------------------------------------------------
ReadNext(r) ==
    \/ ReadDecide(r) \/ ReadWait(r) \/ ReadWrap(r) \/ ReadEOF(r) \/ ReadCopy(r)
    \/ LockPipe(r, "rlock", "rcopy")

WriteNext(w) ==
    \/ WriteBroken(w) \/ WriteDecide(w) \/ WriteWait(w) \/ WriteCopy(w)
    \/ WriteReturn(w)
    \/ LockPipe(w, "wlock", "wcopy")

Next ==
    \/ \E r \in Readers :
          \/ ReadNext(r) \/ CloseRead(r)
          \/ Fault(r, "rcopy") \/ Interrupted(r, "rsleep")
          \/ \E c \in 1..MaxCount : Read(r, c)
    \/ \E w \in Writers :
          \/ WriteNext(w) \/ CloseWrite(w)
          \/ Fault(w, "wcopy") \/ Interrupted(w, "wsleep")
          \/ \E c \in 1..MaxCount : Write(w, c)
    \/ StrangerWakes("rsleep", "rloop")
    \/ StrangerWakes("wsleep", "wloop")
    \/ StrangerLocks

Spec == Init /\ [][Next]_vars

-----------------------------------------------------------------------------
(* Properties *)

\* A process sleeps in pipefs_read() only if there is nothing it could copy
\* and a writer is left, in pipefs_write() only if there is no room and a
\* reader is left: every change that ends the wait has woken it.  Readers and
\* writers of one pipe never wait for each other, although "nothing to copy"
\* and "no room" are judged by different formulas.
BlockedForCause ==
    /\ \A r \in Readers : pc[r] = "rsleep" =>
          /\ i_size = 0 \/ readoff = PIPE_BUF
          /\ wopen /= {}
    /\ \A w \in Writers : pc[w] = "wsleep" =>
          /\ WriteLimit = writeoff
          /\ ropen /= {}
    /\ ~ \E r \in Readers, w \in Writers : pc[r] = "rsleep" /\ pc[w] = "wsleep"

\* The bytes in the ring, in the order in which they will be read.
Queue == [k \in 1..i_size |-> data[(readoff + k - 1) % PIPE_BUF]]

Stream == INSTANCE ByteStream WITH
    queue <- Queue,
    sent <- [w \in Writers |-> [of |-> count[w], done |-> done[w]]]

\* A reader about to copy, which may have slept since it computed n, copies
\* the oldest bytes of the pipe.
ReadsOldest ==
    \A r \in Readers : pc[r] = "rcopy" =>
        n[r] <= i_size /\ ReadBytes(r) = SubSeq(Queue, 1, n[r])

\* Copies sleep with the lock held only where each end has one process.
\* Nothing in the code says so: a second reader (or writer) that waited for
\* the lock goes on with an n computed before the first one moved the offsets.
SleepersAlone ==
    \A u \in Users : u.faults =>
        Cardinality(u.readers) <= 1 /\ Cardinality(u.writers) <= 1

\* The ring of pipefs_read() and pipefs_write() implements the first-in
\* first-out stream of module ByteStream, whatever the order of the calls,
\* and what memcpy_b() hands to a reader is the prefix the stream loses: for
\* one reader and one writer although n is computed before lock_resource()
\* sleeps, for several as long as nobody sleeps there (SleepersAlone).
ImplementsStream == Stream!Spec /\ []ReadsOldest

\* The comment of pipefs_write(): a write of at most PIPE_BUF bytes is not
\* interleaved with the writes of other processes.
WriteNotInterleaved ==
    \A k \in 1..i_size - 1 :
        LET b == Queue[k] IN
        b.of <= PIPE_BUF /\ b.at < b.of => Queue[k + 1].from = b.from
=============================================================================
