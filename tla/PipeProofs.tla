----------------------------- MODULE PipeProofs -----------------------------
(***************************************************************************)
(* Proofs about Pipe for a ring of any size: its invariants, and that it   *)
(* implements ByteStream.  They hold for one reader and one writer, and    *)
(* for any number of them if no copy sleeps with the lock held             *)
(* (SleepersAlone, a hypothesis of every theorem).                         *)
(***************************************************************************)
EXTENDS Pipe, FiniteSetTheorems, SequenceTheorems, TLAPS

ReadLabels == {"user", "rloop", "rlock", "rcopy", "rsleep"}
WriteLabels == {"user", "wloop", "wlock", "wcopy", "wsleep"}

\* Each variable has the type of the C variable it stands for, and a process
\* is at a label of its own end.
TypeOK ==
    /\ readoff \in 0..PIPE_BUF /\ writeoff \in 0..PIPE_BUF
    /\ i_size \in 0..PIPE_BUF
    /\ ropen \subseteq Readers /\ wopen \subseteq Writers /\ faults \in BOOLEAN
    /\ lock \in Procs \cup {Stranger, NULL}
    /\ current \in Procs \cup {NULL}
    /\ pc \in [Procs -> ReadLabels \cup WriteLabels]
    /\ \A r \in Readers : pc[r] \in ReadLabels
    /\ \A w \in Writers : pc[w] \in WriteLabels
    /\ count \in [Procs -> Nat] /\ n \in [Procs -> Nat] /\ done \in [Procs -> Nat]

\* i_size is the distance of the offsets.  Equal offsets mean a full ring,
\* except at 0, where an empty pipe is always rewound to.
RingOK ==
    IF i_size = 0 THEN readoff = 0 /\ writeoff = 0
    ELSE IF readoff < writeoff THEN i_size = writeoff - readoff
    ELSE /\ readoff > 0
         /\ i_size = PIPE_BUF - readoff + writeoff
         /\ readoff = PIPE_BUF => writeoff < PIPE_BUF

\* No end of the pipe is shared.
Alone ==
    /\ \A p, q \in ropen : p = q
    /\ \A p, q \in wopen : p = q

\* Copies sleep only where no end is shared.
FaultsAlone == faults => Alone

Deciding == {"rlock", "rcopy", "wlock", "wcopy"}
Copying == {"rcopy", "wcopy"}

\* The lock is held during a copy, and a process that lost the CPU between
\* its decision and its copy shares its end with nobody.
LockOK ==
    /\ \A p \in Procs : pc[p] \in Copying <=> lock = p
    /\ lock \notin {NULL, current} => Alone
    /\ \A p \in Procs : pc[p] \in Deciding /\ current /= p => Alone

\* Only holders of a descriptor are inside a call, and a read asks for bytes.
CallsOK ==
    /\ \A r \in Readers : pc[r] /= "user" => r \in ropen /\ count[r] > 0
    /\ \A w \in Writers : pc[w] /= "user" => w \in wopen

\* A copy that was decided on is still possible when it is made.
DecidedOK ==
    /\ \A r \in Readers : pc[r] \in {"rlock", "rcopy"} =>
          0 < n[r] /\ n[r] <= i_size /\ n[r] <= ReadLimit
    /\ \A w \in Writers : pc[w] \in {"wlock", "wcopy"} =>
          0 < n[w] /\ n[w] <= WriteLimit - writeoff

\* The inductive invariant.
PipeInv ==
    TypeOK /\ RingOK /\ LockOK /\ CallsOK /\ DecidedOK /\ BlockedForCause

USE PipeAssumption DEF Procs

----------------------------------------------------------------------------
\* A set with at most one element has no two.
LEMMA AtMostOne ==
    ASSUME NEW S, IsFiniteSet(S), Cardinality(S) <= 1
    PROVE  \A p, q \in S : p = q
<1>1. Cardinality(S) = 0 \/ Cardinality(S) = 1
  BY FS_CardinalityType
<1>2. S = {} \/ \E x : S = {x}
  BY Zenon, <1>1, FS_EmptySet, FS_Singleton
<1> QED BY Zenon, <1>2

\* A pipe whose users' copies may sleep starts with one process at each end.
LEMMA StartsAlone ==
    ASSUME SleepersAlone, Init
    PROVE  FaultsAlone
<1>1. SUFFICES ASSUME faults PROVE Alone
  BY Zenon DEF FaultsAlone
<1>2. PICK u \in Users : ropen = u.readers /\ wopen = u.writers /\ faults = u.faults
  BY Zenon DEF Init
<1>3. Cardinality(ropen) <= 1 /\ Cardinality(wopen) <= 1
  BY Zenon, <1>1, <1>2 DEF SleepersAlone
<1>4. ropen \subseteq Readers /\ wopen \subseteq Writers
  BY <1>2
<1>5. IsFiniteSet(ropen) /\ IsFiniteSet(wopen)
  BY Zenon, <1>4, FS_Subset
<1> QED BY Zenon, <1>3, <1>5, AtMostOne DEF Alone

\* Nobody comes to share a descriptor, and the copies sleep as before.
LEMMA StaysAlone ==
    ASSUME FaultsAlone, [Next]_vars
    PROVE  FaultsAlone'
<1>1. ASSUME NEW r \in Readers,
             \/ ReadNext(r) \/ CloseRead(r) \/ Fault(r, "rcopy")
             \/ Interrupted(r, "rsleep") \/ \E c \in 1..MaxCount : Read(r, c)
      PROVE  faults' = faults /\ ropen' \subseteq ropen /\ wopen' = wopen
  BY Zenon, <1>1 DEF ReadNext, CloseRead, Fault, Interrupted, Read, ReadDecide,
     ReadWait, ReadWrap, ReadEOF, ReadCopy, LockPipe, fdvars
<1>2. ASSUME NEW w \in Writers,
             \/ WriteNext(w) \/ CloseWrite(w) \/ Fault(w, "wcopy")
             \/ Interrupted(w, "wsleep") \/ \E c \in 1..MaxCount : Write(w, c)
      PROVE  faults' = faults /\ ropen' = ropen /\ wopen' \subseteq wopen
  BY Zenon, <1>2 DEF WriteNext, CloseWrite, Fault, Interrupted, Write, WriteDecide,
     WriteWait, WriteBroken, WriteCopy, WriteReturn, LockPipe, fdvars
<1>3. faults' = faults /\ ropen' \subseteq ropen /\ wopen' \subseteq wopen
  BY Zenon, <1>1, <1>2 DEF Next, StrangerWakes, StrangerLocks, vars, fdvars
<1> QED BY Zenon, <1>3 DEF FaultsAlone, Alone

\* A pipe is created empty, with nobody in a call.
LEMMA PipeInit ==
    ASSUME Init
    PROVE  PipeInv
<1>1. TypeOK
  BY DEF Init, TypeOK, ReadLabels, WriteLabels
<1>2. RingOK
  BY Zenon DEF Init, RingOK
<1>3. LockOK /\ CallsOK /\ DecidedOK /\ BlockedForCause
  BY Zenon DEF Init, LockOK, CallsOK, DecidedOK, BlockedForCause, Copying, Deciding
<1> QED BY Zenon, <1>1, <1>2, <1>3 DEF PipeInv

----------------------------------------------------------------------------
\* A read call begins.
LEMMA ReadKeeps ==
    ASSUME PipeInv, NEW r \in Readers, NEW c \in 1..MaxCount, Read(r, c)
    PROVE  PipeInv'
<1>1. TypeOK'
  BY DEF PipeInv, TypeOK, ReadLabels, WriteLabels, Read, Continue, At, ringvars,
      fdvars
<1>2. RingOK'
  BY Zenon DEF PipeInv, TypeOK, RingOK, Read, Continue, At, ringvars, fdvars
<1>3. LockOK'
  BY DEF PipeInv, TypeOK, LockOK, Alone, Copying, Deciding, ReadLabels,
      WriteLabels, Read, Continue, At, ringvars, fdvars
<1>4. CallsOK'
  BY DEF PipeInv, TypeOK, CallsOK, ReadLabels, WriteLabels, Read, Continue, At,
      ringvars, fdvars
<1>5. DecidedOK'
  BY Zenon DEF PipeInv, TypeOK, DecidedOK, ReadLimit, WriteLimit, ReadLabels,
      WriteLabels, Read, Continue, At, ringvars, fdvars
<1>6. BlockedForCause'
  BY ZenonT(40) DEF PipeInv, TypeOK, BlockedForCause, WriteLimit, RingOK, ReadLabels,
      WriteLabels, Read, Continue, At, ringvars, fdvars
<1> QED BY Zenon, <1>1, <1>2, <1>3, <1>4, <1>5, <1>6 DEF PipeInv

\* A reader decides how much to copy, without having slept.
LEMMA ReadDecideKeeps ==
    ASSUME PipeInv, NEW r \in Readers, ReadDecide(r)
    PROVE  PipeInv'
<1>0. MIN(ReadLimit, count[r]) \in 1..i_size /\ MIN(ReadLimit, count[r]) <= ReadLimit
  BY DEF PipeInv, TypeOK, RingOK, ReadDecide, ReadHasData, MIN, ReadLimit
<1>1. TypeOK'
  BY <1>0 DEF PipeInv, TypeOK, ReadLabels, ReadDecide, Continue, At, ringvars, fdvars
<1>2. RingOK'
  BY Zenon DEF PipeInv, TypeOK, RingOK, ReadDecide, ReadHasData, MIN, Continue, At,
      ringvars, fdvars
<1>3. LockOK'
  BY DEF PipeInv, TypeOK, LockOK, Alone, Copying, Deciding, ReadLabels,
      WriteLabels, ReadDecide, ReadHasData, MIN, Continue, At, ringvars, fdvars
<1>4. CallsOK'
  BY Zenon DEF PipeInv, TypeOK, CallsOK, ReadLabels, WriteLabels, ReadDecide,
      ReadHasData, MIN, Continue, At, ringvars, fdvars
<1>5. DecidedOK'
  <2>1. n'[r] = MIN(ReadLimit, count[r]) /\ \A q \in Procs \ {r} : n'[q] = n[q]
    BY Zenon DEF PipeInv, TypeOK, ReadDecide
  <2>2. ReadLimit' = ReadLimit /\ WriteLimit' = WriteLimit
    BY Zenon DEF ReadDecide, ReadLimit, WriteLimit, ringvars
  <2>3. i_size' = i_size /\ writeoff' = writeoff /\ pc' = [pc EXCEPT ![r] = "rlock"]
    BY Zenon DEF ReadDecide, Continue, ringvars
  <2>4. ReadLimit \in Int /\ i_size \in Nat
    BY DEF PipeInv, TypeOK, ReadLimit
  <2> QED BY SMTT(30), <1>0, <2>1, <2>2, <2>3, <2>4 DEF PipeInv, TypeOK, DecidedOK
<1>6. BlockedForCause'
  BY Zenon DEF PipeInv, TypeOK, BlockedForCause, WriteLimit, RingOK, ReadLabels,
      WriteLabels, ReadDecide, ReadHasData, MIN, Continue, At, ringvars, fdvars
<1> QED BY Zenon, <1>1, <1>2, <1>3, <1>4, <1>5, <1>6 DEF PipeInv

\* A reader waits, or gives up.
LEMMA ReadWaitKeeps ==
    ASSUME PipeInv, NEW r \in Readers, ReadWait(r)
    PROVE  PipeInv'
<1>0. /\ pc[r] = "rloop" /\ current \in {NULL, r}
      /\ (i_size = 0 \/ readoff = PIPE_BUF) /\ wopen /= {}
  BY DEF PipeInv, TypeOK, CallsOK, ReadWait, ReadHasData, MIN, ReadLimit, i_writers, At
<1>a. PICK l \in {"user", "rsleep"} :
         /\ pc' = [pc EXCEPT ![r] = l]
         /\ l = "rsleep" => count' = count
  BY Zenon DEF ReadWait, Return, Sleep, locals
<1>b. /\ current' = NULL
      /\ UNCHANGED <<readoff, writeoff, i_size, ropen, wopen, faults, lock>>
      /\ \A q \in Procs \ {r} : count'[q] = count[q] /\ n'[q] = n[q]
      /\ count' \in [Procs -> Nat] /\ n' \in [Procs -> Nat] /\ done' \in [Procs -> Nat]
  <2>1. /\ current' = NULL
        /\ UNCHANGED <<readoff, writeoff, i_size, ropen, wopen, faults, lock>>
    BY Zenon DEF ReadWait, Return, Sleep, ringvars, fdvars
  <2>2. \/ UNCHANGED <<count, n, done>>
        \/ /\ count' = [count EXCEPT ![r] = 0] /\ n' = [n EXCEPT ![r] = 0]
           /\ done' = [done EXCEPT ![r] = 0]
    BY Zenon DEF ReadWait, Return, Sleep, Forget, locals
  <2> QED BY <2>1, <2>2 DEF PipeInv, TypeOK
<1>1. TypeOK'
  BY Zenon, <1>0, <1>a, <1>b DEF PipeInv, TypeOK, ReadLabels, WriteLabels
<1>2. RingOK'
  BY Zenon, <1>0, <1>a, <1>b DEF PipeInv, TypeOK, RingOK
<1>3. LockOK'
  BY ZenonT(40), <1>0, <1>a, <1>b DEF PipeInv, TypeOK, LockOK, Alone, Copying, Deciding
<1>4. CallsOK'
  BY Zenon, <1>0, <1>a, <1>b DEF PipeInv, TypeOK, CallsOK, ReadLabels
<1>5. DecidedOK'
  BY Zenon, <1>0, <1>a, <1>b DEF PipeInv, TypeOK, DecidedOK, ReadLimit, WriteLimit
<1>6. BlockedForCause'
  BY SMTT(30), <1>0, <1>a, <1>b DEF PipeInv, TypeOK, BlockedForCause, WriteLimit, RingOK
<1> QED BY Zenon, <1>1, <1>2, <1>3, <1>4, <1>5, <1>6 DEF PipeInv

\* A reader that consumed the end of the ring goes to its start.
LEMMA ReadWrapKeeps ==
    ASSUME PipeInv, NEW r \in Readers, ReadWrap(r)
    PROVE  PipeInv'
<1>1. TypeOK'
  BY DEF PipeInv, TypeOK, ReadLabels, WriteLabels, ReadWrap, ReadHasData,
      i_writers, Continue, At, locals, ringvars, fdvars
<1>2. RingOK'
  BY DEF PipeInv, TypeOK, RingOK, ReadWrap, ReadHasData, i_writers, Continue, At,
      locals, ringvars, fdvars
<1>3. LockOK'
  BY DEF PipeInv, TypeOK, LockOK, Alone, Copying, Deciding, ReadLabels,
      WriteLabels, ReadWrap, ReadHasData, i_writers, Continue, At, locals,
      ringvars, fdvars
<1>4. CallsOK'
  BY Zenon DEF PipeInv, TypeOK, CallsOK, ReadLabels, WriteLabels, ReadWrap, ReadHasData,
      i_writers, Continue, At, locals, ringvars, fdvars
<1>5. DecidedOK'
  BY DEF PipeInv, TypeOK, DecidedOK, ReadLimit, WriteLimit, ReadLabels,
      WriteLabels, ReadWrap, ReadHasData, i_writers, Continue, At, locals,
      ringvars, fdvars
<1>6. BlockedForCause'
  BY SMTT(30) DEF PipeInv, TypeOK, BlockedForCause, WriteLimit, RingOK, ReadLabels,
      WriteLabels, ReadWrap, ReadHasData, i_writers, Continue, At, locals,
      ringvars, fdvars
<1> QED BY Zenon, <1>1, <1>2, <1>3, <1>4, <1>5, <1>6 DEF PipeInv

\* A read ends with no writer left.
LEMMA ReadEOFKeeps ==
    ASSUME PipeInv, NEW r \in Readers, ReadEOF(r)
    PROVE  PipeInv'
<1>1. TypeOK'
  BY ZenonT(40) DEF PipeInv, TypeOK, ReadLabels, WriteLabels, ReadEOF, ReadHasData, i_writers,
      RewindIfEmpty, Return, Forget, At, ringvars, fdvars
<1>2. RingOK'
  BY Zenon DEF PipeInv, TypeOK, RingOK, ReadEOF, ReadHasData, i_writers, RewindIfEmpty,
      Return, Forget, At, ringvars, fdvars
<1>3. LockOK'
  BY ZenonT(40) DEF PipeInv, TypeOK, LockOK, Alone, Copying, Deciding, ReadLabels,
      WriteLabels, ReadEOF, ReadHasData, i_writers, RewindIfEmpty, Return, Forget,
      At, ringvars, fdvars
<1>4. CallsOK'
  BY Zenon DEF PipeInv, TypeOK, CallsOK, ReadLabels, WriteLabels, ReadEOF, ReadHasData,
      i_writers, RewindIfEmpty, Return, Forget, At, ringvars, fdvars
<1>5. DecidedOK'
  BY SMTT(30) DEF PipeInv, TypeOK, DecidedOK, ReadLimit, WriteLimit, ReadLabels,
      WriteLabels, ReadEOF, ReadHasData, i_writers, RewindIfEmpty, Return, Forget,
      At, ringvars, fdvars
<1>6. BlockedForCause'
  BY DEF PipeInv, TypeOK, BlockedForCause, WriteLimit, RingOK, ReadLabels,
      WriteLabels, ReadEOF, ReadHasData, i_writers, RewindIfEmpty, Return, Forget,
      At, ringvars, fdvars
<1> QED BY Zenon, <1>1, <1>2, <1>3, <1>4, <1>5, <1>6 DEF PipeInv

\* A read copies, moves the offsets and wakes the writers.
LEMMA ReadCopyKeeps ==
    ASSUME PipeInv, NEW r \in Readers, ReadCopy(r)
    PROVE  PipeInv'
<1>a. PICK m \in Nat :
         /\ m = n[r] /\ 0 < m /\ m <= i_size /\ m <= ReadLimit
         /\ i_size' = i_size - m
         /\ readoff' = IF i_size - m = 0 THEN 0 ELSE readoff + m
         /\ writeoff' = IF i_size - m = 0 \/ writeoff >= PIPE_BUF THEN 0 ELSE writeoff
  BY Zenon DEF PipeInv, TypeOK, DecidedOK, ReadCopy, RewindIfEmpty, At
<1>b. /\ readoff' \in 0..PIPE_BUF /\ writeoff' \in 0..PIPE_BUF /\ i_size' \in 0..PIPE_BUF
      /\ WriteLimit - writeoff <= WriteLimit' - writeoff'
      /\ WriteLimit - writeoff \in Int /\ WriteLimit' - writeoff' \in Int
  BY <1>a DEF PipeInv, TypeOK, RingOK, ReadLimit, WriteLimit
<1>c. i_size /= 0 /\ readoff /= PIPE_BUF
  BY <1>a DEF PipeInv, TypeOK, RingOK, ReadLimit
<1>d. \A q \in Readers \ {r} : pc[q] \notin {"rlock", "rcopy"}
  BY Zenon DEF PipeInv, TypeOK, LockOK, CallsOK, ReadCopy, At, Alone, Deciding, Copying
<1>e. /\ pc' = [q \in Procs |-> IF q = r THEN "user"
                                ELSE IF pc[q] = "wsleep" THEN "wloop" ELSE pc[q]]
      /\ \A q \in Procs \ {r} : n'[q] = n[q]
  BY Zenon DEF PipeInv, TypeOK, ReadCopy, WakeAnd, Forget
<1>1. TypeOK'
  <2>1. count' \in [Procs -> Nat] /\ n' \in [Procs -> Nat] /\ done' \in [Procs -> Nat]
    BY Zenon DEF PipeInv, TypeOK, ReadCopy, Forget
  <2> QED BY Zenon, <1>b, <1>e, <2>1 DEF PipeInv, TypeOK, ReadLabels, WriteLabels, ReadCopy, fdvars
<1>2. RingOK'
  BY SMTT(30), <1>a DEF PipeInv, TypeOK, RingOK, ReadLimit
<1>3. LockOK'
  BY ZenonT(40) DEF PipeInv, TypeOK, LockOK, Alone, Copying, Deciding, ReadLabels,
      WriteLabels, ReadCopy, RewindIfEmpty, WakeAnd, Forget, At, ringvars, fdvars
<1>4. CallsOK'
  BY Zenon DEF PipeInv, TypeOK, CallsOK, ReadLabels, WriteLabels, ReadCopy,
      RewindIfEmpty, WakeAnd, Forget, At, ringvars, fdvars
<1>5. DecidedOK'
  <2>1. \A q \in Readers : pc'[q] \notin {"rlock", "rcopy"}
    BY Zenon, <1>d, <1>e
  <2>2. ASSUME NEW w \in Writers, pc'[w] \in {"wlock", "wcopy"}
        PROVE  0 < n'[w] /\ n'[w] <= WriteLimit' - writeoff'
    <3>1. pc[w] \in {"wlock", "wcopy"} /\ n'[w] = n[w] /\ n[w] \in Nat
      BY Zenon, <1>e, <2>2 DEF PipeInv, TypeOK
    <3> QED BY SMTT(30), <1>b, <3>1 DEF PipeInv, DecidedOK
  <2> QED BY Zenon, <2>1, <2>2 DEF DecidedOK
<1>6. BlockedForCause'
  BY Zenon, <1>c, <1>e DEF PipeInv, TypeOK, BlockedForCause, ReadLabels, WriteLabels
<1> QED BY Zenon, <1>1, <1>2, <1>3, <1>4, <1>5, <1>6 DEF PipeInv

\* A reader takes the lock or waits for it.
LEMMA ReadLockKeeps ==
    ASSUME PipeInv, NEW r \in Readers, LockPipe(r, "rlock", "rcopy")
    PROVE  PipeInv'
<1>1. TypeOK'
  BY ZenonT(40) DEF PipeInv, TypeOK, ReadLabels, WriteLabels, LockPipe, Continue, Sleep, At,
      locals, ringvars, fdvars
<1>2. RingOK'
  BY Zenon DEF PipeInv, TypeOK, RingOK, LockPipe, Continue, Sleep, At, locals, ringvars,
      fdvars
<1>3. LockOK'
  BY DEF PipeInv, TypeOK, LockOK, Alone, Copying, Deciding, ReadLabels,
      WriteLabels, LockPipe, Continue, Sleep, At, locals, ringvars, fdvars
<1>4. CallsOK'
  BY ZenonT(40) DEF PipeInv, TypeOK, CallsOK, ReadLabels, WriteLabels, LockPipe, Continue,
      Sleep, At, locals, ringvars, fdvars
<1>5. DecidedOK'
  BY SMTT(30) DEF PipeInv, TypeOK, DecidedOK, ReadLimit, WriteLimit, ReadLabels,
      WriteLabels, LockPipe, Continue, Sleep, At, locals, ringvars, fdvars
<1>6. BlockedForCause'
  BY DEF PipeInv, TypeOK, BlockedForCause, WriteLimit, RingOK, ReadLabels,
      WriteLabels, LockPipe, Continue, Sleep, At, locals, ringvars, fdvars
<1> QED BY Zenon, <1>1, <1>2, <1>3, <1>4, <1>5, <1>6 DEF PipeInv

\* A reader loses the CPU while it copies.
LEMMA ReadFaultKeeps ==
    ASSUME PipeInv, FaultsAlone, NEW r \in Readers, Fault(r, "rcopy")
    PROVE  PipeInv'
<1>0. Alone
  BY Zenon DEF FaultsAlone, Fault
<1>1. TypeOK'
  BY Zenon DEF PipeInv, TypeOK, ReadLabels, WriteLabels, Fault, locals, ringvars, fdvars
<1>2. RingOK'
  BY Zenon DEF PipeInv, TypeOK, RingOK, Fault, locals, ringvars, fdvars
<1>3. LockOK'
  BY Zenon, <1>0 DEF PipeInv, TypeOK, LockOK, Alone, Copying, Deciding, ReadLabels,
      WriteLabels, Fault, locals, ringvars, fdvars
<1>4. CallsOK'
  BY Zenon DEF PipeInv, TypeOK, CallsOK, ReadLabels, WriteLabels, Fault, locals,
      ringvars, fdvars
<1>5. DecidedOK'
  BY Zenon DEF PipeInv, TypeOK, DecidedOK, ReadLimit, WriteLimit, ReadLabels,
      WriteLabels, Fault, locals, ringvars, fdvars
<1>6. BlockedForCause'
  BY Zenon DEF PipeInv, TypeOK, BlockedForCause, WriteLimit, RingOK, ReadLabels,
      WriteLabels, Fault, locals, ringvars, fdvars
<1> QED BY Zenon, <1>1, <1>2, <1>3, <1>4, <1>5, <1>6 DEF PipeInv

\* A signal ends the sleep of a reader.
LEMMA ReadInterruptedKeeps ==
    ASSUME PipeInv, NEW r \in Readers, Interrupted(r, "rsleep")
    PROVE  PipeInv'
<1>1. TypeOK'
  BY Zenon DEF PipeInv, TypeOK, ReadLabels, WriteLabels, Interrupted, Return, Forget, At,
      ringvars, fdvars
<1>2. RingOK'
  BY Zenon DEF PipeInv, TypeOK, RingOK, Interrupted, Return, Forget, At, ringvars, fdvars
<1>3. LockOK'
  BY Zenon DEF PipeInv, TypeOK, LockOK, Alone, Copying, Deciding, ReadLabels,
      WriteLabels, Interrupted, Return, Forget, At, ringvars, fdvars
<1>4. CallsOK'
  BY Zenon DEF PipeInv, TypeOK, CallsOK, ReadLabels, WriteLabels, Interrupted, Return,
      Forget, At, ringvars, fdvars
<1>5. DecidedOK'
  BY Zenon DEF PipeInv, TypeOK, DecidedOK, ReadLimit, WriteLimit, ReadLabels,
      WriteLabels, Interrupted, Return, Forget, At, ringvars, fdvars
<1>6. BlockedForCause'
  BY ZenonT(40) DEF PipeInv, TypeOK, BlockedForCause, WriteLimit, RingOK, ReadLabels,
      WriteLabels, Interrupted, Return, Forget, At, ringvars, fdvars
<1> QED BY Zenon, <1>1, <1>2, <1>3, <1>4, <1>5, <1>6 DEF PipeInv

\* A reader closes its descriptor.
LEMMA CloseReadKeeps ==
    ASSUME PipeInv, NEW r \in Readers, CloseRead(r)
    PROVE  PipeInv'
<1>1. TypeOK'
  BY SMTT(30) DEF PipeInv, TypeOK, ReadLabels, WriteLabels, CloseRead, WakeAnd, At, locals,
      ringvars, fdvars
<1>2. RingOK'
  BY Zenon DEF PipeInv, TypeOK, RingOK, CloseRead, WakeAnd, At, locals, ringvars, fdvars
<1>3. LockOK'
  BY SMTT(30) DEF PipeInv, TypeOK, LockOK, Alone, Copying, Deciding, ReadLabels,
      WriteLabels, CloseRead, WakeAnd, At, locals, ringvars, fdvars
<1>4. CallsOK'
  BY SMTT(30) DEF PipeInv, TypeOK, CallsOK, ReadLabels, WriteLabels, CloseRead, WakeAnd, At,
      locals, ringvars, fdvars
<1>5. DecidedOK'
  BY SMTT(30) DEF PipeInv, TypeOK, DecidedOK, ReadLimit, WriteLimit, ReadLabels,
      WriteLabels, CloseRead, WakeAnd, At, locals, ringvars, fdvars
<1>6. BlockedForCause'
  BY DEF PipeInv, TypeOK, BlockedForCause, WriteLimit, RingOK, ReadLabels,
      WriteLabels, CloseRead, WakeAnd, At, locals, ringvars, fdvars
<1> QED BY Zenon, <1>1, <1>2, <1>3, <1>4, <1>5, <1>6 DEF PipeInv

\* A write call begins.
LEMMA WriteKeeps ==
    ASSUME PipeInv, NEW w \in Writers, NEW c \in 1..MaxCount, Write(w, c)
    PROVE  PipeInv'
<1>1. TypeOK'
  BY SMTT(30) DEF PipeInv, TypeOK, ReadLabels, WriteLabels, Write, Continue, At, ringvars,
      fdvars
<1>2. RingOK'
  BY Zenon DEF PipeInv, TypeOK, RingOK, Write, Continue, At, ringvars, fdvars
<1>3. LockOK'
  BY SMTT(30) DEF PipeInv, TypeOK, LockOK, Alone, Copying, Deciding, ReadLabels,
      WriteLabels, Write, Continue, At, ringvars, fdvars
<1>4. CallsOK'
  BY SMTT(30) DEF PipeInv, TypeOK, CallsOK, ReadLabels, WriteLabels, Write, Continue, At,
      ringvars, fdvars
<1>5. DecidedOK'
  BY Zenon DEF PipeInv, TypeOK, DecidedOK, ReadLimit, WriteLimit, ReadLabels,
      WriteLabels, Write, Continue, At, ringvars, fdvars
<1>6. BlockedForCause'
  BY ZenonT(40) DEF PipeInv, TypeOK, BlockedForCause, WriteLimit, RingOK, ReadLabels,
      WriteLabels, Write, Continue, At, ringvars, fdvars
<1> QED BY Zenon, <1>1, <1>2, <1>3, <1>4, <1>5, <1>6 DEF PipeInv

\* A writer finds no reader.
LEMMA WriteBrokenKeeps ==
    ASSUME PipeInv, NEW w \in Writers, WriteBroken(w)
    PROVE  PipeInv'
<1>1. TypeOK'
  BY Zenon DEF PipeInv, TypeOK, ReadLabels, WriteLabels, WriteBroken, Return, Forget, At,
      ringvars, fdvars
<1>2. RingOK'
  BY Zenon DEF PipeInv, TypeOK, RingOK, WriteBroken, Return, Forget, At, ringvars, fdvars
<1>3. LockOK'
  BY Zenon DEF PipeInv, TypeOK, LockOK, Alone, Copying, Deciding, ReadLabels,
      WriteLabels, WriteBroken, Return, Forget, At, ringvars, fdvars
<1>4. CallsOK'
  BY Zenon DEF PipeInv, TypeOK, CallsOK, ReadLabels, WriteLabels, WriteBroken, Return,
      Forget, At, ringvars, fdvars
<1>5. DecidedOK'
  BY ZenonT(40) DEF PipeInv, TypeOK, DecidedOK, ReadLimit, WriteLimit, ReadLabels,
      WriteLabels, WriteBroken, Return, Forget, At, ringvars, fdvars
<1>6. BlockedForCause'
  BY Zenon DEF PipeInv, TypeOK, BlockedForCause, WriteLimit, RingOK, ReadLabels,
      WriteLabels, WriteBroken, Return, Forget, At, ringvars, fdvars
<1> QED BY Zenon, <1>1, <1>2, <1>3, <1>4, <1>5, <1>6 DEF PipeInv

\* A writer decides how much to copy, without having slept.
LEMMA WriteDecideKeeps ==
    ASSUME PipeInv, NEW w \in Writers, WriteDecide(w)
    PROVE  PipeInv'
<1>1. TypeOK'
  BY SMTT(30) DEF PipeInv, TypeOK, ReadLabels, WriteLabels, WriteDecide, WriteRoom, MIN,
      i_readers, Continue, At, ringvars, fdvars
<1>2. RingOK'
  BY Zenon DEF PipeInv, TypeOK, RingOK, WriteDecide, WriteRoom, MIN, i_readers, Continue,
      At, ringvars, fdvars
<1>3. LockOK'
  BY SMTT(30) DEF PipeInv, TypeOK, LockOK, Alone, Copying, Deciding, ReadLabels,
      WriteLabels, WriteDecide, WriteRoom, MIN, i_readers, Continue, At, ringvars,
      fdvars
<1>4. CallsOK'
  BY Zenon DEF PipeInv, TypeOK, CallsOK, ReadLabels, WriteLabels, WriteDecide, WriteRoom,
      MIN, i_readers, Continue, At, ringvars, fdvars
<1>5. DecidedOK'
  BY SMTT(30) DEF PipeInv, TypeOK, DecidedOK, ReadLimit, WriteLimit, ReadLabels,
      WriteLabels, WriteDecide, WriteRoom, MIN, i_readers, Continue, At, ringvars,
      fdvars
<1>6. BlockedForCause'
  BY ZenonT(40) DEF PipeInv, TypeOK, BlockedForCause, WriteLimit, RingOK, ReadLabels,
      WriteLabels, WriteDecide, WriteRoom, MIN, i_readers, Continue, At, ringvars,
      fdvars
<1> QED BY Zenon, <1>1, <1>2, <1>3, <1>4, <1>5, <1>6 DEF PipeInv

\* A writer wakes the readers and waits, or gives up.
LEMMA WriteWaitKeeps ==
    ASSUME PipeInv, NEW w \in Writers, WriteWait(w)
    PROVE  PipeInv'
<1>0. /\ pc[w] = "wloop" /\ current \in {NULL, w}
      /\ WriteLimit = writeoff /\ ropen /= {}
  BY SMTT(30) DEF PipeInv, TypeOK, RingOK, WriteWait, WriteRoom, MIN, WriteLimit, i_readers, At
<1>a. PICK l \in {"user", "wsleep"} :
         /\ pc' = [q \in Procs |-> IF q = w THEN l
                                  ELSE IF pc[q] = "rsleep" THEN "rloop" ELSE pc[q]]
         /\ l = "wsleep" => count' = count
  BY Zenon DEF WriteWait, WakeAnd, locals
<1>b. /\ current' = NULL
      /\ UNCHANGED <<readoff, writeoff, i_size, ropen, wopen, faults, lock>>
      /\ \A q \in Procs \ {w} : count'[q] = count[q] /\ n'[q] = n[q]
      /\ count' \in [Procs -> Nat] /\ n' \in [Procs -> Nat] /\ done' \in [Procs -> Nat]
  <2>1. /\ current' = NULL
        /\ UNCHANGED <<readoff, writeoff, i_size, ropen, wopen, faults, lock>>
    BY Zenon DEF WriteWait, ringvars, fdvars
  <2>2. \/ UNCHANGED <<count, n, done>>
        \/ /\ count' = [count EXCEPT ![w] = 0] /\ n' = [n EXCEPT ![w] = 0]
           /\ done' = [done EXCEPT ![w] = 0]
    BY ZenonT(40) DEF WriteWait, Forget, locals
  <2> QED BY <2>1, <2>2 DEF PipeInv, TypeOK
<1>1. TypeOK'
  BY Zenon, <1>0, <1>a, <1>b DEF PipeInv, TypeOK, ReadLabels, WriteLabels
<1>2. RingOK'
  BY Zenon, <1>0, <1>a, <1>b DEF PipeInv, TypeOK, RingOK
<1>3. LockOK'
  BY ZenonT(40), <1>0, <1>a, <1>b DEF PipeInv, TypeOK, LockOK, Alone, Copying, Deciding
<1>4. CallsOK'
  BY Zenon, <1>0, <1>a, <1>b DEF PipeInv, TypeOK, CallsOK, ReadLabels
<1>5. DecidedOK'
  BY ZenonT(40), <1>0, <1>a, <1>b DEF PipeInv, TypeOK, DecidedOK, ReadLimit, WriteLimit
<1>6. BlockedForCause'
  BY Zenon, <1>0, <1>a, <1>b DEF PipeInv, TypeOK, BlockedForCause, WriteLimit, RingOK
<1> QED BY Zenon, <1>1, <1>2, <1>3, <1>4, <1>5, <1>6 DEF PipeInv

\* A write copies, moves the offsets and wakes the readers.
LEMMA WriteCopyKeeps ==
    ASSUME PipeInv, NEW w \in Writers, WriteCopy(w)
    PROVE  PipeInv'
<1>a. PICK m \in Nat :
         /\ m = n[w] /\ 0 < m /\ m <= WriteLimit - writeoff
         /\ i_size' = i_size + m /\ writeoff' = writeoff + m
         /\ readoff' = IF readoff >= PIPE_BUF THEN 0 ELSE readoff
  BY Zenon DEF PipeInv, TypeOK, DecidedOK, WriteCopy, At
<1>b. /\ readoff' \in 0..PIPE_BUF /\ writeoff' \in 0..PIPE_BUF /\ i_size' \in 0..PIPE_BUF
      /\ i_size > 0 /\ ReadLimit > 0 => ReadLimit <= ReadLimit'
      /\ ReadLimit \in Int /\ ReadLimit' \in Int
  BY SMTT(30), <1>a DEF PipeInv, TypeOK, RingOK, ReadLimit, WriteLimit
<1>c. WriteLimit /= writeoff
  BY SMTT(30), <1>a DEF PipeInv, TypeOK, RingOK, WriteLimit
<1>d. \A q \in Writers \ {w} : pc[q] \notin {"wlock", "wcopy"}
  BY Zenon DEF PipeInv, TypeOK, LockOK, CallsOK, WriteCopy, At, Alone, Deciding, Copying
<1>e. /\ pc' = [q \in Procs |-> IF q = w THEN "wloop"
                                ELSE IF pc[q] = "rsleep" THEN "rloop" ELSE pc[q]]
      /\ \A q \in Procs \ {w} : n'[q] = n[q]
  BY Zenon DEF PipeInv, TypeOK, WriteCopy, WakeAnd
<1>1. TypeOK'
  <2>1. count' = count /\ n' = [n EXCEPT ![w] = 0] /\ done' = [done EXCEPT ![w] = done[w] + n[w]]
    BY Zenon DEF WriteCopy
  <2>2. done[w] + n[w] \in Nat
    BY DEF PipeInv, TypeOK
  <2>3. count' \in [Procs -> Nat] /\ n' \in [Procs -> Nat] /\ done' \in [Procs -> Nat]
    BY Zenon, <2>1, <2>2 DEF PipeInv, TypeOK
  <2>4. /\ ropen' \subseteq Readers /\ wopen' \subseteq Writers /\ faults' \in BOOLEAN
        /\ lock' \in Procs \cup {Stranger, NULL} /\ current' \in Procs \cup {NULL}
    BY Zenon DEF PipeInv, TypeOK, WriteCopy, fdvars
  <2>5. \A q \in Procs : pc[q] = "rsleep" => q \in Readers
    BY Zenon DEF PipeInv, TypeOK, WriteLabels, Procs
  <2>6. /\ \A r \in Readers : pc'[r] \in ReadLabels
        /\ \A q \in Writers : pc'[q] \in WriteLabels
        /\ pc' \in [Procs -> ReadLabels \cup WriteLabels]
    BY <1>e, <2>5 DEF PipeInv, TypeOK, ReadLabels, WriteLabels, Procs
  <2> QED BY Zenon, <1>b, <2>3, <2>4, <2>6 DEF TypeOK
<1>2. RingOK'
  BY SMTT(30), <1>a DEF PipeInv, TypeOK, RingOK, WriteLimit
<1>3. LockOK'
  BY ZenonT(40) DEF PipeInv, TypeOK, LockOK, Alone, Copying, Deciding, ReadLabels,
      WriteLabels, WriteCopy, WakeAnd, At, ringvars, fdvars
<1>4. CallsOK'
  BY Zenon DEF PipeInv, TypeOK, CallsOK, ReadLabels, WriteLabels, WriteCopy, WakeAnd, At,
      ringvars, fdvars
<1>5. DecidedOK'
  <2>1. \A q \in Writers : pc'[q] \notin {"wlock", "wcopy"}
    BY Zenon, <1>d, <1>e
  <2>2. ASSUME NEW r \in Readers, pc'[r] \in {"rlock", "rcopy"}
        PROVE  0 < n'[r] /\ n'[r] <= i_size' /\ n'[r] <= ReadLimit'
    <3>1. pc[r] \in {"rlock", "rcopy"} /\ n'[r] = n[r] /\ n[r] \in Nat
      BY Zenon, <1>e, <2>2 DEF PipeInv, TypeOK
    <3>2. i_size \in Nat
      BY SMTT(30) DEF PipeInv, TypeOK
    <3> QED BY SMTT(30), <1>a, <1>b, <3>1, <3>2 DEF PipeInv, DecidedOK
  <2> QED BY Zenon, <2>1, <2>2 DEF DecidedOK
<1>6. BlockedForCause'
  BY Zenon, <1>c, <1>e DEF PipeInv, TypeOK, BlockedForCause, ReadLabels, WriteLabels
<1> QED BY Zenon, <1>1, <1>2, <1>3, <1>4, <1>5, <1>6 DEF PipeInv

\* A write call is complete.
LEMMA WriteReturnKeeps ==
    ASSUME PipeInv, NEW w \in Writers, WriteReturn(w)
    PROVE  PipeInv'
<1>1. TypeOK'
  BY Zenon DEF PipeInv, TypeOK, ReadLabels, WriteLabels, WriteReturn, Return, Forget, At,
      ringvars, fdvars
<1>2. RingOK'
  BY Zenon DEF PipeInv, TypeOK, RingOK, WriteReturn, Return, Forget, At, ringvars, fdvars
<1>3. LockOK'
  BY ZenonT(40) DEF PipeInv, TypeOK, LockOK, Alone, Copying, Deciding, ReadLabels,
      WriteLabels, WriteReturn, Return, Forget, At, ringvars, fdvars
<1>4. CallsOK'
  BY Zenon DEF PipeInv, TypeOK, CallsOK, ReadLabels, WriteLabels, WriteReturn, Return,
      Forget, At, ringvars, fdvars
<1>5. DecidedOK'
  BY ZenonT(40) DEF PipeInv, TypeOK, DecidedOK, ReadLimit, WriteLimit, ReadLabels,
      WriteLabels, WriteReturn, Return, Forget, At, ringvars, fdvars
<1>6. BlockedForCause'
  BY ZenonT(40) DEF PipeInv, TypeOK, BlockedForCause, WriteLimit, RingOK, ReadLabels,
      WriteLabels, WriteReturn, Return, Forget, At, ringvars, fdvars
<1> QED BY Zenon, <1>1, <1>2, <1>3, <1>4, <1>5, <1>6 DEF PipeInv

\* A writer takes the lock or waits for it.
LEMMA WriteLockKeeps ==
    ASSUME PipeInv, NEW w \in Writers, LockPipe(w, "wlock", "wcopy")
    PROVE  PipeInv'
<1>1. TypeOK'
  BY SMTT(30) DEF PipeInv, TypeOK, ReadLabels, WriteLabels, LockPipe, Continue, Sleep, At,
      locals, ringvars, fdvars
<1>2. RingOK'
  BY Zenon DEF PipeInv, TypeOK, RingOK, LockPipe, Continue, Sleep, At, locals, ringvars,
      fdvars
<1>3. LockOK'
  BY SMTT(30) DEF PipeInv, TypeOK, LockOK, Alone, Copying, Deciding, ReadLabels,
      WriteLabels, LockPipe, Continue, Sleep, At, locals, ringvars, fdvars
<1>4. CallsOK'
  BY ZenonT(40) DEF PipeInv, TypeOK, CallsOK, ReadLabels, WriteLabels, LockPipe, Continue,
      Sleep, At, locals, ringvars, fdvars
<1>5. DecidedOK'
  BY SMTT(30) DEF PipeInv, TypeOK, DecidedOK, ReadLimit, WriteLimit, ReadLabels,
      WriteLabels, LockPipe, Continue, Sleep, At, locals, ringvars, fdvars
<1>6. BlockedForCause'
  BY DEF PipeInv, TypeOK, BlockedForCause, WriteLimit, RingOK, ReadLabels,
      WriteLabels, LockPipe, Continue, Sleep, At, locals, ringvars, fdvars
<1> QED BY Zenon, <1>1, <1>2, <1>3, <1>4, <1>5, <1>6 DEF PipeInv

\* A writer loses the CPU while it copies.
LEMMA WriteFaultKeeps ==
    ASSUME PipeInv, FaultsAlone, NEW w \in Writers, Fault(w, "wcopy")
    PROVE  PipeInv'
<1>0. Alone
  BY Zenon DEF FaultsAlone, Fault
<1>1. TypeOK'
  BY Zenon DEF PipeInv, TypeOK, ReadLabels, WriteLabels, Fault, locals, ringvars, fdvars
<1>2. RingOK'
  BY Zenon DEF PipeInv, TypeOK, RingOK, Fault, locals, ringvars, fdvars
<1>3. LockOK'
  BY Zenon, <1>0 DEF PipeInv, TypeOK, LockOK, Alone, Copying, Deciding, ReadLabels,
      WriteLabels, Fault, locals, ringvars, fdvars
<1>4. CallsOK'
  BY Zenon DEF PipeInv, TypeOK, CallsOK, ReadLabels, WriteLabels, Fault, locals,
      ringvars, fdvars
<1>5. DecidedOK'
  BY Zenon DEF PipeInv, TypeOK, DecidedOK, ReadLimit, WriteLimit, ReadLabels,
      WriteLabels, Fault, locals, ringvars, fdvars
<1>6. BlockedForCause'
  BY Zenon DEF PipeInv, TypeOK, BlockedForCause, WriteLimit, RingOK, ReadLabels,
      WriteLabels, Fault, locals, ringvars, fdvars
<1> QED BY Zenon, <1>1, <1>2, <1>3, <1>4, <1>5, <1>6 DEF PipeInv

\* A signal ends the sleep of a writer.
LEMMA WriteInterruptedKeeps ==
    ASSUME PipeInv, NEW w \in Writers, Interrupted(w, "wsleep")
    PROVE  PipeInv'
<1>1. TypeOK'
  BY Zenon DEF PipeInv, TypeOK, ReadLabels, WriteLabels, Interrupted, Return, Forget, At,
      ringvars, fdvars
<1>2. RingOK'
  BY Zenon DEF PipeInv, TypeOK, RingOK, Interrupted, Return, Forget, At, ringvars, fdvars
<1>3. LockOK'
  BY ZenonT(40) DEF PipeInv, TypeOK, LockOK, Alone, Copying, Deciding, ReadLabels,
      WriteLabels, Interrupted, Return, Forget, At, ringvars, fdvars
<1>4. CallsOK'
  BY Zenon DEF PipeInv, TypeOK, CallsOK, ReadLabels, WriteLabels, Interrupted, Return,
      Forget, At, ringvars, fdvars
<1>5. DecidedOK'
  BY ZenonT(40) DEF PipeInv, TypeOK, DecidedOK, ReadLimit, WriteLimit, ReadLabels,
      WriteLabels, Interrupted, Return, Forget, At, ringvars, fdvars
<1>6. BlockedForCause'
  BY Zenon DEF PipeInv, TypeOK, BlockedForCause, WriteLimit, RingOK, ReadLabels,
      WriteLabels, Interrupted, Return, Forget, At, ringvars, fdvars
<1> QED BY Zenon, <1>1, <1>2, <1>3, <1>4, <1>5, <1>6 DEF PipeInv

\* A writer closes its descriptor.
LEMMA CloseWriteKeeps ==
    ASSUME PipeInv, NEW w \in Writers, CloseWrite(w)
    PROVE  PipeInv'
<1>1. TypeOK'
  BY SMTT(30) DEF PipeInv, TypeOK, ReadLabels, WriteLabels, CloseWrite, WakeAnd, At, locals,
      ringvars, fdvars
<1>2. RingOK'
  BY Zenon DEF PipeInv, TypeOK, RingOK, CloseWrite, WakeAnd, At, locals, ringvars, fdvars
<1>3. LockOK'
  BY SMTT(30) DEF PipeInv, TypeOK, LockOK, Alone, Copying, Deciding, ReadLabels,
      WriteLabels, CloseWrite, WakeAnd, At, locals, ringvars, fdvars
<1>4. CallsOK'
  BY SMTT(30) DEF PipeInv, TypeOK, CallsOK, ReadLabels, WriteLabels, CloseWrite, WakeAnd,
      At, locals, ringvars, fdvars
<1>5. DecidedOK'
  BY SMTT(30) DEF PipeInv, TypeOK, DecidedOK, ReadLimit, WriteLimit, ReadLabels,
      WriteLabels, CloseWrite, WakeAnd, At, locals, ringvars, fdvars
<1>6. BlockedForCause'
  BY DEF PipeInv, TypeOK, BlockedForCause, WriteLimit, RingOK, ReadLabels,
      WriteLabels, CloseWrite, WakeAnd, At, locals, ringvars, fdvars
<1> QED BY Zenon, <1>1, <1>2, <1>3, <1>4, <1>5, <1>6 DEF PipeInv

\* The user of another pipe wakes the readers of this one.
LEMMA StrangerWakesReaders ==
    ASSUME PipeInv, StrangerWakes("rsleep", "rloop")
    PROVE  PipeInv'
<1>1. TypeOK'
  BY Zenon DEF PipeInv, TypeOK, ReadLabels, WriteLabels, StrangerWakes, WakeAnd, locals,
      ringvars, fdvars
<1>2. RingOK'
  BY Zenon DEF PipeInv, TypeOK, RingOK, StrangerWakes, WakeAnd, locals, ringvars, fdvars
<1>3. LockOK'
  BY ZenonT(40) DEF PipeInv, TypeOK, LockOK, Alone, Copying, Deciding, ReadLabels,
      WriteLabels, StrangerWakes, WakeAnd, locals, ringvars, fdvars
<1>4. CallsOK'
  BY Zenon DEF PipeInv, TypeOK, CallsOK, ReadLabels, WriteLabels, StrangerWakes, WakeAnd,
      locals, ringvars, fdvars
<1>5. DecidedOK'
  BY Zenon DEF PipeInv, TypeOK, DecidedOK, ReadLimit, WriteLimit, ReadLabels,
      WriteLabels, StrangerWakes, WakeAnd, locals, ringvars, fdvars
<1>6. BlockedForCause'
  BY Zenon DEF PipeInv, TypeOK, BlockedForCause, WriteLimit, RingOK, ReadLabels,
      WriteLabels, StrangerWakes, WakeAnd, locals, ringvars, fdvars
<1> QED BY Zenon, <1>1, <1>2, <1>3, <1>4, <1>5, <1>6 DEF PipeInv

\* The user of another pipe wakes the writers of this one.
LEMMA StrangerWakesWriters ==
    ASSUME PipeInv, StrangerWakes("wsleep", "wloop")
    PROVE  PipeInv'
<1>1. TypeOK'
  BY Zenon DEF PipeInv, TypeOK, ReadLabels, WriteLabels, StrangerWakes, WakeAnd, locals,
      ringvars, fdvars
<1>2. RingOK'
  BY Zenon DEF PipeInv, TypeOK, RingOK, StrangerWakes, WakeAnd, locals, ringvars, fdvars
<1>3. LockOK'
  BY ZenonT(40) DEF PipeInv, TypeOK, LockOK, Alone, Copying, Deciding, ReadLabels,
      WriteLabels, StrangerWakes, WakeAnd, locals, ringvars, fdvars
<1>4. CallsOK'
  BY Zenon DEF PipeInv, TypeOK, CallsOK, ReadLabels, WriteLabels, StrangerWakes, WakeAnd,
      locals, ringvars, fdvars
<1>5. DecidedOK'
  BY Zenon DEF PipeInv, TypeOK, DecidedOK, ReadLimit, WriteLimit, ReadLabels,
      WriteLabels, StrangerWakes, WakeAnd, locals, ringvars, fdvars
<1>6. BlockedForCause'
  BY Zenon DEF PipeInv, TypeOK, BlockedForCause, WriteLimit, RingOK, ReadLabels,
      WriteLabels, StrangerWakes, WakeAnd, locals, ringvars, fdvars
<1> QED BY Zenon, <1>1, <1>2, <1>3, <1>4, <1>5, <1>6 DEF PipeInv

\* The user of another pipe takes or releases the lock.
LEMMA StrangerLocksKeeps ==
    ASSUME PipeInv, FaultsAlone, StrangerLocks
    PROVE  PipeInv'
<1>0. Alone
  BY Zenon DEF FaultsAlone, StrangerLocks
<1>1. TypeOK'
  BY Zenon DEF PipeInv, TypeOK, ReadLabels, WriteLabels, StrangerLocks, locals, ringvars,
      fdvars
<1>2. RingOK'
  BY Zenon DEF PipeInv, TypeOK, RingOK, StrangerLocks, locals, ringvars, fdvars
<1>3. LockOK'
  BY ZenonT(40), <1>0 DEF PipeInv, TypeOK, LockOK, Alone, Copying, Deciding, ReadLabels,
      WriteLabels, StrangerLocks, locals, ringvars, fdvars
<1>4. CallsOK'
  BY Zenon DEF PipeInv, TypeOK, CallsOK, ReadLabels, WriteLabels, StrangerLocks, locals,
      ringvars, fdvars
<1>5. DecidedOK'
  BY Zenon DEF PipeInv, TypeOK, DecidedOK, ReadLimit, WriteLimit, ReadLabels,
      WriteLabels, StrangerLocks, locals, ringvars, fdvars
<1>6. BlockedForCause'
  BY Zenon DEF PipeInv, TypeOK, BlockedForCause, WriteLimit, RingOK, ReadLabels,
      WriteLabels, StrangerLocks, locals, ringvars, fdvars
<1> QED BY Zenon, <1>1, <1>2, <1>3, <1>4, <1>5, <1>6 DEF PipeInv

-----------------------------------------------------------------------------
\* Every step keeps the invariant.
LEMMA StepKeeps ==
    ASSUME PipeInv, FaultsAlone, [Next]_vars
    PROVE  PipeInv'
<1>1. ASSUME NEW r \in Readers,
             \/ ReadNext(r) \/ CloseRead(r) \/ Fault(r, "rcopy")
             \/ Interrupted(r, "rsleep") \/ \E c \in 1..MaxCount : Read(r, c)
      PROVE  PipeInv'
  BY Zenon, <1>1, ReadKeeps, ReadDecideKeeps, ReadWaitKeeps, ReadWrapKeeps, ReadEOFKeeps,
     ReadCopyKeeps, ReadLockKeeps, ReadFaultKeeps, ReadInterruptedKeeps,
     CloseReadKeeps DEF ReadNext
<1>2. ASSUME NEW w \in Writers,
             \/ WriteNext(w) \/ CloseWrite(w) \/ Fault(w, "wcopy")
             \/ Interrupted(w, "wsleep") \/ \E c \in 1..MaxCount : Write(w, c)
      PROVE  PipeInv'
  BY Zenon, <1>2, WriteKeeps, WriteBrokenKeeps, WriteDecideKeeps, WriteWaitKeeps,
     WriteCopyKeeps, WriteReturnKeeps, WriteLockKeeps, WriteFaultKeeps,
     WriteInterruptedKeeps, CloseWriteKeeps DEF WriteNext
<1>3. CASE UNCHANGED vars
  BY ZenonT(40), <1>3 DEF vars, ringvars, fdvars, locals, PipeInv, TypeOK, RingOK, LockOK, Alone,
     CallsOK, DecidedOK, BlockedForCause, ReadLimit, WriteLimit
<1> QED BY Zenon, <1>1, <1>2, <1>3, StrangerWakesReaders, StrangerWakesWriters,
           StrangerLocksKeeps DEF Next

\* The invariant of the calls on the pipe, where a copy of pipefs_read() or
\* pipefs_write() sleeps with the lock held only for one process at each end.
THEOREM PipeInvariant ==
    ASSUME SleepersAlone
    PROVE  Spec => []PipeInv
<1>1. Init => PipeInv /\ FaultsAlone
  BY Zenon, PipeInit, StartsAlone
<1>2. PipeInv /\ FaultsAlone /\ [Next]_vars => PipeInv' /\ FaultsAlone'
  BY Zenon, StepKeeps, StaysAlone
<1> QED BY <1>1, <1>2, PTL DEF Spec

\* pipefs_read() and pipefs_write() sleep only for want of bytes or room, and
\* never both: for a ring of any size and any number of processes at its ends,
\* if no copy sleeps with the lock held, or one process at each.
THEOREM SleepersHaveReason ==
    ASSUME SleepersAlone
    PROVE  Spec => []BlockedForCause
<1>1. PipeInv => BlockedForCause
  BY DEF PipeInv
<1> QED BY <1>1, PipeInvariant, PTL

\* The copy made after lock_resource(), perhaps long after its size was decided
\* on, stays within the ring and within what the pipe holds or has room for.
CopyFits ==
    /\ \A r \in Readers : pc[r] = "rcopy" =>
          n[r] \in 1..i_size /\ readoff + n[r] <= PIPE_BUF
    /\ \A w \in Writers : pc[w] = "wcopy" =>
          /\ writeoff + n[w] <= PIPE_BUF /\ i_size + n[w] <= PIPE_BUF
          /\ \A r \in Readers : pc[r] /= "rcopy"

\* pipefs_read() and pipefs_write() never copy outside i_data, nor more than
\* the pipe holds or has room for, and never at the same time, although the
\* size was decided on before a sleep for the lock; with several processes at
\* one end, only if nobody sleeps there.
THEOREM CopiesFit ==
    ASSUME SleepersAlone
    PROVE  Spec => []CopyFits
<1>1. ASSUME PipeInv PROVE CopyFits
  <2>1. ASSUME NEW r \in Readers, pc[r] = "rcopy"
        PROVE  n[r] \in 1..i_size /\ readoff + n[r] <= PIPE_BUF
    <3>1. n[r] \in Nat /\ 0 < n[r] /\ n[r] <= i_size /\ n[r] <= ReadLimit
      BY Zenon, <1>1, <2>1 DEF PipeInv, TypeOK, DecidedOK
    <3> QED BY SMTT(30), <1>1, <3>1 DEF PipeInv, TypeOK, ReadLimit
  <2>2. ASSUME NEW w \in Writers, pc[w] = "wcopy"
        PROVE  /\ writeoff + n[w] <= PIPE_BUF /\ i_size + n[w] <= PIPE_BUF
               /\ \A r \in Readers : pc[r] /= "rcopy"
    <3>1. n[w] \in Nat /\ 0 < n[w] /\ n[w] <= WriteLimit - writeoff
      BY Zenon, <1>1, <2>2 DEF PipeInv, TypeOK, DecidedOK
    <3>2. writeoff + n[w] <= PIPE_BUF /\ i_size + n[w] <= PIPE_BUF
      BY SMTT(30), <1>1, <3>1 DEF PipeInv, TypeOK, RingOK, WriteLimit
    <3>3. \A r \in Readers : pc[r] /= "rcopy"
      BY Zenon, <1>1, <2>2 DEF PipeInv, LockOK, Copying
    <3> QED BY SMTT(30), <3>2, <3>3
  <2> QED BY SMTT(30), <2>1, <2>2 DEF CopyFits
<1> QED BY <1>1, PipeInvariant, PTL

----------------------------------------------------------------------------
(* The pipe implements the byte stream. *)

\* The size bytes of a ring d from offset ro on.
Ring(d, ro, size) == [k \in 1..size |-> d[(ro + k - 1) % PIPE_BUF]]

\* What the stream knows of the write calls.
Sent == [w \in Writers |-> [of |-> count[w], done |-> done[w]]]

\* A write call stays within its request.
CallsFit ==
    \A w \in Writers :
        /\ count[w] \in 0..MaxCount
        /\ pc[w] \in {"wlock", "wcopy"} => done[w] + n[w] <= count[w]

USE PipeAssumption DEF Procs

----------------------------------------------------------------------------
\* An offset that ran past the end once wraps to the start.
LEMMA WrapOnce ==
    ASSUME NEW a \in Nat, a < 2 * PIPE_BUF
    PROVE  a % PIPE_BUF = IF a < PIPE_BUF THEN a ELSE a - PIPE_BUF
OBVIOUS

\* A function on 1..m is a sequence of length m.
LEMMA IsSequence ==
    ASSUME NEW m \in Nat, NEW S, NEW f \in [1..m -> S]
    PROVE  f \in Seq(S) /\ Len(f) = m
<1>1. f \in Seq(S)
  BY SeqDef
<1>2. DOMAIN f = 1..m /\ DOMAIN f = 1..Len(f) /\ Len(f) \in Nat
  BY Zenon, <1>1, LenProperties
<1> QED BY <1>1, <1>2

\* The c-th byte from offset a on is found without dividing, and in the ring.
LEMMA WrapIndex ==
    ASSUME NEW a \in 0..PIPE_BUF, NEW c \in 1..PIPE_BUF
    PROVE  /\ (a + c - 1) % PIPE_BUF =
                 IF a + c - 1 < PIPE_BUF THEN a + c - 1 ELSE a + c - 1 - PIPE_BUF
           /\ (a + c - 1) % PIPE_BUF \in 0..PIPE_BUF - 1
<1>1. a + c - 1 \in Nat /\ a + c - 1 < 2 * PIPE_BUF
  OBVIOUS
<1> QED BY SMTT(30), <1>1, WrapOnce

\* A sequence that agrees with s and then with t is their concatenation.
LEMMA IsConcat ==
    ASSUME NEW S, NEW s \in Seq(S), NEW t \in Seq(S), NEW u \in Seq(S),
           Len(u) = Len(s) + Len(t),
           \A k \in 1..Len(u) : u[k] = IF k <= Len(s) THEN s[k] ELSE t[k - Len(s)]
    PROVE  u = s \o t
<1>1. /\ s \o t \in Seq(S)
      /\ Len(s \o t) = Len(s) + Len(t)
      /\ \A k \in 1..Len(s) + Len(t) :
            (s \o t)[k] = IF k <= Len(s) THEN s[k] ELSE t[k - Len(s)]
  BY ZenonT(40), ConcatProperties
<1> QED BY Zenon, <1>1, SeqEqual

\* Bytes read at the front of the ring leave the rest of the sequence, whatever
\* becomes of the cells they were in (the copy of pipefs_read()).
LEMMA RingGet ==
    ASSUME readoff \in 0..PIPE_BUF, i_size \in 0..PIPE_BUF,
           NEW m \in 1..i_size, readoff + m <= PIPE_BUF,
           \A i \in 0..PIPE_BUF - 1 :
               i \notin readoff..readoff + m - 1 => data'[i] = data[i]
    PROVE  Ring(data', readoff + m, i_size - m) =
             SubSeq(Ring(data, readoff, i_size), m + 1, i_size)
<1> DEFINE old == Ring(data, readoff, i_size)
           new == Ring(data', readoff + m, i_size - m)
           S == {old[k] : k \in 1..i_size} \cup {new[k] : k \in 1..i_size - m}
<1>1. old \in Seq(S) /\ Len(old) = i_size
  <2>1. old \in [1..i_size -> S]
    BY Zenon DEF Ring
  <2> HIDE DEF old, S
  <2> QED BY <2>1, IsSequence
<1>2. new \in Seq(S) /\ Len(new) = i_size - m
  <2>1. new \in [1..i_size - m -> S]
    BY Zenon DEF Ring
  <2>2. i_size - m \in Nat
    BY SMTT(30)
  <2> HIDE DEF new, S
  <2> QED BY Zenon, <2>1, <2>2, IsSequence
<1>3. ASSUME NEW k \in 1..i_size - m
      PROVE  new[k] = old[m + k]
  <2>1. k + m \in 1..i_size /\ readoff + (k + m) - 1 = readoff + m + k - 1
    OBVIOUS
  <2>2. (readoff + m + k - 1) \in Nat /\ readoff + m + k - 1 < 2 * PIPE_BUF
    OBVIOUS
  <2>3. /\ (readoff + m + k - 1) % PIPE_BUF \in 0..PIPE_BUF - 1
        /\ (readoff + m + k - 1) % PIPE_BUF \notin readoff..readoff + m - 1
    BY SMTT(30), <2>2, WrapOnce
  <2>4. new[k] = data'[(readoff + m + k - 1) % PIPE_BUF]
    BY Zenon DEF Ring
  <2>5. old[m + k] = data[(readoff + m + k - 1) % PIPE_BUF]
    <3>1. old[k + m] = data[(readoff + (k + m) - 1) % PIPE_BUF]
      BY Zenon, <2>1 DEF Ring
    <3>2. k + m = m + k
      OBVIOUS
    <3> QED BY Zenon, <2>1, <3>1, <3>2
  <2> QED BY Zenon, <2>3, <2>4, <2>5
<1> HIDE DEF old, new, S
<1>4. \A i \in m + 1..i_size : old[i] \in S
  BY SMTT(30), <1>1, ElementOfSeq
<1>5. /\ SubSeq(old, m + 1, i_size) \in Seq(S)
      /\ Len(SubSeq(old, m + 1, i_size)) = i_size - m
      /\ \A i \in 1..i_size - m : SubSeq(old, m + 1, i_size)[i] = old[m + i]
  BY SMTT(30), <1>4, SubSeqProperties
<1>6. new = SubSeq(old, m + 1, i_size)
  BY Zenon, <1>2, <1>3, <1>5, SeqEqual
<1> QED BY Zenon, <1>6 DEF old, new

\* Bytes written behind the last one extend the sequence and touch no other
\* (the copy of pipefs_write()).
LEMMA RingPut ==
    ASSUME readoff \in 0..PIPE_BUF, i_size \in 0..PIPE_BUF,
           writeoff \in 0..PIPE_BUF, NEW m \in 1..PIPE_BUF,
           NEW S, NEW b \in [1..m -> S],
           i_size + m <= PIPE_BUF, writeoff + m <= PIPE_BUF,
           writeoff = readoff + i_size \/ writeoff = readoff + i_size - PIPE_BUF,
           \A i \in 0..PIPE_BUF - 1 :
               data'[i] = IF i \in writeoff..writeoff + m - 1
                          THEN b[i - writeoff + 1] ELSE data[i]
    PROVE  Ring(data', readoff, i_size + m) = Ring(data, readoff, i_size) \o b
<1> DEFINE old == Ring(data, readoff, i_size)
           new == Ring(data', readoff, i_size + m)
           T == S \cup {old[k] : k \in 1..i_size}
                  \cup {new[k] : k \in 1..i_size + m}
<1>1. old \in Seq(T) /\ Len(old) = i_size
  <2>1. old \in [1..i_size -> T]
    BY Zenon DEF Ring
  <2> HIDE DEF old, T
  <2> QED BY SMTT(30), <2>1, IsSequence
<1>2. new \in Seq(T) /\ Len(new) = i_size + m
  <2>1. \A k \in 1..i_size + m : new[k] \in T
    BY Zenon
  <2>2. new = [k \in 1..i_size + m |-> new[k]]
    BY Zenon DEF Ring
  <2> HIDE DEF new, T
  <2>3. new \in [1..i_size + m -> T] /\ i_size + m \in Nat
    BY SMTT(30), <2>1, <2>2
  <2> QED BY Zenon, <2>3, IsSequence
<1>3. b \in Seq(T) /\ Len(b) = m
  <2>1. b \in [1..m -> T]
    BY Zenon
  <2> HIDE DEF T
  <2> QED BY SMTT(30), <2>1, IsSequence
<1>4. ASSUME NEW k \in 1..i_size + m
      PROVE  new[k] = IF k <= i_size THEN old[k] ELSE b[k - i_size]
  <2> DEFINE j == (readoff + k - 1) % PIPE_BUF
  <2>1. k \in 1..PIPE_BUF
    OBVIOUS
  <2>2. /\ j = IF readoff + k - 1 < PIPE_BUF THEN readoff + k - 1
                                             ELSE readoff + k - 1 - PIPE_BUF
        /\ j \in 0..PIPE_BUF - 1
    BY Zenon, <2>1, WrapIndex, Zenon
  <2>3. new[k] = data'[j]
    BY Zenon DEF Ring
  <2>4. k <= i_size => old[k] = data[j]
    BY DEF Ring
  <2> HIDE DEF j, old, new, T
  <2>5. CASE k <= i_size
    <3>1. j \notin writeoff..writeoff + m - 1
      BY SMTT(30), <2>2, <2>5
    <3> QED BY Zenon, <2>3, <2>4, <2>2, <2>5, <3>1
  <2>6. CASE k > i_size
    <3>1. j \in writeoff..writeoff + m - 1 /\ j - writeoff + 1 = k - i_size
      BY SMTT(30), <2>2, <2>6
    <3> QED BY SMTT(30), <2>3, <2>2, <2>6, <3>1
  <2> QED BY <2>5, <2>6
<1> HIDE DEF old, new, T
<1>5. /\ Len(new) = Len(old) + Len(b)
      /\ \A k \in 1..Len(new) :
            new[k] = IF k <= Len(old) THEN old[k] ELSE b[k - Len(old)]
  BY Zenon, <1>1, <1>2, <1>3, <1>4
<1>6. new = old \o b
  BY ZenonT(40), <1>1, <1>2, <1>3, <1>5, IsConcat, Zenon
<1> QED BY Zenon, <1>6 DEF old, new

\* An offset at the end of the ring is the same place as offset 0.
LEMMA RingWrap ==
    ASSUME NEW d, NEW size \in 0..PIPE_BUF
    PROVE  Ring(d, PIPE_BUF, size) = Ring(d, 0, size)
<1>1. ASSUME NEW k \in 1..size
      PROVE  (PIPE_BUF + k - 1) % PIPE_BUF = (0 + k - 1) % PIPE_BUF
  <2>1. k \in 1..PIPE_BUF /\ PIPE_BUF \in 0..PIPE_BUF /\ 0 \in 0..PIPE_BUF
    OBVIOUS
  <2>2. /\ (PIPE_BUF + k - 1) % PIPE_BUF = k - 1
        /\ (0 + k - 1) % PIPE_BUF = k - 1
    BY SMTT(30), <2>1, WrapIndex
  <2> QED BY Zenon, <2>2
<1> QED BY Zenon, <1>1 DEF Ring

----------------------------------------------------------------------------
\* A step that leaves the ring and the write calls alone is a stutter.
LEMMA Stutter ==
    ASSUME readoff' = readoff, i_size' = i_size, data' = data, Sent' = Sent
    PROVE  UNCHANGED Stream!streamvars
BY Zenon DEF Stream!streamvars, Queue, Sent

\* So is one that only renames the offset.
LEMMA StutterQueue ==
    ASSUME Queue' = Queue, Sent' = Sent
    PROVE  UNCHANGED Stream!streamvars
BY Zenon DEF Stream!streamvars, Sent

\* A step that changes the calls of readers leaves the write calls alone.
LEMMA SentSame ==
    ASSUME \A w \in Writers : count'[w] = count[w] /\ done'[w] = done[w]
    PROVE  Sent' = Sent
BY Zenon DEF Sent

\* A write call that returns, or starts with c bytes, is Begin of the stream.
LEMMA Begins ==
    ASSUME TypeOK, NEW w \in Writers, NEW c \in 0..MaxCount,
           readoff' = readoff, i_size' = i_size, data' = data,
           count' = [count EXCEPT ![w] = c], done' = [done EXCEPT ![w] = 0]
    PROVE  Stream!Next
<1>1. Queue' = Queue
  BY Zenon DEF Queue
<1>2. Sent' = [Sent EXCEPT ![w] = [of |-> c, done |-> 0]]
  BY Zenon DEF TypeOK, Sent
<1>3. Stream!Begin(w, c)
  BY Zenon, <1>1, <1>2 DEF Stream!Begin, Sent
<1> QED BY Zenon, <1>3 DEF Stream!Next

\* The length of the sequence is i_size.
LEMMA QueueLength ==
    ASSUME TypeOK
    PROVE  Len(Queue) = i_size
<1> DEFINE S == {Queue[k] : k \in 1..i_size}
<1>1. \A k \in 1..i_size : Queue[k] \in S
  BY Zenon
<1>2. Queue = [k \in 1..i_size |-> Queue[k]]
  BY Zenon DEF Queue
<1> HIDE DEF S
<1>3. Queue \in [1..i_size -> S] /\ i_size \in Nat
  BY <1>1, <1>2 DEF TypeOK
<1> QED BY Zenon, <1>3, IsSequence

\* The copy of pipefs_read() takes the front of the stream.
LEMMA ReadCopyGets ==
    ASSUME PipeInv, NEW r \in Readers, ReadCopy(r)
    PROVE  Stream!Next
<1>1. PICK m \in Nat : m = n[r]
  BY Zenon DEF PipeInv, TypeOK
<1>2. /\ m \in 1..i_size /\ readoff + m <= PIPE_BUF /\ m \in 1..PIPE_BUF
      /\ readoff \in 0..PIPE_BUF /\ i_size \in 0..PIPE_BUF
  <2>1. 0 < m /\ m <= i_size /\ m <= ReadLimit
    BY Zenon, <1>1 DEF PipeInv, DecidedOK, ReadCopy, At
  <2> QED BY <2>1 DEF PipeInv, TypeOK, ReadLimit
<1>3. \A i \in 0..PIPE_BUF - 1 :
        i \notin readoff..readoff + m - 1 => data'[i] = data[i]
  BY Zenon, <1>1 DEF ReadCopy
<1>4. Ring(data', readoff + m, i_size - m) = SubSeq(Queue, m + 1, i_size)
  <2>1. Queue = Ring(data, readoff, i_size)
    BY Zenon DEF Queue, Ring
  <2>2. Ring(data', readoff + m, i_size - m) =
          SubSeq(Ring(data, readoff, i_size), m + 1, i_size)
    BY Zenon, <1>2, <1>3, RingGet
  <2> QED BY Zenon, <2>1, <2>2
<1>5. Queue' = Ring(data', readoff + m, i_size - m)
  <2>1. i_size' = i_size - m
    BY Zenon, <1>1 DEF ReadCopy, RewindIfEmpty
  <2>2. CASE i_size' = 0
    <3>1. 1..i_size' = {} /\ 1..i_size - m = {}
      BY <2>1, <2>2
    <3> QED BY ZenonT(40), <3>1 DEF Queue, Ring
  <2>3. CASE i_size' /= 0
    <3>1. readoff' = readoff + m
      BY Zenon, <1>1, <2>3 DEF ReadCopy, RewindIfEmpty
    <3> QED BY Zenon, <2>1, <3>1 DEF Queue, Ring
  <2> QED BY Zenon, <2>2, <2>3
<1>6. Sent' = Sent
  <2>1. \A w \in Writers : count'[w] = count[w] /\ done'[w] = done[w]
    BY Zenon DEF PipeInv, TypeOK, ReadCopy, Forget
  <2> QED BY Zenon, <2>1, SentSame
<1>7. Len(Queue) = i_size
  BY Zenon, QueueLength DEF PipeInv
<1>8. Stream!Get(m)
  BY SMTT(30), <1>2, <1>4, <1>5, <1>6, <1>7 DEF Stream!Get, Sent
<1> QED BY Zenon, <1>2, <1>8 DEF Stream!Next

\* The copy of pipefs_write() extends the stream with the next bytes of the call.
LEMMA WriteCopyPuts ==
    ASSUME PipeInv, CallsFit, NEW w \in Writers, WriteCopy(w)
    PROVE  Stream!Next
<1>1. PICK m \in Nat : m = n[w]
  BY Zenon DEF PipeInv, TypeOK
<1> DEFINE b == [i \in 1..m |-> Byte(w, count[w], done[w] + i)]
<1>2. /\ m \in 1..PIPE_BUF /\ writeoff + m <= PIPE_BUF /\ i_size + m <= PIPE_BUF
      /\ writeoff = readoff + i_size \/ writeoff = readoff + i_size - PIPE_BUF
      /\ readoff \in 0..PIPE_BUF /\ i_size \in 0..PIPE_BUF
      /\ writeoff \in 0..PIPE_BUF
  <2>1. 0 < m /\ m <= WriteLimit - writeoff
    BY Zenon, <1>1 DEF PipeInv, DecidedOK, WriteCopy, At
  <2> QED BY SMTT(30), <2>1 DEF PipeInv, TypeOK, RingOK, WriteLimit
<1>3. \A i \in 0..PIPE_BUF - 1 :
        data'[i] = IF i \in writeoff..writeoff + m - 1
                   THEN b[i - writeoff + 1] ELSE data[i]
  <2>1. \A i \in 0..PIPE_BUF - 1 :
          data'[i] = IF i \in writeoff..writeoff + m - 1
                     THEN Byte(w, count[w], done[w] + 1 + i - writeoff) ELSE data[i]
    BY Zenon, <1>1 DEF WriteCopy
  <2>2. \A i \in writeoff..writeoff + m - 1 :
          /\ i - writeoff + 1 \in 1..m
          /\ done[w] + (i - writeoff + 1) = done[w] + 1 + i - writeoff
    BY SMTT(30), <1>2 DEF PipeInv, TypeOK
  <2>3. \A i \in writeoff..writeoff + m - 1 :
          b[i - writeoff + 1] = Byte(w, count[w], done[w] + 1 + i - writeoff)
    BY Zenon, <2>2
  <2> QED BY Zenon, <2>1, <2>3
<1>4. Ring(data', readoff, i_size + m) = Queue \o b
  <2>1. Queue = Ring(data, readoff, i_size)
    BY Zenon DEF Queue, Ring
  <2>2. b \in [1..m -> {b[i] : i \in 1..m}]
    BY Zenon
  <2> HIDE DEF b
  <2>3. Ring(data', readoff, i_size + m) = Ring(data, readoff, i_size) \o b
    BY ZenonT(40), <1>2, <1>3, <2>2, RingPut
  <2> QED BY Zenon, <2>1, <2>3
<1>5. Queue' = Ring(data', readoff, i_size + m)
  <2>1. Queue' = Ring(data', readoff', i_size + m)
    BY Zenon, <1>1 DEF Queue, Ring, WriteCopy
  <2>2. CASE readoff >= PIPE_BUF
    <3>1. readoff = PIPE_BUF /\ readoff' = 0 /\ i_size + m \in 0..PIPE_BUF
      BY SMTT(30), <1>2, <2>2 DEF WriteCopy
    <3>2. Ring(data', PIPE_BUF, i_size + m) = Ring(data', 0, i_size + m)
      BY Zenon, <3>1, RingWrap
    <3> QED BY Zenon, <2>1, <3>1, <3>2
  <2>3. CASE ~(readoff >= PIPE_BUF)
    BY Zenon, <2>1, <2>3 DEF WriteCopy
  <2> QED BY Zenon, <2>2, <2>3
<1>6. m <= count[w] - done[w]
  BY SMTT(30), <1>1 DEF PipeInv, TypeOK, CallsFit, WriteCopy, At
<1>7. Sent' = [Sent EXCEPT ![w].done = @ + m]
  BY Zenon, <1>1 DEF PipeInv, TypeOK, WriteCopy, Sent
<1>8. Len(Queue) = i_size
  BY Zenon, QueueLength DEF PipeInv
<1>9. Stream!Put(w, m)
  BY Zenon, <1>2, <1>4, <1>5, <1>6, <1>7, <1>8 DEF Stream!Put, Stream!Byte, Byte, Sent
<1> QED BY Zenon, <1>2, <1>9 DEF Stream!Next

----------------------------------------------------------------------------
\* A step of a reader does not change the calls of the writers, beyond waking
\* those that sleep.
LEMMA ReaderLeavesCalls ==
    ASSUME PipeInv, CallsFit, NEW r \in Readers,
           \/ ReadNext(r) \/ CloseRead(r)
           \/ Fault(r, "rcopy") \/ Interrupted(r, "rsleep")
           \/ \E c \in 1..MaxCount : Read(r, c)
    PROVE  CallsFit' /\ Sent' = Sent
<1>1. ASSUME NEW w \in Writers
      PROVE  /\ count'[w] = count[w] /\ done'[w] = done[w] /\ n'[w] = n[w]
             /\ pc'[w] = pc[w] \/ pc'[w] \notin {"wlock", "wcopy"}
  <2>0. /\ r /= w /\ w \in Procs /\ r \in Procs
        /\ count \in [Procs -> Nat] /\ n \in [Procs -> Nat] /\ done \in [Procs -> Nat]
        /\ pc \in [Procs -> ReadLabels \cup WriteLabels]
    BY Zenon DEF PipeInv, TypeOK
  <2>1. CASE \E c \in 1..MaxCount : Read(r, c)
    BY Zenon, <2>0, <2>1 DEF Read, Continue
  <2>2. CASE ReadDecide(r)
    BY Zenon, <2>0, <2>2 DEF ReadDecide, Continue
  <2>3. CASE ReadWait(r)
    BY Zenon, <2>0, <2>3 DEF ReadWait, Return, Forget, Sleep, locals
  <2>4. CASE ReadWrap(r)
    BY Zenon, <2>0, <2>4 DEF ReadWrap, Continue, locals
  <2>5. CASE ReadEOF(r)
    BY Zenon, <2>0, <2>5 DEF ReadEOF, Return, Forget
  <2>6. CASE ReadCopy(r)
    BY Zenon, <2>0, <2>6 DEF ReadCopy, WakeAnd, Forget
  <2>7. CASE LockPipe(r, "rlock", "rcopy")
    BY Zenon, <2>0, <2>7 DEF LockPipe, Continue, Sleep, locals
  <2>8. CASE CloseRead(r)
    BY Zenon, <2>0, <2>8 DEF CloseRead, WakeAnd, locals
  <2>9. CASE Fault(r, "rcopy")
    BY Zenon, <2>0, <2>9 DEF Fault, locals
  <2>10. CASE Interrupted(r, "rsleep")
    BY Zenon, <2>0, <2>10 DEF Interrupted, Return, Forget
  <2> QED BY ZenonT(40), <2>1, <2>2, <2>3, <2>4, <2>5, <2>6, <2>7, <2>8, <2>9, <2>10
          DEF ReadNext
<1>2. CallsFit'
  BY Zenon, <1>1 DEF CallsFit
<1>3. Sent' = Sent
  BY Zenon, <1>1, SentSame
<1> QED BY Zenon, <1>2, <1>3

\* A step of a reader takes from the stream or leaves it alone.
LEMMA ReaderRefines ==
    ASSUME PipeInv, CallsFit, NEW r \in Readers,
           \/ ReadNext(r) \/ CloseRead(r)
           \/ Fault(r, "rcopy") \/ Interrupted(r, "rsleep")
           \/ \E c \in 1..MaxCount : Read(r, c)
    PROVE  [Stream!Next]_(Stream!streamvars)
<1>1. Sent' = Sent
  BY Zenon, ReaderLeavesCalls
<1>2. CASE ReadCopy(r)
  BY Zenon, <1>2, ReadCopyGets
<1>3. CASE ReadWrap(r)
  <2>1. /\ readoff = PIPE_BUF /\ readoff' = 0 /\ data' = data /\ i_size' = i_size
        /\ i_size \in 0..PIPE_BUF
    BY SMTT(30), <1>3 DEF PipeInv, TypeOK, ReadWrap
  <2>2. Queue = Ring(data, PIPE_BUF, i_size) /\ Queue' = Ring(data, 0, i_size)
    BY Zenon, <2>1 DEF Queue, Ring
  <2>3. Ring(data, PIPE_BUF, i_size) = Ring(data, 0, i_size)
    BY Zenon, <2>1, RingWrap
  <2>4. Queue' = Queue
    BY Zenon, <2>2, <2>3
  <2> QED BY Zenon, <1>1, <2>4, StutterQueue
<1>4. CASE ReadEOF(r)
  <2>1. data' = data /\ i_size' = i_size /\ (i_size = 0 \/ readoff' = readoff)
    BY Zenon, <1>4 DEF ReadEOF, RewindIfEmpty
  <2>2. CASE i_size = 0
    <3>1. 1..i_size = {} /\ 1..i_size' = {}
      BY SMTT(30), <2>1, <2>2
    <3>2. Queue' = Queue
      BY Zenon, <3>1 DEF Queue
    <3> QED BY Zenon, <1>1, <3>2, StutterQueue
  <2>3. CASE readoff' = readoff
    BY Zenon, <1>1, <2>1, <2>3, Stutter
  <2> QED BY Zenon, <2>1, <2>2, <2>3
<1>5. CASE ~(ReadCopy(r) \/ ReadWrap(r) \/ ReadEOF(r))
  <2>1. readoff' = readoff /\ i_size' = i_size /\ data' = data
    BY Zenon, <1>5 DEF ReadNext, Read, ReadDecide, ReadWait, LockPipe, CloseRead, Fault,
       Interrupted, ringvars
  <2> QED BY Zenon, <1>1, <2>1, Stutter
<1> QED BY Zenon, <1>2, <1>3, <1>4, <1>5

\* A step of a writer keeps its call, and those of the other writers, in bounds.
LEMMA WriterKeepsCalls ==
    ASSUME PipeInv, CallsFit, NEW w \in Writers,
           \/ WriteNext(w) \/ CloseWrite(w)
           \/ Fault(w, "wcopy") \/ Interrupted(w, "wsleep")
           \/ \E c \in 1..MaxCount : Write(w, c)
    PROVE  CallsFit'
<1>0. /\ w \in Procs /\ count[w] \in Nat /\ done[w] \in Nat /\ n[w] \in Nat
      /\ count \in [Procs -> Nat] /\ n \in [Procs -> Nat] /\ done \in [Procs -> Nat]
      /\ pc \in [Procs -> ReadLabels \cup WriteLabels]
      /\ readoff \in Nat /\ writeoff \in Nat
  BY DEF PipeInv, TypeOK
<1>1. CASE \E c \in 1..MaxCount : Write(w, c)
  BY SMTT(30), <1>0, <1>1 DEF CallsFit, Write, Continue
<1>2. CASE WriteBroken(w) \/ WriteReturn(w) \/ Interrupted(w, "wsleep")
  BY SMTT(30), <1>0, <1>2 DEF CallsFit, WriteBroken, WriteReturn, Interrupted, Return, Forget
<1>3. CASE WriteDecide(w)
  <2>1. PICK m \in Nat : m = WriteRoom(w) /\ done[w] + m <= count[w]
    BY SMTT(30), <1>0, <1>3 DEF WriteDecide, WriteRoom, MIN, WriteLimit
  <2> QED BY Zenon, <1>0, <1>3, <2>1 DEF CallsFit, WriteDecide, Continue
<1>4. CASE WriteWait(w)
  <2>1. /\ pc'[w] \notin {"wlock", "wcopy"}
        /\ \A q \in Writers : pc'[q] = pc[q] \/ pc'[q] \notin {"wlock", "wcopy"}
    BY Zenon, <1>0, <1>4 DEF WriteWait, WakeAnd
  <2>2. Forget(w) \/ UNCHANGED locals
    BY Zenon, <1>4 DEF WriteWait
  <2>3. /\ count'[w] = 0 \/ count'[w] = count[w]
        /\ \A q \in Writers \ {w} :
              count'[q] = count[q] /\ done'[q] = done[q] /\ n'[q] = n[q]
    BY Zenon, <1>0, <2>2 DEF Forget, locals
  <2> QED BY SMTT(30), <1>0, <2>1, <2>3 DEF CallsFit
<1>5. CASE WriteCopy(w)
  BY Zenon, <1>0, <1>5 DEF CallsFit, WriteCopy, WakeAnd
<1>6. CASE LockPipe(w, "wlock", "wcopy")
  BY Zenon, <1>0, <1>6 DEF CallsFit, LockPipe, At, Continue, Sleep, locals
<1>7. CASE CloseWrite(w)
  BY SMTT(30), <1>0, <1>7 DEF CallsFit, CloseWrite, At, WakeAnd, locals
<1>8. CASE Fault(w, "wcopy")
  BY Zenon, <1>0, <1>8 DEF CallsFit, Fault, locals
<1> QED BY Zenon, <1>1, <1>2, <1>3, <1>4, <1>5, <1>6, <1>7, <1>8 DEF WriteNext

\* A step of a writer starts or ends a call, adds to the stream or leaves it alone.
LEMMA WriterRefines ==
    ASSUME PipeInv, CallsFit, NEW w \in Writers,
           \/ WriteNext(w) \/ CloseWrite(w)
           \/ Fault(w, "wcopy") \/ Interrupted(w, "wsleep")
           \/ \E c \in 1..MaxCount : Write(w, c)
    PROVE  [Stream!Next]_(Stream!streamvars)
<1>0. TypeOK /\ 0 \in 0..MaxCount
  BY DEF PipeInv
<1>1. CASE \E c \in 1..MaxCount : Write(w, c)
  <2>1. PICK c \in 1..MaxCount : Write(w, c)
    BY Zenon, <1>1
  <2>2. c \in 0..MaxCount
    OBVIOUS
  <2>3. /\ count' = [count EXCEPT ![w] = c] /\ done' = [done EXCEPT ![w] = 0]
        /\ readoff' = readoff /\ i_size' = i_size /\ data' = data
    BY Zenon, <2>1 DEF Write, ringvars
  <2> QED BY Zenon, <1>0, <2>2, <2>3, Begins
<1>2. ASSUME Forget(w), UNCHANGED ringvars
      PROVE  Stream!Next
  <2>1. /\ count' = [count EXCEPT ![w] = 0] /\ done' = [done EXCEPT ![w] = 0]
        /\ readoff' = readoff /\ i_size' = i_size /\ data' = data
    BY Zenon, <1>2 DEF Forget, ringvars
  <2> QED BY Zenon, <1>0, <2>1, Begins
<1>3. ASSUME UNCHANGED ringvars, UNCHANGED <<count, done>>
      PROVE  UNCHANGED Stream!streamvars
  <2>1. readoff' = readoff /\ i_size' = i_size /\ data' = data /\ Sent' = Sent
    BY Zenon, <1>3 DEF ringvars, Sent
  <2> QED BY Zenon, <2>1, Stutter
<1>4. CASE WriteBroken(w) \/ WriteReturn(w) \/ Interrupted(w, "wsleep")
  BY Zenon, <1>2, <1>4 DEF WriteBroken, WriteReturn, Interrupted, Return
<1>5. CASE WriteWait(w)
  <2>1. UNCHANGED ringvars /\ (Forget(w) \/ UNCHANGED <<count, done>>)
    BY Zenon, <1>5 DEF WriteWait, locals
  <2> QED BY Zenon, <1>2, <1>3, <2>1
<1>6. CASE WriteCopy(w)
  BY Zenon, <1>6, WriteCopyPuts
<1>7. CASE \/ WriteDecide(w) \/ LockPipe(w, "wlock", "wcopy")
           \/ CloseWrite(w) \/ Fault(w, "wcopy")
  <2>1. UNCHANGED ringvars /\ UNCHANGED <<count, done>>
    BY Zenon, <1>7 DEF WriteDecide, LockPipe, CloseWrite, Fault, locals
  <2> QED BY Zenon, <1>3, <2>1
<1> QED BY Zenon, <1>1, <1>4, <1>5, <1>6, <1>7 DEF WriteNext

\* The users of other pipes do not change what this one holds.
LEMMA StrangerRefines ==
    ASSUME CallsFit, PipeInv,
           \/ StrangerWakes("rsleep", "rloop") \/ StrangerWakes("wsleep", "wloop")
           \/ StrangerLocks \/ UNCHANGED vars
    PROVE  CallsFit' /\ UNCHANGED Stream!streamvars
<1>1. UNCHANGED ringvars /\ UNCHANGED locals
  BY Zenon DEF StrangerWakes, StrangerLocks, vars
<1>2. \A w \in Writers : pc'[w] = pc[w] \/ pc'[w] \notin {"wlock", "wcopy"}
  BY Zenon DEF StrangerWakes, StrangerLocks, WakeAnd, vars
<1>3. CallsFit'
  BY Zenon, <1>1, <1>2 DEF CallsFit, locals
<1>4. readoff' = readoff /\ i_size' = i_size /\ data' = data /\ Sent' = Sent
  BY Zenon, <1>1 DEF ringvars, locals, Sent
<1> QED BY Zenon, <1>3, <1>4, Stutter

\* Every step of the pipe is a step of the stream or leaves it alone.
LEMMA StepRefines ==
    ASSUME PipeInv, CallsFit, [Next]_vars
    PROVE  CallsFit' /\ [Stream!Next]_(Stream!streamvars)
BY Zenon, ReaderLeavesCalls, ReaderRefines, WriterKeepsCalls, WriterRefines,
   StrangerRefines DEF Next

\* A reader that holds the lock finds the oldest bytes where it looks for them.
LEMMA OldestAtReadoff ==
    ASSUME PipeInv
    PROVE  ReadsOldest
<1> SUFFICES ASSUME NEW r \in Readers, pc[r] = "rcopy"
             PROVE  n[r] <= i_size /\ ReadBytes(r) = SubSeq(Queue, 1, n[r])
  BY Zenon DEF ReadsOldest
<1>1. PICK m \in Nat : m = n[r]
  BY Zenon DEF PipeInv, TypeOK
<1>2. /\ m \in 1..i_size /\ readoff + m <= PIPE_BUF
      /\ readoff \in 0..PIPE_BUF /\ i_size \in 0..PIPE_BUF
  <2>1. 0 < m /\ m <= i_size /\ m <= ReadLimit
    BY Zenon, <1>1 DEF PipeInv, DecidedOK
  <2> QED BY SMTT(30), <2>1 DEF PipeInv, TypeOK, ReadLimit
<1> DEFINE bytes == [k \in 1..m |-> Cell(readoff + k - 1)]
           S == {Queue[k] : k \in 1..i_size} \cup {bytes[k] : k \in 1..m}
<1>3. \A k \in 1..m : bytes[k] = Queue[k]
  <2> SUFFICES ASSUME NEW k \in 1..m PROVE bytes[k] = Queue[k]
    BY Zenon
  <2>1. k \in 1..PIPE_BUF /\ readoff + k - 1 < PIPE_BUF /\ k \in 1..i_size
    BY SMTT(30), <1>2
  <2>2. (readoff + k - 1) % PIPE_BUF = readoff + k - 1
    BY Zenon, <1>2, <2>1, WrapIndex
  <2> QED BY Zenon, <2>1, <2>2 DEF Cell, Queue
<1>4. \A k \in 1..i_size : Queue[k] \in S
  BY Zenon
<1>5. bytes \in Seq(S) /\ Len(bytes) = m
  <2>1. bytes \in [1..m -> S]
    BY Zenon
  <2> HIDE DEF bytes, S
  <2> QED BY Zenon, <2>1, IsSequence
<1> HIDE DEF bytes, S
<1>6. /\ SubSeq(Queue, 1, m) \in Seq(S) /\ Len(SubSeq(Queue, 1, m)) = m
      /\ \A k \in 1..m : SubSeq(Queue, 1, m)[k] = Queue[k]
  <2>1. 1 \in Int /\ m \in Int /\ \A i \in 1..m : Queue[i] \in S
    BY SMTT(30), <1>2, <1>4
  <2> QED BY SMTT(30), <1>2, <2>1, SubSeqProperties
<1>7. bytes = SubSeq(Queue, 1, m)
  BY Zenon, <1>3, <1>5, <1>6, SeqEqual
<1>8. ReadBytes(r) = bytes
  BY Zenon, <1>1 DEF bytes, ReadBytes
<1>9. n[r] <= i_size
  BY SMTT(30), <1>1, <1>2
<1> QED BY Zenon, <1>1, <1>7, <1>8, <1>9

\* The ring of pipefs_read() and pipefs_write() is a first-in first-out stream
\* for a ring of any size: for one reader and one writer, in whatever order
\* their calls wait, fault, wrap and resume, and for any number of them if no
\* copy sleeps with the lock held.
THEOREM RingImplementsStream ==
    ASSUME SleepersAlone
    PROVE  Spec => ImplementsStream
<1>1. Init => Stream!Init /\ CallsFit
  <2> SUFFICES ASSUME Init PROVE Stream!Init /\ CallsFit
    BY Zenon
  <2>1. CallsFit
    BY SMTT(30) DEF Init, CallsFit
  <2>2. Queue = <<>>
    BY SMTT(30) DEF Init, Queue
  <2>3. Sent = [w \in Writers |-> [of |-> 0, done |-> 0]]
    BY Zenon DEF Init, Sent
  <2> QED BY Zenon, <2>1, <2>2, <2>3 DEF Stream!Init, Sent
<1>2. PipeInv /\ CallsFit /\ [Next]_vars =>
        CallsFit' /\ [Stream!Next]_(Stream!streamvars)
  BY Zenon, StepRefines
<1>3. PipeInv => ReadsOldest
  BY OldestAtReadoff
<1> QED BY <1>1, <1>2, <1>3, PipeInvariant, PTL
        DEF Spec, Stream!Spec, ImplementsStream
=============================================================================
