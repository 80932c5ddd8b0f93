------------------------------ MODULE SysvIpc -------------------------------
(***************************************************************************)
(* System V semaphores and message queues (kernel/syscalls/sem*.c,         *)
(* msg*.c); shared memory is in Mm. A system call runs from one sleep() to *)
(* the next in a single action. Semaphore sets keep their values in blocks *)
(* of sma_pool and their SEM_UNDO entries in cells of semundo_pool, linked *)
(* both from the process and from the set; messages are cells of msg_pool. *)
(* Every process has superuser privileges, so that ipc_has_perms() holds,  *)
(* and message texts are not kept: a message is its type and its size.     *)
(***************************************************************************)
EXTENDS Integers, Sequences, FiniteSets, SequencesExt

CONSTANTS
  Proc,         \* processes
  SEMMNI, SEMMSL, SEMVMX, MSGMNI, MSGTQL, MSGMNB, MSGMAX,   \* limits of sem.h, msg.h
  SmaBlocks, UndoCells,     \* blocks of sma_pool, cells of semundo_pool
  Hazards,      \* the cases the named passages of README.md are about
  Menus         \* what the processes do: sets of calls and of their arguments

ASSUME IpcAssumption == /\ {SEMMNI, SEMMSL, SEMVMX, MSGMNI, MSGTQL, MSGMNB, MSGMAX} \subseteq Nat \ {0}
                        /\ {SmaBlocks, UndoCells} \subseteq Nat

VARIABLES k,    \* the kernel's tables and what each process is doing
          menu, \* the menu of this behaviour
          calls \* calls made so far
vars == <<k, menu, calls>>

NONE == [at |-> "user"]      \* a process in user mode
NoSem == [val |-> 0, ncnt |-> 0, zcnt |-> 0]
NoUndo == [semid |-> -1, num |-> 0, adj |-> 0, next |-> 0]
NoMsg == [used |-> FALSE, next |-> 0, type |-> 0, ts |-> 0, tag |-> 0]
NoQueue == [used |-> FALSE, key |-> 0, seq |-> 0, first |-> 0, last |-> 0, qnum |-> 0, cbytes |-> 0, qbytes |-> 0]
UNUSED == [nsems |-> 0]      \* IPC_UNUSED

(* The first slot of those that will do, 0 - 1 when there is none *)
First(slots) == IF slots = {} THEN -1 ELSE CHOOSE n \in slots : \A m \in slots : n <= m

sem_init ==
  [semset |-> [n \in 0 .. SEMMNI - 1 |-> UNUSED],
   sma |-> [b \in 1 .. SmaBlocks |-> [i \in 0 .. SEMMSL - 1 |-> NoSem]], taken |-> {},
   su |-> [u \in 1 .. UndoCells |-> NoUndo], semundo |-> [p \in Proc |-> <<>>],
   num_sems |-> 0, sem_seq |-> 0, max_semid |-> 0]
msg_init ==
  [pool |-> [i \in 1 .. MSGMNI |-> NoQueue], msgque |-> [n \in 0 .. MSGMNI - 1 |-> 0],
   md |-> [m \in 1 .. MSGTQL |-> NoMsg], num_msgs |-> 0, msg_seq |-> 0, max_mqid |-> 0]

Init == /\ menu \in Menus /\ calls = 0
        /\ k = sem_init @@ msg_init @@
               [job |-> [p \in Proc |-> NONE], live |-> Proc,
                sent |-> 0, net |-> [p \in Proc |-> [n \in 0 .. SEMMNI - 1 |-> [i \in 0 .. SEMMSL - 1 |-> 0]]]]

(* sleep() and wakeup(): a woken process runs later *)
sleep(v, p, job) == [v EXCEPT !.job[p] = job @@ [woken |-> FALSE]]
wakeup(v, chan) == [v EXCEPT !.job = [p \in Proc |->
                      IF v.job[p].at # "user" /\ v.job[p].chan = chan THEN [v.job[p] EXCEPT !.woken = TRUE] ELSE v.job[p]]]
user(v, p) == [v EXCEPT !.job[p] = NONE]

-----------------------------------------------------------------------------
(* Semaphores *)

Sets == 0 .. SEMMNI - 1
Sems == 0 .. SEMMSL - 1
InUse(v, n) == v.semset[n] # UNUSED
SemId(v, n) == v.semset[n].seq * SEMMNI + n

(* The blocks of a removed set are never given back: sem_release_sma() has  *)
(* no caller. 0 is the NULL of an exhausted pool.                           *)
sem_get_new_sma(v) == LET b == First({i \in 1 .. SmaBlocks : i \notin v.taken}) IN IF b < 0 THEN 0 ELSE b
sem_get_new_su(v) == First({u \in 1 .. UndoCells : v.su[u].semid < 0})
sem_release_su(v, u) == [v EXCEPT !.su[u] = NoUndo]

sys_semget(v, key, nsems, creat) ==       \* key 0 is IPC_PRIVATE
  LET old == First({n \in Sets : InUse(v, n) /\ v.semset[n].key = key})
      n == First({m \in Sets : ~InUse(v, m)})
      b == sem_get_new_sma(v) IN
  IF \/ nsems > SEMMSL
     \/ key # 0 /\ (old >= 0 \/ ~creat)      \* found, or -EEXIST, -EINVAL, -ENOENT: nothing changes
     \/ nsems = 0 \/ v.num_sems + nsems > SEMMSL * SEMMNI \/ n < 0
  THEN v
  ELSE [v EXCEPT !.semset[n] = [key |-> key, seq |-> v.sem_seq, base |-> b, nsems |-> nsems, undo |-> 0],
                 !.taken = @ \cup {b}, !.num_sems = @ + nsems, !.max_semid = IF n > @ THEN n ELSE @]

SetVal(v, b, i, x) == [v EXCEPT !.sma[b][i].val = x]
WakeWaiters(v, b, i, which) ==     \* nobody is waked when the count is zero
  IF which = "n" THEN IF v.sma[b][i].ncnt > 0 THEN wakeup(v, <<"n", b, i>>) ELSE v
                 ELSE IF v.sma[b][i].zcnt > 0 THEN wakeup(v, <<"z", b, i>>) ELSE v
WakeBoth_first(v, b, i) == WakeWaiters(v, b, i, "n")      \* a mutant
WakeBoth(v, b, i) == WakeWaiters(WakeWaiters(v, b, i, "n"), b, i, "z")

semundo_ops(v, b, sops, max) ==
  FoldLeft(LAMBDA w, n : SetVal(w, b, sops[n].num, w.sma[b][sops[n].num].val - sops[n].op), v, [n \in 1 .. max |-> n])

(* One operation of a semop(): the call goes on, or stops for a reason *)
SemOp(b, r, o) ==
  LET x == r.v.sma[b][o.num].val + o.op
      done == SetVal(r.v, b, o.num, x) IN
  CASE r.stop # "" -> r
    [] r.stop = "" /\ o.op > 0 ->
         IF x > SEMVMX THEN [r EXCEPT !.stop = "range"]
         ELSE [r EXCEPT !.n = @ + 1, !.v = WakeWaiters(done, b, o.num, "n")]
    [] r.stop = "" /\ o.op < 0 ->
         IF x < 0 THEN [r EXCEPT !.stop = "n"]
         ELSE [r EXCEPT !.n = @ + 1, !.v = IF x = 0 THEN WakeWaiters(done, b, o.num, "z") ELSE done]
    [] r.stop = "" /\ o.op = 0 -> IF x # 0 THEN [r EXCEPT !.stop = "z"] ELSE [r EXCEPT !.n = @ + 1]
TryAll(v, b, sops) == FoldLeft(LAMBDA r, o : SemOp(b, r, o), [v |-> v, n |-> 0, stop |-> ""], sops)

(* The entry for a SEM_UNDO operation: the one the process has, or a new one *)
FindUndo(v, p, semid, num) == SelectSeq(v.semundo[p], LAMBDA u : v.su[u].semid = semid /\ v.su[u].num = num)
Undo(p, semid, r, o) ==
  IF r.nomem THEN r
  ELSE IF ~o.undo THEN [r EXCEPT !.n = @ + 1]
  ELSE LET n == semid % SEMMNI
           mine == FindUndo(r.v, p, semid, o.num)
           u == IF mine # <<>> THEN mine[1] ELSE sem_get_new_su(r.v)
           linked == IF mine # <<>> \/ u < 0 THEN r.v
                     ELSE [r.v EXCEPT !.su[u] = [semid |-> semid, num |-> o.num, adj |-> 0, next |-> r.v.semset[n].undo],
                                      !.semundo[p] = <<u>> \o @, !.semset[n].undo = u] IN
       IF u < 0 THEN [r EXCEPT !.nomem = TRUE]
       ELSE [r EXCEPT !.v = [linked EXCEPT !.su[u].adj = @ - o.op], !.n = @ + 1]
need_undo(sops) == \E i \in DOMAIN sops : sops[i].undo /\ sops[i].op # 0
UndoAll(v, p, semid, sops) ==
  LET none == [v |-> v, n |-> 0, nomem |-> FALSE] IN
  IF need_undo(sops) THEN FoldLeft(LAMBDA r, o : Undo(p, semid, r, o), none, sops) ELSE none

(* What SEM_UNDO promises to give back when the process exits *)
Owe(v, p, n, sops) ==
  FoldLeft(LAMBDA w, o : IF o.undo THEN [w EXCEPT !.net[p][n][o.num] = @ + o.op] ELSE w, v, sops)

(* sys_semop() from its label loop: the whole of the array or none of it.   *)
(* Only the operations before the one whose cell is missing are reversed.   *)
semop_loop(v, p, semid, sops) ==
  LET n == semid % SEMMNI
      b == v.semset[n].base
      r == TryAll(v, b, sops)
      back == semundo_ops(r.v, b, sops, r.n)
      o == sops[r.n + 1]
      u == UndoAll(r.v, p, semid, sops) IN
  CASE r.stop = "" -> IF u.nomem THEN user(semundo_ops(u.v, b, sops, u.n), p)      \* -ENOMEM
                      ELSE user(Owe(u.v, p, n, sops), p)
    [] r.stop = "range" -> user(back, p)
    [] r.stop \in {"n", "z"} ->
         IF o.nowait THEN user(back, p)                                              \* -EAGAIN
         ELSE sleep(IF r.stop = "n" THEN [back EXCEPT !.sma[b][o.num].ncnt = @ + 1]
                                    ELSE [back EXCEPT !.sma[b][o.num].zcnt = @ + 1],
                    p, [at |-> "sem", semid |-> semid, sops |-> sops, chan |-> <<r.stop, b, o.num>>])

(* A process that wakes up in sys_semop(): its set is looked up again, by   *)
(* the slot alone, and s still points to the semaphore it slept on.         *)
Awake(v, job) == IF job.chan[1] = "n" THEN [v EXCEPT !.sma[job.chan[2]][job.chan[3]].ncnt = @ - 1]
                                      ELSE [v EXCEPT !.sma[job.chan[2]][job.chan[3]].zcnt = @ - 1]
semop_awake(v, p, intr) ==
  LET job == v.job[p] IN
  IF ~InUse(v, job.semid % SEMMNI) THEN user(v, p)                                   \* -EIDRM
  ELSE IF intr THEN user(Awake(v, job), p)                                           \* -EINTR
  ELSE semop_loop(Awake(v, job), p, job.semid, job.sops)

(* One step along the set's list in semexit(): every entry met is unlinked  *)
(* from the one before it, and its own link is the next to be rewritten.    *)
ApplyUndo(v, n, u) ==
  LET b == v.semset[n].base
      i == v.su[u].num
      x == v.sma[b][i].val + v.su[u].adj
      w == WakeWaiters(SetVal(v, b, i, x), b, i, "n") IN
  IF x < 0 THEN v ELSE IF x = 0 THEN WakeWaiters(w, b, i, "z") ELSE w
RECURSIVE WalkUndo(_, _, _, _)
WalkUndo(v, n, at, u) ==        \* at is 0 for the head of the list
  LET cur == IF at = 0 THEN v.semset[n].undo ELSE v.su[at].next
      cut == IF at = 0 THEN [v EXCEPT !.semset[n].undo = v.su[cur].next] ELSE [v EXCEPT !.su[at].next = v.su[cur].next] IN
  IF cur = 0 THEN v ELSE WalkUndo(IF cur = u THEN ApplyUndo(cut, n, u) ELSE cut, n, cur, u)
semexit_one(v, u) ==
  LET n == v.su[u].semid % SEMMNI IN
  sem_release_su(IF InUse(v, n) THEN WalkUndo(v, n, 0, u) ELSE v, u)
semexit(v, p) == [FoldLeft(semexit_one, v, v.semundo[p]) EXCEPT !.semundo[p] = <<>>]

(* semctl(): the entries of the undo list are cleared for one semaphore *)
ClearUndo_kept(v, u, semnum) == v      \* a mutant
RECURSIVE ClearUndo(_, _, _)
ClearUndo(v, u, semnum) ==
  IF u = 0 THEN v
  ELSE ClearUndo(IF v.su[u].num = semnum THEN [v EXCEPT !.su[u].adj = 0] ELSE v, v.su[u].next, semnum)
Forget(v, n, semnum) == [v EXCEPT !.net = [p \in Proc |-> [v.net[p] EXCEPT ![n][semnum] = 0]]]

semctl_setval(v, n, semnum, val) ==
  LET b == v.semset[n].base
      w == ClearUndo(SetVal(v, b, semnum, val), v.semset[n].undo, semnum) IN
  IF val > SEMVMX THEN v ELSE Forget(WakeBoth(w, b, semnum), n, semnum)               \* -ERANGE

semctl_setall(v, n, semnum, vals) ==
  LET b == v.semset[n].base
      w == FoldLeft(LAMBDA x, i : WakeBoth(SetVal(x, b, i - 1, vals[i]), b, i - 1), v,
                    [i \in 1 .. v.semset[n].nsems |-> i]) IN
  Forget(ClearUndo(w, v.semset[n].undo, semnum), n, semnum)

(* The highest slot in use, looked for downwards when the highest is freed *)
Lower(max, n, used) ==
  IF n # max THEN max
  ELSE CHOOSE m \in {0} \cup used : m <= max /\ \A j \in used : j <= max => j <= m

semctl_rmid(v, n, semnum) ==
  LET set == v.semset[n]
      w == FoldLeft(LAMBDA x, i : WakeBoth(x, set.base, i - 1), ClearUndo(v, set.undo, semnum), [i \in 1 .. set.nsems |-> i])
      x == [w EXCEPT !.semset[n] = UNUSED, !.num_sems = @ - set.nsems, !.sem_seq = @ + 1] IN
  [x EXCEPT !.max_semid = Lower(@, n, {m \in Sets : InUse(x, m)}),
            !.net = [p \in Proc |-> [x.net[p] EXCEPT ![n] = [i \in Sems |-> 0]]]]

-----------------------------------------------------------------------------
(* Message queues *)

msg_get_new_md(v) == First({m \in 1 .. MSGTQL : ~v.md[m].used})
msg_release_md(v, m) == [v EXCEPT !.md[m] = NoMsg]

sys_msgget(v, key, creat) ==
  LET old == First({n \in 0 .. MSGMNI - 1 : v.msgque[n] # 0 /\ v.pool[v.msgque[n]].key = key})
      i == First({j \in 1 .. MSGMNI : ~v.pool[j].used})
      n == First({m \in 0 .. MSGMNI - 1 : v.msgque[m] = 0}) IN
  IF (key # 0 /\ (old >= 0 \/ ~creat)) \/ i < 0 \/ n < 0 THEN v
  ELSE [v EXCEPT !.msgque[n] = i, !.max_mqid = IF n > @ THEN n ELSE @,
                 !.pool[i] = [NoQueue EXCEPT !.used = TRUE, !.key = key, !.seq = v.msg_seq, !.qbytes = MSGMNB]]

(* The second half of sys_msgsnd(): room is not looked for again *)
append(v, p, i, type, sz) ==
  LET m == msg_get_new_md(v)
      q == v.pool[i]
      w == [v EXCEPT !.md[m] = [used |-> TRUE, next |-> 0, type |-> type, ts |-> sz, tag |-> v.sent + 1],
                     !.pool[i] = [q EXCEPT !.used = TRUE, !.first = IF @ = 0 THEN m ELSE @, !.last = m,
                                           !.qnum = @ + 1, !.cbytes = @ + sz],
                     !.num_msgs = @ + 1, !.sent = @ + 1] IN
  IF m < 0 THEN user(v, p)                                                            \* -ENOMEM
  ELSE wakeup(user(IF q.first = 0 THEN w ELSE [w EXCEPT !.md[q.last].next = m], p), <<"mq", i>>)

Full(q, sz) == q.cbytes + sz > q.qbytes \/ q.qnum + 1 > q.qbytes
sys_msgsnd(v, p, n, type, sz, nowait) ==
  LET i == v.msgque[n] IN
  IF i = 0 \/ sz > MSGMAX THEN v
  ELSE IF ~Full(v.pool[i], sz) THEN append(v, p, i, type, sz)
  ELSE IF nowait THEN v
  ELSE sleep(v, p, [at |-> "snd", chan |-> <<"mq", i>>, type |-> type, sz |-> sz])
msgsnd_awake(v, p, intr) ==
  IF intr THEN user(v, p) ELSE append(v, p, v.job[p].chan[2], v.job[p].type, v.job[p].sz)

(* The search for a message, from m on; mprev is what the loop left in it.  *)
(* None is found for a negative type: "FIXME: pending to do".               *)
Wanted(msg, typ, except) == typ = 0 \/ (typ > 0 /\ (msg.type = typ) # except)
RECURSIVE Scan(_, _, _, _, _)
Scan(v, m, mprev, typ, except) ==
  IF m = 0 \/ typ < 0 THEN [m |-> 0, mprev |-> mprev]
  ELSE IF Wanted(v.md[m], typ, except) THEN [m |-> m, mprev |-> mprev]
  ELSE Scan(v, v.md[m].next, m, typ, except)

(* The rest of sys_msgrcv(): msg_last is left as it is *)
take(v, p, i, m, mprev) ==
  LET next == v.md[m].next
      w == IF mprev = 0 THEN [v EXCEPT !.pool[i].first = next] ELSE [v EXCEPT !.md[mprev].next = next]
      x == [w EXCEPT !.pool[i].qnum = @ - 1, !.pool[i].cbytes = @ - v.md[m].ts, !.num_msgs = @ - 1] IN
  wakeup(user(msg_release_md(x, m), p), <<"mq", i>>)
msgrcv_loop(v, p, n, mprev, a) ==
  LET i == v.msgque[n]
      r == Scan(v, v.pool[i].first, mprev, a.typ, a.except) IN
  IF r.m # 0 THEN IF a.sz < v.md[r.m].ts /\ ~a.noerror THEN user(v, p)                \* -E2BIG
                  ELSE take(v, p, i, r.m, r.mprev)
  ELSE IF a.nowait THEN user(v, p)                                                    \* -ENOMSG
  ELSE sleep(v, p, [at |-> "rcv", chan |-> <<"mq", i>>, n |-> n, mprev |-> r.mprev, a |-> a])
sys_msgrcv(v, p, n, a) == IF v.msgque[n] = 0 THEN v ELSE msgrcv_loop(v, p, n, 0, a)
msgrcv_awake(v, p, intr) ==
  LET job == v.job[p] IN
  IF intr \/ v.msgque[job.n] = 0 THEN user(v, p)                                      \* -EINTR, -EIDRM
  ELSE msgrcv_loop(v, p, job.n, job.mprev, job.a)

RECURSIVE ReleaseAll(_, _), ReleaseAll_counted(_, _)
ReleaseAll_counted(v, m) == IF m = 0 THEN v ELSE ReleaseAll_counted(msg_release_md(v, m), v.md[m].next)      \* a mutant
ReleaseAll(v, m) == IF m = 0 THEN v ELSE ReleaseAll([msg_release_md(v, m) EXCEPT !.num_msgs = @ - 1], v.md[m].next)
msgctl_rmid(v, n) ==
  LET i == v.msgque[n]
      w == [ReleaseAll(v, v.pool[i].first) EXCEPT !.pool[i] = NoQueue, !.msgque[n] = 0, !.msg_seq = @ + 1] IN
  wakeup([w EXCEPT !.max_mqid = Lower(@, n, {m \in 0 .. MSGMNI - 1 : w.msgque[m] # 0})], <<"mq", i>>)
msgctl_set(v, n, qbytes) == [v EXCEPT !.pool[v.msgque[n]].qbytes = qbytes]

-----------------------------------------------------------------------------
(* The calls. A hazard is a case the code does not handle; the model takes  *)
(* it only when the constant names it.                                      *)
Handled(hazard, case) == hazard \in Hazards \/ ~case

Call(p, name) == /\ calls < menu.n /\ name \in menu.calls /\ calls' = calls + 1
                 /\ p \in k.live /\ k.job[p] = NONE /\ UNCHANGED menu
Queues == {n \in 0 .. MSGMNI - 1 : k.msgque[n] # 0}
Alive == {n \in Sets : InUse(k, n)}

(* semexit() unlinks every second entry of the set's list from the first    *)
(* on, so it is right for a list of one or two entries that begins with one *)
(* of the process: with more, with the entry of another process in front,   *)
(* or in the list of a later set of the same slot, it drops those of others.*)
RECURSIVE Chain(_, _)
Chain(v, u) == IF u = 0 THEN <<>> ELSE <<u>> \o Chain(v, v.su[u].next)
Tangled(v, p, u) ==
  LET n == v.su[u].semid % SEMMNI
      list == Chain(v, v.semset[n].undo) IN
  InUse(v, n) /\ list # <<>> /\ (u \notin Range(list) \/ Len(list) > 2 \/ list[1] \notin Range(v.semundo[p]))

NoCells(v, sops) == need_undo(sops) /\ Cardinality({i \in DOMAIN sops : sops[i].undo}) > Cardinality({u \in 1 .. UndoCells : v.su[u].semid < 0})

(* A new set gets no block of sma_pool *)
Semget(p) == /\ Call(p, "semget")
             /\ \E get \in menu.gets : LET v == sys_semget(k, get.key, menu.nsems, get.creat) IN
                  Handled("sma_pool", 0 \in v.taken) /\ k' = v
(* The number past the last semaphore is accepted (here within the block),  *)
(* and whoever sleeps on it is not waked when the set is removed.           *)
Fits(sops, n) == \A i \in DOMAIN sops : sops[i].num <= k.semset[n].nsems /\ sops[i].num \in Sems
PastEnd(n) == \E p \in Proc : k.job[p].at = "sem" /\ k.job[p].chan[2] = k.semset[n].base /\ k.job[p].chan[3] = k.semset[n].nsems
Semop(p) == /\ Call(p, "semop")
            /\ \E n \in Alive, sops \in menu.sops :
                 /\ Fits(sops, n) /\ Handled("undo_pool", NoCells(k, sops))
                 /\ k' = semop_loop(k, p, SemId(k, n), sops)
Setval(p) == Call(p, "setval") /\ \E n \in Alive, x \in menu.vals : k' = semctl_setval(k, n, 0, x)
Setall(p) == Call(p, "setall") /\ \E n \in Alive, x \in menu.vals :
               k' = semctl_setall(k, n, 0, [i \in 1 .. SEMMSL |-> x])
SemRmid(p) == Call(p, "semrmid") /\ \E n \in Alive : Handled("sem_num", PastEnd(n)) /\ k' = semctl_rmid(k, n, 0)
Msgget(p) == Call(p, "msgget") /\ \E get \in menu.gets : k' = sys_msgget(k, get.key, get.creat)
Msgsnd(p) == Call(p, "msgsnd") /\ \E n \in Queues, type \in menu.types, sz \in menu.sizes, nowait \in menu.nowait :
               k' = sys_msgsnd(k, p, n, type, sz, nowait)
(* The message taken is the last one while others stay in the queue *)
TakesTail(v, n, mprev, a) ==
  LET r == Scan(v, v.pool[v.msgque[n]].first, mprev, a.typ, a.except) IN
  r.m # 0 /\ r.m = v.pool[v.msgque[n]].last /\ r.m # v.pool[v.msgque[n]].first
(* mprev still names a message seen before the sleep *)
StalePrev(v, n, mprev, a) == mprev # 0 /\ v.pool[v.msgque[n]].first # 0 /\ Wanted(v.md[v.pool[v.msgque[n]].first], a.typ, a.except)
RECURSIVE Messages(_, _)
Messages(v, m) == IF m = 0 THEN <<>> ELSE <<m>> \o Messages(v, v.md[m].next)
InQueue(n) == Messages(k, k.pool[k.msgque[n]].first)
(* It sleeps with a message of a type up to the absolute value there *)
Overlooks(n, a) == a.typ < 0 /\ ~a.nowait /\ \E m \in Range(InQueue(n)) : k.md[m].type <= -a.typ
Msgrcv(p) == Call(p, "msgrcv") /\ \E n \in Queues, a \in menu.rcv :
               Handled("negative_type", Overlooks(n, a)) /\ Handled("typed", TakesTail(k, n, 0, a)) /\ k' = sys_msgrcv(k, p, n, a)
MsgRmid(p) == /\ Call(p, "msgrmid") /\ \E n \in Queues :
                   /\ Handled("rmid_sender", \E q \in Proc : k.job[q].at = "snd" /\ k.job[q].chan = <<"mq", k.msgque[n]>>)
                   /\ k' = msgctl_rmid(k, n)
MsgSet(p) == /\ Call(p, "msgset") /\ \E n \in Queues, b \in menu.qbytes :
                  /\ Handled("set_qbytes", \E q \in Proc : k.job[q].at = "snd" /\ k.job[q].chan = <<"mq", k.msgque[n]>>)
                  /\ k' = msgctl_set(k, n, b)
(* fork() hands the undo list of the caller to the child and clears it in   *)
(* the caller; exit() applies what the process has.                         *)
Fork(p) == /\ Call(p, "fork") /\ \E c \in Proc \ k.live :
                /\ Handled("fork_undo", k.semundo[p] # <<>>)
                /\ k' = [k EXCEPT !.live = @ \cup {c}, !.semundo = [@ EXCEPT ![c] = k.semundo[p], ![p] = <<>>]]
Exit(p) == /\ Call(p, "exit")
           /\ Handled("undo_list", \E u \in Range(k.semundo[p]) : Tangled(k, p, u))
           /\ k' = [semexit(k, p) EXCEPT !.live = @ \ {p}, !.net[p] = [n \in Sets |-> [i \in Sems |-> 0]]]

(* A process waked up, or interrupted by a signal, goes on *)
Resume(p) ==
  /\ k.job[p].at # "user" /\ UNCHANGED <<menu, calls>>
  /\ \E intr \in IF k.job[p].woken THEN {FALSE} \cup menu.signals ELSE menu.signals :
       \/ k.job[p].at = "sem" /\ Handled("undo_pool", NoCells(k, k.job[p].sops)) /\ k' = semop_awake(k, p, intr)
       \/ k.job[p].at = "snd" /\ k' = msgsnd_awake(k, p, intr)
       \/ /\ k.job[p].at = "rcv"
          /\ LET job == k.job[p] IN
             ~intr /\ k.msgque[job.n] # 0 => /\ Handled("negative_type", Overlooks(job.n, job.a))
                                             /\ Handled("mprev", StalePrev(k, job.n, job.mprev, job.a))
                                             /\ Handled("typed", TakesTail(k, job.n, job.mprev, job.a))
          /\ k' = msgrcv_awake(k, p, intr)

ProcNext(p) == \/ Semget(p) \/ Semop(p) \/ Setval(p) \/ Setall(p) \/ SemRmid(p)
               \/ Msgget(p) \/ Msgsnd(p) \/ Msgrcv(p) \/ MsgRmid(p) \/ MsgSet(p)
               \/ Fork(p) \/ Exit(p) \/ Resume(p)
Next == \E p \in Proc : ProcNext(p)
Spec == Init /\ [][Next]_vars

-----------------------------------------------------------------------------
(* Properties *)

(* No process sleeps on an IPC object for something it could have: the set  *)
(* or queue exists, the array of operations cannot be completed, there is no*)
(* message it asked for, no room for the one it sends. Every semop(),       *)
(* semctl(), msgsnd(), msgrcv() and exit() that changes that has waked it   *)
(* up. A negative type asks for the types up to its absolute value.         *)
AskedFor(msg, a) == IF a.typ < 0 THEN msg.type <= -a.typ ELSE Wanted(msg, a.typ, a.except)
NoIpcStall ==
  \A p \in Proc : LET job == k.job[p] IN
    /\ job.at = "sem" /\ ~job.woken =>
         LET n == job.semid % SEMMNI IN
         InUse(k, n) /\ k.semset[n].base = job.chan[2] /\ TryAll(k, job.chan[2], job.sops).stop # ""
    /\ job.at = "snd" /\ ~job.woken => Full(k.pool[job.chan[2]], job.sz)
    /\ job.at = "rcv" /\ ~job.woken =>
         k.msgque[job.n] # 0 /\ \A m \in Range(InQueue(job.n)) : ~AskedFor(k.md[m], job.a)

(* Every message accepted and not yet received is in the chain of exactly   *)
(* one queue, in the order it was sent, and the counters of the queue, of   *)
(* the pool and num_msgs agree with the chains. The waiting counts of a     *)
(* semaphore are the processes inside sleep() on it: they are what semop()  *)
(* and semctl() trust when they skip wakeup(). No semaphore is negative     *)
(* (semexit() and SETALL may exceed SEMVMX).                                *)
Bytes(seq) == FoldLeft(LAMBDA s, m : s + k.md[m].ts, 0, seq)
QueuesIntact ==
  /\ \A n \in Queues : LET q == k.pool[k.msgque[n]] IN
       /\ q.used /\ q.qnum = Len(InQueue(n)) /\ q.cbytes = Bytes(InQueue(n))
       /\ q.qnum > 0 => q.last = Last(InQueue(n))
       /\ \A i, j \in 1 .. q.qnum : i < j => k.md[InQueue(n)[i]].tag < k.md[InQueue(n)[j]].tag
  /\ \A m \in 1 .. MSGTQL : k.md[m].used <=> \E n \in Queues : m \in Range(InQueue(n))
  /\ k.num_msgs = Cardinality({m \in 1 .. MSGTQL : k.md[m].used})
  /\ \A a, b \in Queues : a # b => Range(InQueue(a)) \cap Range(InQueue(b)) = {}
  /\ \A n \in Alive : LET b == k.semset[n].base IN \A i \in Sems :
       /\ k.sma[b][i].ncnt = Cardinality({p \in Proc : k.job[p].at = "sem" /\ k.job[p].chan = <<"n", b, i>>})
       /\ k.sma[b][i].zcnt = Cardinality({p \in Proc : k.job[p].at = "sem" /\ k.job[p].chan = <<"z", b, i>>})
       /\ k.sma[b][i].val >= 0

(* A process that exits gives back what it took with SEM_UNDO, unless that  *)
(* would make a semaphore negative (semexit(), the entries kept by semop()).*)
GivesBack(p) ==
  \A n \in Alive : \A i \in Sems :
    LET b == k.semset[n].base
        x == k.sma[b][i].val - k.net[p][n][i] IN
    k'.sma[b][i].val = IF x < 0 THEN k.sma[b][i].val ELSE x
UndoneOnExit == [][\A p \in Proc : p \in k.live /\ p \notin k'.live => GivesBack(p)]_vars
=============================================================================
