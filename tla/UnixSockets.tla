---------------------------- MODULE UnixSockets -----------------------------
(***************************************************************************)
(* UNIX-domain sockets (net/socket.c, net/unix.c, net/packet.c, fs/sockfs) *)
(* and select() on them (kernel/syscalls/select.c).  A system call runs    *)
(* from one sleep() to the next in a single action; the user's buffers are *)
(* in memory.  A socket lives inside an inode: a closed one keeps its last *)
(* contents until unix_create() clears them.  sleep() and wakeup() have as *)
(* addresses the struct socket, the struct unix_info and do_select.        *)
(***************************************************************************)
EXTENDS Integers, Sequences, FiniteSets, SequencesExt

CONSTANTS
  Proc, Sock,   \* processes; sockets there is room for, numbered from 1
  Path, Inode,  \* names sockets are bound to, and inodes those names may have
  PIPE_BUF,     \* bytes of the buffer of a connection
  SOMAXCONN, MaxPackets,    \* bounds: pending connections, datagrams in a queue
  Hazards,      \* the cases the named passages of README.md are about
  Menus         \* what the processes do: sets of calls and of their arguments

ASSUME SocketAssumption == /\ PIPE_BUF \in Nat \ {0} /\ SOMAXCONN \in Nat
                           /\ Sock \subseteq Nat \ {0} /\ Inode \subseteq Nat \ {0}

VARIABLES k,    \* the sockets, the names and what each process is doing
          menu, \* the menu of this behaviour
          calls \* calls made so far
vars == <<k, menu, calls>>

NONE == [at |-> "user"]      \* a process in user mode
NULL == 0
NoSun == [path |-> NULL, ino |-> 0]
MIN(a, b) == IF a < b THEN a ELSE b
Least(set) == CHOOSE n \in set : \A m \in set : n <= m

(* memset_b() in sockfs_ialloc() and unix_create() *)
sockfs_ialloc == [used |-> TRUE, state |-> "SS_UNCONNECTED", accepts |-> FALSE,
                  queue_len |-> 0, queue_limit |-> 0, queue_head |-> NULL, next_queue |-> NULL]
NoInfo == [count |-> 1, data |-> NULL, readoff |-> 0, writeoff |-> 0, size |-> 0, sun |-> NoSun,
           inode |-> NULL, packet_queue |-> <<>>, peer |-> NULL]

Init == /\ menu \in Menus /\ calls = 0
        /\ k = [sock |-> [s \in Sock |-> [sockfs_ialloc EXCEPT !.used = FALSE]], u |-> [s \in Sock |-> NoInfo],
                unix_socket_head |-> {}, holds |-> [s \in Sock |-> {}], live |-> menu.live,
                buffer |-> [b \in Sock |-> [i \in 1 .. PIPE_BUF |-> NULL]], data |-> {}, suns |-> {},
                file |-> [n \in Path |-> NULL], refs |-> [i \in Inode |-> 0],
                job |-> [p \in Proc |-> NONE],
                flight |-> [s \in Sock |-> <<>>], next |-> [s \in Sock |-> 0]]

(* sleep() and wakeup(): a woken process runs later *)
sleep(v, p, job) == [v EXCEPT !.job[p] = job @@ [woken |-> FALSE]]
wakeup(v, chan) == [v EXCEPT !.job = [p \in Proc |->
                      IF v.job[p].at # "user" /\ v.job[p].chan = chan THEN [v.job[p] EXCEPT !.woken = TRUE] ELSE v.job[p]]]
user(v, p) == [v EXCEPT !.job[p] = NONE]
WakePeer_never(v, s) == wakeup(v, <<"do_select">>)      \* a mutant
WakePeer(v, s) == wakeup(wakeup(v, <<"unix_info", v.u[s].peer>>), <<"do_select">>)

-----------------------------------------------------------------------------
(* Creating, closing, naming *)

(* The list of sockets is the set of its members *)
add_unix_socket(head, s) == head \cup {s}
remove_unix_socket(head, s) == head \ {s}
Free(v) == {s \in Sock : ~v.sock[s].used}
unix_create(v, s) == [v EXCEPT !.u[s] = NoInfo, !.unix_socket_head = add_unix_socket(@, s), !.flight[s] = <<>>, !.next[s] = 0]
sock_alloc(v, p) == LET s == Least(Free(v)) IN unix_create([v EXCEPT !.sock[s] = sockfs_ialloc, !.holds[s] = {p}], s)

(* kmalloc(PIPE_BUF); there are as many buffers as sockets *)
NewData(v) == Least(Sock \ v.data)

iput(v, i) == IF i = NULL THEN v ELSE [v EXCEPT !.refs[i] = @ - 1]
unix_free_quiet(v, s) ==      \* a mutant: the peer is not told
  IF v.u[s].count = 1 THEN iput([v EXCEPT !.u[s] = [@ EXCEPT !.count = 0, !.peer = NULL], !.data = @ \ {v.u[s].data},
                                          !.suns = @ \ {v.u[s].sun}, !.unix_socket_head = @ \ {s}], v.u[s].inode)
  ELSE [v EXCEPT !.u = [@ EXCEPT ![s].count = @ - 1, ![v.u[s].peer].count = @ - 1], !.unix_socket_head = @ \ {s}]
unix_free(v, s) ==
  LET u == v.u[s]
      peer == u.peer
      left == [v EXCEPT !.u[s].count = @ - 1, !.unix_socket_head = remove_unix_socket(@, s)] IN
  IF left.u[s].count = 0
  THEN iput([left EXCEPT !.data = @ \ {u.data}, !.suns = @ \ {u.sun}, !.u[s].peer = NULL], u.inode)
  ELSE WakePeer([left EXCEPT !.u[peer].count = @ - 1, !.sock[peer].state = "SS_DISCONNECTING",
                             !.unix_socket_head = IF v.u[peer].count = 1 THEN remove_unix_socket(@, peer) ELSE @], s)

(* sys_close(), sockfs_close() and sock_free() *)
sys_close(v, p, s) ==
  LET left == [v EXCEPT !.holds[s] = @ \ {p}] IN
  IF left.holds[s] # {} THEN left
  ELSE wakeup([unix_free(left, s) EXCEPT !.sock[s].used = FALSE], <<"socket", s>>)

(* bind(): the name must be new, and its inode is kept *)
unix_bind(v, s, path) ==
  LET i == Least({j \in Inode : v.refs[j] = 0 /\ \A n \in Path : v.file[n] # j}) IN
  IF v.u[s].sun # NoSun \/ v.file[path] # NULL THEN v          \* -EINVAL, -EADDRINUSE
  ELSE [v EXCEPT !.file[path] = i, !.refs[i] = @ + 1, !.u[s].sun = [path |-> path, ino |-> i], !.u[s].inode = i,
                 !.suns = @ \cup {[path |-> path, ino |-> i]}]

lookup_unix_socket(v, path, i) == {s \in v.unix_socket_head : v.u[s].sun.path = path /\ v.u[s].inode = i}
Named(v, path) == IF v.file[path] = NULL THEN {} ELSE lookup_unix_socket(v, path, v.file[path])

-----------------------------------------------------------------------------
(* Connections *)

listen(v, s, backlog) == [v EXCEPT !.sock[s].accepts = TRUE, !.sock[s].queue_limit = MIN(backlog, SOMAXCONN)]

(* The pending connections of ss, along next_queue *)
RECURSIVE Pending(_, _, _)
Pending(v, s, max) == IF s = NULL \/ max = 0 THEN <<>> ELSE <<s>> \o Pending(v, v.sock[s].next_queue, max - 1)
QueueOf(v, ss) == Pending(v, v.sock[ss].queue_head, Cardinality(Sock) + 1)

BacklogExceeded(v, ss) == v.sock[ss].queue_len + 1 > v.sock[ss].queue_limit
insert_socket_to_queue(v, ss, sc) ==
  LET queue == QueueOf(v, ss)
      linked == IF queue = <<>> THEN [v EXCEPT !.sock[ss].queue_head = sc] ELSE [v EXCEPT !.sock[Last(queue)].next_queue = sc] IN
  [linked EXCEPT !.sock[ss].queue_len = @ + 1]
remove_socket_from_queue(v, ss) ==
  [v EXCEPT !.sock[ss].queue_head = v.sock[@].next_queue, !.sock[ss].queue_len = @ - 1]

(* connect() sleeps whatever happens; how it is woken up is not looked at *)
unix_connect(v, p, sc, path) ==
  LET ss == CHOOSE s \in Named(v, path) : TRUE IN
  IF Named(v, path) = {} \/ BacklogExceeded(v, ss) THEN v                            \* -ECONNREFUSED
  ELSE sleep(wakeup(insert_socket_to_queue(v, ss, sc), <<"socket", ss>>), p,
             [at |-> "connect", chan |-> <<"socket", sc>>, s |-> sc])

(* Both ends get the same buffer *)
Connect(v, a, b, d) ==
  [v EXCEPT !.u = [@ EXCEPT ![a] = [@ EXCEPT !.data = d, !.peer = b, !.count = @ + 1],
                            ![b] = [@ EXCEPT !.data = d, !.peer = a, !.count = @ + 1]],
            !.sock = [@ EXCEPT ![a].state = "SS_CONNECTED", ![b].state = "SS_CONNECTED"],
            !.data = @ \cup {d}]
unix_accept(v, sc, nss) ==
  wakeup(wakeup([Connect(v, sc, nss, NewData(v)) EXCEPT !.u[nss].sun = v.u[sc].sun], <<"socket", sc>>), <<"do_select">>)
accept(v, p, ss, nonblock) ==
  LET sc == v.sock[ss].queue_head
      w == sock_alloc(remove_socket_from_queue(v, ss), p) IN
  IF sc # NULL /\ Free(v) = {} THEN user(remove_socket_from_queue(v, ss), p)         \* -ENFILE
  ELSE IF sc # NULL THEN user(unix_accept(w, sc, Least(Free(v))), p)
  ELSE IF nonblock THEN user(v, p)                                                   \* -EAGAIN
  ELSE sleep(v, p, [at |-> "accept", chan |-> <<"socket", ss>>, s |-> ss])
unix_socketpair(v, p) ==
  LET w == sock_alloc(sock_alloc(v, p), p)
      a == Least(Free(v)) IN
  Connect(w, a, Least(Free(v) \ {a}), NewData(v))

-----------------------------------------------------------------------------
(* The stream *)

ReadLimit(u) == IF u.writeoff # 0 /\ u.readoff < u.writeoff THEN u.writeoff - u.readoff ELSE PIPE_BUF - u.readoff
Rewind(v, s) == IF v.u[s].size = 0 THEN [v EXCEPT !.u[s].readoff = 0, !.u[s].writeoff = 0] ELSE v
(* The bytes taken are cleared, to be told from new ones *)
TakeOut(v, s, n) ==
  [v EXCEPT !.buffer[v.u[s].data] = [i \in 1 .. PIPE_BUF |-> IF i - v.u[s].readoff \in 1 .. n THEN NULL ELSE @[i]],
             !.u[s] = [@ EXCEPT !.readoff = @ + n, !.size = @ - n, !.writeoff = IF @ = PIPE_BUF THEN 0 ELSE @],
            !.flight[s] = SubSeq(@, n + 1, Len(@))]

(* The number of bytes read is not kept: a read may end with 0 at the end   *)
(* of the buffer, or with an error when it has taken some.                  *)
RECURSIVE unix_read(_, _, _, _, _)
unix_read(v, p, s, count, nonblock) ==
  LET u == v.u[s]
      n == MIN(ReadLimit(u), count)
      state == v.sock[s].state IN
  CASE count = 0 -> user(Rewind(v, s), p)
    [] count > 0 /\ u.size # 0 /\ n # 0 -> unix_read(WakePeer(TakeOut(v, s, n), s), p, s, count - n, nonblock)
    [] count > 0 /\ (u.size = 0 \/ n = 0) ->
         CASE state = "SS_DISCONNECTING" ->
                IF u.size # 0 THEN unix_read([v EXCEPT !.u[s].readoff = IF @ = PIPE_BUF THEN 0 ELSE @], p, s, count, nonblock)
                ELSE user(v, p)
           [] state = "SS_UNCONNECTED" -> user(v, p)                                  \* -EINVAL
           [] state = "SS_CONNECTED" ->
                IF u.writeoff # 0 THEN user(Rewind(v, s), p)
                ELSE IF nonblock THEN user(v, p)                                      \* -EAGAIN
                ELSE sleep(v, p, [at |-> "read", chan |-> <<"unix_info", s>>, s |-> s, count |-> count])

Room_full(u) == (IF u.readoff # 0 /\ u.writeoff < u.readoff THEN u.readoff ELSE PIPE_BUF) - u.writeoff      \* a mutant
Room(u) == (IF u.readoff # 0 /\ u.writeoff <= u.readoff THEN u.readoff ELSE PIPE_BUF) - u.writeoff
Bytes(v, s, n) == [i \in 1 .. n |-> <<s, (v.next[s] + i) % (PIPE_BUF + 1)>>]
PutIn(v, s, n) ==
  LET u == v.u[s] IN
  [v EXCEPT !.u[s] = [@ EXCEPT !.writeoff = @ + n, !.size = @ + n, !.readoff = IF @ = PIPE_BUF THEN 0 ELSE @],
            !.buffer[u.data] = [i \in 1 .. PIPE_BUF |->
                IF i \in u.writeoff + 1 .. u.writeoff + n THEN Bytes(v, s, n)[i - u.writeoff] ELSE @[i]],
            !.flight[s] = @ \o Bytes(v, s, n), !.next[s] = (@ + n) % (PIPE_BUF + 1)]

RECURSIVE unix_write(_, _, _, _, _, _)
unix_write(v, p, s, count, done, nonblock) ==
  LET up == v.u[s].peer
      n == MIN(count - done, Room(v.u[up])) IN
  IF done >= count \/ v.sock[s].state # "SS_CONNECTED" THEN user(v, p)                \* -EPIPE, -EINVAL
  ELSE IF n # 0 THEN unix_write(WakePeer(PutIn(v, up, n), s), p, s, count, done + n, nonblock)
  ELSE IF nonblock THEN user(WakePeer(v, s), p)                                       \* -EAGAIN
  ELSE sleep(WakePeer(v, s), p, [at |-> "write", chan |-> <<"unix_info", s>>, s |-> s, count |-> count, done |-> done])

-----------------------------------------------------------------------------
(* Datagrams. MSG_PEEK moves the offset too. The name of the sender, which  *)
(* unix_recvfrom() reads from the freed packet, is left out.                *)

append_packet_to_queue(p, queue) == Append(queue, p)
remove_packet_from_queue(queue) == Tail(queue)

unix_sendto(v, s, path, len) ==
  LET to == CHOOSE r \in Named(v, path) : TRUE IN
  wakeup([v EXCEPT !.u[to].packet_queue = append_packet_to_queue([socket |-> s, len |-> len, offset |-> 0], @)], <<"unix_info", to>>)
unix_recvfrom(v, p, s, count, peek, nonblock) ==
  LET queue == v.u[s].packet_queue IN
  IF queue # <<>> THEN user([v EXCEPT !.u[s].packet_queue =
                               IF peek THEN [@ EXCEPT ![1].offset = @ + MIN(queue[1].len - @, count)] ELSE remove_packet_from_queue(@)], p)
  ELSE IF nonblock THEN user(v, p)                                                    \* -EAGAIN
  ELSE sleep(v, p, [at |-> "recvfrom", chan |-> <<"unix_info", s>>, s |-> s, count |-> count, peek |-> peek])

-----------------------------------------------------------------------------
(* select() on one descriptor *)

unix_select(v, s, flag) ==
  IF v.sock[s].accepts THEN flag = "SEL_R" /\ v.sock[s].queue_len # 0
  ELSE \/ v.sock[s].state # "SS_CONNECTED"
       \/ flag = "SEL_R" /\ v.u[s].size # 0
       \/ flag = "SEL_W" /\ v.u[v.u[s].peer].size < PIPE_BUF
do_select(v, p, s, flag, timeout) ==
  IF unix_select(v, s, flag) \/ timeout = 0 THEN user(v, p)
  ELSE sleep(v, p, [at |-> "select", chan |-> <<"do_select">>, s |-> s, flag |-> flag])

-----------------------------------------------------------------------------
(* The calls. A hazard is a case the code does not handle; the model takes  *)
(* it only when the constant names it.                                      *)
Handled(hazard, case) == hazard \in Hazards \/ ~case

Call(p, name) == /\ calls < menu.n /\ name \in menu.calls /\ calls' = calls + 1
                 /\ p \in k.live /\ k.job[p] = NONE /\ UNCHANGED menu
Mine(p) == {s \in Sock : k.sock[s].used /\ p \in k.holds[s]}
Queued(s) == \E ss \in Sock : k.sock[ss].used /\ s \in Range(QueueOf(k, ss))
Connected(s) == k.sock[s].state # "SS_UNCONNECTED"

(* Bound: a process that has a socket makes no other one *)
Socket(p) == Call(p, "socket") /\ Mine(p) = {} /\ Free(k) # {} /\ k' = sock_alloc(k, p)
Socketpair(p) == Call(p, "socketpair") /\ Mine(p) = {} /\ Cardinality(Free(k)) > 1 /\ k' = unix_socketpair(k, p)
Bind(p) == /\ Call(p, "bind") /\ \E s \in Mine(p), path \in Path :
                /\ p \in menu.servers
                /\ k' = unix_bind(k, s, path)
Unlink(p) == Call(p, "unlink") /\ \E path \in Path : k' = [k EXCEPT !.file[path] = NULL]
Listen(p) == Call(p, "listen") /\ \E s \in Mine(p), n \in menu.backlogs : k' = listen(k, s, n)
ConnectTo(p) == /\ Call(p, "connect") /\ \E sc \in Mine(p), path \in Path :
                     /\ Handled("reconnect", Connected(sc) \/ Queued(sc) \/ k.sock[sc].accepts)
                     /\ Handled("select_connect", \E q \in Proc : k.job[q].at = "select" /\ k.job[q].s \in Named(k, path))
                     /\ k' = unix_connect(k, p, sc, path)
(* accept() takes a connection from the queue before it looks for a socket *)
NoRoom(ss) == k.sock[ss].queue_head # NULL /\ Free(k) = {}
Accept(p) == /\ Call(p, "accept") /\ \E ss \in Mine(p), nonblock \in menu.nonblock :
                  /\ k.sock[ss].accepts /\ Handled("accept_nfile", NoRoom(ss))
                  /\ k' = accept(k, p, ss, nonblock)

(* Both directions of a connection use the one buffer: a write stores over  *)
(* bytes that wait in it to be read by the writer.                          *)
Unread(u) == {1 + ((u.readoff + i) % PIPE_BUF) : i \in 0 .. u.size - 1}
Collides(s, count) ==
  LET up == k.u[k.u[s].peer] IN
  Connected(s) /\ (up.writeoff + 1 .. up.writeoff + MIN(count, Room(up))) \cap Unread(k.u[s]) # {}
Read(p) == /\ Call(p, "read") /\ \E s \in Mine(p), count \in menu.counts, nonblock \in menu.nonblock :
                k' = unix_read(k, p, s, count, nonblock)
Write(p) == /\ Call(p, "write") /\ \E s \in Mine(p), count \in menu.counts, nonblock \in menu.nonblock :
                 /\ Handled("duplex", Collides(s, count))
                 /\ k' = unix_write(k, p, s, count, 0, nonblock)
Sendto(p) == /\ Call(p, "sendto") /\ \E s \in Mine(p), path \in Path, len \in menu.counts :
                  /\ Named(k, path) # {} /\ \A to \in Named(k, path) : Len(k.u[to].packet_queue) < MaxPackets
                  /\ k' = unix_sendto(k, s, path, len)
Recvfrom(p) == /\ Call(p, "recvfrom") /\ \E s \in Mine(p), count \in menu.counts, peek \in menu.peek, nonblock \in menu.nonblock :
                    k' = unix_recvfrom(k, p, s, count, peek, nonblock)
Select(p) == Call(p, "select") /\ \E s \in Mine(p), flag \in {"SEL_R", "SEL_W"}, timeout \in {0, 1} :
               k' = do_select(k, p, s, flag, timeout)

(* Nobody tells a process that waits in connect() that the listening socket *)
(* is gone, nor the queue that a socket in it is; a bound socket that goes  *)
(* before its peer does not put its inode.                                  *)
LastHolder(p, s) == k.holds[s] = {p}
Close(p) == /\ Call(p, "close") /\ \E s \in Mine(p) :
                 /\ Handled("listener_closed", LastHolder(p, s) /\ k.sock[s].queue_head # NULL)
                 /\ Handled("connect_signal", LastHolder(p, s) /\ Queued(s))
                 /\ Handled("bound_peer", LastHolder(p, s) /\ k.sock[s].state = "SS_CONNECTED" /\ k.u[s].inode # NULL)
                 /\ k' = sys_close(k, p, s)
Fork(p) == /\ Call(p, "fork") /\ \E c \in Proc \ k.live :
                k' = [k EXCEPT !.live = @ \cup {c}, !.holds = [s \in Sock |-> IF p \in @[s] THEN @[s] \cup {c} ELSE @[s]]]

(* A process waked up, or interrupted by a signal or a time-out, goes on *)
Resume(p) ==
  LET job == k.job[p]
      s == job.s IN
  /\ job.at # "user" /\ UNCHANGED <<menu, calls>>
  /\ \E intr \in IF job.woken THEN {FALSE} \cup menu.signals ELSE menu.signals :
       \/ /\ job.at = "connect" /\ Handled("connect_signal", intr /\ Queued(s)) /\ k' = user(k, p)
       \/ /\ job.at = "accept" /\ Handled("accept_nfile", NoRoom(s))
          /\ k' = IF intr THEN user(k, p) ELSE accept(k, p, s, FALSE)
       \/ job.at = "read" /\ k' = IF intr THEN user(k, p) ELSE unix_read(k, p, s, job.count, FALSE)
       \/ /\ job.at = "write" /\ Handled("duplex", ~intr /\ Collides(s, job.count - job.done))
          /\ k' = IF intr THEN user(k, p) ELSE unix_write(k, p, s, job.count, job.done, FALSE)
       \/ job.at = "recvfrom" /\ k' = IF intr THEN user(k, p) ELSE unix_recvfrom(k, p, s, job.count, job.peek, FALSE)
       \/ job.at = "select" /\ k' = IF intr THEN user(k, p) ELSE do_select(k, p, s, job.flag, 1)

ProcNext(p) == \/ Socket(p) \/ Socketpair(p) \/ Bind(p) \/ Unlink(p) \/ Listen(p) \/ ConnectTo(p) \/ Accept(p)
               \/ Read(p) \/ Write(p) \/ Sendto(p) \/ Recvfrom(p) \/ Select(p) \/ Close(p) \/ Fork(p) \/ Resume(p)
Next == \E p \in Proc : ProcNext(p)
Spec == Init /\ [][Next]_vars

-----------------------------------------------------------------------------
(* Properties *)

Used == {s \in Sock : k.sock[s].used}

(* What unix_read() will take from the buffer of a socket is what its peer  *)
(* wrote and it has not read, in that order and each byte once, however the *)
(* offsets of the two directions went round the buffer they share, whoever  *)
(* reads and writes, and whether or not a call failed half-way.             *)
StreamsIntact ==
  \A s \in Used : LET u == k.u[s] IN
    /\ u.size = Len(k.flight[s])
    /\ \A i \in 1 .. u.size : k.flight[s][i] = k.buffer[u.data][((u.readoff + i - 1) % PIPE_BUF) + 1]

(* No process sleeps in a socket call for something it could have: a reader *)
(* has nothing to read and a peer that may write, a writer no room and a    *)
(* peer with bytes to read, an accept() no pending connection, a connect()  *)
(* a place in the queue of a socket that listens, a select() nothing to     *)
(* report.  Every call that changes that has waked it up.                   *)
NoSocketStall ==
  \A p \in Proc : LET job == k.job[p] IN job.at # "user" /\ ~job.woken =>
    CASE job.at = "read" -> k.sock[job.s].state = "SS_CONNECTED" /\ k.u[job.s].size = 0
      [] job.at = "write" -> /\ k.sock[job.s].state = "SS_CONNECTED"
                             /\ Room(k.u[k.u[job.s].peer]) = 0 /\ k.u[k.u[job.s].peer].size > 0
      [] job.at = "accept" -> QueueOf(k, job.s) = <<>>
      [] job.at = "connect" -> \E ss \in Used : k.sock[ss].accepts /\ job.s \in Range(QueueOf(k, ss))
      [] job.at = "recvfrom" -> k.u[job.s].packet_queue = <<>>
      [] job.at = "select" -> ~unix_select(k, job.s, job.flag)

(* The two ends of a connection know each other and share one buffer, each  *)
(* holding a reference on the other until it is closed; buffers, addresses  *)
(* and inodes are held exactly while an open socket has them; and a queue   *)
(* has room for the sockets in it, which are open and not connected.        *)
ConnectionsCounted ==
  /\ \A s \in Used : LET u == k.u[s]
                         up == k.sock[s].state = "SS_CONNECTED" IN
       /\ s \in k.unix_socket_head /\ k.holds[s] # {}
       /\ u.count = IF up THEN 2 ELSE 1
       /\ up => u.peer \in Used /\ k.u[u.peer].peer = s /\ k.u[u.peer].data = u.data /\ k.sock[u.peer].state = "SS_CONNECTED"
       /\ LET queue == QueueOf(k, s) IN
            /\ Len(queue) = k.sock[s].queue_len /\ Len(queue) <= SOMAXCONN /\ IsInjective(queue)
            /\ \A i \in DOMAIN queue : queue[i] \in Used /\ k.sock[queue[i]].state = "SS_UNCONNECTED"
  /\ k.unix_socket_head = Used
  /\ k.data = {k.u[s].data : s \in Used} \ {NULL}
  /\ k.suns = {k.u[s].sun : s \in Used} \ {NoSun}
  /\ \A i \in Inode : k.refs[i] = Cardinality({s \in Used : k.u[s].inode = i})
=============================================================================
