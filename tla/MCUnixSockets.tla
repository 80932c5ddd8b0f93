--------------------------- MODULE MCUnixSockets ----------------------------
(***************************************************************************)
(* Three processes, four sockets and connections of three bytes.           *)
(***************************************************************************)
EXTENDS UnixSockets

CONSTANTS p1, p2, p3

Symmetry == Permutations({p2, p3})

Base == [calls |-> {}, n |-> 0, live |-> {p1}, servers |-> {p1}, backlogs |-> {1}, counts |-> {1}, nonblock |-> {FALSE},
         peek |-> {FALSE}, signals |-> {}]
MCMenus ==
  {(* a pair shared with a child: every way round the buffer *)
   [Base EXCEPT !.calls = {"socketpair", "fork", "read", "write"}, !.n = 8, !.counts = {1, 2, 4}],
   [Base EXCEPT !.calls = {"socketpair", "fork", "read", "write", "close"}, !.n = 6, !.counts = {1, 2, 4}, !.nonblock = BOOLEAN,
                !.signals = {TRUE}],
   (* select() on a pair *)
   [Base EXCEPT !.calls = {"socketpair", "fork", "read", "write", "select", "close"}, !.n = 7, !.counts = {2}, !.signals = {TRUE}],
   (* a server and two clients *)
   [Base EXCEPT !.calls = {"socket", "bind", "listen", "connect", "accept", "close", "unlink"}, !.n = 10, !.live = {p1, p2, p3}, !.backlogs = {1, 3},
                !.signals = {TRUE}, !.nonblock = BOOLEAN],
   [Base EXCEPT !.calls = {"socket", "bind", "listen", "connect", "accept", "read", "write", "close"}, !.n = 11, !.live = {p1, p2, p3}],
   [Base EXCEPT !.calls = {"socket", "bind", "listen", "connect", "accept", "select", "close"}, !.n = 10, !.live = {p1, p2, p3}],
   (* datagrams *)
   [Base EXCEPT !.calls = {"socket", "bind", "sendto", "recvfrom", "close", "unlink"}, !.n = 7, !.live = {p1, p2, p3}, !.servers = {p1, p2, p3},
                !.counts = {1, 2}, !.peek = BOOLEAN, !.signals = {TRUE}, !.nonblock = BOOLEAN]}
=============================================================================
