----------------------------- MODULE MCSysvIpc ------------------------------
(***************************************************************************)
(* Three processes, two semaphore sets of two semaphores up to 2, two      *)
(* queues of three messages in all and four bytes each.                    *)
(***************************************************************************)
EXTENDS SysvIpc

Symmetry == Permutations(Proc)

Op(num, op) == [num |-> num, op |-> op, undo |-> FALSE, nowait |-> FALSE]
Undone(o) == [o EXCEPT !.undo = TRUE]
Nowait(o) == [o EXCEPT !.nowait = TRUE]
Rcv(typ) == [typ |-> typ, except |-> FALSE, sz |-> 3, noerror |-> FALSE, nowait |-> FALSE]

Get(key, creat) == [key |-> key, creat |-> creat]
Base == [calls |-> {}, n |-> 0, gets |-> {Get(0, TRUE)}, nsems |-> 2, sops |-> {}, vals |-> {}, types |-> {1}, sizes |-> {2}, nowait |-> {FALSE},
         rcv |-> {}, qbytes |-> {}, signals |-> {}]
MCMenus ==
  {(* arrays of operations on two semaphores, and who changes them *)
   [Base EXCEPT !.calls = {"semget", "semop", "semrmid"}, !.n = 6, !.signals = {TRUE}, !.gets = {Get(1, TRUE), Get(1, FALSE)},
                !.sops = {<<Op(0, 1)>>, <<Op(0, -1), Op(1, -1)>>, <<Op(1, 2)>>, <<Op(1, 0), Op(0, 1)>>}],
   [Base EXCEPT !.calls = {"semget", "semop", "setval", "setall"}, !.n = 6, !.vals = {0, 3},
                !.sops = {<<Op(0, -2)>>, <<Op(0, 0), Op(0, 2)>>, <<Op(0, 1), Nowait(Op(1, -1))>>, <<Op(0, -1), Op(1, 0)>>}],
   (* giving back at exit *)
   [Base EXCEPT !.calls = {"semget", "semop", "setval", "exit", "semrmid"}, !.n = 6, !.vals = {2}, !.signals = {TRUE},
                !.sops = {<<Undone(Op(0, -1))>>, <<Undone(Op(0, 1)), Undone(Op(1, 1))>>, <<Op(0, -1)>>, <<Op(0, 0)>>}],
   [Base EXCEPT !.calls = {"semget", "semop", "setall", "semrmid", "fork", "exit"}, !.n = 7, !.vals = {2}, !.nsems = 1,
                !.sops = {<<Undone(Op(0, 1))>>, <<Undone(Op(0, -1))>>, <<Op(0, -1)>>, <<Op(1, -1)>>}],
   (* queues *)
   [Base EXCEPT !.calls = {"msgget", "msgsnd", "msgrcv", "msgrmid"}, !.n = 7, !.signals = {TRUE}, !.rcv = {Rcv(0)},
                !.gets = {Get(1, TRUE), Get(2, TRUE)}],
   [Base EXCEPT !.calls = {"msgget", "msgsnd", "msgrcv"}, !.n = 7, !.types = {1, 2}, !.sizes = {1, 2}, !.nowait = BOOLEAN,
                !.rcv = {Rcv(1), [Rcv(1) EXCEPT !.except = TRUE], [Rcv(0) EXCEPT !.sz = 1],
                         Rcv(-2), [Rcv(2) EXCEPT !.sz = 1, !.noerror = TRUE, !.nowait = TRUE]}],
   [Base EXCEPT !.calls = {"msgget", "msgsnd", "msgrcv", "msgset"}, !.n = 6, !.qbytes = {2, 6}, !.sizes = {2, 3},
                !.rcv = {Rcv(0)}]}
=============================================================================
