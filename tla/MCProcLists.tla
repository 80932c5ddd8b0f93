----------------------------- MODULE MCProcLists -----------------------------
(* ProcLists on three processes, with two addresses in one bucket. *)
EXTENDS ProcLists, TLC

CONSTANTS a1, a2, a3, p1, p2, p3

\* a1 and a2 share a bucket and are interchangeable, and so are p2 and p3.
Perms == Permutations({a1, a2}) \cup Permutations({p2, p3})

MCHash == [a \in Addresses |-> IF a = a3 THEN 1 ELSE 0]
==============================================================================
