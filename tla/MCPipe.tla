------------------------------- MODULE MCPipe -------------------------------
(***************************************************************************)
(* Instances of Pipe for TLC: up to two processes on each end of a ring of *)
(* two bytes, and requests that do and do not fit in it.                   *)
(***************************************************************************)
EXTENDS Pipe, TLC

CONSTANTS r1, r2, w1, w2

\* Two processes at each end; one at each end and copies that sleep.
MCUsers ==
    {[readers |-> Readers, writers |-> Writers, faults |-> FALSE]} \cup
    {[readers |-> {r}, writers |-> {w}, faults |-> TRUE] :
        r \in Readers, w \in Writers}

Sym == Permutations({r1, r2}) \cup Permutations({w1, w2})
=============================================================================
