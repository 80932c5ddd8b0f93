---------------------------- MODULE MCBufferCache ----------------------------
(* BufferCache with three blocks on two devices. *)
EXTENDS BufferCache, TLC

CONSTANTS d1, d2

Perms == Permutations(Clients)

\* Two clients alone, and one client with two of the others. Two clients and
\* a process that writes buffers back are not checked together: see README.md.
MCTeams == {Clients} \cup
           {{c} \cup t : c \in Clients,
                t \in {{kbdflushd, kswapd}, {kbdflushd} \cup Syncers}}

MCDev == [k \in Blocks |-> IF k = 2 THEN d2 ELSE d1]
==============================================================================
