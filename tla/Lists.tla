------------------------------- MODULE Lists -------------------------------
(***************************************************************************)
(* The linked lists of the kernel as sequences: what unlinking a node, and *)
(* unlinking all nodes of a kind, leaves of a list.                        *)
(***************************************************************************)
EXTENDS Integers, Sequences, FiniteSets, Functions

\* The list s, which has no node twice, without the node x.
Unlink(s, x) ==
    LET k == CHOOSE i \in DOMAIN s : s[i] = x
    IN  IF x \notin Range(s) THEN s ELSE SubSeq(s, 1, k - 1) \o SubSeq(s, k + 1, Len(s))

\* The list s without the nodes in S.
Without(s, S) ==
    LET keep[n \in 0 .. Len(s)] ==
            IF n = 0 THEN <<>>
            ELSE IF s[n] \in S THEN keep[n - 1] ELSE Append(keep[n - 1], s[n])
    IN  keep[Len(s)]
=============================================================================
