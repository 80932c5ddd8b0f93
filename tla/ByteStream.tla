----------------------------- MODULE ByteStream -----------------------------
(***************************************************************************)
(* What a pipe promises its users: a bounded first-in first-out stream of  *)
(* bytes.  A write call hands over its bytes in order, in one or several   *)
(* pieces; a read call takes a non-empty prefix of what is in the stream;  *)
(* nothing is lost, duplicated, reordered or overwritten.                  *)
(***************************************************************************)
EXTENDS Integers, Sequences

CONSTANTS
    Writers,        \* processes that write to it
    PIPE_BUF,       \* its capacity
    MaxCount        \* largest request of a write call

VARIABLES
    queue,          \* bytes written and not yet read
    sent            \* sent[w]: size of w's present call and bytes of it done

streamvars == <<queue, sent>>

\* The i-th byte of a call of writer w that writes c bytes.
Byte(w, c, i) == [from |-> w, of |-> c, at |-> i]

Init ==
    /\ queue = <<>>
    /\ sent = [w \in Writers |-> [of |-> 0, done |-> 0]]

\* A write call of c bytes starts, or (c = 0) the call is over, completed or
\* cut short by an error.
Begin(w, c) ==
    /\ sent' = [sent EXCEPT ![w] = [of |-> c, done |-> 0]]
    /\ queue' = queue

\* The next k bytes of the call go to the end of the stream.
Put(w, k) ==
    /\ k <= sent[w].of - sent[w].done
    /\ Len(queue) + k <= PIPE_BUF
    /\ queue' = queue \o [i \in 1..k |-> Byte(w, sent[w].of, sent[w].done + i)]
    /\ sent' = [sent EXCEPT ![w].done = @ + k]

\* A read call takes the first k bytes.
Get(k) ==
    /\ k <= Len(queue)
    /\ queue' = SubSeq(queue, k + 1, Len(queue))
    /\ sent' = sent

Next ==
    \/ \E w \in Writers, c \in 0..MaxCount : Begin(w, c)
    \/ \E w \in Writers, k \in 1..PIPE_BUF : Put(w, k)
    \/ \E k \in 1..PIPE_BUF : Get(k)

Spec == Init /\ [][Next]_streamvars
=============================================================================
