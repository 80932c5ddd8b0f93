------------------------------- MODULE Charq --------------------------------
(***************************************************************************)
(* The character queues of drivers/char/charq.c.  A queue is a list of at  *)
(* most NR_CB_QUEUE blocks taken from a common pool of CB_POOL_SIZE; a     *)
(* block holds CBSIZE characters and is filled once: the room in front of  *)
(* start_off comes back only when the block is empty and freed.            *)
(*                                                                         *)
(* A block is [lo |-> start_off, d |-> the characters from start_off to    *)
(* end_off]; q maps a queue's name to its blocks, pool counts free ones.   *)
(***************************************************************************)
EXTENDS Integers, Sequences, SequencesExt, FiniteSets

CONSTANTS CBSIZE, NR_CB_QUEUE, CB_POOL_SIZE

ASSUME CharqAssumption == /\ CBSIZE \in Nat \ {0}
                          /\ NR_CB_QUEUE \in Nat \ {0}
                          /\ CB_POOL_SIZE \in Nat

HasRoom(b) == b.lo + Len(b.d) < CBSIZE
CharsOf(blocks) == FlattenSeq([i \in DOMAIN blocks |-> blocks[i].d])
Chars(k, n) == CharsOf(k.q[n])
Count(k, n) == Len(Chars(k, n))
charq_room(k, n) == NR_CB_QUEUE * CBSIZE - Count(k, n)
LAST_CHAR(k, n) == IF k.q[n] = <<>> THEN "" ELSE Last(Last(k.q[n]).d)

insert_cblock_in_tail(k, n) ==
  [k EXCEPT !.pool = @ - 1, !.q[n] = Append(@, [lo |-> 0, d |-> <<>>])]
delete_cblock_from_tail(k, n) == [k EXCEPT !.pool = @ + 1, !.q[n] = Front(@)]
delete_cblock_from_head(k, n) == [k EXCEPT !.pool = @ + 1, !.q[n] = Tail(@)]

(* charq_putchar() returns 0 *)
Fits(k, n) ==
  \/ k.q[n] # <<>> /\ HasRoom(Last(k.q[n]))
  \/ Len(k.q[n]) < NR_CB_QUEUE /\ k.pool > 0
AddChar(k, n, ch) == [k EXCEPT !.q[n][Len(k.q[n])].d = Append(@, ch)]
charq_putchar(k, n, ch) ==
  IF ~Fits(k, n) THEN k
  ELSE IF k.q[n] # <<>> /\ HasRoom(Last(k.q[n])) THEN AddChar(k, n, ch)
  ELSE AddChar(insert_cblock_in_tail(k, n), n, ch)
charq_puts(k, n, s) == FoldLeft(LAMBDA r, ch : charq_putchar(r, n, ch), k, s)

charq_unputchar(k, n) ==
  IF k.q[n] = <<>> THEN k
  ELSE IF Len(Last(k.q[n]).d) = 1 THEN delete_cblock_from_tail(k, n)
  ELSE [k EXCEPT !.q[n][Len(k.q[n])].d = Front(@)]

charq_getchar_keeps(k, n) ==            \* mutant: an empty block is not given back
  IF k.q[n] = <<>> THEN k
  ELSE IF Len(k.q[n][1].d) = 1 THEN [k EXCEPT !.q[n] = Tail(@)]
  ELSE [k EXCEPT !.q[n][1] = [lo |-> @.lo + 1, d |-> Tail(@.d)]]
charq_getchar(k, n) ==
  IF k.q[n] = <<>> THEN k
  ELSE IF Len(k.q[n][1].d) = 1 THEN delete_cblock_from_head(k, n)
  ELSE [k EXCEPT !.q[n][1] = [lo |-> @.lo + 1, d |-> Tail(@.d)]]
FirstChar(k, n) == k.q[n][1].d[1]
charq_get(k, n, m) == FoldLeft(LAMBDA r, i : charq_getchar(r, n), k, [i \in 1 .. m |-> i])

charq_flush(k, n) == [k EXCEPT !.pool = @ + Len(k.q[n]), !.q[n] = <<>>]
=============================================================================
