----------------------------- MODULE BufferTable -----------------------------
(***************************************************************************)
(* The buffer table of fs/buffer.c, its lists and flags, and what the      *)
(* functions of the buffer cache do to them in one go.  The processes that *)
(* call them are in BufferCache.                                           *)
(***************************************************************************)
EXTENDS Lists

CONSTANTS
    Blocks,        \* a set of naturals: processes lock blocks in this order
    Pages, PerPage,
    NULL

ASSUME BufferTableAssumption ==
    /\ Blocks \subseteq Nat /\ NULL \notin Blocks
    /\ PerPage \in Nat \ {0} /\ NULL \notin Pages \X (1 .. PerPage)

Bufs == Pages \X (1 .. PerPage)

EmptyCache ==
    [free |-> <<>>, dirty |-> <<>>, hash |-> <<>>,
     blk |-> [b \in Bufs |-> NULL], flags |-> [b \in Bufs |-> {}],
     pool |-> {}, fresh |-> {}, mark |-> {}]

----------------------------------------------------------------------------
\* The operations on the lists and flags.

Has(c, b, f) == f \in c.flags[b]
SetFlag(c, b, f) == [c EXCEPT !.flags[b] = @ \cup {f}]
Clear(c, b, f) == [c EXCEPT !.flags[b] = @ \ {f}]

insert_to_hash(c, b) == [c EXCEPT !.hash = <<b>> \o @]
remove_from_hash(c, b) == [c EXCEPT !.hash = Unlink(@, b)]

\* A buffer that is on the dirty list already stays where it is.
insert_on_dirty_list(c, b) ==
    IF b \in Range(c.dirty) THEN c ELSE [c EXCEPT !.dirty = Append(@, b)]
remove_from_dirty_list(c, b) == [c EXCEPT !.dirty = Unlink(@, b)]

\* A buffer without valid contents goes to the head, to be reused first.
insert_on_free_list(c, b) ==
    [c EXCEPT !.free = IF Has(c, b, "VALID") THEN Append(@, b)
                       ELSE <<b>> \o @]
append_on_free_list(c, b) == [c EXCEPT !.free = Append(@, b)]

remove_from_free_list(c, b) == [c EXCEPT !.free = Unlink(@, b)]

\* Variant: brelse() forgets the dirty list.
BrelseNotListed(c, b) == Clear(insert_on_free_list(c, b), b, "LOCKED")

brelse(c, b) ==
    LET d == IF Has(c, b, "DIRTY") THEN insert_on_dirty_list(c, b) ELSE c
    IN  Clear(insert_on_free_list(d, b), b, "LOCKED")

\* The most recent insertion of block k in the hash table, or NULL.
search_buffer_hash(c, k) ==
    LET hits == {i \in DOMAIN c.hash : c.blk[c.hash[i]] = k}
        newest == CHOOSE i \in hits : \A j \in hits : i <= j
    IN  IF hits = {} THEN NULL ELSE c.hash[newest]

\* create_buffers(): the buffers of page g, which have no flags, go to the
\* head of the free list one after the other; the last one is returned locked.
create_buffers(c, g) ==
    [c EXCEPT !.pool = @ \cup ({g} \X (1 .. PerPage)),
              !.free = [n \in 1 .. PerPage - 1 |-> <<g, PerPage - n>>] \o @,
              !.flags[<<g, PerPage>>] = {"LOCKED"}]

\* Variant: getblk() keeps BUFFER_VALID when it gives the buffer to a block.
RehashValid(c, b, k) ==
    insert_to_hash([remove_from_hash(c, b) EXCEPT !.blk[b] = k,
                                                  !.fresh = @ \ {b}], b)

Rehash(c, b, k) ==
    Clear(insert_to_hash([remove_from_hash(c, b) EXCEPT !.blk[b] = k,
                                                        !.fresh = @ \ {b}], b),
          b, "VALID")

\* get_dirty_buffer() takes a buffer from the dirty list.
TakeDirty(c, b) == SetFlag(remove_from_dirty_list(c, b), b, "LOCKED")

\* The buffer goes back to the dirty list, unlocked.
Relist(c, b) == Clear(insert_on_dirty_list(c, b), b, "LOCKED")

\* The buffer goes to the end of the free list without brelse().
PutBack(c, b) == append_on_free_list(Clear(c, b, "LOCKED"), b)

\* The other buffers of the page, in the order of next_sibling.
SiblingsOf(b) == Unlink([n \in 1 .. PerPage |-> <<b[1], n>>], b)

LockAll(c, S) ==
    [c EXCEPT !.flags = [x \in Bufs |-> IF x \in S THEN @[x] \cup {"LOCKED"}
                                        ELSE @[x]]]

\* A buffer leaves the hash table, the free list and the pool.
Discard(c, b) ==
    [remove_from_free_list(remove_from_hash(c, b), b) EXCEPT
        !.pool = @ \ {b}, !.flags[b] = {}, !.blk[b] = NULL,
        !.fresh = @ \ {b}, !.mark = @ \ {b}]
==============================================================================
