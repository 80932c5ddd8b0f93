----------------------------- MODULE PageCache ------------------------------
(***************************************************************************)
(* The pool of page frames (mm/page.c, mm/alloc.c): a free list, a cache of *)
(* file pages found through page_hash_table, and the buddy allocator of    *)
(* small kernel objects that takes its pages from the pool (buddy_low.c).  *)
(* What an uncached frame held before it is allotted is Junk to its user.  *)
(* Operators take the kernel's state v and return its next value, with the *)
(* page or block they found when there is one (0: none). Reserved frames   *)
(* are not in the pool; get_free_page() without free pages is taken after  *)
(* kswapd found nothing to reclaim.                                        *)
(***************************************************************************)
EXTENDS Integers, Sequences, FiniteSets, SequencesExt

CONSTANTS
  NR_PAGES,             \* page frames
  BUDDY_MAX_LEVEL,      \* a page is 2^BUDDY_MAX_LEVEL of the smallest blocks
  Junk                  \* what a frame holds before its user stores into it

ASSUME PoolAssumption == NR_PAGES \in Nat \ {0} /\ BUDDY_MAX_LEVEL \in Nat \ {0}

Pages == 1 .. NR_PAGES
(* One step after the other: F of the value of v; Op along a sequence *)
Then(v, F(_)) == CHOOSE r \in {F(x) : x \in {v}} : TRUE
Along(Op(_, _), v, s) ==
  LET f[i \in 0 .. Len(s)] == IF i = 0 THEN v ELSE Then(f[i - 1], LAMBDA w : Op(w, s[i])) IN f[Len(s)]
NoKey == <<0, 0>>       \* pg->inode = 0: not in the cache

page_init == [pg |-> [g \in Pages |-> [count |-> 0, cow |-> FALSE, buddy |-> FALSE, key |-> NoKey, data |-> Junk]],
              free |-> [g \in Pages |-> g], hash |-> {}]

insert_to_hash(v, g) == [v EXCEPT !.hash = @ \cup {g}]
insert_on_free_list(v, g) == [v EXCEPT !.free = Append(@, g)]     \* at its tail
remove_from_free_list(v, g) == [v EXCEPT !.free = SelectSeq(@, LAMBDA f : f # g)]
remove_from_hash(v, g) == IF v.pg[g].key = NoKey THEN v ELSE [v EXCEPT !.hash = @ \ {g}]

get_free_page(v) ==
  IF v.free = <<>> THEN [v |-> v, g |-> 0]
  ELSE LET g == Head(v.free)
           w == remove_from_hash(remove_from_free_list(v, g), g) IN
       [v |-> [w EXCEPT !.pg[g].count = 1, !.pg[g].key = NoKey, !.pg[g].data = Junk], g |-> g]

(* A hit takes the page off the free list if nobody was using it *)
search_page_hash(v, key) ==
  LET hits == {g \in v.hash : v.pg[g].key = key}
      g == CHOOSE h \in hits : TRUE
      w == IF v.pg[g].count = 0 THEN remove_from_free_list(v, g) ELSE v IN
  IF hits = {} THEN [v |-> v, g |-> 0] ELSE [v |-> [w EXCEPT !.pg[g].count = @ + 1], g |-> g]

(* Cached pages go to the tail of the free list, the others to its head *)
release_page(v, g) ==
  IF v.pg[g].count = 0 THEN v
  ELSE IF v.pg[g].count > 1 THEN [v EXCEPT !.pg[g].count = @ - 1]
  ELSE LET w == insert_on_free_list(v, g) IN
       [w EXCEPT !.pg[g].count = 0, !.pg[g].cow = FALSE, !.pg[g].buddy = FALSE,
                 !.pg[g].data = IF v.pg[g].key = NoKey THEN Junk ELSE @,
                 !.free = IF v.pg[g].key = NoKey THEN <<g>> \o v.free ELSE @]

(* The pages of a file leave the cache; who has them mapped keeps them *)
InvalidateOne(v, key) ==
  LET r == search_page_hash(v, key) IN
  IF r.g = 0 THEN r.v ELSE remove_from_hash(release_page(r.v, r.g), r.g)

invalidate_inode_pages(v, ino, size) ==
  Along(LAMBDA w, o : InvalidateOne(w, <<ino, o - 1>>), v, [o \in 1 .. size |-> o])

(* A write to a file reaches the page of it that is in the cache *)
update_page_cache(v, key, x) ==
  LET r == search_page_hash(v, key) IN
  IF r.g = 0 THEN r.v ELSE release_page([r.v EXCEPT !.pg[r.g].data = x], r.g)

(* Reading a page of a file: read-only and shared ones enter the cache      *)
(* before the blocks are read. v.eio says that the device fails.            *)
bread_page(v, g, key, content, cached) ==
  LET w == IF cached THEN insert_to_hash([v EXCEPT !.pg[g].key = key], g) ELSE v IN
  IF v.eio THEN w ELSE [w EXCEPT !.pg[g].data = content]

-----------------------------------------------------------------------------
(* Blocks of less than a page. A block is its page, its offset in units of  *)
(* the smallest size and its level; v.small are the blocks in use.          *)

get_buddy(b) == [b EXCEPT !.off = IF (@ \div 2^b.level) % 2 = 0 THEN @ + 2^b.level ELSE @ - 2^b.level]
buddy_low_init == [freelist |-> [l \in 0 .. BUDDY_MAX_LEVEL - 1 |-> <<>>], small |-> {}]

RECURSIVE allocate(_, _)
allocate(v, level) ==
  IF level = BUDDY_MAX_LEVEL
  THEN LET r == get_free_page(v) IN
       IF r.g = 0 THEN [v |-> r.v, b |-> [pg |-> 0]]
       ELSE [v |-> [r.v EXCEPT !.pg[r.g].buddy = TRUE], b |-> [pg |-> r.g, off |-> 0, level |-> level]]
  ELSE IF v.freelist[level] # <<>>
  THEN [v |-> [v EXCEPT !.freelist[level] = Tail(@)], b |-> Head(v.freelist[level])]
  ELSE LET r == allocate(v, level + 1)
           b == [r.b EXCEPT !.level = level] IN
       IF r.b.pg = 0 THEN r ELSE [v |-> [r.v EXCEPT !.freelist[level] = <<get_buddy(b)>>], b |-> b]

RECURSIVE deallocate(_, _)
deallocate(v, b) ==
  LET buddy == get_buddy(b)
      w == [v EXCEPT !.freelist[b.level] = SelectSeq(@, LAMBDA f : f # buddy)] IN
  IF buddy \notin Range(v.freelist[b.level]) THEN [v EXCEPT !.freelist[b.level] = <<b>> \o @]
  ELSE IF b.level < BUDDY_MAX_LEVEL - 1
  THEN deallocate(w, [(IF b.off < buddy.off THEN b ELSE buddy) EXCEPT !.level = @ + 1])
  ELSE release_page([w EXCEPT !.pg[b.pg].buddy = FALSE], b.pg)

bl_malloc(v, level) == LET r == allocate(v, level) IN IF r.b.pg = 0 THEN r.v ELSE [r.v EXCEPT !.small = @ \cup {r.b}]
bl_free(v, b) == deallocate([v EXCEPT !.small = @ \ {b}], b)
=============================================================================
