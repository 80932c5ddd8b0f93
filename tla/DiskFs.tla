------------------------------- MODULE DiskFs -------------------------------
(***************************************************************************)
(* Allocation on the mounted root file system: inode and block bitmaps,    *)
(* bmap() and truncate() of ext2 (fs/ext2/bitmaps.c, inode.c) and of Minix *)
(* versions 1 and 2 (fs/minix/bitmaps.c, v1_inode.c, v2_inode.c).          *)
(*                                                                         *)
(* k is the file-system part of the kernel's state, a record:              *)
(*   fs, disk  the type and the data blocks of the root file system        *)
(*   imap, zmap     the inode and block numbers marked in use in the       *)
(*                  bitmaps on the disk                                    *)
(*   ifree, bfree   s_free_inodes_count, s_free_blocks_count (ext2 only)   *)
(*   tree    the index tree of every inode (BlockMap)                      *)
(*   iblocks i_blocks, in blocks (ext2 only)                               *)
(*   size    i_size                                                        *)
(*   kind    the file type in i_mode, "none" when there is no inode        *)
(*   bad     a free block that cannot be read, 0 for none                  *)
(*   warned  the kernel has printed one of its own consistency warnings    *)
(* and the fields the modules above this one add.                          *)
(***************************************************************************)
EXTENDS BlockMap, Functions, FiniteSetsExt

CONSTANTS BlockSize,   \* bytes in a block
          DiskBlocks,  \* the data blocks of the largest disk
          DiskInodes   \* the inode numbers of the root file system

ASSUME DiskAssumption == /\ BlockSize \in Nat \ {0}
                         /\ DiskBlocks \subseteq Nat \ {0}
                         /\ DiskInodes \subseteq Nat \ {0}

Ext2(k) == k.fs = "ext2"
FreedTable == [b \in 0..MaxBlocks - 1, l \in {2, 3} |-> FreedBy(b, l)]
PathTable == [b \in 0..MaxBlocks - 1 |-> Steps(IndexPath(b))]
UnneededTable == [b \in 0..MaxBlocks - 1 |-> Unneeded(b)]
Warned(k, cond) == [k EXCEPT !.warned = @ \/ cond]

-----------------------------------------------------------------------------
(* find_first_zero(): the lowest clear bit; 0 when there is none. *)
FirstZero(all, map) == IF all \ map = {} THEN 0 ELSE Min(all \ map)

(* ext2_balloc(): blk is 0 when the group has no free block. *)
ext2_balloc(k) ==
  LET b == IF k.bfree = 0 THEN 0 ELSE FirstZero(k.disk, k.zmap)
  IN  IF b = 0 THEN [k |-> k, blk |-> 0]
      ELSE [k |-> [k EXCEPT !.zmap = @ \cup {b}, !.bfree = @ - 1], blk |-> b]

(* ext2_bfree(): a bit that is already clear is reported, the count grows   *)
(* all the same.                                                            *)
ext2_bfree(k, b) ==
  [Warned(k, b \notin k.zmap) EXCEPT !.zmap = @ \ {b}, !.bfree = @ + 1]

(* ext2_ialloc(): ino is 0 on failure. *)
ext2_ialloc(k) ==
  LET n == IF k.ifree = 0 THEN 0 ELSE FirstZero(DiskInodes, k.imap)
  IN  IF n = 0 THEN [k |-> k, ino |-> 0]
      ELSE [k |-> [k EXCEPT !.imap = @ \cup {n}, !.ifree = @ - 1], ino |-> n]

(* minix_change_bit(): sets or clears the bit of an item; already tells that *)
(* there was nothing to change.                                             *)
minix_change_bit(map, set, item) ==
  [map |-> IF set THEN map \cup {item} ELSE map \ {item}, already |-> (item \in map) = set]

minix_balloc(k) ==
  LET b == FirstZero(k.disk, k.zmap)
  IN  [k |-> IF b = 0 THEN k ELSE [k EXCEPT !.zmap = minix_change_bit(@, TRUE, b).map], blk |-> b]

minix_bfree(k, b) ==
  LET c == minix_change_bit(k.zmap, FALSE, b)
  IN  [Warned(k, c.already) EXCEPT !.zmap = c.map]

v1_minix_ialloc(k) ==
  LET n == FirstZero(DiskInodes, k.imap)
  IN  [k |-> IF n = 0 THEN k ELSE [k EXCEPT !.imap = minix_change_bit(@, TRUE, n).map], ino |-> n]

v2_minix_ialloc(k) == v1_minix_ialloc(k)

minix_ialloc(k) == IF k.fs = "minix1" THEN v1_minix_ialloc(k) ELSE v2_minix_ialloc(k)

-----------------------------------------------------------------------------
(* One pointer of bmap(i, offset, FOR_WRITING): allocate it when it is zero. *)
(* A new block is read before it is cleared, and freed when that fails.      *)
(* After a failure the pointers set so far stay.                             *)
Point_kept(r, i, x, a) ==               \* mutant: the block that cannot be read stays allocated
  IF a.blk = 0 THEN [r EXCEPT !.blk = 0]
  ELSE IF a.blk = a.k.bad THEN [k |-> a.k, blk |-> 0]
  ELSE [k |-> [a.k EXCEPT !.tree[i] = @ @@ (x :> a.blk),
                          !.iblocks[i] = IF Ext2(a.k) THEN @ + 1 ELSE @], blk |-> a.blk]
Point(r, i, x, a) ==
  IF a.blk = 0 THEN [r EXCEPT !.blk = 0]
  ELSE IF a.blk = a.k.bad
  THEN [k |-> IF Ext2(a.k) THEN ext2_bfree(a.k, a.blk) ELSE minix_bfree(a.k, a.blk), blk |-> 0]
  ELSE [k |-> [a.k EXCEPT !.tree[i] = @ @@ (x :> a.blk),
                          !.iblocks[i] = IF Ext2(a.k) THEN @ + 1 ELSE @], blk |-> a.blk]
Pointer(r, i, x, alloc) ==
  IF r.blk = 0 THEN r
  ELSE IF x \in DOMAIN r.k.tree[i] THEN [r EXCEPT !.blk = r.k.tree[i][x]]
  ELSE Point(r, i, x, alloc)

(* ext2_bmap(i, offset, FOR_WRITING) for logical block b: blk is 0 when the *)
(* disk is full or the new block cannot be read, else the block.            *)
ext2_bmap(k, i, b) ==
  FoldLeft(LAMBDA r, x : Pointer(r, i, x, ext2_balloc(r.k)), [k |-> k, blk |-> -1], PathTable[b])

v2_minix_bmap(k, i, b) ==
  FoldLeft(LAMBDA r, x : Pointer(r, i, x, minix_balloc(r.k)), [k |-> k, blk |-> -1], PathTable[b])

(* Version 1 has no triply indirect block and takes every block past the    *)
(* indirect one for a doubly indirect one.                                  *)
v1_minix_bmap(k, i, b) ==
  FoldLeft(LAMBDA r, x : Pointer(r, i, x, minix_balloc(r.k)), [k |-> k, blk |-> -1], PathTable[b])

bmap(k, i, b) == CASE k.fs = "ext2" -> ext2_bmap(k, i, b)
                   [] k.fs = "minix1" -> v1_minix_bmap(k, i, b)
                   [] k.fs = "minix2" -> v2_minix_bmap(k, i, b)

-----------------------------------------------------------------------------
HasBlocks(k, i) == k.kind[i] \in {"dir", "reg", "lnk"}
Cut(f, gone) == [x \in DOMAIN f \ gone |-> f[x]]

(* ext2_truncate(i, length): gone are the pointers that are cleared. *)
ext2_cut(k, i, length, gone) ==
  [FoldSet(LAMBDA x, s : ext2_bfree(s, k.tree[i][x]), k, gone)
     EXCEPT !.tree[i] = Cut(@, gone), !.size[i] = length, !.iblocks[i] = @ - Cardinality(gone)]
ext2_truncate(k, i, length) ==
  IF HasBlocks(k, i)
  THEN ext2_cut(k, i, length, FreedTable[length \div BlockSize, 3] \cap DOMAIN k.tree[i]) ELSE k

minix_cut(k, i, length, gone) ==
  [FoldSet(LAMBDA x, s : minix_bfree(s, k.tree[i][x]), k, gone)
     EXCEPT !.tree[i] = Cut(@, gone), !.size[i] = length]
v1_minix_truncate(k, i, length) ==
  IF HasBlocks(k, i)
  THEN minix_cut(k, i, length, FreedTable[length \div BlockSize, 2] \cap DOMAIN k.tree[i]) ELSE k
v2_minix_truncate(k, i, length) ==
  IF HasBlocks(k, i)
  THEN minix_cut(k, i, length, FreedTable[length \div BlockSize, 3] \cap DOMAIN k.tree[i]) ELSE k

truncate(k, i, length) == CASE k.fs = "ext2" -> ext2_truncate(k, i, length)
                            [] k.fs = "minix1" -> v1_minix_truncate(k, i, length)
                            [] k.fs = "minix2" -> v2_minix_truncate(k, i, length)

-----------------------------------------------------------------------------
(* ext2_ifree(): the blocks are freed only when i_blocks says there are any *)
(* (the text of a fast symbolic link lies where the block numbers would).   *)
ClearInode(k, i) == [Warned(k, i \notin k.imap) EXCEPT !.imap = @ \ {i}, !.size[i] = 0]
ext2_ifree(k, i) ==
  [ClearInode(IF k.iblocks[i] = 0 THEN k ELSE ext2_truncate(k, i, 0), i) EXCEPT !.ifree = @ + 1]
v1_minix_ifree(k, i) == ClearInode(v1_minix_truncate(k, i, 0), i)
v2_minix_ifree(k, i) == ClearInode(v2_minix_truncate(k, i, 0), i)

ifree(k, i) == CASE k.fs = "ext2" -> ext2_ifree(k, i)
                 [] k.fs = "minix1" -> v1_minix_ifree(k, i)
                 [] k.fs = "minix2" -> v2_minix_ifree(k, i)
=============================================================================
