------------------------------ MODULE BlockMap ------------------------------
(***************************************************************************)
(* The index tree of a file, shared by ext2 (fs/ext2/inode.c) and Minix    *)
(* (fs/minix/v1_inode.c, v2_inode.c): NDIR direct slots in the inode, then *)
(* a singly, a doubly and a triply indirect block of BPI pointers each.    *)
(*                                                                         *)
(* A pointer of the tree is named by its path from the inode: <<3>> is     *)
(* slot 3 of the inode, <<NDIR, 1>> entry 1 of the indirect block, and so  *)
(* on.  A file's tree is the function from the paths of its non-zero       *)
(* pointers to the block numbers they hold.                                *)
(***************************************************************************)
EXTENDS Integers, Sequences, FiniteSets, SequencesExt

CONSTANTS NDIR,   \* direct slots of an inode (12 in ext2, 7 in Minix)
          BPI     \* block pointers held by one indirect block

ASSUME BlockMapAssumption == NDIR \in Nat \ {0} /\ BPI \in Nat \ {0, 1}

BPD == BPI * BPI               \* BLOCKS_PER_DIND_BLOCK
BPT == BPI * BPI * BPI         \* BLOCKS_PER_TIND_BLOCK
MaxBlocks == NDIR + BPI + BPD + BPT

(* The pointers a bmap() of logical block b goes through, outermost first. *)
IndexPath(b) ==
  LET r == b - NDIR
      d == r - BPI
      t == d - BPD
      u == t - BPD * (t \div BPD)
  IN  IF b < NDIR THEN <<b>>
      ELSE IF r < BPI THEN <<NDIR, r>>
      ELSE IF d < BPD THEN <<NDIR + 1, d \div BPI, d - (d \div BPI) * BPI>>
      ELSE <<NDIR + 2, t \div BPD, u \div BPI, u - (u \div BPI) * BPI>>

(* Every prefix of the path, in the order bmap() allocates them. *)
Steps(path) == [n \in 1..Len(path) |-> SubSeq(path, 1, n)]

(* free_dblock(), free_zone(): the pointers of the indirect block at path x *)
(* from entry off on.                                                       *)
FreedDblock(x, off) == {Append(x, n) : n \in off..BPI - 1}

(* A block of pointers goes with its contents when none of it is kept.      *)
WithTop(x, off, below) == IF off = 0 THEN below \cup {x} ELSE below

FreedIndblock_whole(x, off) ==          \* mutant: the first indirect block goes as a whole
  UNION {WithTop(Append(x, n), 0, FreedDblock(Append(x, n), 0)) : n \in (off \div BPI)..BPI - 1}
(* free_indblock(): below the doubly indirect block at x, from logical      *)
(* offset off on; an indirect block of which an entry is kept is kept.      *)
FreedIndblock(x, off) ==
  UNION {LET first == IF n = off \div BPI THEN off % BPI ELSE 0
         IN  WithTop(Append(x, n), first, FreedDblock(Append(x, n), first))
           : n \in (off \div BPI)..BPI - 1}

(* Below the triply indirect block the code divides by BPI where one entry  *)
(* stands for BPD blocks.                                                   *)
FreedTindblock(x, off) ==
  UNION {LET first == IF n = off \div BPI THEN off % BPI ELSE 0
         IN  WithTop(Append(x, n), first, FreedIndblock(Append(x, n), first))
           : n \in (off \div BPI)..BPI - 1}

(* The pointers of the tree that truncate() clears when the new length is   *)
(* in logical block blk (levels: 2 in Minix version 1, else 3): the rest of *)
(* the area blk lies in, and the areas behind it as a whole.                *)
FreedArea(x, off, size, below) == IF off >= size THEN {} ELSE WithTop(x, off, below)
FreedBy(blk, levels) ==
  LET from(first) == IF blk < first THEN 0 ELSE blk - first
      i == from(NDIR)
      d == from(NDIR + BPI)
      t == from(NDIR + BPI + BPD)
  IN  {<<n>> : n \in blk..NDIR - 1}
      \cup FreedArea(<<NDIR>>, i, BPI, FreedDblock(<<NDIR>>, i))
      \cup FreedArea(<<NDIR + 1>>, d, BPD, FreedIndblock(<<NDIR + 1>>, d))
      \cup IF levels = 3 THEN FreedArea(<<NDIR + 2>>, t, BPT, FreedTindblock(<<NDIR + 2>>, t)) ELSE {}

(* What a truncation to blk whole blocks should clear: the pointers that    *)
(* lead to no block below blk.                                              *)
Unneeded(blk) ==
  LET all == UNION {Range(Steps(IndexPath(b))) : b \in 0..MaxBlocks - 1}
      kept == UNION {Range(Steps(IndexPath(b))) : b \in 0..blk - 1}
  IN  all \ kept
=============================================================================
