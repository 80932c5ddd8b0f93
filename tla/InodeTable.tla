----------------------------- MODULE InodeTable -----------------------------
(***************************************************************************)
(* The in-core inodes of fs/inode.c as the calls of one process at a time  *)
(* see them: reference counts, the last iput() that deletes, ialloc().     *)
(*                                                                         *)
(* It adds to the record k of DiskFs                                       *)
(*   count   i->count, the references to the in-core inode                 *)
(*   nlink   i_nlink                                                       *)
(*   ents    the entries of a directory, [n |-> name, i |-> inode],        *)
(*           inode 0 for an entry that has been removed                    *)
(*   lnk     the path a symbolic link holds                                *)
(*   dying   the inodes the last reference to which has been put           *)
(*   cover   the directory the second file system is mounted on, or 0      *)
(*                                                                         *)
(* Inodes: DiskInodes on the root file system, MntRoot the root directory  *)
(* of a second (full) file system that can be mounted, PipeInode the inode *)
(* of a pipe.                                                              *)
(***************************************************************************)
EXTENDS DiskFs

CONSTANTS MntRoot,     \* the root inode of the second file system
          PipeInode,   \* an inode of pipefs
          NR_INODES    \* max_inodes: in-core inodes in use at a time

Inodes == DiskInodes \cup {MntRoot, PipeInode}
RootInode == Min(DiskInodes)
Dev(i) == IF i = MntRoot THEN "mnt" ELSE IF i = PipeInode THEN "pipe" ELSE "root"

Number(i) == IF i = MntRoot THEN RootInode ELSE i   \* i->inode

NoTree == [x \in {} |-> 0]

(* A new in-core inode: get_free_inode() hands it out with every field zero. *)
Blank(k, i, kind) ==
  [k EXCEPT !.kind[i] = kind, !.count[i] = 0, !.nlink[i] = 0, !.ents[i] = <<>>,
            !.lnk[i] = <<>>, !.tree[i] = NoTree, !.size[i] = 0, !.iblocks[i] = 0]

(* get_free_inode() finds one unless every in-core inode is referenced. *)
get_free_inode(k) == Cardinality({i \in Inodes : k.count[i] > 0}) < NR_INODES

(* pipefs_ifree() releases the pipe's page, the disk file systems the disk  *)
(* inode and its blocks.                                                    *)
FsIfree(k, i) == IF Dev(i) = "root" THEN ifree(k, i) ELSE k

(* iput(): the last reference to an inode without links deletes it.  The    *)
(* deletion itself, free_dying(), is put off to the end of the system call: *)
(* nothing that follows an iput() in a call looks at the inode again or at  *)
(* the bitmaps.                                                             *)
iput(k, i) ==
  IF i = 0 THEN k
  ELSE IF k.count[i] = 0 THEN [k EXCEPT !.warned = TRUE]
  ELSE [k EXCEPT !.count[i] = @ - 1,
                 !.dying = IF k.count[i] = 1 /\ k.nlink[i] = 0 THEN @ \cup {i} ELSE @]

free_dying(k) ==
  FoldSet(LAMBDA i, s : Blank(FsIfree(s, i), i, "none"), [k EXCEPT !.dying = {}], k.dying)

(* iget(): i is the inode got, through the mount point when one covers it,  *)
(* 0 when the table is full.                                                *)
iget(k, i) ==
  LET j == IF i = k.cover THEN MntRoot ELSE i
  IN  IF k.count[j] = 0 /\ ~get_free_inode(k) THEN [k |-> k, i |-> 0]
      ELSE [k |-> [k EXCEPT !.count[j] = @ + 1], i |-> j]

(* ialloc(): a new inode on the file system of dir; its count is still 0.   *)
(* The second file system is full.                                          *)
NewInode(k, a, kind) == IF a.ino = 0 THEN [k |-> k, i |-> 0]
                        ELSE [k |-> Blank(a.k, a.ino, kind), i |-> a.ino]
ialloc(k, dir, kind) ==
  IF ~get_free_inode(k) \/ Dev(dir) # "root" THEN [k |-> k, i |-> 0]
  ELSE NewInode(k, IF Ext2(k) THEN ext2_ialloc(k) ELSE minix_ialloc(k), kind)

(* A further reference to an inode that is in core. *)
Hold(k, i) == [k EXCEPT !.count[i] = @ + 1]

(* check_fs_busy(): some inode of the second file system is referenced, the *)
(* superblock's own reference to its root apart.                            *)
check_fs_busy(k) == k.count[MntRoot] > 1

-----------------------------------------------------------------------------
(* The entry of directory d with name n: find_dir_entry(d, NULL, n); 0 when *)
(* there is none.  SlotOf is its place, for the given inode; SlotOfInode the  *)
(* first entry with the inode's number, whatever its name.                    *)
Ent(k, d, n) ==
  LET hit == {j \in DOMAIN k.ents[d] : k.ents[d][j].n = n /\ k.ents[d][j].i # 0}
  IN  IF hit = {} THEN 0 ELSE k.ents[d][Min(hit)].i
SlotOf(k, d, i, n) ==
  LET hit == {j \in DOMAIN k.ents[d] : k.ents[d][j].n = n /\ k.ents[d][j].i = i}
  IN  IF hit = {} THEN 0 ELSE Min(hit)
SlotOfInode(k, d, i) ==
  LET hit == {j \in DOMAIN k.ents[d] : k.ents[d][j].i = Number(i)}
  IN  IF hit = {} THEN 0 ELSE Min(hit)

SetEnt(k, d, j, n, i) ==
  [k EXCEPT !.ents[d] = IF j > Len(@) THEN Append(@, [n |-> n, i |-> i])
                        ELSE [@ EXCEPT ![j] = [n |-> n, i |-> i]]]
ClearEnt(k, d, j) == [k EXCEPT !.ents[d][j].i = 0]

(* The result of an operation of a file system; Made returns an inode.     *)
Ret(k, e) == [k |-> k, e |-> e, i |-> 0]
Made(k, i) == [k |-> k, e |-> "ok", i |-> i]
PutMade(r) == IF r.e = "ok" THEN [r EXCEPT !.k = iput(r.k, r.i)] ELSE r
=============================================================================
