------------------------------- MODULE Minix --------------------------------
(***************************************************************************)
(* The directory operations of the Minix file system (fs/minix/namei.c).   *)
(* They follow ext2's with the differences of the code: directories grow   *)
(* by one entry, a new inode gets its link and its reference before the    *)
(* steps that can fail and loses the link again when one does.             *)
(***************************************************************************)
EXTENDS InodeTable

(* minix_bmap() by the version of the file system. *)
minix_bmap(k, i, b) == IF k.fs = "minix1" THEN v1_minix_bmap(k, i, b) ELSE v2_minix_bmap(k, i, b)

(* find_first_free_dir_entry(), add_dir_entry(): i_size counts the entries. *)
minix_grow_dir(k, d, b) ==
  IF b.blk = 0 THEN [k |-> b.k, j |-> 0]
  ELSE [k |-> [b.k EXCEPT !.size[d] = @ + 1], j |-> Len(k.ents[d]) + 1]
minix_add_dir_entry(k, d) ==
  LET free == {j \in DOMAIN k.ents[d] : k.ents[d][j].i = 0}
  IN  IF free # {} THEN [k |-> k, j |-> Min(free)]
      ELSE minix_grow_dir(k, d, minix_bmap(k, d, k.size[d] \div BlockSize))

(* is_dir_empty() skips the first two entries, whatever they are. *)
minix_is_dir_empty(k, d) == \A j \in 3..Len(k.ents[d]) : k.ents[d][j].i = 0

(* minix_lookup(): "." goes through iget() like any other entry. *)
minix_lookup(k, dir, n) ==
  LET ino == Ent(k, dir, n)
      g == iget(k, ino)
  IN  IF ino = 0 THEN [k |-> iput(k, dir), e |-> "enoent", i |-> 0]
      ELSE IF g.i = 0 THEN [k |-> iput(k, dir), e |-> "eacces", i |-> 0]
      ELSE [k |-> iput(g.k, dir), e |-> "ok", i |-> g.i]

RECURSIVE minix_is_subdir(_, _, _)
minix_is_subdir(k, dir, i) ==
  \/ dir = i
  \/ Ent(k, dir, "..") \notin {0, dir} /\ minix_is_subdir(k, Ent(k, dir, ".."), i)

minix_rmdir(k, dir, i) ==
  LET j == SlotOfInode(k, dir, i)
  IN  IF ~minix_is_dir_empty(k, i) THEN Ret(k, "enotempty")
      ELSE IF j = 0 THEN Ret(k, "enoent")
      ELSE Ret([ClearEnt(k, dir, j) EXCEPT !.nlink[i] = 0, !.nlink[dir] = @ - 1], "ok")

minix_add_link(a, i, dir, n) ==
  IF a.j = 0 THEN Ret(a.k, "enospc")
  ELSE Ret([SetEnt(a.k, dir, a.j, n, i) EXCEPT !.nlink[i] = @ + 1], "ok")
minix_link(k, i, dir, n) == minix_add_link(minix_add_dir_entry(k, dir), i, dir, n)

minix_unlink(k, dir, i, n) ==
  LET j == SlotOf(k, dir, i, n)
  IN  IF j = 0 THEN Ret(k, "enoent")
      ELSE Ret([ClearEnt(k, dir, j) EXCEPT !.nlink[i] = @ - 1], "ok")

(* minix_create(), minix_mknod(): as in ext2, the new inode's count is      *)
(* still 0 when the directory has no room.                                  *)
minix_enter(a, s, dir, n) ==
  IF s.j = 0 THEN Ret(iput(s.k, a.i), "enospc")
  ELSE Made([SetEnt(s.k, dir, s.j, n, a.i) EXCEPT !.nlink[a.i] = 1, !.count[a.i] = 1], a.i)
minix_new(a, dir, n) == IF a.i = 0 THEN Ret(a.k, "enospc")
                        ELSE minix_enter(a, minix_add_dir_entry(a.k, dir), dir, n)

minix_create(k, dir, n) == IF Ent(k, dir, n) # 0 THEN Ret(k, "eexist")
                           ELSE minix_new(ialloc(k, dir, "reg"), dir, n)
minix_mknod(k, dir, n, kind) == IF Ent(k, dir, n) # 0 THEN Ret(k, "eexist")
                                ELSE PutMade(minix_new(ialloc(k, dir, kind), dir, n))

(* minix_symlink(), minix_mkdir(): the block b of the new inode comes first *)
(* and is freed when the link's cannot be read or the directory has no      *)
(* room, and then once more by the   *)
(* iput() that deletes the inode.  The target of a link always takes a      *)
(* block.                                                                   *)
minix_undo(k, i) == Ret(iput([k EXCEPT !.nlink[i] = 0], i), "enospc")
Linked(a) == [a.k EXCEPT !.count[a.i] = 1, !.nlink[a.i] = 1]

minix_symlink_at(s, b, i, dir, n, target) ==
  IF s.j = 0 THEN minix_undo(minix_bfree(s.k, b.blk), i)
  ELSE PutMade(Made([SetEnt(s.k, dir, s.j, n, i) EXCEPT !.lnk[i] = target, !.size[i] = 1], i))
minix_symlink_in(b, i, dir, n, target) ==
  LET k == [b.k EXCEPT !.tree[i] = (<<0>> :> b.blk)]
  IN  IF b.blk = 0 THEN minix_undo(b.k, i)
      ELSE IF b.blk = k.bad THEN minix_undo(minix_bfree(k, b.blk), i)
      ELSE minix_symlink_at(minix_add_dir_entry(k, dir), b, i, dir, n, target)
minix_symlink_new(a, dir, n, target) ==
  IF a.i = 0 THEN Ret(a.k, "enospc")
  ELSE minix_symlink_in(minix_balloc(Linked(a)), a.i, dir, n, target)
minix_symlink(k, dir, n, target) ==
  IF Ent(k, dir, n) # 0 THEN Ret(k, "eexist")
  ELSE minix_symlink_new(ialloc(k, dir, "lnk"), dir, n, target)

minix_mkdir_at(s, b, i, dir, n) ==
  IF s.j = 0 THEN minix_undo(minix_bfree(s.k, b.blk), i)
  ELSE PutMade(Made([SetEnt(s.k, dir, s.j, n, i)
                 EXCEPT !.ents[i] = <<[n |-> ".", i |-> i], [n |-> "..", i |-> dir]>>,
                        !.size[i] = 2, !.nlink[i] = 2, !.nlink[dir] = @ + 1], i))
minix_mkdir_in(b, i, dir, n) ==
  IF b.blk = 0 THEN minix_undo(b.k, i)
  ELSE minix_mkdir_at(minix_add_dir_entry(b.k, dir), b, i, dir, n)
minix_mkdir_new(a, dir, n) ==
  IF a.i = 0 THEN Ret(a.k, "enospc")
  ELSE minix_mkdir_in(minix_bmap(Linked(a), a.i, 0), a.i, dir, n)
minix_mkdir(k, dir, n) == IF Ent(k, dir, n) # 0 THEN Ret(k, "eexist")
                          ELSE minix_mkdir_new(ialloc(k, dir, "dir"), dir, n)

minix_dotdot(k, i, dir, dirnew) ==
  LET j == SlotOf(k, i, dir, "..")
  IN  IF k.kind[i] = "dir" /\ j # 0 THEN SetEnt(k, i, j, "..", dirnew) ELSE k
minix_move(s, i, dir, inew, dirnew, n, nnew) ==
  LET links == IF inew # 0 THEN [s.k EXCEPT !.nlink[inew] = @ - 1]
               ELSE IF s.k.kind[i] = "dir"
                    THEN [s.k EXCEPT !.nlink[dir] = @ - 1, !.nlink[dirnew] = @ + 1]
               ELSE s.k
      old == SlotOf(s.k, dir, i, n)
  IN  minix_dotdot(ClearEnt(SetEnt(links, dirnew, s.j, nnew, i), dir, old), i, dir, dirnew)
minix_rename_to(s, i, dir, inew, dirnew, n, nnew) ==
  IF s.j = 0 THEN Ret(s.k, "enospc") ELSE Ret(minix_move(s, i, dir, inew, dirnew, n, nnew), "ok")
minix_rename(k, i, dir, inew, dirnew, n, nnew) ==
  IF minix_is_subdir(k, dirnew, i) THEN Ret(k, "einval")
  ELSE IF SlotOf(k, dir, i, n) = 0 THEN Ret(k, "enoent")
  ELSE IF inew # 0 /\ k.kind[i] = "dir" /\ ~minix_is_dir_empty(k, inew) THEN Ret(k, "enotempty")
  ELSE minix_rename_to(IF inew # 0 THEN [k |-> k, j |-> SlotOf(k, dirnew, inew, nnew)]
                       ELSE minix_add_dir_entry(k, dirnew), i, dir, inew, dirnew, n, nnew)
=============================================================================
