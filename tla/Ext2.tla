-------------------------------- MODULE Ext2 --------------------------------
(***************************************************************************)
(* The directory operations of ext2 (fs/ext2/namei.c): each is the whole   *)
(* function, run while it holds the locks of the inodes it changes.  An    *)
(* operation returns the new state and "ok" or the error.                  *)
(***************************************************************************)
EXTENDS InodeTable

(* find_first_free_dir_entry(), add_dir_entry(): the slot for a new entry:  *)
(* a removed one, the slack of a block, or a new block; 0 on a full disk.   *)
(* A block holds BlockSize entries.                                         *)
ext2_grow_dir(k, d, b) ==
  IF b.blk = 0 THEN [k |-> b.k, j |-> 0]
  ELSE [k |-> [b.k EXCEPT !.size[d] = @ + BlockSize], j |-> Len(k.ents[d]) + 1]
ext2_add_dir_entry(k, d) ==
  LET free == {j \in DOMAIN k.ents[d] : k.ents[d][j].i = 0}
  IN  IF free # {} THEN [k |-> k, j |-> Min(free)]
      ELSE IF Len(k.ents[d]) < k.size[d] THEN [k |-> k, j |-> Len(k.ents[d]) + 1]
      ELSE ext2_grow_dir(k, d, ext2_bmap(k, d, k.size[d] \div BlockSize))

ext2_is_dir_empty(k, d) ==
  \A j \in DOMAIN k.ents[d] : k.ents[d][j].i # 0 => k.ents[d][j].n \in {".", ".."}

(* ext2_lookup(): the caller's reference to dir is given back, or handed on *)
(* when the entry is the directory itself.                                  *)
ext2_lookup(k, dir, n) ==
  LET ino == Ent(k, dir, n)
      g == iget(k, ino)
  IN  IF ino = 0 THEN [k |-> iput(k, dir), e |-> "enoent", i |-> 0]
      ELSE IF ino = dir THEN [k |-> k, e |-> "ok", i |-> dir]
      ELSE IF g.i = 0 THEN [k |-> iput(k, dir), e |-> "eacces", i |-> 0]
      ELSE [k |-> iput(g.k, dir), e |-> "ok", i |-> g.i]

(* is_subdir(): dir is i or lies below it, following "..". *)
RECURSIVE ext2_is_subdir(_, _, _)
ext2_is_subdir(k, dir, i) ==
  \/ dir = i
  \/ Ent(k, dir, "..") \notin {0, dir} /\ ext2_is_subdir(k, Ent(k, dir, ".."), i)

ext2_rmdir_keeps(k, dir, i) ==          \* mutant: dir->i_nlink-- is missing
  LET j == SlotOfInode(k, dir, i)
  IN  IF ~ext2_is_dir_empty(k, i) THEN Ret(k, "enotempty")
      ELSE IF j = 0 THEN Ret(k, "enoent")
      ELSE Ret([ClearEnt(k, dir, j) EXCEPT !.nlink[i] = 0], "ok")
ext2_rmdir(k, dir, i) ==
  LET j == SlotOfInode(k, dir, i)
  IN  IF ~ext2_is_dir_empty(k, i) THEN Ret(k, "enotempty")
      ELSE IF j = 0 THEN Ret(k, "enoent")
      ELSE Ret([ClearEnt(k, dir, j) EXCEPT !.nlink[i] = 0, !.nlink[dir] = @ - 1], "ok")

ext2_add_link(a, i, dir, n) ==
  IF a.j = 0 THEN Ret(a.k, "enospc")
  ELSE Ret([SetEnt(a.k, dir, a.j, n, i) EXCEPT !.nlink[i] = @ + 1], "ok")
ext2_link(k, i, dir, n) == ext2_add_link(ext2_add_dir_entry(k, dir), i, dir, n)

ext2_unlink(k, dir, i, n) ==
  LET j == SlotOf(k, dir, i, n)
  IN  IF j = 0 THEN Ret(k, "enoent")
      ELSE Ret([ClearEnt(k, dir, j) EXCEPT !.nlink[i] = @ - 1], "ok")

(* ext2_create(), ext2_mknod(): the inode a that ialloc() made gets the     *)
(* slot s of the directory.  When there is none, iput() of the new inode    *)
(* finds its count still 0.                                                 *)
ext2_enter(a, s, dir, n) ==
  IF s.j = 0 THEN Ret(iput(s.k, a.i), "enospc")
  ELSE Made([SetEnt(s.k, dir, s.j, n, a.i) EXCEPT !.nlink[a.i] = 1, !.count[a.i] = 1], a.i)
ext2_new(a, dir, n) == IF a.i = 0 THEN Ret(a.k, "enospc")
                       ELSE ext2_enter(a, ext2_add_dir_entry(a.k, dir), dir, n)

ext2_create(k, dir, n) == IF Ent(k, dir, n) # 0 THEN Ret(k, "eexist")
                          ELSE ext2_new(ialloc(k, dir, "reg"), dir, n)
ext2_mknod(k, dir, n, kind) == IF Ent(k, dir, n) # 0 THEN Ret(k, "eexist")
                               ELSE PutMade(ext2_new(ialloc(k, dir, kind), dir, n))

(* ext2_symlink(): a short target lies in the inode, a long one in a block. *)
(* The entry in the directory is written last.                              *)
ext2_slow(b, i) == IF b.blk = 0 THEN Ret(iput(b.k, i), "enospc")
                   ELSE IF b.blk = b.k.bad THEN Ret(ext2_bfree(iput(b.k, i), b.blk), "eio")
                   ELSE Made([b.k EXCEPT !.tree[i] = (<<0>> :> b.blk), !.iblocks[i] = 1], i)
ext2_symlink_at(r, s, dir, n, target) ==
  IF r.e # "ok" THEN r
  ELSE PutMade(Made([SetEnt(r.k, dir, s.j, n, r.i)
                       EXCEPT !.nlink[r.i] = 1, !.lnk[r.i] = target, !.size[r.i] = 1], r.i))
ext2_symlink_in(a, s, dir, n, target) ==
  IF s.j = 0 THEN Ret(iput(s.k, a.i), "enospc")
  ELSE ext2_symlink_at(IF Len(target) = 1 THEN Made([s.k EXCEPT !.count[a.i] = 1], a.i)
                       ELSE ext2_slow(ext2_balloc([s.k EXCEPT !.count[a.i] = 1]), a.i),
                       s, dir, n, target)
ext2_symlink_new(a, dir, n, target) ==
  IF a.i = 0 THEN Ret(a.k, "enospc")
  ELSE ext2_symlink_in(a, ext2_add_dir_entry(a.k, dir), dir, n, target)
ext2_symlink(k, dir, n, target) ==
  IF Ent(k, dir, n) # 0 THEN Ret(k, "eexist")
  ELSE ext2_symlink_new(ialloc(k, dir, "lnk"), dir, n, target)

(* ext2_mkdir(): the new directory's block is allocated before the entry in *)
(* its parent; when that has no room the block is freed, and freed again by *)
(* the iput() that deletes the inode.                                       *)
ext2_mkdir_at(s, b, i, dir, n) ==
  IF s.j = 0 THEN Ret(iput(ext2_bfree(s.k, b.blk), i), "enospc")
  ELSE PutMade(Made([SetEnt(s.k, dir, s.j, n, i)
                 EXCEPT !.ents[i] = <<[n |-> ".", i |-> i], [n |-> "..", i |-> dir]>>,
                        !.nlink[i] = 2, !.nlink[dir] = @ + 1,
                        !.size[i] = BlockSize, !.iblocks[i] = 1], i))
ext2_mkdir_in(b, i, dir, n) ==
  IF b.blk = 0 THEN Ret(iput(b.k, i), "enospc")
  ELSE ext2_mkdir_at(ext2_add_dir_entry(b.k, dir), b, i, dir, n)
ext2_mkdir_new(a, dir, n) ==
  IF a.i = 0 THEN Ret(a.k, "enospc")
  ELSE ext2_mkdir_in(ext2_bmap([a.k EXCEPT !.count[a.i] = 1], a.i, 0), a.i, dir, n)
ext2_mkdir(k, dir, n) == IF Ent(k, dir, n) # 0 THEN Ret(k, "eexist")
                         ELSE ext2_mkdir_new(ialloc(k, dir, "dir"), dir, n)

(* ext2_rename(): s is the slot of the new name, inew the inode it held; an *)
(* existing target loses one link, a directory moved to another parent gets *)
(* a new "..".                                                              *)
ext2_dotdot(k, i, dir, dirnew) ==
  LET j == SlotOf(k, i, dir, "..")
  IN  IF k.kind[i] = "dir" /\ j # 0 THEN SetEnt(k, i, j, "..", dirnew) ELSE k
ext2_move(s, i, dir, inew, dirnew, n, nnew) ==
  LET links == IF inew # 0 THEN [s.k EXCEPT !.nlink[inew] = @ - 1]
               ELSE IF s.k.kind[i] = "dir"
                    THEN [s.k EXCEPT !.nlink[dir] = @ - 1, !.nlink[dirnew] = @ + 1]
               ELSE s.k
      old == SlotOf(s.k, dir, i, n)
  IN  ext2_dotdot(ClearEnt(SetEnt(links, dirnew, s.j, nnew, i), dir, old), i, dir, dirnew)
ext2_rename_to(s, i, dir, inew, dirnew, n, nnew) ==
  IF s.j = 0 THEN Ret(s.k, "enospc") ELSE Ret(ext2_move(s, i, dir, inew, dirnew, n, nnew), "ok")
ext2_rename(k, i, dir, inew, dirnew, n, nnew) ==
  IF ext2_is_subdir(k, dirnew, i) THEN Ret(k, "einval")
  ELSE IF SlotOf(k, dir, i, n) = 0 THEN Ret(k, "enoent")
  ELSE IF inew # 0 /\ k.kind[i] = "dir" /\ ~ext2_is_dir_empty(k, inew) THEN Ret(k, "enotempty")
  ELSE ext2_rename_to(IF inew # 0 THEN [k |-> k, j |-> SlotOf(k, dirnew, inew, nnew)]
                      ELSE ext2_add_dir_entry(k, dirnew), i, dir, inew, dirnew, n, nnew)
=============================================================================
