-------------------------------- MODULE Vfs ---------------------------------
(***************************************************************************)
(* The file system calls: path lookup (fs/namei.c), descriptors (fs/fd.c), *)
(* advisory locks (fs/locks.c), mounts (fs/super.c) and the system calls   *)
(* of kernel/syscalls/ that use them, over ext2 and Minix.                 *)
(*                                                                         *)
(* A system call is one step: this module is about what a sequence of      *)
(* calls, each run to its end on every one of its paths, leaves behind.    *)
(* What two calls do to each other in the middle is the subject of         *)
(* BufferCache, for the blocks, and is not modelled for the inodes.        *)
(*                                                                         *)
(* An operator sys_x(k, ...) is the set of states the call can end in:     *)
(* more than one, because the outcome of a permission check or of a disk   *)
(* read is not in the model's state.                                       *)
(*                                                                         *)
(* It adds to the record k of InodeTable                                   *)
(*   fdt     fd_table: [i |-> inode, n |-> count, off |-> offset]          *)
(*   ufd     current->fd of every process, 0 for a free slot               *)
(*   cloexec the slots whose fd_flags have FD_CLOEXEC                      *)
(*   pwd, root, live   current->pwd, current->root; the live processes     *)
(*   ro      the root file system is mounted read-only                     *)
(*   flk     flock_file_table: [i |-> inode, p |-> process, t |-> type]    *)
(*   exe     the file of the binary a process runs, mapped by do_mmap()    *)
(*   source  the block special file sys_mount() mounted, 0 for none        *)
(*   leaked  how often sys_umount2() left the reference to it behind       *)
(*           (history)                                                     *)
(*   scan    of every open directory: the entries its reader is due and    *)
(*           has been told of (history)                                    *)
(***************************************************************************)
EXTENDS Ext2, Minix

CONSTANTS Proc,          \* processes
          OPEN_MAX,      \* descriptors of a process
          NR_OPENS,      \* entries of fd_table; entry 0 is not used
          MAX_SYMLINKS,  \* nested symbolic links followed
          NR_FLOCKS,     \* entries of flock_file_table
          Hazards        \* the cases the named passages of README.md are about

Ufd == 0..OPEN_MAX - 1
Fds == 1..NR_OPENS - 1
FreeFd == [i |-> 0, n |-> 0, off |-> 0]

iputs(k, s) == FoldLeft(LAMBDA a, i : iput(a, i), k, s)
IsDir(k, i) == k.kind[i] = "dir"
RdOnly(k, i) == k.ro /\ Dev(i) = "root"     \* IS_RDONLY_FS()
Either(ok, denied) == ok \cup denied        \* a check that may go either way

-----------------------------------------------------------------------------
(* fs/namei.c.  A result is [k, e, i, d]: the error, *i_res and *d_res.     *)
FsLookup(k, dir, n) ==
  LET found == IF Ext2(k) THEN ext2_lookup(k, dir, n) ELSE minix_lookup(k, dir, n)
  IN  {found, [k |-> iput(k, dir), e |-> "eio", i |-> 0]}

(* The end of do_namei() after a component could not be searched or found:  *)
(* of the last one the directory is returned.                               *)
namei_break(k, cur, dres, want, rest, e) ==
  LET r == iput(k, dres)
  IN  IF ~want THEN [k |-> iput(k, cur), e |-> e, i |-> cur, d |-> 0]
      ELSE IF rest = <<>> THEN [k |-> iput(Hold(r, cur), cur), e |-> e, i |-> 0, d |-> cur]
      ELSE [k |-> iput(r, cur), e |-> "enoent", i |-> 0, d |-> 0]

RECURSIVE do_namei(_, _, _, _, _, _, _, _)
RECURSIVE ext2_followlink(_, _, _, _, _)
RECURSIVE minix_followlink(_, _, _, _, _)

(* do_namei(): one component after another; cur is the directory searched,  *)
(* dres what *d_res holds, loops the symbolic links followed around it.     *)
do_namei(k, p, path, cur, dres, want, follow, loops) ==
  IF path = <<>> THEN {[k |-> k, e |-> "ok", i |-> cur, d |-> dres]} ELSE
  LET n == Head(path)
      rest == Tail(path)
      up == n = ".." /\ cur \in {RootInode, MntRoot}
      dir == IF up /\ cur = MntRoot THEN k.cover ELSE cur
      k1 == IF up THEN Hold(iput(k, cur), dir) ELSE k
      step(l) ==
        LET done(s, i) ==
              IF want THEN do_namei(iput(s, dres), p, rest, i, dir, want, follow, loops)
              ELSE do_namei(iput(s, dir), p, rest, i, dres, want, follow, loops)
        IN  IF l.e # "ok" THEN {namei_break(l.k, dir, dres, want, rest, l.e)}
            ELSE IF rest # <<>> /\ l.k.kind[l.i] \notin {"dir", "lnk"}
                 THEN {[k |-> iputs(l.k, <<dir, l.i>>), e |-> "enotdir", i |-> cur, d |-> dres]}
            ELSE IF l.k.kind[l.i] = "lnk" /\ (rest # <<>> \/ follow)
                 THEN UNION {IF f.e = "ok" THEN done(f.k, f.i)
                             ELSE {[k |-> iput(f.k, dir), e |-> f.e, i |-> cur, d |-> dres]}
                               : f \in IF Ext2(l.k) THEN ext2_followlink(l.k, p, dir, l.i, loops)
                                       ELSE minix_followlink(l.k, p, dir, l.i, loops)}
            ELSE done(l.k, l.i)
  IN  Either(UNION {step(l) : l \in FsLookup(Hold(k1, dir), dir, n)},
             {namei_break(k1, dir, dres, want, rest, "noexec")})

(* parse_namei() from the directory base. *)
parse_namei(k, p, base, path, want, follow, loops) ==
  IF path = <<>> THEN {[k |-> k, e |-> "enoent", i |-> 0, d |-> 0]}
  ELSE IF path[1] = "/" THEN do_namei(Hold(k, k.root[p]), p, Tail(path), k.root[p], 0, want, follow, loops)
  ELSE do_namei(Hold(k, base), p, path, base, 0, want, follow, loops)

(* ext2_followlink(), minix_followlink(): the link is put before its target *)
(* is looked up from the directory it was found in.                         *)
ext2_followlink(k, p, dir, i, loops) ==
  IF loops > MAX_SYMLINKS THEN {[k |-> iput(k, i), e |-> "eloop", i |-> 0, d |-> 0]}
  ELSE parse_namei(iput(k, i), p, dir, k.lnk[i], FALSE, TRUE, loops + 1)
minix_followlink(k, p, dir, i, loops) ==
  IF loops > MAX_SYMLINKS THEN {[k |-> iput(k, i), e |-> "eloop", i |-> 0, d |-> 0]}
  ELSE parse_namei(iput(k, i), p, dir, k.lnk[i], FALSE, TRUE, loops + 1)

(* namei().  A component that is not a directory, or a link that cannot be  *)
(* followed, in the second or a later place leaves *d_res at an ancestor    *)
(* and *i_res at an inode that has been put.                                *)
namei(k, p, path, want, follow) == parse_namei(k, p, k.pwd[p], path, want, follow, 0)

-----------------------------------------------------------------------------
(* fs/fd.c *)
get_new_fd(k) == LET free == {f \in Fds : k.fdt[f].n = 0}
                 IN  IF free = {} THEN 0 ELSE Min(free)
get_new_user_fd(k, p, from) == LET free == {u \in Ufd : u >= from /\ k.ufd[p][u] = 0}
                               IN  IF free = {} THEN -1 ELSE Min(free)

(* Slot u of process p names the open file f. *)
UseFd(k, p, u, f) ==
  [k EXCEPT !.ufd[p][u] = f, !.cloexec[p] = @ \ {u}]

(* A new inode that has taken its b blocks, the last that are free and can  *)
(* be read, finds no room in its directory: it is left behind, or its block is freed twice (hazard    *)
(* "nospace").                                                              *)
Roomy(k, d, b) ==
  \/ "nospace" \in Hazards
  \/ Dev(d) # "root"
  \/ \E j \in DOMAIN k.ents[d] : k.ents[d][j].i = 0
  \/ IF Ext2(k) THEN Len(k.ents[d]) < k.size[d] ELSE k.size[d] % BlockSize # 0
  \/ Cardinality({x \in k.disk \ k.zmap : k.bad = 0 \/ x < k.bad}) # b
IfRoom(k, d, b, r) == IF Roomy(k, d, b) THEN r ELSE Ret(k, "enospc")

(* A symbolic link of Minix whose block cannot be read: the block is freed  *)
(* twice (hazard "symlink_eio").                                            *)
Readable(k) == \/ Ext2(k) \/ k.bad = 0 \/ minix_balloc(k).blk # k.bad
               \/ "symlink_eio" \in Hazards

InDir(k, d) == k.nlink[d] > 0 \/ "removed" \in Hazards

(* The second half of sys_open(): permission, descriptors, the open method  *)
(* (which truncates a regular file for O_TRUNC, and may fail for a device). *)
open_as(k, p, i, dir, fl, fd, u) ==
  IF fd = 0 \/ u = -1 THEN {}
  ELSE {iput(UseFd([IF "trunc" \in fl /\ k.kind[i] = "reg" THEN truncate(k, i, 0) ELSE k
                      EXCEPT !.fdt[fd] = [i |-> i, n |-> 1, off |-> 0]], p, u, fd), dir)}
open_inode(k, p, i, dir, fl) ==
  Either(open_as(k, p, i, dir, fl, get_new_fd(k), get_new_user_fd(k, p, 0)), {iputs(k, <<i, dir>>)})

FsCreate(k, dir, n) == IF RdOnly(k, dir) THEN [k |-> k, e |-> "erofs", i |-> 0]
                       ELSE IF Ext2(k) THEN ext2_create(k, dir, n) ELSE minix_create(k, dir, n)

(* sys_open(): the descriptor takes over the reference to the inode; the    *)
(* directory's is given back on every path.                                 *)
open_refused(k, i, fl) ==
  \/ k.kind[i] = "lnk" /\ "nofollow" \in fl
  \/ ~IsDir(k, i) /\ "directory" \in fl
  \/ "creat" \in fl /\ (IsDir(k, i) \/ "excl" \in fl)
  \/ "creat" \notin fl /\ IsDir(k, i) /\ fl \cap {"write", "trunc"} # {}
open_created(c, p, dir, fl) ==
  IF c.e # "ok" THEN {iput(c.k, dir)} ELSE open_inode(c.k, p, c.i, dir, fl)
may_create(r) ==
  r.i # 0 \/ (r.e # "noexec" /\ Roomy(r.k, r.d, 0) /\ InDir(r.k, r.d))
open_found(r, p, path, fl) ==
  IF r.e # "ok" /\ r.d = 0 THEN {r.k}
  ELSE IF r.e = "ok" THEN IF open_refused(r.k, r.i, fl) THEN {iputs(r.k, <<r.i, r.d>>)}
                          ELSE open_inode(r.k, p, r.i, r.d, fl)
  ELSE {iput(r.k, r.d)} \cup
       IF "creat" \in fl /\ may_create(r)
       THEN open_created(FsCreate(r.k, r.d, Last(path)), p, r.d, fl)
       ELSE {}
sys_open(k, p, path, fl) ==
  UNION {open_found(r, p, path, fl) : r \in namei(k, p, path, TRUE, "nofollow" \notin fl)}

sys_creat(k, p, path) == sys_open(k, p, path, {"creat", "write", "trunc"})

-----------------------------------------------------------------------------
(* fs/locks.c.  A process may have several entries for a file: a shared     *)
(* lock asked for twice takes two.                                          *)
Mine(k, i, p) == {j \in DOMAIN k.flk : k.flk[j].i = i /\ k.flk[j].p = p}
DropLock(k, j) == [k EXCEPT !.flk = RemoveAt(@, j)]
DropLocks(k, i, p) == [k EXCEPT !.flk = SelectSeq(@, LAMBDA l : l.i # i \/ l.p # p)]

(* flock_release_inode() goes on from the entry it has just freed: the rest *)
(* of the table may be missed.                                              *)
flock_release_inode(k, i, p) ==
  IF Mine(k, i, p) = {} THEN {k}
  ELSE {DropLocks(k, i, p), DropLock(k, Min(Mine(k, i, p)))}

flock_inode_upgrade(k, p, i, t) ==      \* mutant: converts an own lock unasked
  LET mine == Mine(k, i, p)
      entry == [i |-> i, p |-> p, t |-> t]
  IN  IF t = "un" THEN {IF mine = {} THEN k ELSE DropLock(k, Min(mine))}
      ELSE IF mine # {} THEN {[k EXCEPT !.flk[Min(mine)] = entry]}
      ELSE IF \E j \in DOMAIN k.flk : k.flk[j].i = i /\ (t = "ex" \/ k.flk[j].t = "ex") THEN {k}
      ELSE IF Len(k.flk) + 1 > NR_FLOCKS THEN {k}
      ELSE {[k EXCEPT !.flk = Append(@, entry)]}
(* flock_inode() with LOCK_NB; a call that would sleep is not taken.        *)
flock_inode(k, p, i, t) ==
  LET mine == Mine(k, i, p)
      others == {j \in DOMAIN k.flk : k.flk[j].i = i /\ k.flk[j].p # p}
      exmine == {j \in mine : k.flk[j].t = "ex"}
      blocked == \E j \in others : t = "ex" \/ k.flk[j].t = "ex"
      entry == [i |-> i, p |-> p, t |-> t]
      reuse == IF t = "sh" THEN exmine ELSE mine
  IN  IF t = "un" THEN {IF mine = {} THEN k ELSE DropLock(k, Min(mine))}
      ELSE IF blocked THEN {k}
      ELSE IF reuse # {} THEN {[k EXCEPT !.flk[IF t = "sh" THEN Min(reuse) ELSE Max(reuse)] = entry]}
      ELSE IF Len(k.flk) + 1 > NR_FLOCKS THEN {k}
      ELSE {[k EXCEPT !.flk = Append(@, entry)]}

sys_flock(k, p, u, t) == flock_inode(k, p, k.fdt[k.ufd[p][u]].i, t)

(* posix_lock() for F_SETLK and F_SETLKW: the whole file, whatever range    *)
(* the caller names.                                                        *)
posix_lock(k, p, u, t) == flock_inode(k, p, k.fdt[k.ufd[p][u]].i, t)

-----------------------------------------------------------------------------
(* Descriptors *)
sys_close(k, p, u) ==
  LET fd == k.ufd[p][u]
      i == k.fdt[fd].i
      rel == [k EXCEPT !.ufd[p][u] = 0, !.fdt[fd].n = @ - 1]
  IN  IF rel.fdt[fd].n > 0 THEN {rel}
      ELSE {iput([f EXCEPT !.fdt[fd] = FreeFd], i) : f \in flock_release_inode(rel, i, p)}

CloseAll(k, p, us) ==
  FoldLeft(LAMBDA S, u : UNION {sys_close(s, p, u) : s \in S}, {k}, SetToSortSeq(us, <))

(* A second slot, the first free one from `from' on, for the file of u.     *)
DupTo(k, p, u, from, flag) ==
  LET v == get_new_user_fd(k, p, from)
      f == k.ufd[p][u]
  IN  IF v = -1 THEN k
      ELSE [k EXCEPT !.ufd[p][v] = f, !.fdt[f].n = @ + 1,
                     !.cloexec[p] = IF flag THEN @ \cup {v} ELSE @ \ {v}]

sys_dup(k, p, u) == {DupTo(k, p, u, 0, FALSE)}

(* sys_dup2() closes the new slot and takes the first free one from there.  *)
sys_dup2(k, p, u, v) ==
  IF u = v THEN {k}
  ELSE {DupTo(c, p, u, v, FALSE) : c \in IF k.ufd[p][v] = 0 THEN {k} ELSE sys_close(k, p, v)}

sys_fcntl(k, p, u, cmd, arg) ==
  CASE cmd = "dupfd" -> {DupTo(k, p, u, arg, FALSE)}
    [] cmd = "dupfd_cloexec" -> {DupTo(k, p, u, arg, TRUE)}
    [] cmd = "setfd" -> {[k EXCEPT !.cloexec[p] = @ \cup {u}]}

sys_fcntl64(k, p, u, cmd, arg) == sys_fcntl(k, p, u, cmd, arg)

(* sys_pipe(): every way out after the inode is made gives back one of the  *)
(* two references (hazard "pipe").                                          *)
sys_pipe(k, p) ==
  LET made == [Blank(k, PipeInode, "fifo") EXCEPT !.count[PipeInode] = 2]
      r == get_new_fd(k)
      k1 == [made EXCEPT !.fdt[r] = [i |-> PipeInode, n |-> 1, off |-> 0]]
      w == get_new_fd(k1)
      k2 == [k1 EXCEPT !.fdt[w] = [i |-> PipeInode, n |-> 1, off |-> 0]]
      ru == get_new_user_fd(k, p, 0)
      k3 == UseFd(k2, p, ru, r)
      wu == get_new_user_fd(k3, p, 0)
      failed == IF "pipe" \in Hazards THEN {iput(made, PipeInode)} ELSE {}
  IN  IF ~get_free_inode(k) THEN {k}
      ELSE IF r = 0 THEN failed
      ELSE IF w = 0 \/ ru = -1 THEN failed
      ELSE IF wu = -1 THEN failed
      ELSE {UseFd(k3, p, wu, w)}

-----------------------------------------------------------------------------
(* Processes *)
sys_fork(k, p, c) ==
  LET fds == [f \in Fds \cup {0} |->
                [k.fdt[f] EXCEPT !.n = @ + IF f = 0 THEN 0
                                           ELSE Cardinality({u \in Ufd : k.ufd[p][u] = f})]]
      refs == FoldLeft(LAMBDA s, i : IF i = 0 THEN s ELSE Hold(s, i), k,
                       <<k.root[p], k.pwd[p], k.exe[p]>>)
  IN  {[refs EXCEPT !.fdt = fds, !.ufd[c] = k.ufd[p], !.cloexec[c] = k.cloexec[p],
                    !.pwd[c] = k.pwd[p], !.root[c] = k.root[p], !.exe[c] = k.exe[p],
                    !.live = @ \cup {c}]}

do_exit(k, p) ==
  LET mm == [iput(k, k.exe[p]) EXCEPT !.exe[p] = 0]
  IN  {[iputs(s, <<k.root[p], k.pwd[p]>>)
          EXCEPT !.root[p] = 0, !.pwd[p] = 0, !.cloexec[p] = {}, !.live = @ \ {p}]
         : s \in CloseAll(mm, p, {u \in Ufd : k.ufd[p][u] # 0})}

(* do_execve(): elf_load() maps the file in place of the old binary, or it  *)
(* is a script and the loop starts again with its interpreter.              *)
RECURSIVE do_execve(_, _, _, _)
do_execve(k, p, path, interpreters) ==
  LET load(r) ==
        LET mapped == iput([Hold(iput(r.k, k.exe[p]), r.i) EXCEPT !.exe[p] = r.i], r.i)
        IN  Either({[k |-> mapped, e |-> "ok"]},
                   Either({[k |-> iput(r.k, r.i), e |-> "eacces"]},
                          IF interpreters = <<>> THEN {}
                          ELSE do_execve(iput(r.k, r.i), p, Head(interpreters), Tail(interpreters))))
  IN  UNION {IF r.e # "ok" THEN {[k |-> r.k, e |-> r.e]}
             ELSE IF r.k.kind[r.i] # "reg" THEN {[k |-> iput(r.k, r.i), e |-> "eacces"]}
             ELSE load(r) : r \in namei(k, p, path, FALSE, TRUE)}

sys_execve(k, p, path, interpreters) ==
  UNION {IF r.e # "ok" THEN {r.k}
         ELSE CloseAll(r.k, p, {u \in r.k.cloexec[p] : r.k.ufd[p][u] # 0})
           : r \in do_execve(k, p, path, interpreters)}

-----------------------------------------------------------------------------
(* Calls that name one inode, look at it or change its attributes, and give *)
(* it back: sys_stat(), sys_lstat(), sys_access(), sys_chmod(), ...         *)
WithInode(k, p, path, follow, Do(_, _)) ==
  UNION {IF r.e # "ok" THEN {r.k} ELSE Do(r.k, r.i) : r \in namei(k, p, path, FALSE, follow)}

sys_stat(k, p, path) == WithInode(k, p, path, TRUE, LAMBDA s, i : {iput(s, i)})
sys_lstat(k, p, path) == WithInode(k, p, path, FALSE, LAMBDA s, i : {iput(s, i)})

(* The same for the calls whose data is not modelled (mode, owner, times):  *)
(* what they return and set is left out, the inode is given back on every   *)
(* path.                                                                    *)
sys_newstat(k, p, path) == sys_stat(k, p, path)
sys_stat64(k, p, path) == sys_stat(k, p, path)
sys_newlstat(k, p, path) == sys_lstat(k, p, path)
sys_lstat64(k, p, path) == sys_lstat(k, p, path)
sys_statfs(k, p, path) == WithInode(k, p, path, TRUE, LAMBDA s, i : {iput(s, i)})
sys_access(k, p, path) == WithInode(k, p, path, TRUE, LAMBDA s, i : {iput(s, i)})
sys_chmod(k, p, path) == WithInode(k, p, path, TRUE, LAMBDA s, i : {iput(s, i)})
sys_chown(k, p, path) == WithInode(k, p, path, TRUE, LAMBDA s, i : {iput(s, i)})
sys_chown32(k, p, path) == sys_chown(k, p, path)
sys_utime(k, p, path) == WithInode(k, p, path, TRUE, LAMBDA s, i : {iput(s, i)})
sys_utimes(k, p, path) == sys_utime(k, p, path)
sys_lchown(k, p, path) == WithInode(k, p, path, FALSE, LAMBDA s, i : {iput(s, i)})
sys_readlink(k, p, path) == WithInode(k, p, path, FALSE, LAMBDA s, i : {iput(s, i)})

(* sys_getcwd(): up from cur to the root of the process, `room' components  *)
(* at most.  The reference to cur is the call's own unless cur is the       *)
(* working directory.  From a working directory above the root of the       *)
(* process the walk does not end before the buffer does (hazard "getcwd").  *)
RECURSIVE getcwd_from(_, _, _, _)
getcwd_from(k, p, cur, room) ==
  LET own(s) == IF cur = k.pwd[p] THEN s ELSE iput(s, cur)
      up(r) == IF r.e # "ok" THEN {own(r.k)}
               ELSE IF get_new_fd(r.k) = 0 \/ room = 0 THEN {own(iput(r.k, r.i))}
               ELSE Either({own(iput(r.k, r.i))},
                           IF r.i = k.root[p] THEN {iput(own(r.k), r.i)}
                           ELSE getcwd_from(own(r.k), p, r.i, room - 1))
  IN  UNION {up(r) : r \in parse_namei(k, p, cur, <<"..">>, FALSE, TRUE, 0)}
sys_getcwd(k, p) ==
  IF k.pwd[p] = k.root[p] \/ (k.root[p] # RootInode /\ "getcwd" \notin Hazards) THEN {k}
  ELSE getcwd_from(k, p, k.pwd[p], 3)

sys_chdir(k, p, path) ==
  WithInode(k, p, path, TRUE,
    LAMBDA s, i : Either(IF IsDir(s, i) THEN {[iput(s, k.pwd[p]) EXCEPT !.pwd[p] = i]} ELSE {},
                         {iput(s, i)}))
sys_chroot(k, p, path) ==
  WithInode(k, p, path, TRUE,
    LAMBDA s, i : {IF IsDir(s, i) THEN [iput(s, k.root[p]) EXCEPT !.root[p] = i] ELSE iput(s, i)})
sys_fchdir_nohold(k, p, u) ==          \* mutant: forgets current->pwd->count++
  LET i == k.fdt[k.ufd[p][u]].i
  IN  {IF IsDir(k, i) THEN [iput(k, k.pwd[p]) EXCEPT !.pwd[p] = i] ELSE k}
sys_fchdir(k, p, u) ==
  LET i == k.fdt[k.ufd[p][u]].i
  IN  {IF IsDir(k, i) THEN Hold([iput(k, k.pwd[p]) EXCEPT !.pwd[p] = i], i) ELSE k}

sys_truncate(k, p, path, length) ==
  WithInode(k, p, path, TRUE,
    LAMBDA s, i : {iput(s, i)} \cup
                  IF IsDir(s, i) \/ RdOnly(s, i) \/ length = s.size[i] \/ s.kind[i] # "reg" THEN {}
                  ELSE {iput(truncate(s, i, length), i)})
sys_truncate64(k, p, path, length) == sys_truncate(k, p, path, length)
sys_ftruncate(k, p, u, length) ==
  LET i == k.fdt[k.ufd[p][u]].i
  IN  {k} \cup IF RdOnly(k, i) \/ length = k.size[i] \/ k.kind[i] # "reg" THEN {}
             ELSE {truncate(k, i, length)}
sys_ftruncate64(k, p, u, length) == sys_ftruncate(k, p, u, length)

-----------------------------------------------------------------------------
FsMkdir(k, d, n) == IF Ext2(k) THEN ext2_mkdir(k, d, n) ELSE minix_mkdir(k, d, n)
FsMknod(k, d, n, t) == IF Ext2(k) THEN ext2_mknod(k, d, n, t) ELSE minix_mknod(k, d, n, t)
FsSymlink(k, d, n, t) == IF Ext2(k) THEN ext2_symlink(k, d, n, t) ELSE minix_symlink(k, d, n, t)

(* sys_mkdir(), do_mknod() of type t, sys_symlink() to t: the operation of  *)
(* the file system in directory d.  A directory that has been removed is    *)
(* not recognised (hazard "removed").                                       *)
Make(k, d, call, n, t) ==
  CASE call = "mkdir" -> IfRoom(k, d, 1, FsMkdir(k, d, n))
    [] call = "mknod" -> IfRoom(k, d, 0, FsMknod(k, d, n, t))
    [] call = "symlink" /\ ~Readable(k) -> Ret(k, "eio")
    [] call = "symlink" /\ Readable(k) -> IfRoom(k, d, IF Ext2(k) THEN 0 ELSE 1, FsSymlink(k, d, n, t))
NewEntry(k, p, path, call, t) ==
  UNION {IF r.e # "ok" /\ r.d = 0 THEN {r.k}
         ELSE IF r.e = "ok" THEN {iputs(r.k, <<r.i, r.d>>)}
         ELSE {iput(r.k, r.d)} \cup
              (IF RdOnly(r.k, r.d) \/ r.e = "noexec" \/ ~InDir(r.k, r.d) THEN {}
               ELSE {iput(Make(r.k, r.d, call, Last(path), t).k, r.d)})
           : r \in namei(k, p, path, TRUE, FALSE)}

sys_mkdir(k, p, path) == NewEntry(k, p, path, "mkdir", "dir")
do_mknod(k, p, path, t) == NewEntry(k, p, path, "mknod", t)
sys_symlink(k, p, target, path) == NewEntry(k, p, path, "symlink", target)

FsLink(k, i, d, n) == IF Ext2(k) THEN ext2_link(k, i, d, n) ELSE minix_link(k, i, d, n)
sys_link(k, p, old, new) ==
  LET second(r) ==
        UNION {IF n.e # "ok" /\ n.d = 0 THEN {iputs(n.k, <<r.i, r.d>>)}
               ELSE IF n.e = "ok" THEN {iputs(n.k, <<r.i, r.d, n.i, n.d>>)}
               ELSE {iputs(n.k, <<r.i, r.d, n.d>>)} \cup
                    (IF Dev(r.i) # Dev(n.d) \/ n.e = "noexec" \/ ~InDir(n.k, n.d) THEN {}
                     ELSE {iputs(FsLink(n.k, r.i, n.d, Last(new)).k, <<r.i, r.d, n.d>>)})
                 : n \in namei(r.k, p, new, TRUE, FALSE)}
  IN  UNION {IF r.e # "ok" THEN {iput(r.k, r.d)}
             ELSE IF IsDir(r.k, r.i) \/ RdOnly(r.k, r.i) THEN {iputs(r.k, <<r.i, r.d>>)}
             ELSE second(r) : r \in namei(k, p, old, TRUE, FALSE)}

FsUnlink(k, d, i, n) == IF Ext2(k) THEN ext2_unlink(k, d, i, n) ELSE minix_unlink(k, d, i, n)
sys_unlink(k, p, path) ==
  UNION {IF r.e # "ok" THEN {iput(r.k, r.d)}
         ELSE {iputs(r.k, <<r.i, r.d>>)} \cup
              (IF IsDir(r.k, r.i) \/ RdOnly(r.k, r.i) THEN {}
               ELSE {iputs(FsUnlink(r.k, r.d, r.i, Last(path)).k, <<r.i, r.d>>)})
           : r \in namei(k, p, path, TRUE, FALSE)}

(* sys_rmdir(): the root of a mounted file system is not recognised as busy *)
(* (its mount_point is not set), hazard "rmdir_mounted".                    *)
FsRmdir(k, d, i) == IF Ext2(k) THEN ext2_rmdir(k, d, i) ELSE minix_rmdir(k, d, i)
sys_rmdir(k, p, path) ==
  LET refused(s, i, d) ==
        \/ ~IsDir(s, i)
        \/ i \in {k.root[p], RootInode, s.cover}
        \/ RdOnly(s, i)
        \/ i = d
        \/ i = MntRoot /\ "rmdir_mounted" \notin Hazards
  IN  UNION {IF r.e # "ok" THEN {iput(r.k, r.d)}
             ELSE {iputs(r.k, <<r.i, r.d>>)} \cup
                  (IF refused(r.k, r.i, r.d) THEN {}
                   ELSE {iputs(FsRmdir(r.k, r.d, r.i).k, <<r.i, r.d>>)})
               : r \in namei(k, p, path, TRUE, FALSE)}

(* sys_rename().  An empty directory that is replaced keeps a link, and a   *)
(* replaced directory's parent is not told (hazard "rename_onto_dir").  Of  *)
(* a new path that ends before its last component, *i_res has been put by   *)
(* do_namei() already and is put again (hazard "rename_enotdir").           *)
FsRename(k, i, d, j, e, n, m) == IF Ext2(k) THEN ext2_rename(k, i, d, j, e, n, m)
                                 ELSE minix_rename(k, i, d, j, e, n, m)
sys_rename(k, p, old, new) ==
  LET names == {Last(old), Last(new)}
      done(r, n, s) == iputs(s, <<r.i, r.d, n.i, n.d>>)
      refused(r, n) ==
        \/ Dev(r.d) # Dev(n.d)
        \/ names \cap {".", ".."} # {}
        \/ n.i # 0 /\ \/ n.k.kind[r.i] = "reg" /\ IsDir(n.k, n.i)
                      \/ IsDir(n.k, r.i) /\ ~IsDir(n.k, n.i)
                      \/ r.i = n.i
                      \/ IsDir(n.k, n.i) /\ "rename_onto_dir" \notin Hazards
        \/ n.e = "noexec"
        \/ ~InDir(n.k, n.d)
      second(r) ==
        UNION {IF n.e # "ok" /\ n.d = 0 THEN {iputs(n.k, <<r.i, r.d>>)}
               ELSE IF n.e # "ok" /\ n.i # 0 /\ "rename_enotdir" \notin Hazards THEN {}
               ELSE {done(r, n, n.k)} \cup
                    (IF refused(r, n) THEN {}
                     ELSE {done(r, n, FsRename(n.k, r.i, r.d, n.i, n.d, Last(old), Last(new)).k)})
                 : n \in namei(r.k, p, new, TRUE, FALSE)}
  IN  UNION {IF r.e # "ok" THEN {iput(r.k, r.d)}
             ELSE IF r.d = 0 THEN {}
             ELSE IF RdOnly(r.k, r.i) THEN {iputs(r.k, <<r.i, r.d>>)}
             ELSE second(r) : r \in namei(k, p, old, TRUE, FALSE)}

-----------------------------------------------------------------------------
(* The mount table, as the second file system is entered in it or not:      *)
(* add_mount_point() refuses a device that is mounted, del_mount_point()    *)
(* follows the iput() of the root and of the directory it covered, and      *)
(* get_mount_point() finds the entry by its root or by its device.          *)
add_mount_point(k, root, dir) == IF k.cover # 0 THEN k ELSE [k EXCEPT !.count[root] = 1, !.cover = dir]
del_mount_point(k, root) == iput([k EXCEPT !.count[root] = 0, !.cover = 0], k.cover)
get_mount_point(k, i) == k.cover # 0 /\ (i = MntRoot \/ k.kind[i] = "blk")

(* sys_mount(): the reference to the source stays with the kernel, and      *)
(* sys_umount2() does not give it back.                                     *)
sys_mount(k, p, source, target) ==
  LET mounted(r, s) == [add_mount_point(s.k, MntRoot, r.i) EXCEPT !.source = s.i]
      device(r) ==
        UNION {IF s.e # "ok" THEN {iput(s.k, r.i)}
               ELSE {iputs(s.k, <<r.i, s.i>>)} \cup
                    (IF s.k.kind[s.i] # "blk" \/ k.cover # 0 \/ ~get_free_inode(s.k) THEN {}
                     ELSE {mounted(r, s)})
                 : s \in namei(r.k, p, source, FALSE, TRUE)}
  IN  UNION {IF r.e # "ok" THEN {r.k}
             ELSE IF ~IsDir(r.k, r.i) \/ r.i = RootInode THEN {iput(r.k, r.i)}
             ELSE device(r) : r \in namei(k, p, target, FALSE, TRUE)}

(* MS_REMOUNT on the root file system. *)
sys_remount(k, p, target, ro) ==
  WithInode(k, p, target, TRUE,
    LAMBDA s, i : {IF i = RootInode THEN [iput(s, i) EXCEPT !.ro = ro] ELSE iput(s, i)})

(* sys_umount2() of the second file system, by its device or its root.      *)
sys_umount2(k, p, target) ==
  WithInode(k, p, target, TRUE,
    LAMBDA s, i :
      LET put == iput(s, i)
      IN  {IF ~get_mount_point(s, i) \/ check_fs_busy(put) THEN put
           ELSE [del_mount_point(put, MntRoot)
                   EXCEPT !.source = 0, !.leaked[s.source] = @ + 1]})

-----------------------------------------------------------------------------
(* ext2_file_write(), minix_file_write() of n bytes.  The blocks are mapped *)
(* one after another and any of them may fail, with a full disk or an I/O   *)
(* error, of an indirect block on the way or of the block itself; those     *)
(* mapped so far stay.  i_size grows only when all was written; Minix moves *)
(* the offset on as it goes.                                                *)
BlocksOf(off, n) == (off \div BlockSize)..((off + n - 1) \div BlockSize)
MapTo(k, i, off, last) ==
  FoldLeft(LAMBDA r, b : IF r.blk = 0 THEN r
                         ELSE LET m == bmap(r.k, i, b) IN [k |-> m.k, blk |-> m.blk, at |-> b],
           [k |-> k, blk |-> -1, at |-> 0], [x \in 1..last + 1 - off \div BlockSize |-> off \div BlockSize + x - 1])

file_write(k, f, n, moves) ==
  LET i == k.fdt[f].i
      off == k.fdt[f].off
      all == MapTo(k, i, off, Max(BlocksOf(off, n)))
      written == [all.k EXCEPT !.fdt[f].off = off + n,
                               !.size[i] = IF off + n > @ THEN off + n ELSE @]
      failed(m) == IF moves THEN [m.k EXCEPT !.fdt[f].off = Max({@, m.at * BlockSize})] ELSE m.k
      unmapped(b) == LET m == MapTo(k, i, off, b - 1)
                     IN  IF m.blk = 0 THEN m ELSE [m EXCEPT !.at = b]
  IN  Either(IF all.blk = 0 THEN {} ELSE {written},
             {failed(MapTo(k, i, off, b)) : b \in BlocksOf(off, n)}
             \cup {failed(unmapped(b)) : b \in BlocksOf(off, n)})

ext2_file_write(k, f, n) == file_write(k, f, n, FALSE)
minix_file_write(k, f, n) == file_write(k, f, n, TRUE)

(* sys_write(): the test for a read-only descriptor compares with O_RDONLY, *)
(* which is 0, and never refuses one.                                       *)
sys_write(k, p, u, n) ==
  LET f == k.ufd[p][u]
  IN  IF k.kind[k.fdt[f].i] # "reg" THEN {k}
      ELSE IF Ext2(k) THEN ext2_file_write(k, f, n) ELSE minix_file_write(k, f, n)

(* sys_writev(): the vectors one after another, up to one that fails.       *)
sys_writev(k, p, u, n, m) ==
  LET f == k.ufd[p][u]
  IN  UNION {{s} \cup IF s.fdt[f].off = k.fdt[f].off + n THEN sys_write(s, p, u, m) ELSE {}
               : s \in sys_write(k, p, u, n)}

(* file_read(): an offset past the end comes back to it.                    *)
file_read(k, f, n) ==
  LET i == k.fdt[f].i
      from == Min({k.fdt[f].off, k.size[i]})
  IN  {[k EXCEPT !.fdt[f].off = o] : o \in {from, Min({from + n, k.size[i]})}}
sys_read(k, p, u, n) ==
  IF k.kind[k.fdt[k.ufd[p][u]].i] # "reg" THEN {k} ELSE file_read(k, k.ufd[p][u], n)
sys_readv(k, p, u, n, m) == UNION {{s} \cup sys_read(s, p, u, m) : s \in sys_read(k, p, u, n)}

sys_lseek(k, p, u, off) ==
  {IF k.kind[k.fdt[k.ufd[p][u]].i] = "reg" THEN [k EXCEPT !.fdt[k.ufd[p][u]].off = off] ELSE k}
sys_llseek(k, p, u, off) == sys_lseek(k, p, u, off)

-----------------------------------------------------------------------------
(* Reading a directory from offset off (entry j lies at j - 1) into a       *)
(* buffer for n entries.  An entry is stored when, with those before it, it *)
(* is less than the room that is left, which they have been taken from too: *)
(* half of the buffer is used.  The next call starts at the entry that did  *)
(* not fit, or past the last block.                                         *)
LiveEnts(k, i) == {j \in DOMAIN k.ents[i] : k.ents[i][j].i # 0}
Stored(live, n) == SubSeq(live, 1, Min({Len(live), n \div 2}))
NextEntry_block(k, i, live, n) ==       \* mutant: goes on at the next block
  (IF Len(live) <= n \div 2 THEN ((k.size[i] + BlockSize - 1) \div BlockSize)
   ELSE (live[n \div 2 + 1] - 1) \div BlockSize + 1) * BlockSize
NextEntry(k, i, live, n) ==
  IF Len(live) <= n \div 2 THEN ((k.size[i] + BlockSize - 1) \div BlockSize) * BlockSize
  ELSE live[n \div 2 + 1] - 1

(* The entries in slots js are handed to the reader of f. *)
Told(k, f, js) ==
  LET i == k.fdt[f].i
      es == {<<js[x], k.ents[i][js[x]]>> : x \in DOMAIN js} \cap k.scan[f].due
  IN  [k EXCEPT !.scan[f].told = @ \cup es, !.scan[f].twice = @ \/ es \cap k.scan[f].told # {}]

(* ext2_readdir64() gets the inode of every entry it stores, and uses it    *)
(* without asking whether there was one: then the kernel has stopped.       *)
GetAndPut(s, i) == IF iget(s, i).i = 0 THEN {} ELSE {iput(iget(s, i).k, iget(s, i).i)}
StatAll(k, d, js) ==
  FoldLeft(LAMBDA ss, j : UNION {GetAndPut(s, s.ents[d][j].i) : s \in ss}, {k}, js)

(* A block that cannot be read ends the call with an error: the entries of  *)
(* the blocks before it are lost with the buffer (hazard "getdents_eio").   *)
readdir(k, f, n, stats) ==
  LET i == k.fdt[f].i
      off == Min({k.fdt[f].off, k.size[i]})
      live == SelectSeq([j \in DOMAIN k.ents[i] |-> j], LAMBDA j : j > off /\ j \in LiveEnts(k, i))
      next == NextEntry(k, i, live, n)
      at(o) == [k EXCEPT !.fdt[f].off = o]
      left == IF stats THEN StatAll(at(next), i, Stored(live, n)) ELSE {at(next)}
  IN  IF off = k.size[i] THEN {at(off)}
      ELSE {Told(s, f, Stored(live, n)) : s \in left}
           \cup {at(off)}
           \cup {at(b * BlockSize) : b \in IF "getdents_eio" \in Hazards
                                           THEN off \div BlockSize + 1..(next - 1) \div BlockSize ELSE {}}

ext2_readdir(k, f, n) == readdir(k, f, n, FALSE)
ext2_readdir64(k, f, n) == readdir(k, f, n, TRUE)
minix_readdir(k, f, n) == readdir(k, f, n, FALSE)

OpenDir(k, p, u) == IsDir(k, k.fdt[k.ufd[p][u]].i)
sys_getdents(k, p, u, n) ==
  IF ~OpenDir(k, p, u) THEN {k}
  ELSE IF Ext2(k) THEN ext2_readdir(k, k.ufd[p][u], n) ELSE minix_readdir(k, k.ufd[p][u], n)
sys_getdents64(k, p, u, n) ==
  IF ~OpenDir(k, p, u) \/ ~Ext2(k) THEN {k} ELSE ext2_readdir64(k, k.ufd[p][u], n)

-----------------------------------------------------------------------------
(* The calls, as user programs make them.  A behaviour is a sequence of     *)
(* menu.n of the calls in menu.calls, each made by any live process.        *)
CONSTANTS Paths,      \* paths of existing and of new names
          Targets,    \* what a symbolic link is made to point to
          Lengths,    \* offsets and file lengths
          Menus,      \* groups of calls to mix, and how many of them to make
          FileSystems \* the types of the root file system

VARIABLES k, menu, left
vars == <<k, menu, left>>

(* What the reader of an open directory is owed: the entries that have been *)
(* in it since it was opened.                                               *)
NoScan == [due |-> {}, told |-> {}, twice |-> FALSE]
Owed(s, f) ==
  LET i == s.fdt[f].i
      ents == {<<j, s.ents[i][j]>> : j \in LiveEnts(s, i)}
  IN  IF s.fdt[f].n = 0 \/ ~IsDir(s, i) THEN NoScan
      ELSE IF k.fdt[f].n = 0 THEN [NoScan EXCEPT !.due = ents]
      ELSE [s.scan[f] EXCEPT !.due = @ \cap ents, !.told = @ \cap ents]
Watched(s) == IF "getdents" \in menu.calls THEN [s EXCEPT !.scan = [f \in Fds |-> Owed(s, f)]] ELSE s

Call(name, result) == /\ name \in menu.calls /\ left > 0 /\ left' = left - 1
                      /\ k' \in {Watched(t) : t \in {free_dying(s) : s \in result}}
                      /\ UNCHANGED menu
OpenOf(p) == {u \in Ufd : k.ufd[p][u] # 0}

Open(p) == \E path \in Paths, fl \in {{}, {"creat", "write"}, {"trunc", "write"},
                                      {"creat", "excl"}, {"nofollow"}, {"directory"}} :
             Call("open", sys_open(k, p, path, fl))
Creat(p) == \E path \in Paths : Call("open", sys_creat(k, p, path))
Close(p) == \E u \in OpenOf(p) : Call("open", sys_close(k, p, u))
Dup(p) == \E u \in OpenOf(p) : Call("dup", sys_dup(k, p, u))
Dup2(p) == \E u \in OpenOf(p), v \in Ufd : Call("dup", sys_dup2(k, p, u, v))
Fcntl(p) == \E u \in OpenOf(p), v \in Ufd, c \in {"dupfd", "dupfd_cloexec", "setfd"} :
              Call("dup", sys_fcntl(k, p, u, c, v) \cup sys_fcntl64(k, p, u, c, v))
Pipe(p) == k.count[PipeInode] = 0 /\ Call("dup", sys_pipe(k, p))
Fork(p) == \E c \in Proc \ k.live : Call("fork", sys_fork(k, p, c))
Exit(p) == k.live # {p} /\ Call("fork", do_exit(k, p))
Execve(p) == \E path, script \in Paths : Call("exec", sys_execve(k, p, path, <<script>>))
Flock(p) == \E u \in OpenOf(p), t \in {"sh", "ex", "un"} : Call("flock", sys_flock(k, p, u, t))
PosixLock(p) == \E u \in OpenOf(p), t \in {"sh", "ex", "un"} : Call("flock", posix_lock(k, p, u, t))
Stat(p) == \E path \in Paths : Call("stat", sys_stat(k, p, path) \cup sys_lstat(k, p, path)
                                         \cup sys_newstat(k, p, path) \cup sys_newlstat(k, p, path)
                                         \cup sys_stat64(k, p, path) \cup sys_lstat64(k, p, path)
                                         \cup sys_statfs(k, p, path) \cup sys_access(k, p, path))
Attr(p) == \E path \in Paths : Call("stat", sys_chmod(k, p, path) \cup sys_chown(k, p, path)
                                         \cup sys_chown32(k, p, path) \cup sys_lchown(k, p, path)
                                         \cup sys_utime(k, p, path) \cup sys_utimes(k, p, path)
                                         \cup sys_readlink(k, p, path))
Getcwd(p) == Call("chdir", sys_getcwd(k, p))
Chdir(p) == \E path \in Paths : Call("chdir", sys_chdir(k, p, path))
Chroot(p) == \E path \in Paths : Call("chroot", sys_chroot(k, p, path))
Fchdir(p) == \E u \in OpenOf(p) : Call("chdir", sys_fchdir(k, p, u))
Mkdir(p) == \E path \in Paths : Call("mkdir", sys_mkdir(k, p, path))
Rmdir(p) == \E path \in Paths : Call("rmdir", sys_rmdir(k, p, path))
Mknod(p) == \E path \in Paths, t \in {"fifo", "blk"} : Call("mknod", do_mknod(k, p, path, t))
Symlink(p) == \E path \in Paths, t \in Targets : Call("symlink", sys_symlink(k, p, t, path))
Link(p) == \E old, new \in Paths : Call("link", sys_link(k, p, old, new))
Unlink(p) == \E path \in Paths : Call("unlink", sys_unlink(k, p, path))
Rename(p) == \E old, new \in Paths : Call("rename", sys_rename(k, p, old, new))
Mount(p) == \E source, target \in Paths : Call("mount", sys_mount(k, p, source, target))
Remount(p) == \E ro \in BOOLEAN : Call("mount", sys_remount(k, p, <<"/">>, ro))
Umount(p) == \E target \in Paths : Call("mount", sys_umount2(k, p, target))
(* Version 1 of Minix does not refuse a block past the doubly indirect      *)
(* ones, and indexes the indirect block beyond its end.                     *)
InTree(n) == k.fs = "minix1" => n < (NDIR + BPI + BPD) * BlockSize
Write(p) == \E u \in OpenOf(p), n \in {1, BlockSize + 1} :
              InTree(k.fdt[k.ufd[p][u]].off + n) /\ Call("write", sys_write(k, p, u, n) \cup sys_writev(k, p, u, 1, n))
Read(p) == \E u \in OpenOf(p) : Call("write", sys_read(k, p, u, 1) \cup sys_readv(k, p, u, 1, BlockSize))
Lseek(p) == \E u \in OpenOf(p), n \in Lengths : InTree(n) /\ Call("write", sys_lseek(k, p, u, n) \cup sys_llseek(k, p, u, n))
Truncate(p) == \E path \in Paths, n \in Lengths : Call("truncate", sys_truncate(k, p, path, n) \cup sys_truncate64(k, p, path, n))
Ftruncate(p) == \E u \in OpenOf(p), n \in Lengths : Call("truncate", sys_ftruncate(k, p, u, n) \cup sys_ftruncate64(k, p, u, n))

(* Another free block becomes the one that cannot be read. *)
BadBlock == /\ "disk" \in menu.calls /\ left > 0
            /\ \E b \in {0} \cup (k.disk \ k.zmap) : b # k.bad /\ k' = [k EXCEPT !.bad = b]
            /\ UNCHANGED <<menu, left>>

Getdents(p) == \E u \in OpenOf(p), n \in {4, 16} :
                 Call("getdents", sys_getdents(k, p, u, n) \cup sys_getdents64(k, p, u, n))

(* mount_root() has mounted a disk with /d (a directory), /f and /g (a file *)
(* of one block with two names) and /b (a block special file); "/" has no   *)
(* room for another entry in its block.  One process runs in "/", with /f,  *)
(* or to read directories "/", open.                                        *)
Zero == [i \in Inodes |-> 0]
At(f) == [i \in Inodes |-> IF i \in DOMAIN f THEN f[i] ELSE Zero[i]]
Entry(n, i) == [n |-> n, i |-> i]
Boot(fs, disk, p, i0) ==
  LET rt == RootInode
      used == 3 + RootInode
      dirs == (rt :> <<Entry(".", rt), Entry("..", rt), Entry("d", rt + 1), Entry("f", rt + 2),
                       Entry("b", rt + 3), Entry("g", rt + 2)>>)
              @@ (rt + 1 :> <<Entry(".", rt + 1), Entry("..", rt)>>)
              @@ (MntRoot :> <<Entry(".", MntRoot), Entry("..", MntRoot)>>)
      blk(n) == <<0>> :> n
      full == fs = "ext2"
  IN  [fs |-> fs, disk |-> disk, imap |-> rt..used, zmap |-> 1..3,
       ifree |-> Cardinality(DiskInodes) - 4, bfree |-> Cardinality(disk) - 3,
       tree |-> [i \in Inodes |-> IF i \in rt..rt + 2 THEN blk(i - rt + 1) ELSE NoTree],
       iblocks |-> [i \in Inodes |-> IF full /\ i \in rt..rt + 2 THEN 1 ELSE 0],
       size |-> At(rt :> (IF full THEN BlockSize ELSE 6) @@ rt + 1 :> (IF full THEN BlockSize ELSE 2)
                   @@ rt + 2 :> 1 @@ MntRoot :> 2),
       kind |-> [i \in Inodes |-> IF i \in {rt, rt + 1, MntRoot} THEN "dir" ELSE IF i = rt + 2 THEN "reg"
                                  ELSE IF i = rt + 3 THEN "blk" ELSE "none"],
       warned |-> FALSE, count |-> At(i0 :> (IF i0 = rt THEN 5 ELSE 1) @@ rt :> 4),
       nlink |-> At(rt :> 3 @@ rt + 1 :> 2 @@ rt + 2 :> 2 @@ rt + 3 :> 1 @@ MntRoot :> 2),
       ents |-> [i \in Inodes |-> IF i \in DOMAIN dirs THEN dirs[i] ELSE <<>>],
       lnk |-> [i \in Inodes |-> <<>>], cover |-> 0, dying |-> {},
       fdt |-> [f \in Fds \cup {0} |-> IF f = 1 THEN [i |-> i0, n |-> 1, off |-> 0] ELSE FreeFd],
       scan |-> [f \in Fds |-> IF f = 1 /\ i0 = rt
                               THEN [NoScan EXCEPT !.due = {<<j, dirs[rt][j]>> : j \in DOMAIN dirs[rt]}]
                               ELSE NoScan],
       ufd |-> [q \in Proc |-> [u \in Ufd |-> IF q = p /\ u = 0 THEN 1 ELSE 0]],
       cloexec |-> [q \in Proc |-> {}],
       pwd |-> [q \in Proc |-> IF q = p THEN rt ELSE 0],
       root |-> [q \in Proc |-> IF q = p THEN rt ELSE 0],
       exe |-> [q \in Proc |-> 0], live |-> {p}, ro |-> FALSE, flk |-> <<>>,
       bad |-> 0, source |-> 0, leaked |-> Zero]

Init == /\ menu \in Menus
        /\ \E fs \in FileSystems :
             k = Boot(fs, menu.disk, CHOOSE p \in Proc : TRUE,
                      IF "getdents" \in menu.calls THEN RootInode ELSE RootInode + 2)
        /\ left = menu.n

CallsDone == left = 0 /\ UNCHANGED vars

Next == \/ CallsDone
        \/ BadBlock
        \/ \E p \in k.live :
             \/ Open(p) \/ Creat(p) \/ Close(p) \/ Dup(p) \/ Dup2(p) \/ Fcntl(p) \/ Pipe(p)
             \/ Fork(p) \/ Exit(p) \/ Execve(p) \/ Flock(p) \/ PosixLock(p) \/ Stat(p) \/ Attr(p) \/ Getcwd(p)
             \/ Chdir(p) \/ Chroot(p) \/ Fchdir(p) \/ Mkdir(p) \/ Rmdir(p) \/ Mknod(p)
             \/ Symlink(p) \/ Link(p) \/ Unlink(p) \/ Rename(p) \/ Mount(p) \/ Remount(p)
             \/ Umount(p) \/ Write(p) \/ Read(p) \/ Lseek(p) \/ Getdents(p) \/ Truncate(p) \/ Ftruncate(p)

Spec == Init /\ [][Next]_vars

-----------------------------------------------------------------------------
(* What must hold between two calls. *)

(* Every reference is accounted for: an inode's count is the number of open *)
(* files, working and root directories and running binaries that use it,    *)
(* plus what the mount table holds: whichever way a call returned, it gave  *)
(* back what namei(), iget() and ialloc() handed it.  The exception is the  *)
(* block special file of a file system that was unmounted: sys_umount2()    *)
(* does not put it, and one reference remains for each.  An open file is    *)
(* shared by as many descriptors as its count says, of one process or,      *)
(* after fork(), of several; a free entry of fd_table has none.             *)
Refs(i) ==
  Cardinality({f \in Fds : k.fdt[f].n > 0 /\ k.fdt[f].i = i})
  + Cardinality({p \in k.live : k.pwd[p] = i}) + Cardinality({p \in k.live : k.root[p] = i})
  + Cardinality({p \in k.live : k.exe[p] = i})
  + (IF i = k.source THEN 1 ELSE 0) + k.leaked[i]
  + (IF i = RootInode THEN 2 ELSE 0)
  + (IF k.cover # 0 /\ i \in {MntRoot, k.cover} THEN 1 ELSE 0)
RefsCounted ==
  /\ \A i \in Inodes : k.count[i] = Refs(i)
  /\ \A f \in Fds : k.fdt[f].n = Cardinality({x \in Proc \X Ufd : k.ufd[x[1]][x[2]] = f})

(* i_nlink is the number of names of an inode in the directories that can   *)
(* still be reached, "." and ".." included; an inode without a name that    *)
(* nobody uses is free in the bitmap, one with a name is not.               *)
Named(i) == UNION {{<<d, j>> : j \in {j \in DOMAIN k.ents[d] : k.ents[d][j].i = i}}
                     : d \in {d \in DiskInodes : k.kind[d] = "dir" /\ k.nlink[d] > 0}}
LinksCounted ==
  \A i \in DiskInodes : /\ k.nlink[i] = Cardinality(Named(i))
                        /\ (i \in k.imap) = (k.nlink[i] > 0 \/ k.count[i] > 0)

(* The block bitmap is the disjoint union of the index trees of the inodes  *)
(* in use: no block is in two files, none is lost, and what truncate()      *)
(* freed, a failed allocation included, is free.  In ext2 the free counts   *)
(* and i_blocks agree with it.  The kernel never finds cause to print one   *)
(* of its own warnings: a block or an inode freed twice, or an inode put    *)
(* more often than it was got.                                              *)
BlocksAccounted ==
  LET own(i) == {k.tree[i][x] : x \in DOMAIN k.tree[i]}
  IN  /\ ~k.warned
      /\ k.zmap = UNION {own(i) : i \in DiskInodes}
      /\ Cardinality(k.zmap) = MapThenSumSet(LAMBDA i : Cardinality(DOMAIN k.tree[i]), DiskInodes)
      /\ Ext2(k) => /\ k.bfree = Cardinality(k.disk \ k.zmap)
                    /\ k.ifree = Cardinality(DiskInodes \ k.imap)
                    /\ \A i \in DiskInodes : k.iblocks[i] = Cardinality(DOMAIN k.tree[i])

(* An exclusive lock of flock() or fcntl() excludes every lock of another   *)
(* process on the file, however the two were converted and released.        *)
FlockExclusive ==
  \A a, b \in DOMAIN k.flk :
    k.flk[a].i = k.flk[b].i /\ k.flk[a].p # k.flk[b].p => {k.flk[a].t, k.flk[b].t} = {"sh"}

(* Truncating any file that a sequence of writes can build, to a length of  *)
(* whole blocks below the part of the triply indirect tree where the code   *)
(* divides by the wrong unit, clears exactly the pointers that lead to no   *)
(* block of the new length: nothing past the end stays allocated, nothing   *)
(* before it is lost.                                                       *)
TruncateFreesTail ==
  \A i \in {i \in DiskInodes : k.kind[i] = "reg"}, b \in 0..NDIR + BPI + BPD + BPI - 1 :
      DOMAIN truncate(k, i, b * BlockSize).tree[i] = DOMAIN k.tree[i] \ UnneededTable[b]

(* A reader of a directory gets every entry that is there from open() until *)
(* the end of the directory, and none of them twice, whatever is entered or *)
(* removed between its calls and wherever its buffer was full.              *)
DirectoryListed ==
  \A f \in Fds : /\ ~k.scan[f].twice
                 /\ k.fdt[f].n > 0 /\ k.fdt[f].off >= k.size[k.fdt[f].i] => k.scan[f].due \subseteq k.scan[f].told
=============================================================================
