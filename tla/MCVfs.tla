------------------------------- MODULE MCVfs --------------------------------
(* The file system calls on a disk of six inodes and seven blocks, or four, *)
(* with two direct slots and two pointers in an indirect block.             *)
EXTENDS Vfs

\* Existing names, new names, names through a link, "..", and a file used as
\* a directory, in the first and in a later place.
MCPaths == {<<"d">>, <<"/", "d">>, <<"f">>, <<"b">>, <<"x">>, <<"d", "x">>, <<"x", "f">>, <<"/", "d", "..", "f">>,
            <<"d", "..", "f", "x">>}
MCTargets == {<<"d">>, <<"x">>, <<"d", "x">>}
\* The blocks 0, 3 (indirect), 5 (doubly indirect), 8 (triply indirect).
MCLengths == {n * BlockSize : n \in {0, 3, 5, 8}}
Of(calls, n) == [calls |-> calls, n |-> n, disk |-> DiskBlocks]
\* One block is free.
Full(calls, n) == [calls |-> calls, n |-> n, disk |-> {1, 2, 3, 4}]
MCMenus == {Of({"link", "unlink", "fork"}, 3), Of({"open", "dup", "exec"}, 3),
            Of({"fork", "dup"}, 4), Of({"flock", "fork"}, 6),
            Of({"mkdir", "rmdir", "chdir", "rename"}, 3), Of({"mknod", "rename"}, 3),
            Of({"symlink", "open", "unlink"}, 3), Of({"symlink", "stat"}, 2), Of({"open", "chdir"}, 2),
            Of({"mount", "chdir", "chroot", "rmdir", "fork"}, 5),
            Of({"getdents", "mknod", "unlink"}, 4),
            Of({"write", "truncate", "unlink"}, 4),
            Of({"disk", "write", "unlink"}, 3), Of({"disk", "mkdir", "symlink", "rmdir"}, 3),
            Full({"mkdir", "mknod", "symlink", "unlink"}, 2), Full({"open", "link", "rename"}, 2)}
=============================================================================
