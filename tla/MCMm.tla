-------------------------------- MODULE MCMm --------------------------------
(* Two processes, two files of two pages; each menu is about one way in     *)
(* which the calls on memory interact.                                      *)
EXTENDS Mm

\* 1: text and data, which ends within its last page; 2: text, and 1 as its interpreter
MCImage == 1 :> [segs |-> <<[s |-> 1, n |-> 1, off |-> 0, prot |-> "r"], [s |-> 2, n |-> 1, off |-> 1, prot |-> "rw"]>>,
                 bss |-> 0, frac |-> TRUE, interp |-> 0]
        @@ 2 :> [segs |-> <<[s |-> 1, n |-> 2, off |-> 0, prot |-> "rw"]>>, bss |-> 1, frac |-> FALSE, interp |-> 3]
        @@ 3 :> [segs |-> <<[s |-> 0, n |-> 1, off |-> 0, prot |-> "r"], [s |-> 1, n |-> 1, off |-> 1, prot |-> "rw"]>>,
                 bss |-> 0, frac |-> TRUE, interp |-> 0]

Quiet == [image |-> 1, calls |-> 6, ops |-> {}, maps |-> {}, unmaps |-> {}, prots |-> {}, brks |-> {}, loads |-> {}, stores |-> {},
          values |-> {1, 2}, execs |-> {}, files |-> {}, shmaddr |-> {}, small |-> {}]

Anon(s, n, prot) == [ino |-> 0, s |-> s, n |-> n, prot |-> prot, sh |-> FALSE, fixed |-> s # 0, off |-> 0, type |-> "mmap"]
File(f, s, n, prot, sh, off) == [ino |-> f, s |-> s, n |-> n, prot |-> prot, sh |-> sh, fixed |-> s # 0, off |-> off, type |-> "mmap"]

MCMenus == {
  \* copy-on-write: data, stack and heap of parent and child, both may end first
  [Quiet EXCEPT !.calls = 6, !.ops = {"fork", "exit"}, !.stores = {2, 8}, !.loads = {1}],
  \* regions: placed, cut, split, merged
  [Quiet EXCEPT !.calls = 9, !.maps = {Anon(0, 1, "rw"), Anon(5, 3, "rw"), Anon(6, 1, "rw"), Anon(6, 1, "r"), File(2, 7, 1, "r", FALSE, 0)},
                !.unmaps = {<<5, 1>>, <<6, 1>>, <<6, 2>>}, !.prots = {<<6, 1, "r">>, <<7, 1, "none">>, <<5, 2, "none">>}, !.stores = {6}, !.values = {1}],
  \* heap and stack
  [Quiet EXCEPT !.calls = 5, !.ops = {"fork", "exit", "grow"}, !.brks = {3, 4, 5}, !.maps = {Anon(5, 1, "rw")}, !.stores = {3, 4, 7}, !.values = {1}],
  \* a file mapped shared and private, written and read
  [Quiet EXCEPT !.calls = 6, !.ops = {"fork", "exit"}, !.maps = {File(2, 0, 1, "rw", TRUE, 0), File(2, 0, 2, "r", FALSE, 0), File(2, 7, 1, "rw", FALSE, 0)},
                !.unmaps = {<<5, 1>>}, !.stores = {5, 7}, !.loads = {5, 6}, !.values = {1},
                !.files = {<<"write", 2, 0>>, <<"read", 2, 0>>}],
  \* files that come and go
  [Quiet EXCEPT !.calls = 7, !.ops = {"exit", "fork"}, !.maps = {File(2, 0, 1, "r", TRUE, 1)}, !.unmaps = {<<5, 1>>}, !.loads = {5}, !.values = {1},
                !.files = {<<"write", 2, 1>>, <<"read", 2, 1>>, <<"truncate", 2, 0>>, <<"delete", 2, 0>>, <<"read", 1, 0>>}],
  \* programs
  [Quiet EXCEPT !.calls = 5, !.ops = {"fork", "exit"}, !.execs = {1, 2}, !.loads = {1, 2}, !.stores = {2, 6}, !.values = {1}],
  \* a segment
  [Quiet EXCEPT !.calls = 8, !.ops = {"fork", "exit", "shm", "rmid"}, !.shmaddr = {0, 6}, !.unmaps = {<<6, 1>>}, !.stores = {5, 6}, !.values = {1}],
  \* small objects until memory runs out
  [Quiet EXCEPT !.calls = 6, !.ops = {"fork"}, !.small = {0, 1}, !.stores = {2}, !.files = {<<"read", 2, 0>>, <<"read", 2, 1>>}]}
=============================================================================
