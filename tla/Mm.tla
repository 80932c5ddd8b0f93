-------------------------------- MODULE Mm ----------------------------------
(***************************************************************************)
(* The memory of processes: regions (mm/mmap.c), page tables and           *)
(* copy-on-write (mm/memory.c, mm/fault.c), the calls that change them     *)
(* (fork, execve, exit, mmap, munmap, mprotect, brk), the cache of file    *)
(* pages that read() and write() share with mappings, and System V shared  *)
(* memory. An address is a page number, a page's content one value; the    *)
(* addresses of a process lie under one page table. A call is one step:    *)
(* the kernel is not preemptive, and a sleep inside (a page read from the  *)
(* disk) holds the page's lock. Region structures are not counted against  *)
(* the pool. lf and mem are what files and processes should contain.       *)
(***************************************************************************)
EXTENDS PageCache

CONSTANTS
  Proc,                 \* process slots; 1 runs first
  PAGE_OFFSET,          \* the first address of the kernel
  MMAP_START,
  Inode,                \* files, from 1
  FilePages,            \* the largest file
  Image,                \* executables: segments, bss, interpreter
  NUM_ATTACHES_PER_SEG,
  Hazards,              \* the cases the named passages of README.md are about
  Menus                 \* the calls of a run, their arguments and how many there are

ASSUME MmAssumption == 1 \in Proc /\ MMAP_START < PAGE_OFFSET /\ Inode \subseteq Nat \ {0} /\ FilePages \in Nat \ {0}

VARIABLES k, menu, left
vars == <<k, menu, left>>

Addr == 1 .. PAGE_OFFSET - 1
Offset == 0 .. FilePages - 1
None == [pg |-> 0, rw |-> FALSE]
Args == 9               \* what execve() puts on the stack
Fresh == 98             \* mem: not used since it was mapped
Handled(hazard, case) == hazard \in Hazards \/ ~case
Anew(v, p, S) == [v EXCEPT !.mem[p] = [a \in Addr |-> IF a \in S THEN Fresh ELSE @[a]]]
UpTo(a, n) == [i \in 1 .. n |-> a + i - 1]
In(r, a) == r.s <= a /\ a < r.e
Live(p) == k.p[p].st = "run"

-----------------------------------------------------------------------------
(* Regions: v.p[p].vma is sorted by start *)

iput(v, ino) == IF ino = 0 THEN v ELSE [v EXCEPT !.refs[ino] = @ - 1]
del_vma_region(v, p, i) == iput([v EXCEPT !.p[p].vma = RemoveAt(@, i)], v.p[p].vma[i].ino)

can_be_merged(a, b) ==
  /\ a.e = b.s /\ a.prot = b.prot /\ a.sh = b.sh /\ a.fix = b.fix /\ a.zero = b.zero /\ a.off = b.off
  /\ a.type = b.type /\ a.type # "shm" /\ a.ino = b.ino

find_vma_region(v, p, a) ==
  LET hits == {i \in DOMAIN v.p[p].vma : In(v.p[p].vma[i], a)} IN
  IF hits = {} THEN 0 ELSE CHOOSE i \in hits : \A j \in hits : i <= j
find_vma_intersection(v, p, s, e) == \E i \in DOMAIN v.p[p].vma : s < v.p[p].vma[i].e /\ v.p[p].vma[i].s < e

(* The page of a writable shared mapping goes to its file when it is unmapped *)
write_page(v, g, ino, off) ==
  LET x == v.pg[g].data IN
  update_page_cache([v EXCEPT !.file[ino][off] = x], <<ino, off>>, x)

TableFreed(v, p) ==
  IF \E b \in Addr : v.p[p].pte[b] # None THEN v ELSE [release_page(v, v.p[p].pt) EXCEPT !.p[p].pt = 0]
FreeOne(v, p, r, a, g) ==
  IF g = 0 THEN v
  ELSE LET w == IF r.prot = "rw" /\ r.sh THEN write_page(v, g, r.ino, a - r.s + r.off) ELSE v IN
       TableFreed([release_page(w, g) EXCEPT !.p[p].pte[a] = None], p)
free_vma_pages(v, p, r, a, n) == Along(LAMBDA w, b : FreeOne(w, p, r, b, w.p[p].pte[b].pg), v, UpTo(a, n))

(* A region takes its place and what it overlaps of the one before is cut  *)
RECURSIVE insert_vma_region(_, _, _)
Cut(v, p, i, a, b) ==
  LET rest == [a EXCEPT !.s = b.e, !.shm = FALSE]
      cut(u) == IF a.s = b.s THEN del_vma_region(u, p, i) ELSE [u EXCEPT !.p[p].vma[i].e = b.s]
      put(u) == IF rest.s < rest.e THEN insert_vma_region(u, p, rest) ELSE u IN
  Then(Then(free_vma_pages(v, p, a, b.s, b.e - b.s), cut), put)
merge_vma_regions_adjacent(v, p, i, a, b) ==
  IF can_be_merged(a, b) THEN del_vma_region([v EXCEPT !.p[p].vma[i].e = b.e], p, i + 1) ELSE v
merge_vma_regions(v, p, i, a, b) ==
  IF can_be_merged(a, b) THEN del_vma_region([v EXCEPT !.p[p].vma[i].e = b.e], p, i + 1)
  ELSE IF b.s < a.e THEN Cut(v, p, i, a, b) ELSE v
InsertAfter(v, p, i, r) ==
  LET merge(w) == IF i > 0 /\ r.s <= w.p[p].vma[i].e THEN merge_vma_regions(w, p, i, w.p[p].vma[i], r) ELSE w IN
  Then([v EXCEPT !.p[p].vma = InsertAt(@, i + 1, r)], merge)
insert_vma_region(v, p, r) == InsertAfter(v, p, Cardinality({j \in DOMAIN v.p[p].vma : v.p[p].vma[j].s <= r.s}), r)
add_vma_region(v, p, r) == insert_vma_region(v, p, r)

free_vma_region(v, p, i, r, a, n) ==
  LET w == IF r.s = a THEN del_vma_region(v, p, i) ELSE [v EXCEPT !.p[p].vma[i].e = a] IN
  IF a + n < r.e THEN add_vma_region(w, p, [r EXCEPT !.s = a + n, !.shm = FALSE]) ELSE w

release_binary(v, p) ==
  LET w == Along(LAMBDA u, r : free_vma_pages(u, p, r, r.s, r.e - r.s), v, v.p[p].vma) IN
  Anew([Along(LAMBDA u, r : iput(u, r.ino), w, v.p[p].vma) EXCEPT !.p[p].vma = <<>>], p, Addr)

get_unmapped_vma_region(v, p, n) ==
  LET high == SelectSeq(v.p[p].vma, LAMBDA r : r.s >= MMAP_START)
      from(i) == IF i = 1 THEN MMAP_START ELSE high[i - 1].e
      fits == {i \in DOMAIN high : high[i].s - from(i) >= n} IN
  IF fits = {} THEN 0 ELSE from(CHOOSE i \in fits : \A j \in fits : i <= j)

(* q: ino, s, n, prot, sh, fixed, off, type *)
MapAt(v, p, q, s) ==
  LET r == [s |-> s, e |-> s + q.n, prot |-> q.prot, sh |-> q.sh, fix |-> q.fixed, zero |-> q.ino = 0 /\ q.type # "shm",
            off |-> q.off, type |-> q.type, ino |-> q.ino, shm |-> q.type = "shm"] IN
  IF s = 0 THEN v ELSE Anew(add_vma_region(v, p, r), p, s .. s + q.n - 1)
do_mmap(v, p, q) ==
  IF q.n = 0 \/ q.s + q.n > PAGE_OFFSET \/ (q.ino = 0 /\ q.sh) THEN v
  ELSE MapAt(IF q.ino = 0 THEN v ELSE [v EXCEPT !.refs[q.ino] = @ + 1], p, q,
             IF q.fixed THEN q.s ELSE get_unmapped_vma_region(v, p, q.n))

(* An address in no region keeps the loop going *)
RECURSIVE do_munmap(_, _, _, _)
MunmapFrom(v, p, a, n, i) ==
  LET r == v.p[p].vma[i]
      size == IF a + n > r.e THEN r.e - a ELSE n
      free(w) == Anew(free_vma_region(w, p, i, r, a, size), p, a .. a + size - 1)
      next(w) == do_munmap(w, p, a + size, n - size) IN
  IF i = 0 THEN [v EXCEPT !.p[p].st = "loop"] ELSE Then(Then(free_vma_pages(v, p, r, a, size), free), next)
do_munmap(v, p, a, n) == IF n = 0 THEN v ELSE MunmapFrom(v, p, a, n, find_vma_region(v, p, a))

do_mprotect(v, p, i, a, n, prot) ==
  add_vma_region(v, p, [v.p[p].vma[i] EXCEPT !.s = a, !.e = a + n, !.prot = prot, !.shm = FALSE])

(* The first heap region that may end at b without reaching the next one *)
expand_heap(v, p, b) ==
  LET r == v.p[p].vma
      ok == {i \in 1 .. Len(r) - 1 : r[i].type = "heap" /\ b < r[i + 1].s} IN
  IF ok = {} THEN v
  ELSE [v EXCEPT !.p[p].vma[CHOOSE i \in ok : \A j \in ok : i <= j].e = b, !.p[p].brk = b]

-----------------------------------------------------------------------------
(* Page tables and page faults *)

(* Page g, or a new one, at address a: [v, g], g = 0 without memory *)
WithPage(n, p, a, prot) ==
  IF n.g = 0 THEN n ELSE [n EXCEPT !.v.p[p].pte[a] = [pg |-> n.g, rw |-> prot = "rw"]]
map_page(v, p, a, g, prot) ==
  LET page(w) == WithPage(IF g = 0 THEN get_free_page(w) ELSE [v |-> w, g |-> g], p, a, prot)
      table(t) == IF t.g = 0 THEN t ELSE page([t.v EXCEPT !.p[p].pt = t.g]) IN
  IF v.p[p].pt # 0 THEN page(v) ELSE Then(get_free_page(v), table)

unmap_page(v, p, a) == release_page([v EXCEPT !.p[p].pte[a] = None], v.p[p].pte[a].pg)

(* The pages of private regions are shared until one of the two writes *)
CloneOne_uncounted(v, p, c, r, a) ==
  LET g == v.p[p].pte[a].pg IN
  IF g = 0 THEN v
  ELSE [v EXCEPT !.p[p].pte[a].rw = FALSE, !.p[c].pte[a] = [pg |-> g, rw |-> FALSE], !.pg[g].cow = @ \/ r.prot = "rw"]
CloneOne_writable(v, p, c, r, a) ==
  LET g == v.p[p].pte[a].pg IN
  IF g = 0 THEN v
  ELSE [v EXCEPT !.p[c].pte[a] = v.p[p].pte[a], !.pg[g].count = @ + 1, !.pg[g].cow = @ \/ r.prot = "rw"]
CloneOne(v, p, c, r, a) ==
  LET g == v.p[p].pte[a].pg IN
  IF g = 0 THEN v
  ELSE [v EXCEPT !.p[p].pte[a].rw = FALSE, !.p[c].pte[a] = [pg |-> g, rw |-> FALSE],
                 !.pg[g].count = @ + 1, !.pg[g].cow = @ \/ r.prot = "rw"]
CloneRegion(v, p, c, r) ==
  IF r.sh THEN v ELSE Along(LAMBDA w, a : CloneOne(w, p, c, r, a), v, UpTo(r.s, r.e - r.s))
clone_pages(v, p, c) ==
  LET clone(t) == IF t.g = 0 THEN [v |-> t.v, ok |-> FALSE]
                  ELSE [v |-> Along(LAMBDA w, r : CloneRegion(w, p, c, r), [t.v EXCEPT !.p[c].pt = t.g], v.p[p].vma), ok |-> TRUE] IN
  Then(get_free_page(v), clone)

page_protection_violation(v, p, a, g) ==
  LET copy(n) == IF n.g = 0 THEN [v |-> v, res |-> "kill"]
                 ELSE [v |-> release_page([n.v EXCEPT !.pg[n.g].data = v.pg[g].data,
                                                      !.p[p].pte[a] = [pg |-> n.g, rw |-> TRUE]], g), res |-> "ok"] IN
  IF ~v.pg[g].cow THEN [v |-> v, res |-> "segv"]
  ELSE IF v.pg[g].count = 1 THEN [v |-> [v EXCEPT !.p[p].pte[a].rw = TRUE], res |-> "ok"]
  ELSE Then(get_free_page(v), copy)

(* A page of a file: from the cache if the mapping may share it *)
ReadInto(m, p, a, key, cached) ==
  LET done(u) == IF u.eio THEN [v |-> unmap_page(u, p, a), res |-> "kill"] ELSE [v |-> u, res |-> "ok"] IN
  IF m.g = 0 THEN [v |-> m.v, res |-> "kill"]
  ELSE Then(bread_page(m.v, m.g, key, m.v.file[key[1]][key[2]], cached), done)
FilePage(v, p, a, prot, key, cached) ==
  LET miss(w) == Then(map_page(w, p, a, 0, prot), LAMBDA m : ReadInto(m, p, a, key, cached))
      hit(w, g) == Then(map_page(w, p, a, g, prot), LAMBDA m : [v |-> m.v, res |-> IF m.g = 0 THEN "kill" ELSE "ok"])
      found(h) == IF h.g = 0 THEN miss(h.v) ELSE hit(h.v, h.g) IN
  IF cached THEN Then(search_page_hash(v, key), found) ELSE miss(v)

(* A page of a shared segment: the segment holds a reference of its own *)
shm_map_page(v, p, x, a, prot) ==
  LET put(m) == IF m.g = 0 THEN [v |-> m.v, res |-> "kill"]
                ELSE [v |-> [m.v EXCEPT !.seg.pages[x] = m.g, !.pg[m.g].count = @ + 1], res |-> "ok"] IN
  Then(map_page(v, p, a, v.seg.pages[x], prot), put)

ZeroPage(v, p, a, prot) ==
  LET zero(m) == IF m.g = 0 THEN [v |-> m.v, res |-> "kill"] ELSE [v |-> [m.v EXCEPT !.pg[m.g].data = 0], res |-> "ok"] IN
  Then(map_page(v, p, a, 0, prot), zero)

(* An address in no region, at or above the stack pointer, grows the stack *)
GrowStack(v, p, a, i) == IF i = 0 THEN [v |-> v, i |-> 0] ELSE [v |-> [v EXCEPT !.p[p].vma[i].s = a], i |-> i]

Populate(v, p, r, a) ==
  IF r.prot = "none" THEN [v |-> v, res |-> "segv"]
  ELSE IF r.ino # 0 THEN FilePage(v, p, a, r.prot, <<r.ino, a - r.s + r.off>>, r.prot # "rw" \/ r.sh)
  ELSE IF r.zero THEN ZeroPage(v, p, a, r.prot) ELSE shm_map_page(v, p, a - r.s, a, r.prot)
page_not_present(v, p, i, a, grow) ==
  LET fill(s) == IF s.i = 0 THEN [v |-> v, res |-> "segv"] ELSE Populate(s.v, p, s.v.p[p].vma[s.i], a) IN
  Then(IF i = 0 /\ grow THEN GrowStack(v, p, a, find_vma_region(v, p, PAGE_OFFSET - 1)) ELSE [v |-> v, i |-> i], fill)

(* What the address should contain from its first use on *)
Noted(v, p, i, a) ==
  LET r == v.p[p].vma[i] IN
  IF v.p[p].pte[a].pg = 0 \/ v.mem[p][a] # Fresh THEN v
  ELSE [v EXCEPT !.mem[p][a] = IF r.ino # 0 THEN v.lf[r.ino][a - r.s + r.off] ELSE 0]

do_page_fault(v, p, a, write, grow) ==
  LET noted(f) == [f EXCEPT !.v = Noted(@, p, find_vma_region(@, p, a), a)]
      fault(i) == IF v.p[p].pte[a].pg = 0 THEN Then(page_not_present(v, p, i, a, grow), noted)
                  ELSE IF write /\ i # 0 THEN page_protection_violation(v, p, a, v.p[p].pte[a].pg)
                  ELSE [v |-> v, res |-> "segv"] IN
  Then(find_vma_region(v, p, a), fault)

(* The kernel itself stores to a user page: a fault that fails is taken again *)
KernelTouch(v, p, a) ==
  LET retry(f) == IF f.res = "ok" /\ f.v.p[p].pte[a].rw THEN f.v ELSE [f.v EXCEPT !.p[p].st = "loop"] IN
  IF v.p[p].pte[a].rw THEN v ELSE Then(do_page_fault(v, p, a, TRUE, FALSE), retry)

-----------------------------------------------------------------------------
(* execve() *)

Segment(ino, base, g) == [ino |-> ino, s |-> base + g.s, n |-> g.n, prot |-> g.prot, sh |-> FALSE, fixed |-> TRUE,
                          off |-> g.off, type |-> IF g.prot = "rw" THEN "data" ELSE "text"]
Zeroed(s, n, type) == [ino |-> 0, s |-> s, n |-> n, prot |-> "rw", sh |-> FALSE, fixed |-> TRUE, off |-> 0, type |-> type]
EndOf(ino, base) == LET g == Last(Image[ino].segs) IN base + g.s + g.n

(* Loadable segments; the rest of the last page is zeroed, which loads it; bss *)
LoadSegments(v, p, ino, base) ==
  LET zero(w) == IF Image[ino].frac THEN KernelTouch(w, p, EndOf(ino, base) - 1) ELSE w
      bss(w) == do_mmap(w, p, Zeroed(EndOf(ino, base), Image[ino].bss, "bss")) IN
  Then(Then(Along(LAMBDA u, g : do_mmap(u, p, Segment(ino, base, g)), v, Image[ino].segs), zero), bss)

elf_load_interpreter(v, p, ino) == IF ino = 0 THEN v ELSE LoadSegments(v, p, ino, MMAP_START)

Pushed(v, p, a, g) == IF g = 0 THEN v ELSE [v EXCEPT !.pg[g].data = Args, !.mem[p][a] = Args]
elf_create_stack(v, p) == Then(KernelTouch(v, p, PAGE_OFFSET - 1), LAMBDA w : Pushed(w, p, PAGE_OFFSET - 1, w.p[p].pte[PAGE_OFFSET - 1].pg))

elf_load(v, p, ino) ==
  LET bss == EndOf(ino, 0)
      heap == bss + Image[ino].bss
      interpreter(w) == elf_load_interpreter(w, p, Image[ino].interp)
      binary(w) == LoadSegments(w, p, ino, 0)
      break(w) == [do_mmap(w, p, Zeroed(heap, 1, "heap")) EXCEPT !.p[p].lower = bss, !.p[p].brk = heap]
      stack(w) == elf_create_stack(do_mmap(w, p, Zeroed(PAGE_OFFSET - 1, 1, "stack")), p) IN
  Then(Then(Then(Then(release_binary(v, p), interpreter), binary), break), stack)

(* A page for the arguments and one for the header of the file; ok: loaded *)
do_execve(v, p, ino) ==
  LET freed(w, barg, data) == IF w.p[p].st = "loop" THEN w ELSE release_page(release_page(w, barg), data)
      load(barg, data) == IF barg.g = 0 \/ data.g = 0 THEN [v |-> barg.v, ok |-> FALSE]
                          ELSE [v |-> Then(elf_load(data.v, p, ino), LAMBDA w : freed(w, barg.g, data.g)), ok |-> TRUE] IN
  Then(get_free_page(v), LAMBDA barg : Then(get_free_page(barg.v), LAMBDA data : load(barg, data)))

-----------------------------------------------------------------------------
(* Processes *)

NoProc == [st |-> "none", vma |-> <<>>, pte |-> [a \in Addr |-> None], pt |-> 0, dir |-> 0, esp0 |-> 0, brk |-> 0, lower |-> 0]
NoSeg == [used |-> FALSE, dest |-> FALSE, tab |-> 0, atab |-> 0, pages |-> [x \in {0} |-> 0], nattch |-> 0,
          att |-> [n \in 1 .. NUM_ATTACHES_PER_SEG |-> 0]]

(* The child's directory, its copy of the regions, its kernel stack, its pages *)
Referenced(v, p) ==
  Along(LAMBDA u, r : [u EXCEPT !.refs[r.ino] = @ + 1], v, SelectSeq(v.p[p].vma, LAMBDA r : r.ino # 0))
Child(v, p, c, dir, esp0) ==
  [v EXCEPT !.p[c] = [v.p[p] EXCEPT !.pte = [a \in Addr |-> None], !.pt = 0, !.dir = dir, !.esp0 = esp0], !.mem[c] = v.mem[p]]
sys_fork(v, p, c) ==
  LET cloned(n, dir) == IF n.ok THEN n ELSE [n EXCEPT !.v = release_page([@ EXCEPT !.p[c] = NoProc], dir)]
      stack(dir, esp0) == IF esp0.g = 0 THEN [v |-> release_page(esp0.v, dir), ok |-> FALSE]
                          ELSE Then(clone_pages(Child(esp0.v, p, c, dir, esp0.g), p, c), LAMBDA n : cloned(n, dir))
      regions(dir) == IF dir.g = 0 THEN [v |-> v, ok |-> TRUE]
                      ELSE Then(get_free_page(Referenced(dir.v, p)), LAMBDA esp0 : stack(dir.g, esp0)) IN
  Then(get_free_page(v), regions)

Attached(p) == \E i \in DOMAIN k.p[p].vma : k.p[p].vma[i].shm
Fork(p, c) ==
  /\ "fork" \in menu.ops /\ Live(p) /\ k.p[c].st = "none" /\ Handled("shm_fork", Attached(p))
  /\ \E f \in {sys_fork(k, p, c)} : Handled("fork_nomem", ~f.ok) /\ k' = f.v

do_exit(v, p) == [release_binary(v, p) EXCEPT !.p[p].st = "zombie"]
Exit(p) ==
  /\ "exit" \in menu.ops /\ k.p[p].st \in {"run", "segv"}
  /\ Handled("shm_exit", Attached(p))
  /\ k' = do_exit(k, p)

remove_zombie(v, p) == [release_page(release_page(v, v.p[p].esp0), v.p[p].dir) EXCEPT !.p[p] = NoProc]
Wait(p) == k.p[p].st = "zombie" /\ p # 1 /\ k' = remove_zombie(k, p)

sys_execve(p, ino) ==
  /\ ino \in menu.execs /\ Live(p) /\ Handled("shm_exit", Attached(p))
  /\ \E f \in {do_execve(k, p, ino)} :
       /\ Handled("exec_nomem", ~f.ok /\ k.free # <<>>) /\ Handled("kernel_fault", f.v.p[p].st = "loop")
       /\ k' = f.v

-----------------------------------------------------------------------------
(* The calls on regions *)

Overlapped(p, s, e) == {r \in Range(k.p[p].vma) : s < r.e /\ r.s < e}
sys_mmap(p, q) ==
  LET over == IF q.fixed THEN Overlapped(p, q.s, q.s + q.n) ELSE {}
      s == IF q.fixed THEN q.s ELSE get_unmapped_vma_region(k, p, q.n) IN
  /\ q \in menu.maps /\ Live(p)
  /\ Handled("fixed_over_next", \E r \in over : r.s > q.s)
  /\ Handled("split_file", \E r \in over : r.ino # 0 /\ q.s + q.n < r.e)
  /\ Handled("shm_unmap", \E r \in over : r.shm)
  /\ Handled("merge_file", q.ino # 0 /\ \E r \in Range(k.p[p].vma) : r.e = s /\ r.ino = q.ino /\ r.off = q.off)
  /\ Handled("mmap_full", q.ino # 0 /\ s = 0)
  /\ k' = do_mmap(k, p, q)

Unsplit(p, a, n) == Handled("split_file", \E r \in Overlapped(p, a, a + n) : r.ino # 0 /\ a + n < r.e)
sys_munmap(p, a, n) ==
  /\ <<a, n>> \in menu.unmaps /\ Live(p) /\ Unsplit(p, a, n)
  /\ Handled("shm_unmap", \E r \in Overlapped(p, a, a + n) : r.shm)
  /\ k' = do_munmap(k, p, a, n)

sys_mprotect(p, a, n, prot) ==
  LET i == find_vma_region(k, p, a)
      r == k.p[p].vma[i] IN
  /\ <<a, n, prot>> \in menu.prots /\ Live(p) /\ i # 0 /\ a + n <= r.e
  /\ Handled("mprotect_file", r.ino # 0) /\ Handled("shm_unmap", r.shm)
  /\ Handled("mprotect_present", \E b \in a .. a + n - 1 : k.p[p].pte[b] # None)
  /\ k' = do_mprotect(k, p, i, a, n, prot)

sys_brk(p, b) ==
  /\ b \in menu.brks /\ Live(p) /\ b >= k.p[p].lower /\ b # k.p[p].brk
  /\ \/ b < k.p[p].brk /\ Unsplit(p, b, k.p[p].brk - b)
        /\ k' = [do_munmap(k, p, b, k.p[p].brk - b) EXCEPT !.p[p].brk = b]
     \/ b > k.p[p].brk /\ k' = expand_heap(k, p, b)

(* A user instruction that faults; a failed fault ends the process *)
Fault(p, a, write, grow, eio) ==
  LET t == k.p[p].pte[a]
      i == find_vma_region(k, p, a)
      r == k.p[p].vma[i] IN
  /\ (IF write THEN a \in menu.stores ELSE a \in menu.loads) /\ Live(p)
  /\ t.pg = 0 \/ (write /\ ~t.rw)
  /\ grow => i = 0 /\ "grow" \in menu.ops
  /\ eio => "eio" \in Hazards
  /\ Handled("stack_over", grow /\ \E j \in DOMAIN k.p[p].vma : a < k.p[p].vma[j].s /\ k.p[p].vma[j].type # "stack")
  /\ Handled("dirty_shared", t.pg = 0 /\ i # 0 /\ r.ino # 0 /\ r.prot = "rw" /\ ~r.sh /\ k.lf[r.ino] # k.file[r.ino])
  /\ \E f \in {do_page_fault([k EXCEPT !.eio = eio], p, a, write, grow)} :
       k' = [f.v EXCEPT !.eio = FALSE, !.p[p].st = IF f.res = "ok" THEN @ ELSE "segv"]

(* A user store to a page that is there and writable *)
Store(p, a, x) ==
  LET t == k.p[p].pte[a]
      i == find_vma_region(k, p, a)
      r == k.p[p].vma[i] IN
  /\ a \in menu.stores /\ Live(p) /\ t.rw /\ k.pg[t.pg].data # x
  /\ k' = IF i # 0 /\ r.sh
          THEN [k EXCEPT !.pg[t.pg].data = x, !.lf[r.ino][a - r.s + r.off] = x]
          ELSE [k EXCEPT !.pg[t.pg].data = x, !.mem[p][a] = x]

-----------------------------------------------------------------------------
(* Files *)

file_read(v, ino, off) ==
  LET hit == search_page_hash(v, <<ino, off>>)
      n == get_free_page(v) IN
  IF off >= v.size[ino] THEN v
  ELSE IF hit.g # 0 THEN release_page(hit.v, hit.g)
  ELSE IF n.g = 0 THEN v
  ELSE release_page(bread_page(n.v, n.g, <<ino, off>>, v.file[ino][off], TRUE), n.g)
Read(ino, off) == <<"read", ino, off>> \in menu.files /\ off < k.size[ino] /\ k' = file_read(k, ino, off)

Larger(a, b) == IF a > b THEN a ELSE b
Write(ino, off, x) ==
  /\ <<"write", ino, off>> \in menu.files /\ k.lf[ino][off] # x
  /\ k' = [update_page_cache(k, <<ino, off>>, x) EXCEPT !.file[ino][off] = x, !.lf[ino][off] = x,
                                                        !.size[ino] = Larger(@, off + 1)]

Emptied(v, ino) == [v EXCEPT !.file[ino] = [o \in Offset |-> 0], !.lf[ino] = [o \in Offset |-> 0], !.size[ino] = 0]
Truncate(ino) ==
  /\ <<"truncate", ino, 0>> \in menu.files /\ k.size[ino] # 0
  /\ Handled("truncate", \E g \in k.hash : k.pg[g].key[1] = ino)
  /\ k' = Emptied(k, ino)

(* The last reference to an unlinked file goes: the number is free for another *)
ifree(ino) ==
  /\ <<"delete", ino, 0>> \in menu.files /\ k.refs[ino] = 0
  /\ k' = Emptied(invalidate_inode_pages(k, ino, k.size[ino]), ino)

-----------------------------------------------------------------------------
(* Shared memory: one segment of one page *)

shm_get_new_seg(v) == LET tab == get_free_page(v) IN [tab EXCEPT !.v.seg.used = tab.g # 0, !.v.seg.tab = tab.g]
sys_shmget ==
  /\ "shm" \in menu.ops /\ ~k.seg.used /\ k.free # <<>>
  /\ k' = shm_get_new_seg(k).v

shm_get_new_attach(v) ==
  LET n == IF v.seg.atab = 0 THEN get_free_page(v) ELSE [v |-> v, g |-> v.seg.atab]
      free == {i \in DOMAIN v.seg.att : v.seg.att[i] = 0} IN
  IF n.g = 0 THEN [v |-> v, n |-> 0]
  ELSE [v |-> [n.v EXCEPT !.seg.atab = n.g], n |-> IF free = {} THEN 0 ELSE CHOOSE i \in free : \A j \in free : i <= j]

sys_shmat(p, addr) ==
  LET a == IF addr # 0 THEN addr ELSE get_unmapped_vma_region(k, p, 1)
      t == shm_get_new_attach(k)
      w == [t.v EXCEPT !.seg.att[t.n] = a, !.seg.nattch = @ + 1] IN
  /\ "shm" \in menu.ops /\ addr \in menu.shmaddr /\ Live(p) /\ k.seg.used
  /\ a # 0 /\ ~find_vma_intersection(k, p, a, a + 1)
  /\ k' = IF t.n = 0 THEN t.v ELSE do_mmap(w, p, Zeroed(a, 1, "shm"))

sys_shmdt(p, a) ==
  LET i == find_vma_region(k, p, a)
      mine == {n \in DOMAIN k.seg.att : k.seg.att[n] = a}
      w == do_munmap(k, p, a, 1) IN
  /\ "shm" \in menu.ops /\ Live(p) /\ i # 0 /\ k.p[p].vma[i].shm /\ k.p[p].vma[i].s = a
  /\ Handled("shm_same", Cardinality(mine) > 1)
  /\ k' = [w EXCEPT !.seg.att = [n \in DOMAIN @ |-> IF n \in mine THEN 0 ELSE @[n]], !.seg.nattch = @ - Cardinality(mine),
                    !.p[p].st = IF Cardinality(mine) > 1 THEN "loop" ELSE @]

(* The table of the pages goes, the pages do not: nobody releases them any  *)
(* more (leaked). A segment marked SHM_DEST stays after its last detach,    *)
(* until it is removed again.                                               *)
free_seg(v) ==
  LET w == release_page(v, v.seg.tab) IN
  [(IF v.seg.atab = 0 THEN w ELSE release_page(w, v.seg.atab)) EXCEPT !.seg = NoSeg, !.leaked = @ \cup (Range(v.seg.pages) \ {0})]
ShmRmid ==
  /\ "rmid" \in menu.ops /\ k.seg.used
  /\ k' = IF k.seg.nattch = 0 THEN free_seg(k) ELSE [k EXCEPT !.seg.dest = TRUE]

-----------------------------------------------------------------------------
(* Small kernel objects *)

Kmalloc(level) == level \in menu.small /\ k' = bl_malloc(k, level)
Kfree(b) == k' = bl_free(k, b)

-----------------------------------------------------------------------------
Contents == [f \in Inode |-> [o \in Offset |-> 10 * f + o]]
Boot ==
  page_init @@ buddy_low_init @@
  [eio |-> FALSE, file |-> Contents, lf |-> Contents, size |-> [f \in Inode |-> FilePages], refs |-> [f \in Inode |-> 0],
   p |-> [q \in Proc |-> NoProc], seg |-> NoSeg, leaked |-> {}, mem |-> [q \in Proc |-> [a \in Addr |-> Fresh]]]

(* init has its directory and its kernel stack and has executed a program *)
Started(ino) ==
  LET dir == get_free_page(Boot)
      esp0 == get_free_page(dir.v) IN
  do_execve([esp0.v EXCEPT !.p[1].st = "run", !.p[1].dir = dir.g, !.p[1].esp0 = esp0.g], 1, ino).v

Init == menu \in Menus /\ left = menu.calls /\ k = Started(menu.image)

(* Every behaviour has the menu's number of calls *)
Call == left > 0 /\ left' = left - 1 /\ UNCHANGED menu

ProcessCall(p) ==
  \/ \E c \in Proc : Fork(p, c) /\ Call
  \/ Exit(p) /\ Call
  \/ Wait(p) /\ Call
  \/ \E ino \in DOMAIN Image : sys_execve(p, ino) /\ Call
  \/ \E q \in menu.maps : sys_mmap(p, q) /\ Call
  \/ \E u \in menu.unmaps : sys_munmap(p, u[1], u[2]) /\ Call
  \/ \E m \in menu.prots : sys_mprotect(p, m[1], m[2], m[3]) /\ Call
  \/ \E b \in menu.brks : sys_brk(p, b) /\ Call
  \/ \E a \in menu.loads \cup menu.stores, write, grow, eio \in BOOLEAN : Fault(p, a, write, grow, eio) /\ Call
  \/ \E a \in menu.stores, x \in menu.values : Store(p, a, x) /\ Call
  \/ \E a \in menu.shmaddr : sys_shmat(p, a) /\ Call
  \/ \E a \in Addr : sys_shmdt(p, a) /\ Call

KernelCall ==
  \/ \E f \in Inode, o \in Offset : Read(f, o) /\ Call
  \/ \E f \in Inode, o \in Offset, x \in menu.values : Write(f, o, x) /\ Call
  \/ \E f \in Inode : Truncate(f) /\ Call
  \/ \E f \in Inode : ifree(f) /\ Call
  \/ sys_shmget /\ Call
  \/ ShmRmid /\ Call
  \/ \E l \in menu.small : Kmalloc(l) /\ Call
  \/ \E b \in k.small : Kfree(b) /\ Call

Next == (\E p \in Proc : ProcessCall(p)) \/ KernelCall
Spec == Init /\ [][Next]_vars

-----------------------------------------------------------------------------
Regions(p) == k.p[p].vma
LiveProcs == {p \in Proc : k.p[p].st \in {"run", "segv"}}
Mapped(p) == {a \in Addr : k.p[p].pte[a].pg # 0}
RegionAt(p, a) == Regions(p)[find_vma_region(k, p, a)]

(* insert_vma_region() cuts, merges and splits so that the regions of a     *)
(* process are sorted and disjoint, and every page in its page table lies   *)
(* in one of them, so that it is found when the region goes.                *)
RegionsDisjoint ==
  \A p \in LiveProcs :
    /\ \A i \in DOMAIN Regions(p) :
         /\ Regions(p)[i].s < Regions(p)[i].e
         /\ i > 1 => Regions(p)[i - 1].e <= Regions(p)[i].s
    /\ \A a \in Mapped(p) : find_vma_region(k, p, a) # 0

(* What a process finds in memory: in a private page what it or, before a   *)
(* fork, its parent last stored, never another's store (copy-on-write); in  *)
(* a shared or read-only page of a file the content of the file, which      *)
(* read() finds in the same page; in a segment the page all attached share. *)
MemoryIntact ==
  /\ \A p \in LiveProcs, a \in Addr :
       LET g == k.p[p].pte[a].pg
           r == RegionAt(p, a) IN
       g # 0 /\ find_vma_region(k, p, a) # 0 =>
         IF r.shm THEN g = k.seg.pages[a - r.s]
         ELSE IF r.ino # 0 /\ (r.sh \/ r.prot # "rw") THEN k.pg[g].data = k.lf[r.ino][a - r.s + r.off]
         ELSE k.pg[g].data = k.mem[p][a]
  /\ \A g \in k.hash : k.pg[g].key[2] < k.size[k.pg[g].key[1]] => k.pg[g].data = k.lf[k.pg[g].key[1]][k.pg[g].key[2]]

(* Everything is accounted for. The count of a page is the number of its    *)
(* users: page table entries of all processes, a page table, directory or   *)
(* kernel stack, the segment, the buddy allocator. The free list holds each *)
(* page of count 0 once, so that none is allotted while somebody uses it,   *)
(* and the pages of removed segments (free_seg()) are the only ones lost. A *)
(* file or a segment is referenced once for each region that maps it, so    *)
(* that it is not freed under a mapping, and a file not kept after the last *)
(* one (a segment is, see ShmRmid). The blocks of a page of the buddy       *)
(* allocator, in use or in a free list, tile it, and no two free halves of  *)
(* a block stay apart.                                                      *)
Users(g) ==
  Cardinality({<<p, a>> \in Proc \X Addr : k.p[p].pte[a].pg = g})
  + Cardinality({<<p, f>> \in Proc \X {"pt", "dir", "esp0"} : k.p[p][f] = g})
  + Cardinality({f \in {"tab", "atab"} : k.seg[f] = g}) + Cardinality({x \in DOMAIN k.seg.pages : k.seg.pages[x] = g})
  + (IF k.pg[g].buddy THEN 1 ELSE 0) + (IF g \in k.leaked THEN 1 ELSE 0)
PagesCounted ==
  /\ \A g \in Pages : k.pg[g].count = Users(g)
  /\ Range(k.free) = {g \in Pages : k.pg[g].count = 0} /\ Len(k.free) = Cardinality(Range(k.free))

Uses(R(_)) == Cardinality({<<p, i>> \in Proc \X (1 .. 9) : i <= Len(Regions(p)) /\ R(Regions(p)[i])})
ReferencesHeld ==
  /\ \A f \in Inode : k.refs[f] = Uses(LAMBDA r : r.ino = f)
  /\ k.seg.nattch = Uses(LAMBDA r : r.shm) /\ k.seg.nattch = Cardinality({n \in DOMAIN k.seg.att : k.seg.att[n] # 0})

FreeBlocks == UNION {Range(k.freelist[l]) : l \in DOMAIN k.freelist}
BlocksTile ==
  /\ \A g \in Pages, u \in 0 .. 2^BUDDY_MAX_LEVEL - 1 :
       Cardinality({b \in k.small \cup FreeBlocks : b.pg = g /\ b.off <= u /\ u < b.off + 2^b.level})
         = IF k.pg[g].buddy THEN 1 ELSE 0
  /\ \A b \in FreeBlocks : get_buddy(b) \notin FreeBlocks

MemoryAccounted == PagesCounted /\ ReferencesHeld /\ BlocksTile
=============================================================================
