------------------------- MODULE BufferCacheProofs -------------------------
(***************************************************************************)
(* The two steps that search or filter a list, which need induction, keep  *)
(* the invariant of the buffer cache.  With the steps of BufferCacheSteps  *)
(* and BufferReclaimSteps this is all: BuffersAccounted always holds.      *)
(***************************************************************************)
EXTENDS BufferCache, BufferCacheSteps, BufferReclaimSteps, WellFoundedInduction

\* Induction: a set with 0 and with the successor of each of its numbers
\* has all of them.
LEMMA SetInduction ==
    ASSUME NEW T, 0 \in T, \A n \in Nat : n \in T => n + 1 \in T
    PROVE  Nat \subseteq T
<1> SUFFICES ASSUME Nat \ T # {} PROVE FALSE
  BY Zenon
<1>1. PICK x \in Nat \ T : \A y \in Nat \ T : ~(<<y, x>> \in OpToRel(<, Nat))
  <2>1. IsWellFoundedOn(OpToRel(<, Nat), Nat)
    BY Zenon, NatLessThanWellFounded
  <2> HIDE DEF OpToRel
  <2> QED BY Zenon, <2>1, WFMin
<1>2. \A y \in Nat \ T : ~(y < x)
  BY Zenon, <1>1 DEF OpToRel
<1>3. x # 0 /\ x - 1 \in Nat
  OBVIOUS
<1>4. x - 1 \in T
  BY <1>2, <1>3
<1> QED BY SMTT(30), <1>3, <1>4

\* A set of numbers that is not empty has a least one.
LEMMA HasMin ==
    ASSUME NEW T \in SUBSET Nat, T # {}
    PROVE  \E x \in T : \A y \in T : x <= y
<1>1. PICK x \in T : \A y \in T : ~(<<y, x>> \in OpToRel(<, Nat))
  <2>1. IsWellFoundedOn(OpToRel(<, Nat), Nat)
    BY ZenonT(40), NatLessThanWellFounded
  <2> HIDE DEF OpToRel
  <2> QED BY Zenon, <2>1, WFMin
<1>2. ASSUME NEW y \in T PROVE x <= y
  <2>1. x \in Nat /\ y \in Nat
    BY Zenon
  <2>2. ~(y < x)
    BY Zenon, <1>1, <2>1 DEF OpToRel
  <2> QED BY SMTT(30), <2>1, <2>2
<1> QED BY Zenon, <1>2


\* The recursive function of Without() exists, and its values are lists of
\* what has been passed so far.
LEMMA ListWithout ==
    ASSUME NEW S, NEW s \in Seq(S), IsInjective(s), NEW X
    PROVE  /\ Without(s, X) \in Seq(S) /\ IsInjective(Without(s, X))
           /\ Range(Without(s, X)) = Range(s) \ X
<1> DEFINE Step(f, n) == IF n = 0 THEN <<>>
                         ELSE IF s[n] \in X THEN f[n - 1] ELSE Append(f[n - 1], s[n])
           Is(f, m) == f = [n \in 0..m |-> Step(f, n)]
           T == {m \in Nat : \E f : Is(f, m)}
<1>1. Nat \subseteq T
  <2>1. 0 \in T
    <3> DEFINE f == [n \in 0..0 |-> <<>>]
    <3>1. Is(f, 0)
      OBVIOUS
    <3> QED BY Zenon, <3>1
  <2>2. ASSUME NEW m \in Nat, m \in T PROVE m + 1 \in T
    <3>1. PICK f : Is(f, m)
      BY ZenonT(40), <2>2
    <3> DEFINE g == [n \in 0..(m + 1) |-> IF n <= m THEN f[n] ELSE
                        IF s[m + 1] \in X THEN f[m] ELSE Append(f[m], s[m + 1])]
    <3>2. ASSUME NEW n \in 0..(m + 1) PROVE g[n] = Step(g, n)
      <4>1. CASE n = 0
        BY SMTT(30), <3>1, <4>1
      <4>2. CASE n \in 1..m
        <5>1. f[n] = Step(f, n)
          <6> HIDE DEF Step
          <6>1. n \in 0..m
            BY <4>2
          <6> QED BY Zenon, <3>1, <6>1
        <5>2. g[n] = f[n] /\ g[n - 1] = f[n - 1]
          BY <4>2
        <5> QED BY Zenon, <4>2, <5>1, <5>2
      <4>3. CASE n = m + 1
        BY SMTT(30), <4>3
      <4> QED BY <4>1, <4>2, <4>3
    <3>3. Is(g, m + 1)
      BY Zenon, <3>2
    <3> HIDE DEF g, Is
    <3>4. \E h : Is(h, m + 1)
      BY Zenon, <3>3
    <3> QED BY <3>4
  <2> HIDE DEF T
  <2> QED BY Zenon, <2>1, <2>2, SetInduction
<1>2. PICK N \in Nat : N = Len(s) /\ DOMAIN s = 1..N /\ \A n \in 1..N : s[n] \in S
  BY SMTT(30)
<1> DEFINE keep == CHOOSE f : Is(f, N)
<1>3. Is(keep, N) /\ Without(s, X) = keep[N]
  <2>1. \E f : Is(f, N)
    BY Zenon, <1>1
  <2>2. Is(keep, N)
    BY Zenon, <2>1
  <2>3. Without(s, X) = keep[N]
    BY Zenon, <1>2 DEF Without
  <2> QED BY ZenonT(40), <2>2, <2>3
<1>4. \A n \in 0..N : keep[n] = Step(keep, n)
  BY Zenon, <1>3
<1> HIDE DEF keep, Is, T
<1> DEFINE Passed(n) == {s[i] : i \in 1..n} \ X
           Good(n) == /\ keep[n] \in Seq(S) /\ IsInjective(keep[n])
                      /\ Range(keep[n]) = Passed(n)
           G == {n \in Nat : n <= N => Good(n)}
<1>5. Nat \subseteq G
  <2>1. 0 \in G
    <3>1. keep[0] = <<>> /\ Passed(0) = {}
      BY <1>4
    <3> QED BY Zenon, <3>1, ListEmpty
  <2>2. ASSUME NEW n \in Nat, n \in G PROVE n + 1 \in G
    <3> SUFFICES ASSUME n + 1 <= N PROVE Good(n + 1)
      BY SMTT(30)
    <3>1. Good(n) /\ n + 1 \in 1..N /\ s[n + 1] \in S
      BY SMTT(30), <1>2, <2>2
    <3>2. keep[n + 1] = IF s[n + 1] \in X THEN keep[n] ELSE Append(keep[n], s[n + 1])
      BY SMTT(30), <1>4, <3>1
    <3>3. Passed(n + 1) = IF s[n + 1] \in X THEN Passed(n) ELSE Passed(n) \cup {s[n + 1]}
      BY SMTT(30)
    <3>4. s[n + 1] \notin Passed(n)
      BY SMTT(30), <1>2, <3>1 DEF IsInjective
    <3>5. CASE s[n + 1] \in X
      BY Zenon, <3>1, <3>2, <3>3, <3>5
    <3>6. CASE s[n + 1] \notin X
      <4>1. /\ Append(keep[n], s[n + 1]) \in Seq(S)
            /\ IsInjective(Append(keep[n], s[n + 1]))
            /\ Range(Append(keep[n], s[n + 1])) = Range(keep[n]) \cup {s[n + 1]}
        BY SMTT(30), <3>1, <3>4, ListAppend
      <4> QED BY Zenon, <3>1, <3>2, <3>3, <3>6, <4>1
    <3> QED BY Zenon, <3>5, <3>6
  <2> HIDE DEF G
  <2> QED BY Zenon, <2>1, <2>2, SetInduction
<1>6. Good(N)
  <2>1. N \in G
    <3> HIDE DEF G
    <3> QED BY Zenon, <1>5
  <2> HIDE DEF Good
  <2> QED BY <2>1
<1>7. Passed(N) = Range(s) \ X
  BY Zenon, <1>2 DEF Range
<1> QED BY Zenon, <1>3, <1>6, <1>7

\* invalidate_buffers() takes a set of buffers from the hash table.
LEMMA InvalidateView ==
    ASSUME NEW c, NEW S, NEW m \in SUBSET Bufs,
           NEW F, NEW D, NEW H, NEW L, NEW W, NEW P, View(c, F, D, H, L, W, P)
    PROVE  View([c EXCEPT !.hash = Without(@, S), !.fresh = m,
                          !.flags = [b \in Bufs |-> IF b \in S THEN @[b] \ {"VALID"} ELSE @[b]]],
                F, D, H \ S, L, W, P)
<1>1. CacheOK(c) /\ c \in CacheType
  BY Zenon DEF View, CacheOK
<1>2. PICK fl \in [Bufs -> SUBSET {"LOCKED", "DIRTY", "VALID"}] :
          fl = [x \in Bufs |-> IF x \in S THEN c.flags[x] \ {"VALID"} ELSE c.flags[x]]
  BY Zenon, <1>1 DEF CacheType
<1>3. c.hash \in Seq(Bufs) /\ IsInjective(c.hash)
  BY Zenon, <1>1, ListsOK
<1>4. PICK u : /\ u = Without(c.hash, S) /\ u \in Seq(Bufs) /\ IsInjective(u)
               /\ Range(u) = Range(c.hash) \ S
  BY ZenonT(40), <1>3, ListWithout
<1>5. PICK d : d = [c EXCEPT !.hash = u, !.fresh = m, !.flags = fl]
  BY Zenon
<1>6. [c EXCEPT !.hash = Without(@, S), !.fresh = m,
                !.flags = [b \in Bufs |-> IF b \in S THEN @[b] \ {"VALID"} ELSE @[b]]] = d
  BY Zenon, <1>1, <1>2, <1>4, <1>5 DEF CacheType
<1>7. u \in Seq(Bufs) /\ IsInjective(u) /\ Range(u) = Range(c.hash) \ S
  BY Zenon, <1>4
<1>8. /\ CacheOK(d) /\ d.free = c.free /\ d.dirty = c.dirty /\ d.hash = u
      /\ d.pool = c.pool /\ d.flags = fl
  BY ZenonT(40), <1>1, <1>5, <1>7 DEF CacheOK, CacheType
<1>9. /\ Flagged(d, "LOCKED") = Flagged(c, "LOCKED")
      /\ Flagged(d, "DIRTY") = Flagged(c, "DIRTY")
  BY <1>1, <1>2, <1>8 DEF Flagged, Has, CacheType
<1>10. View(d, F, D, H \ S, L, W, P)
  BY Zenon, <1>7, <1>8, <1>9 DEF View
<1> QED BY Zenon, <1>6, <1>10

\* sync_buffers() is done; invalidate_buffers() empties the hash table of the
\* device's unlocked buffers.
LEMMA SyncedKeeps ==
    ASSUME IInv, NEW p \in Syncers, NEW inv \in BOOLEAN, Synced(p, inv)
    PROVE  IInv'
<1>1. /\ pc[p] = "synced" /\ UNCHANGED <<buf, want, held, todo>>
      /\ pc' = [pc EXCEPT ![p] = "out"]
  BY Zenon DEF Synced, At, Leave, reclaimvars
<1>2. /\ p \in Procs /\ p # kswapd
      /\ (buf[p] # NULL <=> "out" \in Taken) /\ "out" \in Labels
  BY ZenonT(40), <1>1, WriterHas, Facts DEF Taken, Labels
<1>3. CASE inv /\ dev # NULL
  <2>1. PICK S : S = Invalid(dev)
    BY Zenon
  <2>2. PICK m \in SUBSET Bufs : m = {b \in cache.fresh : b \notin S \/ Has(cache, b, "DIRTY")}
    BY ZenonT(40) DEF IInv, TypeOK, CacheOK, CacheType
  <2>3. cache' = [cache EXCEPT !.hash = Without(@, S), !.fresh = m,
                    !.flags = [b \in Bufs |-> IF b \in S THEN @[b] \ {"VALID"} ELSE @[b]]]
    <3>1. cache \in CacheType
      BY Zenon DEF IInv, TypeOK, CacheOK
    <3> QED BY ZenonT(40), <1>3, <2>1, <2>2, <3>1 DEF Synced, CacheType
  <2>4. View(cache', Free, Dirty, Range(cache.hash) \ S, Locked, ToWrite, cache.pool)
    BY ZenonT(40), <2>3, Facts, InvalidateView
  <2>5. Range(cache.hash) \ S \in SUBSET cache.pool
    BY Zenon, Facts
  <2> QED BY ZenonT(40), <1>1, <1>2, <2>4, <2>5, Facts, MoveKeeps DEF Moves
<1>4. CASE ~(inv /\ dev # NULL)
  <2>1. cache' = cache
    BY Zenon, <1>4 DEF Synced
  <2> QED BY ZenonT(40), <1>1, <1>2, <2>1, Facts, IdleKeeps
<1> QED BY Zenon, <1>3, <1>4

\* What getblk() finds in the hash table is a buffer of it.
LEMMA SearchFound ==
    ASSUME TypeOK, NEW k, search_buffer_hash(cache, k) # NULL
    PROVE  search_buffer_hash(cache, k) \in Range(cache.hash)
<1> DEFINE hits == {i \in DOMAIN cache.hash : cache.blk[cache.hash[i]] = k}
           newest == CHOOSE i \in hits : \A j \in hits : i <= j
<1>1. search_buffer_hash(cache, k) = IF hits = {} THEN NULL ELSE cache.hash[newest]
  BY Zenon DEF search_buffer_hash
<1>2. hits # {}
  BY Zenon, <1>1
<1>3. hits \in SUBSET Nat
  <2>1. cache.hash \in Seq(Bufs)
    BY ZenonT(40), ListsOK DEF TypeOK
  <2>2. DOMAIN cache.hash = 1 .. Len(cache.hash)
    BY SMTT(30), <2>1
  <2> QED BY SMTT(30), <2>2
<1>4. newest \in hits
  <2> HIDE DEF hits
  <2>1. \E i \in hits : \A j \in hits : i <= j
    BY Zenon, <1>2, <1>3, HasMin
  <2> QED BY Zenon, <2>1
<1> QED BY ZenonT(40), <1>1, <1>2, <1>4 DEF Range

\* getblk() finds the block in the hash table: it locks the buffer, or sleeps
\* on it.
LEMMA GetblkHitKeeps ==
    ASSUME IInv, NEW p \in Clients, GetblkHit(p)
    PROVE  IInv'
<1> DEFINE b == search_buffer_hash(cache, want[p])
<1>0. View(cache, Free, Dirty, Range(cache.hash), Locked, ToWrite, cache.pool)
  BY ZenonT(40), Facts
<1>1. /\ p \in Procs /\ p # kswapd /\ pc[p] = "getblk" /\ b # NULL
      /\ UNCHANGED <<want, held, todo>>
  BY ZenonT(40), Procs4 DEF GetblkHit, At, reclaimvars, clientvars
<1>2. buf[p] = NULL /\ b \in cache.pool /\ b \in Bufs
  BY ZenonT(40), <1>1, Facts, SearchFound DEF Taken
<1>3. CASE Has(cache, b, "LOCKED")
  <2>1. pc' = [pc EXCEPT ![p] = "getblk"] /\ UNCHANGED <<cache, buf>>
    BY Zenon, <1>3 DEF GetblkHit, SleepOn, Leave
  <2>2. (buf[p] # NULL <=> "getblk" \in Taken) /\ "getblk" \in Labels
    BY Zenon, <1>2 DEF Taken, Labels
  <2> QED BY ZenonT(40), <1>1, <2>1, <2>2, IdleKeeps, Facts
<1>4. CASE ~Has(cache, b, "LOCKED")
  <2>1. /\ cache' = remove_from_free_list(SetFlag(cache, b, "LOCKED"), b)
        /\ buf' = [buf EXCEPT ![p] = b] /\ pc' = [pc EXCEPT ![p] = "bread"]
    BY Zenon, <1>4 DEF GetblkHit, Goto
  <2> HIDE DEF b
  <2>2. b \notin Locked
    BY Zenon, <1>4 DEF Locked, Flagged
  <2>3. View(SetFlag(cache, b, "LOCKED"), Free, Dirty, Range(cache.hash), Locked \cup {b},
             ToWrite, cache.pool)
    BY ZenonT(40), <1>2, <1>0, LockView
  <2>4. View(cache', Free \ {b}, Dirty, Range(cache.hash), Locked \cup {b}, ToWrite, cache.pool)
    BY ZenonT(40), <1>2, <2>1, <2>3, UnfreeView
  <2>5. "bread" \in Plain /\ "bread" \in Labels
    BY Zenon DEF Taken, Freeing, Plain, Labels
  <2> QED BY ZenonT(40), <1>1, <1>2, <2>1, <2>2, <2>4, <2>5, TakeKeeps DEF Takes
<1> QED BY Zenon, <1>3, <1>4

----------------------------------------------------------------------------
\* The empty cache.
LEMMA InitIInv ==
    ASSUME Init
    PROVE  IInv
<1>1. /\ cache = EmptyCache /\ todo = <<>> /\ buf = [p \in Procs |-> NULL]
      /\ held = [p \in Clients |-> {}] /\ want = [p \in Clients |-> NULL]
  BY Zenon DEF Init
<1>2. /\ cache.free = <<>> /\ cache.dirty = <<>> /\ cache.hash = <<>> /\ cache.pool = {}
      /\ cache.flags = [b \in Bufs |-> {}] /\ cache \in CacheType
  <2>1. /\ <<>> \in Seq(Bufs) /\ {} \in SUBSET Bufs
        /\ [b \in Bufs |-> NULL] \in [Bufs -> Blocks \cup {NULL}]
        /\ [b \in Bufs |-> {}] \in [Bufs -> SUBSET {"LOCKED", "DIRTY", "VALID"}]
    BY SMTT(30)
  <2>2. EmptyCache \in CacheType
    BY Zenon, <2>1 DEF EmptyCache, CacheType
  <2>3. /\ EmptyCache.free = <<>> /\ EmptyCache.dirty = <<>> /\ EmptyCache.hash = <<>>
        /\ EmptyCache.pool = {} /\ EmptyCache.flags = [b \in Bufs |-> {}]
    BY Zenon DEF EmptyCache
  <2> QED BY ZenonT(40), <1>1, <2>2, <2>3
<1>3. \A S : <<>> \in Seq(S) /\ Range(<<>>) = {} /\ IsInjective(<<>>)
  BY SMTT(30) DEF Range, IsInjective
<1>4. Free = {} /\ Dirty = {} /\ Range(cache.hash) = {} /\ Range(todo) = {}
  BY ZenonT(40), <1>1, <1>2, <1>3 DEF Free, Dirty
<1>5. Locked = {} /\ ToWrite = {}
  BY ZenonT(40), <1>2 DEF Locked, ToWrite, Flagged, Has
<1>6. kswapd \in Procs /\ Clients \subseteq Procs
  BY Zenon, Procs4
<1>7. \A p \in Procs : /\ pc[p] \in Labels /\ pc[p] \notin Taken
                       /\ pc[p] \notin Freeing \cup {"siblings", "sibsync"}
  <2>1. \A p \in Procs : pc[p] \in {"flush", "reclaim", "out"}
    BY Zenon DEF Init
  <2> QED BY Zenon, <2>1 DEF Labels, Taken, Freeing
<1>8. TypeOK
  <2>1. pc \in [Procs -> Labels]
    <3>1. pc = [p \in Procs |-> pc[p]]
      BY SMTT(30) DEF Init
    <3> QED BY Zenon, <1>7, <3>1
  <2>2. CacheOK(cache)
    BY Zenon, <1>2, <1>3 DEF CacheOK
  <2> QED BY Zenon, <1>1, <1>3, <2>1, <2>2 DEF TypeOK
<1>9. \A p \in Procs : Owned(p) = {}
  BY Zenon, <1>1, <1>4 DEF Owned
<1>10. OwnersOK
  BY Zenon, <1>5, <1>9 DEF OwnersOK
<1>11. PlacesOK
  BY Zenon, <1>1, <1>4, <1>6, <1>7 DEF PlacesOK
<1>12. InPool /\ FreeOK
  BY Zenon, <1>1, <1>2, <1>4, <1>5, <1>6, <1>9 DEF InPool, FreeOK
<1>13. DirtyOK
  BY Zenon, <1>1, <1>4, <1>5, Procs4 DEF DirtyOK
<1>14. PagesOK
  BY Zenon, <1>1, <1>2, <1>4, <1>6, <1>7 DEF PagesOK
<1> QED BY Zenon, <1>8, <1>10, <1>11, <1>12, <1>13, <1>14 DEF IInv

\* Steps that change nothing.
LEMMA StutterKeeps ==
    ASSUME IInv, UNCHANGED vars
    PROVE  IInv'
<1>1. UNCHANGED <<cache, pc, buf, held, want, todo>>
  BY Zenon DEF vars, clientvars, reclaimvars
<1>2. \A p \in Procs : Owned(p)' = Owned(p)
  BY Zenon, <1>1 DEF Owned
<1>3. /\ Free' = Free /\ Dirty' = Dirty /\ Locked' = Locked /\ ToWrite' = ToWrite
  BY Zenon, <1>1 DEF Free, Dirty, Locked, ToWrite
<1>4. TypeOK' /\ PlacesOK' /\ InPool' /\ PagesOK'
  BY ZenonT(40), <1>1, <1>3 DEF IInv, TypeOK, PlacesOK, InPool, PagesOK
<1>5. OwnersOK' /\ FreeOK' /\ DirtyOK'
  BY SMTT(30), <1>1, <1>2, <1>3, Procs4 DEF IInv, OwnersOK, FreeOK, DirtyOK
<1> QED BY Zenon, <1>4, <1>5 DEF IInv

\* Every step of every process keeps the invariant.
LEMMA StepKeeps ==
    ASSUME IInv, kswapd \notin FailingWriters, [Next]_vars
    PROVE  IInv'
<1>1. ASSUME NEW p \in Clients, ClientStep(p) PROVE IInv'
  <2>1. "gotfree" \in Labels /\ "gotfree" \in Plain /\ p \in Clients \cup {kswapd}
    BY Zenon DEF Labels, Plain, Taken, Freeing
  <2>2. CASE GetFree(p, "gotfree")
    BY Zenon, <2>1, <2>2, GetFreeKeeps
  <2>3. CASE \E k \in Blocks : bread(p, k)
    BY Zenon, <2>3, BreadKeeps
  <2>4. CASE GetblkHit(p) \/ GetblkMiss(p) \/ GetFreeNone(p) \/ GotFree(p) \/ BreadBuffer(p)
    BY Zenon, <2>4, GetblkHitKeeps, GetblkMissKeeps, GetFreeNoneKeeps, GotFreeKeeps, BreadBufferKeeps
  <2>5. CASE \E ok \in BOOLEAN : SyncFreeDone(p, ok) \/ ReadDone(p, ok)
    BY Zenon, <2>5, SyncFreeDoneKeeps, ReadDoneKeeps
  <2>6. CASE \E b \in held[p] : Brelse(p, b) \/ bwrite(p, b)
    BY Zenon, <2>6, BrelseKeeps
  <2> QED BY ZenonT(40), <1>1, <2>2, <2>3, <2>4, <2>5, <2>6 DEF ClientStep
<1>2. ASSUME NEW p \in Syncers, SyncStep(p) PROVE IInv'
  <2>1. p \in Syncers \cup {kbdflushd}
    BY Zenon
  <2>2. CASE \E d \in SyncDevs : sync_buffers(p, d)
    BY Zenon, <2>1, <2>2, SyncBeginKeeps
  <2>3. CASE get_dirty_buffer(p)
    BY Zenon, <2>1, <2>3, GetDirtyKeeps
  <2>4. CASE SyncGot(p)
    BY Zenon, <2>4, SyncGotKeeps
  <2>5. CASE \E ok \in BOOLEAN : SyncDone(p, ok) \/ Synced(p, ok)
    BY Zenon, <2>5, SyncDoneKeeps, SyncedKeeps
  <2> QED BY Zenon, <1>2, <2>2, <2>3, <2>4, <2>5 DEF SyncStep
<1>3. ASSUME FlushStep PROVE IInv'
  <2>1. kbdflushd \in Syncers \cup {kbdflushd}
    BY Zenon
  <2>2. CASE FlushBegin
    BY Zenon, <2>1, <2>2, SyncBeginKeeps
  <2>3. CASE get_dirty_buffer(kbdflushd)
    BY Zenon, <2>1, <2>3, GetDirtyKeeps
  <2>4. CASE FlushGot \/ \E ok \in BOOLEAN : FlushDone(ok)
    BY Zenon, <2>4, FlushGotKeeps, FlushDoneKeeps
  <2> QED BY Zenon, <1>3, <2>2, <2>3, <2>4 DEF FlushStep
<1>4. ASSUME ReclaimStep PROVE IInv'
  <2>1. "rgot" \in Labels /\ "rgot" \in Plain /\ kswapd \in Clients \cup {kswapd}
    BY Zenon DEF Labels, Plain, Taken, Freeing
  <2>2. CASE GetFree(kswapd, "rgot")
    BY Zenon, <2>1, <2>2, GetFreeKeeps
  <2>3. CASE MemoryLow \/ (\E same \in BOOLEAN : ReclaimBegin(same)) \/ ReclaimNone
    BY Zenon, <2>3, ReclaimMoveKeeps
  <2>4. CASE ReclaimGot \/ \E ok \in BOOLEAN : ReclaimSynced(ok)
    BY Zenon, <2>4, ReclaimGotKeeps, ReclaimSyncedKeeps
  <2>5. CASE ReclaimSibling \/ \E ok \in BOOLEAN : SiblingSynced(ok)
    BY Zenon, <2>5, ReclaimSiblingKeeps
  <2>6. CASE reclaim_siblings \/ Reclaimed
    BY Zenon, <2>6, SiblingsKeeps, ReclaimedKeeps
  <2> QED BY Zenon, <1>4, <2>2, <2>3, <2>4, <2>5, <2>6 DEF ReclaimStep
<1>5. CASE UNCHANGED vars
  BY Zenon, <1>5, StutterKeeps
<1> QED BY Zenon, <1>1, <1>2, <1>3, <1>4, <1>5 DEF Next

\* The invariant says what was asked.
LEMMA IInvAccounts ==
    ASSUME IInv
    PROVE  BuffersAccounted
<1>1. UNION {Owned(p) : p \in Procs} = {b \in Bufs : Has(cache, b, "LOCKED")}
  <2>1. \A p \in Procs : Owned(p) \subseteq Bufs
    BY Zenon, OwnedIs DEF IInv
  <2>2. \A b \in Bufs : Has(cache, b, "LOCKED") <=> \E p \in Procs : b \in Owned(p)
    BY Zenon DEF IInv, OwnersOK, Locked, Flagged
  <2> QED BY Zenon, <2>1, <2>2
<1>2. \A p \in Clients : Owned(p) \cap Range(cache.free) = {}
  BY Zenon DEF IInv, FreeOK, Free
<1>3. \A b \in cache.pool :
          /\ Has(cache, b, "LOCKED") \/ b \in Range(cache.free)
          /\ b \in Range(cache.dirty) => Has(cache, b, "DIRTY")
          /\ Has(cache, b, "DIRTY") /\ ~Has(cache, b, "LOCKED") =>
               b \in Range(cache.dirty)
  <2>1. cache.pool \subseteq Bufs
    BY Zenon, Facts
  <2>2. \A b \in Bufs : /\ Has(cache, b, "LOCKED") <=> b \in Locked
                        /\ Has(cache, b, "DIRTY") <=> b \in ToWrite
                        /\ b \in Range(cache.dirty) <=> b \in Dirty
                        /\ b \in Range(cache.free) <=> b \in Free
    BY Zenon DEF Locked, ToWrite, Flagged, Dirty, Free
  <2>3. \A b \in cache.pool : /\ b \in Locked \/ b \in Free
                              /\ b \in Dirty => b \in ToWrite
                              /\ b \in ToWrite /\ b \notin Locked => b \in Dirty
    BY Zenon DEF IInv, FreeOK, DirtyOK
  <2> QED BY Zenon, <2>1, <2>2, <2>3
<1> QED BY Zenon, <1>1, <1>2, <1>3 DEF BuffersAccounted, IInv, OwnersOK

\* In the buffer cache, owners, flags and lists agree.
THEOREM BuffersStayAccounted ==
    ASSUME kswapd \notin FailingWriters
    PROVE  Spec => []BuffersAccounted
<1>1. Init => IInv
  BY Zenon, InitIInv
<1>2. IInv /\ [Next]_vars => IInv'
  BY Zenon, StepKeeps
<1>3. IInv => BuffersAccounted
  BY IInvAccounts
<1> QED BY <1>1, <1>2, <1>3, PTL DEF Spec
=============================================================================
