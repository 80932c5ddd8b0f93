------------------------- MODULE BufferReclaimSteps -------------------------
(***************************************************************************)
(* The steps of kswapd, which frees the buffers of a page, keep the        *)
(* invariant of the buffer cache.                                          *)
(***************************************************************************)
EXTENDS BufferReclaim, BufferCacheInvariant

\* The other buffers of a page.
LEMMA SiblingsAre ==
    ASSUME NEW b \in Bufs
    PROVE  /\ SiblingsOf(b) \in Seq(Bufs) /\ IsInjective(SiblingsOf(b))
           /\ Range(SiblingsOf(b)) = ({b[1]} \X (1 .. PerPage)) \ {b}
           /\ \A x \in Range(SiblingsOf(b)) : x \in Bufs /\ x[1] = b[1]
<1>1. PICK g \in Pages : g = b[1]
  BY Zenon DEF Bufs
<1>2. PICK N \in Nat : N = PerPage
  BY Zenon, BufferTableAssumption
<1>3. PICK s : s = [n \in 1 .. N |-> <<g, n>>]
  BY Zenon
<1>4. s \in Seq(Bufs) /\ DOMAIN s = 1 .. N /\ \A n \in 1 .. N : s[n] = <<g, n>>
  <2>1. \A n \in 1 .. N : <<g, n>> \in Bufs
    BY Zenon, <1>2 DEF Bufs
  <2> QED BY <1>3, <2>1
<1>5. IsInjective(s)
  <2>1. \A m, n \in 1 .. N : <<g, m>> = <<g, n>> => m = n
    BY Zenon
  <2> QED BY Zenon, <1>4, <2>1 DEF IsInjective
<1>6. Range(s) = {g} \X (1 .. PerPage)
  <2>1. ASSUME NEW x \in Range(s) PROVE x \in {g} \X (1 .. N)
    <3>1. PICK n \in 1 .. N : x = <<g, n>>
      BY Zenon, <1>4 DEF Range
    <3> QED BY Zenon, <3>1
  <2>2. ASSUME NEW x \in {g} \X (1 .. N) PROVE x \in Range(s)
    <3>1. PICK n \in 1 .. N : x = <<g, n>>
      OBVIOUS
    <3>2. n \in DOMAIN s /\ s[n] = x
      BY Zenon, <1>4, <3>1
    <3> QED BY Zenon, <3>2 DEF Range
  <2> QED BY Zenon, <1>2, <2>1, <2>2
<1>7. SiblingsOf(b) = Unlink(s, b)
  BY Zenon, <1>1, <1>2, <1>3 DEF SiblingsOf
<1>8. s \in Seq(Bufs)
  BY Zenon, <1>4
<1>9. /\ Unlink(s, b) \in Seq(Bufs) /\ IsInjective(Unlink(s, b))
      /\ Range(Unlink(s, b)) = Range(s) \ {b}
  BY Zenon, <1>5, <1>8, ListRemove
<1>10. \A x \in {g} \X (1 .. PerPage) : x \in Bufs /\ x[1] = g
  BY Zenon DEF Bufs
<1> QED BY Zenon, <1>1, <1>6, <1>7, <1>9, <1>10

\* What kswapd has.
LEMMA ReclaimerHas ==
    ASSUME IInv
    PROVE  /\ kswapd \in Procs /\ kswapd \notin Clients
           /\ Owned(kswapd) = Range(todo) \cup ({buf[kswapd]} \ {NULL})
           /\ buf[kswapd] # NULL => /\ buf[kswapd] \in Bufs /\ buf[kswapd] \notin Free
                                    /\ buf[kswapd] \in Locked /\ buf[kswapd] \in cache.pool
           /\ todo \in Seq(Bufs) /\ IsInjective(todo)
           /\ pc[kswapd] \notin Freeing => todo = <<>> /\ Range(todo) = {}
<1>1. kswapd \in Procs /\ kswapd \notin Clients
  BY Zenon, Procs4
<1>2. Owned(kswapd) = Range(todo) \cup ({buf[kswapd]} \ {NULL})
  BY Zenon, OwnedIs DEF IInv
<1>3. buf[kswapd] # NULL => buf[kswapd] \in Bufs /\ buf[kswapd] \in Owned(kswapd)
  BY Zenon, <1>1, Facts DEF Owned
<1>4. todo \in Seq(Bufs) /\ IsInjective(todo)
  BY Zenon DEF IInv, TypeOK
<1>5. pc[kswapd] \notin Freeing => todo = <<>> /\ Range(todo) = {}
  BY Zenon, <1>4, ListElements DEF IInv, PagesOK
<1> QED BY Zenon, <1>1, <1>2, <1>3, <1>4, <1>5 DEF IInv, FreeOK, OwnersOK, InPool

\* kswapd wakes up, begins a pass, or finds no buffer.
LEMMA ReclaimMoveKeeps ==
    ASSUME IInv, MemoryLow \/ (\E same \in BOOLEAN : ReclaimBegin(same)) \/ ReclaimNone
    PROVE  IInv'
<1>1. /\ UNCHANGED <<buf, want, held, todo>>
      /\ cache' = cache \/ cache' = [cache EXCEPT !.mark = {}]
      /\ \/ pc' = pc
         \/ /\ pc[kswapd] \in {"reclaim", "getfree"}
            /\ \/ pc' = [pc EXCEPT ![kswapd] = "getfree"]
               \/ pc' = [pc EXCEPT ![kswapd] = "reclaim"]
  <2>1. CASE MemoryLow
    BY Zenon, <2>1 DEF MemoryLow, clientvars, reclaimvars
  <2>2. CASE \E same \in BOOLEAN : ReclaimBegin(same)
    BY Zenon, <2>2 DEF ReclaimBegin, At, Goto, clientvars, reclaimvars
  <2>3. CASE ReclaimNone
    BY Zenon, <2>3 DEF ReclaimNone, NextPass, ReclaimEnd, At, Goto, Leave, clientvars
  <2> QED BY Zenon, <2>1, <2>2, <2>3
<1>2. PICK l \in Labels : /\ pc' = [pc EXCEPT ![kswapd] = l]
                          /\ buf[kswapd] # NULL <=> l \in Taken
                          /\ pc[kswapd] = l \/ l \notin Taken
                          /\ pc[kswapd] \in Freeing <=> l \in Freeing
  <2>1. CASE pc' = pc
    <3>1. pc' = [pc EXCEPT ![kswapd] = pc[kswapd]] /\ pc[kswapd] \in Labels
      BY Zenon, <2>1, ReclaimerHas DEF IInv, TypeOK
    <3> QED BY ZenonT(40), <3>1, ReclaimerHas, Facts
  <2>2. CASE /\ pc[kswapd] \in {"reclaim", "getfree"}
             /\ \/ pc' = [pc EXCEPT ![kswapd] = "getfree"]
                \/ pc' = [pc EXCEPT ![kswapd] = "reclaim"]
    <3>1. /\ "getfree" \in Labels /\ "getfree" \notin Taken /\ "getfree" \notin Freeing
          /\ "reclaim" \in Labels /\ "reclaim" \notin Taken /\ "reclaim" \notin Freeing
      BY Zenon DEF Labels, Taken, Freeing
    <3>2. buf[kswapd] = NULL /\ pc[kswapd] \notin Freeing
      BY ZenonT(40), <2>2, <3>1, ReclaimerHas, Facts
    <3> QED BY Zenon, <2>2, <3>1, <3>2
  <2> QED BY Zenon, <1>1, <2>1, <2>2
<1>3. View(cache', Free, Dirty, Range(cache.hash), Locked, ToWrite, cache.pool)
  <2>1. View(cache, Free, Dirty, Range(cache.hash), Locked, ToWrite, cache.pool)
    BY Zenon, Facts
  <2>2. {} \in SUBSET Bufs
    BY Zenon
  <2>3. View([cache EXCEPT !.mark = {}], Free, Dirty, Range(cache.hash), Locked, ToWrite, cache.pool)
    BY Zenon, <2>1, <2>2, MarkView
  <2> QED BY Zenon, <1>1, <2>1, <2>3
<1>4. /\ l \in Freeing \cup {"siblings"} => buf[kswapd] \notin ToWrite
      /\ l = "sibsync" => todo # <<>>
  <2>1. "siblings" \in Taken /\ "sibsync" \in Taken /\ Freeing \subseteq Taken
    BY Zenon DEF Taken, Freeing
  <2> QED BY Zenon, <1>2, <2>1 DEF IInv, PagesOK
<1> QED BY Zenon, <1>1, <1>2, <1>3, <1>4, Facts, ReclaimerHas, MoveKeeps DEF Moves

\* kswapd puts a buffer back at the end of the free list.
LEMMA PutBackKeeps ==
    ASSUME IInv, NEW b \in Bufs, buf[kswapd] = b, NEW m \in SUBSET Bufs,
           NEW l \in Labels, l \notin Taken, pc[kswapd] \notin Freeing,
           pc' = [pc EXCEPT ![kswapd] = l], buf' = [buf EXCEPT ![kswapd] = NULL],
           cache' = [PutBack(cache, b) EXCEPT !.mark = m], UNCHANGED <<want, held, todo>>
    PROVE  IInv'
<1>1. kswapd \in Procs /\ b \notin Free /\ todo = <<>> /\ b \in Owned(kswapd)
  BY Zenon, ReclaimerHas, Procs4 DEF Owned
<1>2. View(cache, Free, Dirty, Range(cache.hash), Locked, ToWrite, cache.pool)
  BY Zenon, Facts
<1>3. PICK c : c = PutBack(cache, b)
  BY Zenon
<1>4. View(c, Free \cup {b}, Dirty, Range(cache.hash), Locked \ {b}, ToWrite, cache.pool)
  BY Zenon, <1>1, <1>2, <1>3, PutBackView
<1>5. View(cache', Free \cup {b}, Dirty, Range(cache.hash), Locked \ {b}, ToWrite, cache.pool)
  BY Zenon, <1>3, <1>4, MarkView
<1>6. b \in Dirty <=> b \in ToWrite
  BY Zenon, <1>1 DEF IInv, DirtyOK
<1>7. /\ Dirty \in SUBSET Bufs /\ ToWrite \in SUBSET Bufs
      /\ Dirty \ {b} = Dirty \ {b} /\ ToWrite \ {b} = ToWrite \ {b}
  BY Zenon, Facts
<1>8. buf[kswapd] = b /\ buf' = [buf EXCEPT ![kswapd] = NULL] /\ l \notin Taken /\ held' = held
  BY Zenon
<1>9. todo' = todo /\ want' \in [Clients -> Blocks \cup {NULL}]
  BY Zenon, Facts
<1>10. kswapd = kswapd => todo = <<>> /\ pc[kswapd] \notin Freeing
  BY Zenon, <1>1
<1> QED BY Zenon, <1>1, <1>5, <1>6, <1>7, <1>8, <1>9, <1>10, ReleaseKeeps DEF Releases

\* kswapd puts a buffer it has seen back, and writes or frees another.
LEMMA ReclaimGotKeeps ==
    ASSUME IInv, ReclaimGot
    PROVE  IInv'
<1>1. pc[kswapd] = "rgot" /\ UNCHANGED <<want, held, todo>>
  BY Zenon DEF ReclaimGot, At, clientvars
<1>2. PICK b \in Bufs : b = buf[kswapd] /\ b # NULL
  BY Zenon, <1>1, Facts, ReclaimerHas DEF Taken
<1>3. pc[kswapd] \notin Freeing
  BY Zenon, <1>1 DEF Freeing
<1>4. CASE b \in cache.mark
  <2>1. PICK m \in SUBSET Bufs : m = PutBack(cache, b).mark \ {b}
    <3>1. PutBack(cache, b).mark = cache.mark
      BY Zenon DEF PutBack, append_on_free_list, Clear, IInv, TypeOK, CacheOK, CacheType
    <3> QED BY Zenon, <3>1 DEF IInv, TypeOK, CacheOK, CacheType
  <2>2. /\ cache' = [PutBack(cache, b) EXCEPT !.mark = m]
        /\ buf' = [buf EXCEPT ![kswapd] = NULL]
        /\ \/ pc' = [pc EXCEPT ![kswapd] = "getfree"]
           \/ pc' = [pc EXCEPT ![kswapd] = "reclaim"]
    BY Zenon, <1>2, <1>4, <2>1 DEF ReclaimGot, NextPass, ReclaimEnd, Goto, Leave
  <2>3. /\ "getfree" \in Labels /\ "getfree" \notin Taken
        /\ "reclaim" \in Labels /\ "reclaim" \notin Taken
    BY Zenon DEF Labels, Taken
  <2>4. buf[kswapd] = b
    BY Zenon, <1>2
  <2> QED BY Zenon, <1>1, <1>3, <2>2, <2>3, <2>4, PutBackKeeps
<1>5. CASE b \notin cache.mark
  <2>1. /\ UNCHANGED <<cache, buf>>
        /\ Has(cache, b, "DIRTY") => pc' = [pc EXCEPT ![kswapd] = "rsync"]
        /\ ~Has(cache, b, "DIRTY") => pc' = [pc EXCEPT ![kswapd] = "siblings"]
    BY Zenon, <1>2, <1>5 DEF ReclaimGot, SleepOn, Goto, Leave
  <2>2. /\ "rsync" \in Labels /\ "rsync" \in Taken /\ "rsync" \notin Freeing \cup {"siblings", "sibsync"}
        /\ "siblings" \in Labels /\ "siblings" \in Taken /\ "siblings" \notin Freeing \cup {"sibsync"}
    BY Zenon DEF Labels, Taken, Freeing
  <2>3. Has(cache, b, "DIRTY") <=> b \in ToWrite
    BY Zenon DEF ToWrite, Flagged
  <2>4. buf[kswapd] = b /\ buf[kswapd] # NULL /\ kswapd \in Procs
    BY Zenon, <1>2, ReclaimerHas
  <2>5. CASE Has(cache, b, "DIRTY")
    BY Zenon, <1>1, <1>3, <2>1, <2>2, <2>4, <2>5, Facts, IdleKeeps
  <2>6. CASE ~Has(cache, b, "DIRTY")
    BY Zenon, <1>1, <1>3, <2>1, <2>2, <2>3, <2>4, <2>6, Facts, IdleKeeps
  <2> QED BY Zenon, <2>5, <2>6
<1> QED BY Zenon, <1>4, <1>5

\* The write of the buffer kswapd wants has succeeded.
LEMMA ReclaimSyncedKeeps ==
    ASSUME IInv, NEW ok \in BOOLEAN, kswapd \notin FailingWriters, ReclaimSynced(ok)
    PROVE  IInv'
<1>1. /\ ok /\ pc[kswapd] = "rsync" /\ UNCHANGED <<buf, want, held, todo>>
      /\ cache' = remove_from_dirty_list(Clear(cache, buf[kswapd], "DIRTY"), buf[kswapd])
      /\ pc' = [pc EXCEPT ![kswapd] = "siblings"]
  BY Zenon DEF ReclaimSynced, WriteDone, IoDone, sync_one_buffer, Goto, clientvars, reclaimvars
<1>2. PICK b \in Bufs : b = buf[kswapd] /\ b # NULL
  BY Zenon, <1>1, Facts, ReclaimerHas DEF Taken
<1>3. View(cache', Free, Dirty \ {b}, Range(cache.hash), Locked, ToWrite \ {b}, cache.pool)
  <2>1. PICK c : c = Clear(cache, b, "DIRTY")
    BY Zenon
  <2>2. View(c, Free, Dirty, Range(cache.hash), Locked, ToWrite \ {b}, cache.pool)
    <3>1. View(cache, Free, Dirty, Range(cache.hash), Locked, ToWrite, cache.pool)
      BY Zenon, Facts
    <3>2. View(Clear(cache, b, "DIRTY"), Free, Dirty, Range(cache.hash), Locked,
               ToWrite \ {b}, cache.pool)
      BY Zenon, <3>1, CleanView
    <3> QED BY Zenon, <2>1, <3>2
  <2>3. cache' = remove_from_dirty_list(c, b)
    BY Zenon, <1>1, <1>2, <2>1
  <2> QED BY ZenonT(40), <2>2, <2>3, DirtyView
<1>4. /\ CacheOK(cache') /\ Range(cache'.hash) = Range(cache.hash)
      /\ Free' = Free /\ Dirty' = Dirty \ {b}
      /\ Locked' = Locked /\ ToWrite' = ToWrite \ {b} /\ cache'.pool = cache.pool
  BY Zenon, <1>3 DEF View, Free, Dirty, Locked, ToWrite
<1>5. "siblings" \in Labels /\ "siblings" \in Taken /\ "siblings" \notin Freeing
  BY Zenon DEF Labels, Taken, Freeing
<1>6. /\ pc' \in [Procs -> Labels]
      /\ \A q \in Procs : pc'[q] = IF q = kswapd THEN "siblings" ELSE pc[q]
  BY ZenonT(40), <1>1, <1>5 DEF IInv, TypeOK
<1>7. TypeOK'
  BY Zenon, <1>1, <1>4, <1>6 DEF IInv, TypeOK
<1>8. \A q \in Procs : Owned(q)' = Owned(q)
  BY Zenon, <1>1 DEF Owned
<1>9. OwnersOK'
  BY <1>4, <1>8 DEF IInv, OwnersOK
<1>10. PlacesOK'
  BY Zenon, <1>1, <1>2, <1>5, <1>6 DEF IInv, PlacesOK
<1>11. InPool' /\ FreeOK'
  BY Zenon, <1>1, <1>4, <1>8, Procs4 DEF IInv, InPool, FreeOK
<1>12. DirtyOK'
  <2>1. kswapd \in Procs /\ b \in Owned(kswapd)
    BY Zenon, <1>2, ReclaimerHas
  <2>2. \A q \in Syncers \cup {kbdflushd} : q \in Procs /\ q # kswapd /\ Owned(q) = {buf[q]} \ {NULL}
    BY Zenon, OwnedIs, Procs4 DEF IInv
  <2>3. \A q \in Syncers \cup {kbdflushd} : buf[q] # NULL => buf[q] # b
    BY Zenon, <2>1, <2>2 DEF IInv, OwnersOK
  <2> QED BY Zenon, <1>1, <1>4, <1>8, <2>1, <2>3 DEF IInv, DirtyOK
<1>13. PagesOK'
  <2>1. pc[kswapd] \notin Freeing /\ "siblings" # "sibsync" /\ pc'[kswapd] = "siblings"
    BY Zenon, <1>1, <1>6, ReclaimerHas DEF Freeing
  <2> QED BY Zenon, <1>1, <1>2, <1>4, <1>5, <2>1 DEF IInv, PagesOK
<1> QED BY Zenon, <1>7, <1>9, <1>10, <1>11, <1>12, <1>13 DEF IInv

\* reclaim_siblings() locks the other buffers of the page.
LEMMA LockSiblingsKeeps ==
    ASSUME IInv, NEW b \in Bufs, buf[kswapd] = b, pc[kswapd] = "siblings",
           NEW s \in Seq(Bufs), s = SiblingsOf(b), Range(s) \cap Locked = {},
           cache' = LockAll(cache, Range(s)), todo' = s,
           pc' = [pc EXCEPT ![kswapd] = "free"], UNCHANGED <<buf, held, want>>
    PROVE  IInv'
<1>1. /\ IsInjective(s) /\ Range(s) = ({b[1]} \X (1 .. PerPage)) \ {b}
      /\ Range(s) \in SUBSET Bufs /\ \A x \in Range(s) : x[1] = b[1]
  BY Zenon, SiblingsAre
<1>2. /\ kswapd \in Procs /\ kswapd \notin Clients
      /\ b # NULL /\ b \in cache.pool /\ b \notin Free
      /\ todo = <<>> /\ Range(todo) = {} /\ pc[kswapd] \notin Freeing /\ b \notin ToWrite
  <2>1. "siblings" \in Taken /\ "siblings" \notin Freeing
    BY Zenon DEF Taken, Freeing
  <2> QED BY SMTT(30), <2>1, ReclaimerHas, Facts DEF IInv, PagesOK
<1>3. {b[1]} \X (1 .. PerPage) \subseteq cache.pool
  BY Zenon, <1>2 DEF IInv, PagesOK
<1>4. View(cache', Free, Dirty, Range(cache.hash), Locked \cup Range(s), ToWrite, cache.pool)
  <2>1. View(cache, Free, Dirty, Range(cache.hash), Locked, ToWrite, cache.pool)
    BY Zenon, Facts
  <2>2. View(LockAll(cache, Range(s)), Free, Dirty, Range(cache.hash), Locked \cup Range(s),
             ToWrite, cache.pool)
    BY Zenon, <1>1, <2>1, LockAllView
  <2> QED BY Zenon, <2>2
<1>5. /\ CacheOK(cache') /\ Range(cache'.hash) = Range(cache.hash)
      /\ Free' = Free /\ Dirty' = Dirty
      /\ Locked' = Locked \cup Range(s) /\ ToWrite' = ToWrite /\ cache'.pool = cache.pool
  BY Zenon, <1>4 DEF View, Free, Dirty, Locked, ToWrite
<1>6. /\ pc' \in [Procs -> Labels] /\ pc'[kswapd] = "free"
      /\ \A q \in Procs \ {kswapd} : pc'[q] = pc[q]
  <2>1. "free" \in Labels
    BY Zenon DEF Labels, Taken
  <2> QED BY Zenon, <1>2, <2>1 DEF IInv, TypeOK
<1>7. TypeOK'
  BY Zenon, <1>1, <1>5, <1>6 DEF IInv, TypeOK
<1>8. /\ \A q \in Procs \ {kswapd} : Owned(q)' = Owned(q)
      /\ Owned(kswapd)' = Owned(kswapd) \cup Range(s)
      /\ Owned(kswapd) = {b}
  <2>1. \A q \in Procs \ {kswapd} : Owned(q)' = Owned(q)
    BY Zenon DEF Owned
  <2>2. Owned(kswapd)' = Range(s) \cup ({b} \ {NULL})
    BY Zenon, <1>7, OwnedNext
  <2>3. Owned(kswapd) = {b}
    BY Zenon, <1>2, ReclaimerHas
  <2> QED BY Zenon, <1>2, <2>1, <2>2, <2>3
<1>9. OwnersOK'
  <2>1. OwnersOK /\ \A q \in Procs : Owned(q) \subseteq Bufs
    BY Zenon, OwnedIs DEF IInv
  <2> QED BY ZenonT(40), <1>1, <1>2, <1>5, <1>8, <2>1, OwnTake
<1>10. PlacesOK'
  <2>1. "free" \in Taken /\ "siblings" \in Taken
    BY Zenon DEF Taken
  <2>2. b \notin Range(s)
    BY Zenon, <1>1
  <2> QED BY Zenon, <1>2, <1>6, <2>1, <2>2 DEF IInv, PlacesOK
<1>11. InPool'
  BY Zenon, <1>1, <1>3, <1>5 DEF IInv, InPool
<1>12. FreeOK'
  BY ZenonT(40), <1>2, <1>5, <1>8, Procs4 DEF IInv, FreeOK
<1>13. DirtyOK'
  <2>1. \A x \in Range(s) : x \in ToWrite => x \in Dirty
    BY Zenon DEF IInv, DirtyOK
  <2>2. \A x \in ToWrite' : x \notin Locked' \/ x \in Owned(kswapd)' => x \in Dirty'
    BY Zenon, <1>2, <1>5, <1>8, <2>1 DEF IInv, DirtyOK
  <2>3. \A q \in Syncers \cup {kbdflushd} : buf'[q] # NULL => buf'[q] \in (Free' \cap ToWrite') \ Dirty'
    BY Zenon, <1>5 DEF IInv, DirtyOK
  <2> QED BY Zenon, <1>5, <2>2, <2>3 DEF IInv, DirtyOK
<1>14. PagesOK'
  <2>1. "free" \in Freeing /\ "free" # "sibsync" /\ buf'[kswapd] = b
    BY Zenon DEF Freeing
  <2>2. ASSUME NEW x \in cache'.pool
        PROVE  IF pc'[kswapd] \in Freeing /\ x[1] = buf'[kswapd][1]
               THEN x \in {buf'[kswapd]} \cup Range(todo')
               ELSE {x[1]} \X (1 .. PerPage) \subseteq cache'.pool
    <3>1. x \in Bufs /\ x \in cache.pool
      BY Zenon, <1>5, Facts
    <3>2. CASE x[1] = b[1]
      <4>1. x \in {b[1]} \X (1 .. PerPage)
        BY Zenon, <3>1, <3>2 DEF Bufs
      <4> QED BY Zenon, <1>1, <1>6, <2>1, <3>2, <4>1
    <3>3. CASE x[1] # b[1]
      <4>1. {x[1]} \X (1 .. PerPage) \subseteq cache.pool
        BY Zenon, <1>2, <3>1 DEF IInv, PagesOK
      <4> QED BY SMTT(30), <1>5, <2>1, <3>3, <4>1
    <3> QED BY Zenon, <3>2, <3>3
  <2>3. \A x \in Range(todo') : x[1] = buf'[kswapd][1]
    BY Zenon, <1>1, <2>1
  <2>4. buf'[kswapd] \notin ToWrite' /\ pc'[kswapd] \in Freeing /\ pc'[kswapd] # "sibsync"
    BY Zenon, <1>2, <1>5, <1>6, <2>1
  <2> QED BY Zenon, <2>2, <2>3, <2>4 DEF PagesOK
<1> QED BY Zenon, <1>7, <1>9, <1>10, <1>11, <1>12, <1>13, <1>14 DEF IInv

\* reclaim_siblings() gives up or locks the page.
LEMMA SiblingsKeeps ==
    ASSUME IInv, reclaim_siblings
    PROVE  IInv'
<1>1. pc[kswapd] = "siblings" /\ UNCHANGED <<want, held>>
  BY Zenon DEF reclaim_siblings, At, clientvars
<1>2. PICK b \in Bufs : b = buf[kswapd] /\ b # NULL
  BY Zenon, <1>1, Facts, ReclaimerHas DEF Taken
<1>3. pc[kswapd] \notin Freeing
  BY Zenon, <1>1 DEF Freeing
<1>4. PICK s \in Seq(Bufs) : s = SiblingsOf(b)
  BY Zenon, SiblingsAre
<1>5. CASE \E x \in Range(s) : Has(cache, x, "LOCKED")
  <2>1. PICK m \in SUBSET Bufs : m = PutBack(cache, b).mark \cup {b}
    <3>1. PutBack(cache, b).mark = cache.mark
      BY Zenon DEF PutBack, append_on_free_list, Clear, IInv, TypeOK, CacheOK, CacheType
    <3> QED BY ZenonT(40), <3>1 DEF IInv, TypeOK, CacheOK, CacheType
  <2>2. /\ cache' = [PutBack(cache, b) EXCEPT !.mark = m]
        /\ buf' = [buf EXCEPT ![kswapd] = NULL] /\ todo' = todo
        /\ pc' = [pc EXCEPT ![kswapd] = "getfree"]
    BY Zenon, <1>2, <1>4, <1>5, <2>1 DEF reclaim_siblings, Goto
  <2>3. "getfree" \in Labels /\ "getfree" \notin Taken
    BY Zenon DEF Labels, Taken
  <2>4. buf[kswapd] = b
    BY Zenon, <1>2
  <2> QED BY Zenon, <1>1, <1>3, <2>2, <2>3, <2>4, PutBackKeeps
<1>6. CASE ~\E x \in Range(s) : Has(cache, x, "LOCKED")
  <2>1. /\ cache' = LockAll(cache, Range(s)) /\ todo' = s
        /\ pc' = [pc EXCEPT ![kswapd] = "free"] /\ buf' = buf
    BY Zenon, <1>2, <1>4, <1>6 DEF reclaim_siblings, Goto
  <2>2. Range(s) \cap Locked = {}
    BY Zenon, <1>6 DEF Locked, Flagged
  <2>3. buf[kswapd] = b
    BY Zenon, <1>2
  <2> QED BY Zenon, <1>1, <1>4, <2>1, <2>2, <2>3, LockSiblingsKeeps
<1> QED BY Zenon, <1>5, <1>6

\* kswapd takes a sibling, no longer dirty, off the lists.
LEMMA DropSiblingKeeps ==
    ASSUME IInv, NEW x \in Bufs, todo # <<>>, x = Head(todo), todo' = Tail(todo),
           pc[kswapd] \in Freeing, pc' = [pc EXCEPT ![kswapd] = "free"],
           UNCHANGED <<buf, held, want>>,
           View(cache', Free \ {x}, Dirty \ {x}, Range(cache.hash) \ {x}, Locked \ {x},
                ToWrite \ {x}, cache.pool \ {x})
    PROVE  IInv'
<1>1. /\ CacheOK(cache') /\ Range(cache'.hash) = Range(cache.hash) \ {x}
      /\ Free' = Free \ {x} /\ Dirty' = Dirty \ {x}
      /\ Locked' = Locked \ {x} /\ ToWrite' = ToWrite \ {x} /\ cache'.pool = cache.pool \ {x}
  BY Zenon DEF View, Free, Dirty, Locked, ToWrite
<1>2. /\ todo' \in Seq(Bufs) /\ IsInjective(todo') /\ Range(todo') = Range(todo) \ {x}
  BY Zenon, ReclaimerHas, ListTail
<1>3. x \in Range(todo)
  BY SMTT(30), ReclaimerHas, ListElements DEF Range
<1>4. PICK b \in Bufs : b = buf[kswapd] /\ b # NULL /\ b # x
  <2>1. Freeing \subseteq Taken
    BY ZenonT(40) DEF Freeing, Taken
  <2> QED BY Zenon, <1>3, <2>1, Facts, ReclaimerHas DEF IInv, PlacesOK
<1>5. kswapd \in Procs /\ kswapd \notin Clients /\ x \in Owned(kswapd) /\ x # NULL
  BY Zenon, <1>3, ReclaimerHas, Procs4
<1>6. /\ pc' \in [Procs -> Labels] /\ pc'[kswapd] = "free"
      /\ \A q \in Procs \ {kswapd} : pc'[q] = pc[q]
  <2>1. "free" \in Labels
    BY Zenon DEF Labels, Taken
  <2> QED BY Zenon, <1>5, <2>1 DEF IInv, TypeOK
<1>7. TypeOK'
  BY Zenon, <1>1, <1>2, <1>6 DEF IInv, TypeOK
<1>8. /\ \A q \in Procs \ {kswapd} : Owned(q)' = Owned(q)
      /\ Owned(kswapd)' = Owned(kswapd) \ {x}
  <2>1. \A q \in Procs \ {kswapd} : Owned(q)' = Owned(q)
    BY Zenon DEF Owned
  <2>2. Owned(kswapd)' = Range(todo') \cup ({b} \ {NULL})
    BY Zenon, <1>4, <1>7, OwnedNext
  <2>3. Owned(kswapd) = Range(todo) \cup ({b} \ {NULL})
    BY Zenon, <1>4, ReclaimerHas
  <2> QED BY Zenon, <1>2, <1>4, <2>1, <2>2, <2>3
<1>9. OwnersOK'
  <2>1. OwnersOK /\ {x} \in SUBSET Owned(kswapd)
    BY Zenon, <1>5 DEF IInv
  <2> QED BY ZenonT(40), <1>1, <1>5, <1>8, <2>1, OwnDrop
<1>10. \A q \in Procs \ {kswapd} : x \notin Owned(q)
  BY Zenon, <1>5 DEF IInv, OwnersOK
<1>11. PlacesOK'
  <2>1. "free" \in Taken
    BY Zenon DEF Taken
  <2> QED BY Zenon, <1>2, <1>4, <1>5, <1>6, <2>1 DEF IInv, PlacesOK
<1>12. InPool'
  BY Zenon, <1>1 DEF IInv, InPool
<1>13. FreeOK'
  <2>1. /\ cache.pool \ Locked \subseteq Free /\ buf[kswapd] \notin Free
        /\ \A p \in Clients : Owned(p) \cap Free = {}
    BY Zenon DEF IInv, FreeOK
  <2>2. cache'.pool \ Locked' \subseteq Free' /\ buf'[kswapd] \notin Free'
    BY Zenon, <1>1, <2>1
  <2>3. \A p \in Clients : Owned(p)' = Owned(p)
    BY Zenon, <1>8, Procs4
  <2>4. \A p \in Clients : Owned(p)' \cap Free' = {}
    BY Zenon, <1>1, <2>1, <2>3
  <2> QED BY ZenonT(40), <2>2, <2>4 DEF FreeOK
<1>14. DirtyOK'
  <2>1. \A y \in ToWrite' : y \notin Locked' \/ y \in Owned(kswapd)' => y \in Dirty'
    BY Zenon, <1>1, <1>8 DEF IInv, DirtyOK
  <2>2. \A q \in Syncers \cup {kbdflushd} : buf[q] # NULL => buf[q] # x
    BY Zenon, <1>10, OwnedIs, Procs4 DEF IInv
  <2>3. \A q \in Syncers \cup {kbdflushd} : buf'[q] # NULL => buf'[q] \in (Free' \cap ToWrite') \ Dirty'
    BY Zenon, <1>1, <2>2 DEF IInv, DirtyOK
  <2> QED BY Zenon, <1>1, <2>1, <2>3 DEF IInv, DirtyOK
<1>15. PagesOK'
  <2>1. "free" \in Freeing /\ "free" # "sibsync" /\ buf'[kswapd] = b /\ b \notin ToWrite
    BY Zenon, <1>4 DEF Freeing, IInv, PagesOK
  <2>2. ASSUME NEW y \in cache'.pool
        PROVE  IF pc'[kswapd] \in Freeing /\ y[1] = buf'[kswapd][1]
               THEN y \in {buf'[kswapd]} \cup Range(todo')
               ELSE {y[1]} \X (1 .. PerPage) \subseteq cache'.pool
    <3>1. y # x /\ y \in cache.pool
      BY Zenon, <1>1
    <3>2. CASE y[1] = b[1]
      <4>1. y \in {b} \cup Range(todo)
        BY Zenon, <1>4, <3>1, <3>2 DEF IInv, PagesOK
      <4> QED BY Zenon, <1>2, <1>6, <2>1, <3>1, <3>2, <4>1
    <3>3. CASE y[1] # b[1]
      <4>1. {y[1]} \X (1 .. PerPage) \subseteq cache.pool
        BY Zenon, <1>4, <3>1, <3>3 DEF IInv, PagesOK
      <4>2. x[1] = b[1]
        BY Zenon, <1>3, <1>4 DEF IInv, PagesOK
      <4>3. x \notin {y[1]} \X (1 .. PerPage)
        BY Zenon, <3>3, <4>2
      <4> QED BY Zenon, <1>1, <2>1, <3>3, <4>1, <4>3
    <3> QED BY Zenon, <3>2, <3>3
  <2>3. \A y \in Range(todo') : y[1] = buf'[kswapd][1]
    BY Zenon, <1>2, <1>4, <2>1 DEF IInv, PagesOK
  <2>4. buf'[kswapd] \notin ToWrite' /\ pc'[kswapd] \in Freeing /\ pc'[kswapd] # "sibsync"
    BY Zenon, <1>1, <1>6, <2>1
  <2> QED BY Zenon, <2>2, <2>3, <2>4 DEF PagesOK
<1> QED BY Zenon, <1>7, <1>9, <1>11, <1>12, <1>13, <1>14, <1>15 DEF IInv

\* The next sibling is freed, at once or after its write.
LEMMA ReclaimSiblingKeeps ==
    ASSUME IInv, kswapd \notin FailingWriters,
           ReclaimSibling \/ \E ok \in BOOLEAN : SiblingSynced(ok)
    PROVE  IInv'
<1>1. pc[kswapd] \in Freeing /\ todo # <<>> /\ UNCHANGED <<buf, held, want>>
  <2>1. CASE ReclaimSibling
    BY Zenon, <2>1 DEF ReclaimSibling, At, clientvars, Freeing
  <2>2. CASE \E ok \in BOOLEAN : SiblingSynced(ok)
    BY Zenon, <2>2 DEF SiblingSynced, IoDone, clientvars, Freeing, IInv, PagesOK
  <2> QED BY Zenon, <2>1, <2>2
<1>2. PICK x \in Bufs : x = Head(todo) /\ x \in Range(todo) /\ x \in Owned(kswapd)
  BY SMTT(30), <1>1, ReclaimerHas, ListElements DEF Range
<1>3. View(cache, Free, Dirty, Range(cache.hash), Locked, ToWrite, cache.pool)
  BY Zenon, Facts
<1>4. CASE ReclaimSibling /\ Has(cache, x, "DIRTY")
  <2>1. pc' = [pc EXCEPT ![kswapd] = "sibsync"] /\ UNCHANGED <<cache, todo>>
    BY Zenon, <1>2, <1>4 DEF ReclaimSibling, SleepOn, Leave
  <2>2. "sibsync" \in Labels /\ "sibsync" \in Taken /\ "sibsync" \in Freeing
        /\ Freeing \subseteq Taken
    BY Zenon DEF Labels, Taken, Freeing
  <2>3. buf[kswapd] # NULL /\ buf[kswapd] \notin ToWrite /\ kswapd \in Procs
    BY ZenonT(40), <1>1, <2>2, Facts, ReclaimerHas DEF IInv, PagesOK
  <2> QED BY Zenon, <1>1, <2>1, <2>2, <2>3, Facts, IdleKeeps
<1>5. CASE ReclaimSibling /\ ~Has(cache, x, "DIRTY")
  <2>1. pc' = [pc EXCEPT ![kswapd] = "free"] /\ todo' = Tail(todo)
        /\ cache' = Discard(cache, x)
    BY Zenon, <1>2, <1>5 DEF ReclaimSibling, Goto
  <2>2. x \notin Dirty
    BY Zenon, <1>5 DEF ToWrite, Flagged, IInv, DirtyOK
  <2>3. View(cache', Free \ {x}, Dirty, Range(cache.hash) \ {x}, Locked \ {x},
             ToWrite \ {x}, cache.pool \ {x})
    BY Zenon, <1>3, <2>1, DiscardView
  <2>4. View(cache', Free \ {x}, Dirty \ {x}, Range(cache.hash) \ {x}, Locked \ {x},
             ToWrite \ {x}, cache.pool \ {x})
    <3>1. Dirty \ {x} = Dirty
      BY Zenon, <2>2
    <3> QED BY Zenon, <2>3, <3>1
  <2>5. todo' = Tail(todo) /\ pc' = [pc EXCEPT ![kswapd] = "free"]
    BY Zenon, <2>1
  <2> QED BY ZenonT(40), <1>1, <1>2, <2>4, <2>5, DropSiblingKeeps
<1>6. CASE \E ok \in BOOLEAN : SiblingSynced(ok)
  <2>1. PICK c : c = Clear(cache, x, "DIRTY")
    BY Zenon
  <2>2. pc' = [pc EXCEPT ![kswapd] = "free"] /\ todo' = Tail(todo)
        /\ cache' = Discard(remove_from_dirty_list(c, x), x)
    BY Zenon, <1>2, <1>6, <2>1 DEF SiblingSynced, sync_one_buffer, Goto
  <2>3. View(c, Free, Dirty, Range(cache.hash), Locked, ToWrite \ {x}, cache.pool)
    <3>1. View(Clear(cache, x, "DIRTY"), Free, Dirty, Range(cache.hash), Locked,
               ToWrite \ {x}, cache.pool)
      BY Zenon, <1>3, CleanView
    <3> QED BY Zenon, <2>1, <3>1
  <2>4. PICK d : d = remove_from_dirty_list(c, x)
    BY Zenon
  <2>5. View(d, Free, Dirty \ {x}, Range(cache.hash), Locked, ToWrite \ {x}, cache.pool)
    <3>1. View(remove_from_dirty_list(c, x), Free, Dirty \ {x}, Range(cache.hash), Locked,
               ToWrite \ {x}, cache.pool)
      BY ZenonT(40), <2>3, DirtyView
    <3> QED BY Zenon, <2>4, <3>1
  <2>6. cache' = Discard(d, x)
    BY Zenon, <2>2, <2>4
  <2>7. View(cache', Free \ {x}, Dirty \ {x}, Range(cache.hash) \ {x}, Locked \ {x},
             (ToWrite \ {x}) \ {x}, cache.pool \ {x})
    BY Zenon, <2>5, <2>6, DiscardView
  <2>8. View(cache', Free \ {x}, Dirty \ {x}, Range(cache.hash) \ {x}, Locked \ {x},
             ToWrite \ {x}, cache.pool \ {x})
    <3>1. (ToWrite \ {x}) \ {x} = ToWrite \ {x}
      BY Zenon
    <3> QED BY Zenon, <2>7, <3>1
  <2>9. todo' = Tail(todo) /\ pc' = [pc EXCEPT ![kswapd] = "free"]
    BY Zenon, <2>2
  <2> QED BY Zenon, <1>1, <1>2, <2>8, <2>9, DropSiblingKeeps
<1> QED BY Zenon, <1>4, <1>5, <1>6

\* The last buffer of the page is freed.
LEMMA ReclaimedKeeps ==
    ASSUME IInv, Reclaimed
    PROVE  IInv'
<1>1. /\ pc[kswapd] = "free" /\ pc[kswapd] \in Freeing /\ pc[kswapd] \in Taken /\ todo = <<>>
      /\ UNCHANGED <<todo, held, want>> /\ buf' = [buf EXCEPT ![kswapd] = NULL]
      /\ cache' = Discard(cache, buf[kswapd])
  BY Zenon DEF Reclaimed, At, clientvars, Freeing, Taken
<1>2. PICK l \in Labels : /\ pc' = [pc EXCEPT ![kswapd] = l] /\ l \notin Taken
                          /\ l \notin Freeing \cup {"siblings", "sibsync"}
  <2>1. pc' = [pc EXCEPT ![kswapd] = "getfree"] \/ pc' = [pc EXCEPT ![kswapd] = "reclaim"]
    BY Zenon DEF Reclaimed, ReclaimEnd, Goto, Leave
  <2> QED BY SMTT(30), <2>1 DEF Labels, Taken, Freeing
<1>3. PICK x \in Bufs : x = buf[kswapd] /\ x # NULL /\ x \notin Free /\ x \in Owned(kswapd)
  BY Zenon, <1>1, ReclaimerHas, Facts
<1>4. x \notin ToWrite /\ x \notin Dirty
  BY Zenon, <1>1, <1>3 DEF IInv, PagesOK, DirtyOK
<1>5. View(cache', Free \ {x}, Dirty, Range(cache.hash) \ {x}, Locked \ {x}, ToWrite \ {x},
           cache.pool \ {x})
  <2>1. View(cache, Free, Dirty, Range(cache.hash), Locked, ToWrite, cache.pool)
    BY Zenon, Facts
  <2>2. cache' = Discard(cache, x)
    BY Zenon, <1>1, <1>3
  <2> QED BY ZenonT(40), <2>1, <2>2, DiscardView
<1>6. /\ CacheOK(cache') /\ Range(cache'.hash) = Range(cache.hash) \ {x}
      /\ Free' = Free /\ Dirty' = Dirty
      /\ Locked' = Locked \ {x} /\ ToWrite' = ToWrite /\ cache'.pool = cache.pool \ {x}
  <2>1. /\ CacheOK(cache') /\ Range(cache'.hash) = Range(cache.hash) \ {x}
        /\ Free' = Free \ {x} /\ Dirty' = Dirty
        /\ Locked' = Locked \ {x} /\ ToWrite' = ToWrite \ {x} /\ cache'.pool = cache.pool \ {x}
    BY Zenon, <1>5 DEF View, Free, Dirty, Locked, ToWrite
  <2> QED BY Zenon, <1>3, <1>4, <2>1
<1>7. kswapd \in Procs /\ kswapd \notin Clients
  BY Zenon, Procs4
<1>8. /\ pc' \in [Procs -> Labels] /\ pc'[kswapd] = l
      /\ \A q \in Procs \ {kswapd} : pc'[q] = pc[q]
  BY Zenon, <1>2, <1>7 DEF IInv, TypeOK
<1>9. /\ buf' \in [Procs -> Bufs \cup {NULL}] /\ buf'[kswapd] = NULL
      /\ \A q \in Procs \ {kswapd} : buf'[q] = buf[q]
  BY Zenon, <1>1, <1>7 DEF IInv, TypeOK
<1>10. TypeOK'
  BY Zenon, <1>1, <1>6, <1>8, <1>9 DEF IInv, TypeOK
<1>11. Range(todo) = {}
  BY ZenonT(40), <1>1, ReclaimerHas, ListElements
<1>12. /\ \A q \in Procs \ {kswapd} : Owned(q)' = Owned(q)
       /\ Owned(kswapd)' = Owned(kswapd) \ {x}
  <2>1. \A q \in Procs \ {kswapd} : Owned(q)' = Owned(q)
    BY Zenon, <1>1, <1>9 DEF Owned
  <2>2. Owned(kswapd)' = {} \cup ({NULL} \ {NULL})
    BY Zenon, <1>1, <1>9, <1>10, <1>11, OwnedNext
  <2>3. Owned(kswapd) = {} \cup ({x} \ {NULL})
    BY Zenon, <1>3, <1>11, ReclaimerHas
  <2> QED BY Zenon, <2>1, <2>2, <2>3
<1>13. OwnersOK'
  <2>1. OwnersOK /\ {x} \in SUBSET Owned(kswapd)
    BY Zenon, <1>3 DEF IInv
  <2> QED BY ZenonT(40), <1>6, <1>7, <1>12, <2>1, OwnDrop
<1>14. PlacesOK'
  BY <1>1, <1>2, <1>7, <1>8, <1>9, <1>11 DEF IInv, PlacesOK
<1>15. InPool'
  BY Zenon, <1>3, <1>4, <1>6 DEF IInv, InPool
<1>16. FreeOK'
  <2>1. NULL \notin Free
    BY Zenon, <1>15, <1>6, Procs4, Facts DEF InPool, Bufs
  <2> QED BY Zenon, <1>6, <1>7, <1>9, <1>12, <2>1, Procs4 DEF IInv, FreeOK
<1>17. DirtyOK'
  <2>1. \A y \in ToWrite' : y \notin Locked' \/ y \in Owned(kswapd)' => y \in Dirty'
    BY Zenon, <1>4, <1>6, <1>12 DEF IInv, DirtyOK
  <2>2. \A q \in Syncers \cup {kbdflushd} : buf'[q] = buf[q]
    BY Zenon, <1>9, Procs4
  <2> QED BY Zenon, <1>6, <2>1, <2>2 DEF IInv, DirtyOK
<1>18. PagesOK'
  <2>1. ASSUME NEW y \in cache'.pool
        PROVE  {y[1]} \X (1 .. PerPage) \subseteq cache'.pool
    <3>1. y # x /\ y \in cache.pool
      BY Zenon, <1>6
    <3>2. y[1] # x[1]
      BY Zenon, <1>1, <1>3, <1>11, <3>1 DEF IInv, PagesOK
    <3>3. {y[1]} \X (1 .. PerPage) \subseteq cache.pool
      BY Zenon, <1>3, <3>1, <3>2 DEF IInv, PagesOK
    <3>4. x \notin {y[1]} \X (1 .. PerPage)
      BY Zenon, <3>2
    <3> QED BY Zenon, <1>6, <3>3, <3>4
  <2> QED BY Zenon, <1>1, <1>2, <1>8, <1>11, <2>1 DEF PagesOK
<1> QED BY Zenon, <1>10, <1>13, <1>14, <1>15, <1>16, <1>17, <1>18 DEF IInv
=============================================================================
