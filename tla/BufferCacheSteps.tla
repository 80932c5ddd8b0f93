-------------------------- MODULE BufferCacheSteps --------------------------
(***************************************************************************)
(* The steps of the clients, of sync_buffers() and of kbdflushd keep the   *)
(* invariant of the buffer cache.                                          *)
(***************************************************************************)
EXTENDS BufferClients, BufferSync, BufferCacheInvariant

\* bread() enters getblk().
LEMMA BreadKeeps ==
    ASSUME IInv, NEW p \in Clients, NEW k \in Blocks, bread(p, k)
    PROVE  IInv'
<1>1. /\ p \in Procs /\ p # kswapd /\ pc[p] = "out" /\ pc' = [pc EXCEPT ![p] = "getblk"]
      /\ want' = [want EXCEPT ![p] = k] /\ UNCHANGED <<cache, buf, held, todo>>
  BY Zenon, Procs4 DEF bread, At, Goto, reclaimvars
<1>2. want' \in [Clients -> Blocks \cup {NULL}]
  BY Zenon, <1>1, Facts
<1>3. (buf[p] # NULL <=> "getblk" \in Taken) /\ "getblk" \in Labels
  BY Zenon, <1>1, Facts DEF Taken, Labels
<1> QED BY Zenon, <1>1, <1>2, <1>3, IdleKeeps

\* get_free_buffer() takes the first buffer of the free list.
LEMMA GetFreeKeeps ==
    ASSUME IInv, NEW p \in Clients \cup {kswapd}, NEW got \in Labels,
           got \in Plain, GetFree(p, got)
    PROVE  IInv'
<1>0. View(cache, Free, Dirty, Range(cache.hash), Locked, ToWrite, cache.pool)
  BY Zenon, Facts
<1>1. /\ p \in Procs /\ pc[p] = "getfree" /\ cache.free # <<>>
      /\ UNCHANGED <<want, held, todo>>
  BY Zenon, Procs4 DEF GetFree, At, reclaimvars, clientvars
<1>2. PICK b \in Bufs : b = Head(cache.free) /\ b \in Free /\ b \in cache.pool
  <2>1. cache.free \in Seq(Bufs)
    BY Zenon, ListsOK DEF IInv, TypeOK
  <2>2. Head(cache.free) \in Free
    BY Zenon, <1>1, <2>1, ListElements DEF Free
  <2> QED BY Zenon, <2>2, Facts DEF IInv, InPool
<1>3. buf[p] = NULL
  BY Zenon, <1>1, Facts DEF Taken
<1>4. CASE Has(cache, b, "LOCKED")
  <2>1. pc' = [pc EXCEPT ![p] = "getfree"] /\ UNCHANGED <<cache, buf>>
    BY Zenon, <1>2, <1>4 DEF GetFree, SleepOn, Leave
  <2>2. /\ (buf[p] # NULL <=> "getfree" \in Taken) /\ "getfree" \in Labels
        /\ "getfree" \notin Freeing \cup {"siblings", "sibsync"} /\ pc[p] \notin Freeing
    BY Zenon, <1>1, <1>3 DEF Taken, Freeing, Labels
  <2> QED BY Zenon, <1>1, <2>1, <2>2, IdleKeeps, Facts
<1>5. CASE ~Has(cache, b, "LOCKED")
  <2>1. /\ cache' = SetFlag(remove_from_free_list(cache, b), b, "LOCKED")
        /\ buf' = [buf EXCEPT ![p] = b] /\ pc' = [pc EXCEPT ![p] = got]
    BY Zenon, <1>2, <1>5 DEF GetFree, Goto
  <2>2. b \notin Locked
    BY Zenon, <1>5 DEF Locked, Flagged
  <2>3. View(remove_from_free_list(cache, b), Free \ {b}, Dirty, Range(cache.hash), Locked,
             ToWrite, cache.pool)
    BY Zenon, <1>0, UnfreeView
  <2>4. View(cache', Free \ {b}, Dirty, Range(cache.hash), Locked \cup {b}, ToWrite, cache.pool)
    BY Zenon, <2>1, <2>3, LockView
  <2> QED BY Zenon, <1>1, <1>2, <1>3, <2>1, <2>2, <2>4, TakeKeeps DEF Takes
<1> QED BY Zenon, <1>4, <1>5

\* get_free_buffer() finds the free list empty.
LEMMA GetFreeNoneKeeps ==
    ASSUME IInv, NEW p \in Clients, GetFreeNone(p)
    PROVE  IInv'
<1>1. /\ p \in Procs /\ p # kswapd /\ pc[p] = "getfree" /\ pc' = [pc EXCEPT ![p] = "getblk"]
      /\ UNCHANGED <<cache, buf, want, held, todo>>
  BY Zenon, Procs4 DEF GetFreeNone, At, Leave, reclaimvars, clientvars
<1>2. (buf[p] # NULL <=> "getblk" \in Taken) /\ "getblk" \in Labels
  BY Zenon, <1>1, Facts DEF Taken, Labels
<1> QED BY Zenon, <1>1, <1>2, IdleKeeps, Facts

\* getblk() has a free buffer: it writes it first if it is dirty, or gives it
\* to the block.
LEMMA GotFreeKeeps ==
    ASSUME IInv, NEW p \in Clients, GotFree(p)
    PROVE  IInv'
<1> DEFINE b == buf[p]
<1>1. /\ p \in Procs /\ p # kswapd /\ pc[p] = "gotfree"
      /\ UNCHANGED <<buf, want, held, todo>>
  BY Zenon, Procs4 DEF GotFree, At, reclaimvars, clientvars
<1>2. b # NULL /\ b \in Bufs
  BY Zenon, <1>1, Facts DEF Taken
<1>3. CASE Has(cache, b, "DIRTY")
  <2>1. pc' = [pc EXCEPT ![p] = "syncfree"] /\ UNCHANGED cache
    BY Zenon, <1>3 DEF GotFree, SleepOn, Leave
  <2>2. (buf[p] # NULL <=> "syncfree" \in Taken) /\ "syncfree" \in Labels
    BY Zenon, <1>2 DEF Taken, Labels
  <2> QED BY Zenon, <1>1, <2>1, <2>2, IdleKeeps, Facts
<1>4. CASE ~Has(cache, b, "DIRTY")
  <2>1. cache' = Rehash(cache, b, want[p]) /\ pc' = [pc EXCEPT ![p] = "bread"]
    BY Zenon, <1>4 DEF GotFree, Goto
  <2>2. want[p] \in Blocks \cup {NULL}
    BY Zenon, Facts
  <2>3. View(cache', Free, Dirty, Range(cache.hash) \cup {b}, Locked, ToWrite, cache.pool)
    BY Zenon, <1>2, <2>1, <2>2, Facts, RehashView
  <2>4. Range(cache.hash) \cup {b} \in SUBSET cache.pool
    <3>1. b \in Owned(p)
      BY Zenon, <1>2 DEF Owned
    <3> QED BY SMTT(30), <1>1, <1>2, <3>1, Facts DEF IInv, OwnersOK, InPool
  <2>5. (buf[p] # NULL <=> "bread" \in Taken) /\ "bread" \in Labels
    BY Zenon, <1>2 DEF Taken, Labels
  <2> QED BY Zenon, <1>1, <2>1, <2>3, <2>4, <2>5, Facts, MoveKeeps DEF Moves
<1> QED BY Zenon, <1>3, <1>4

\* What a client has is off the free list.
LEMMA ClientHas ==
    ASSUME IInv, NEW p \in Clients
    PROVE  /\ p \in Procs /\ p # kswapd
           /\ \A b \in held[p] : b \in Bufs /\ b \notin Free
           /\ buf[p] # NULL => buf[p] \in Bufs /\ buf[p] \notin Free
<1>1. Owned(p) = held[p] \cup ({buf[p]} \ {NULL}) /\ p \in Procs /\ p # kswapd
  BY Zenon, OwnedIs, Procs4 DEF IInv
<1>2. Owned(p) \subseteq Bufs /\ Owned(p) \cap Free = {}
  BY Zenon, <1>1, OwnedIs DEF IInv, FreeOK
<1> QED BY Zenon, <1>1, <1>2

\* bread() returns a valid buffer to the client, or reads it.
LEMMA BreadBufferKeeps ==
    ASSUME IInv, NEW p \in Clients, BreadBuffer(p)
    PROVE  IInv'
<1>1. /\ p \in Procs /\ p # kswapd /\ pc[p] = "bread"
      /\ UNCHANGED <<cache, todo>>
  BY Zenon, Procs4 DEF BreadBuffer, At, reclaimvars
<1>2. buf[p] # NULL
  BY Zenon, <1>1, Facts DEF Taken
<1>3. CASE Has(cache, buf[p], "VALID")
  <2>1. /\ pc' = [pc EXCEPT ![p] = "out"] /\ buf' = [buf EXCEPT ![p] = NULL]
        /\ held' = [held EXCEPT ![p] = @ \cup {buf[p]}] /\ want' = [want EXCEPT ![p] = NULL]
    BY Zenon, <1>3 DEF BreadBuffer, Leave
  <2>2. want' \in [Clients -> Blocks \cup {NULL}]
    BY Zenon, <2>1, Facts
  <2>3. "out" \in Labels /\ "out" \notin Taken
    BY Zenon DEF Labels, Taken
  <2>4. View(cache', Free, Dirty, Range(cache.hash), Locked, ToWrite, cache.pool)
    BY Zenon, <1>1, Facts
  <2> QED BY Zenon, <1>1, <1>2, <2>1, <2>2, <2>3, <2>4, HoldKeeps DEF Holds
<1>4. CASE ~Has(cache, buf[p], "VALID")
  <2>1. pc' = [pc EXCEPT ![p] = "read"] /\ UNCHANGED <<held, buf, want>>
    BY Zenon, <1>4 DEF BreadBuffer, SleepOn, Leave
  <2>2. (buf[p] # NULL <=> "read" \in Taken) /\ "read" \in Labels
    BY Zenon, <1>2 DEF Taken, Labels
  <2> QED BY Zenon, <1>1, <2>1, <2>2, IdleKeeps, Facts
<1> QED BY Zenon, <1>3, <1>4

\* The end of a write, as the caller goes on with it.
LEMMA SyncOneView ==
    ASSUME IInv, NEW b \in Bufs, NEW ok \in BOOLEAN
    PROVE  View(sync_one_buffer(b, ok), Free, Dirty, Range(cache.hash), Locked,
                IF ok THEN ToWrite \ {b} ELSE ToWrite, cache.pool)
<1>1. View(cache, Free, Dirty, Range(cache.hash), Locked, ToWrite, cache.pool)
  BY Zenon, Facts
<1>2. View(Clear(cache, b, "DIRTY"), Free, Dirty, Range(cache.hash), Locked, ToWrite \ {b},
           cache.pool)
  BY Zenon, <1>1, CleanView
<1> QED BY Zenon, <1>1, <1>2 DEF sync_one_buffer

\* The write of getblk() ends, well or not: it releases the buffer.
LEMMA SyncFreeDoneKeeps ==
    ASSUME IInv, NEW p \in Clients, NEW ok \in BOOLEAN, SyncFreeDone(p, ok)
    PROVE  IInv'
<1> DEFINE b == buf[p]
           c == sync_one_buffer(b, ok)
           d == IF ok THEN remove_from_dirty_list(c, b) ELSE c
           D == IF ok THEN Dirty \ {b} ELSE Dirty
           W == IF ok THEN ToWrite \ {b} ELSE ToWrite
           E == IF b \in W THEN D \cup {b} ELSE D
<1>1. /\ pc[p] = "syncfree" /\ cache' = brelse(d, b)
      /\ buf' = [buf EXCEPT ![p] = NULL] /\ pc' = [pc EXCEPT ![p] = "getblk"]
      /\ UNCHANGED <<want, held, todo>>
  BY Zenon DEF SyncFreeDone, WriteDone, IoDone, Goto, clientvars, reclaimvars
<1>2. p \in Procs /\ p # kswapd /\ b \in Bufs /\ b \notin Free
  BY Zenon, <1>1, Facts, ClientHas DEF Taken
<1>3. View(c, Free, Dirty, Range(cache.hash), Locked, W, cache.pool)
  BY Zenon, <1>2, SyncOneView
<1> HIDE DEF c, W
<1>4. View(d, Free, D, Range(cache.hash), Locked, W, cache.pool)
  <2>1. View(remove_from_dirty_list(c, b), Free, Dirty \ {b}, Range(cache.hash), Locked, W,
             cache.pool)
    BY Zenon, <1>2, <1>3, DirtyView
  <2> QED BY Zenon, <1>3, <2>1
<1> HIDE DEF d, D
<1>5. View(cache', Free \cup {b}, E, Range(cache.hash), Locked \ {b}, W, cache.pool)
  BY Zenon, <1>1, <1>2, <1>4, ReleaseView
<1>6. E \in SUBSET Bufs /\ W \in SUBSET Bufs
  BY Zenon, <1>2, Facts DEF W, D
<1>7. E \ {b} = Dirty \ {b} /\ W \ {b} = ToWrite \ {b} /\ (b \in E <=> b \in W)
  <2>1. b \in D => b \in W
    BY Zenon DEF D, W, IInv, DirtyOK
  <2> QED BY Zenon, <2>1 DEF D, W
<1>8. "getblk" \in Labels /\ "getblk" \notin Taken
  BY Zenon DEF Labels, Taken
<1> HIDE DEF E
<1>9. Releases(p, b, "getblk", E, W)
  BY Zenon, <1>1, <1>2, <1>5, <1>7, <1>8, Facts DEF Releases
<1> QED BY Zenon, <1>2, <1>6, <1>8, <1>9, ReleaseKeeps

\* A client or kswapd gives a buffer to brelse().
LEMMA BrelseView ==
    ASSUME IInv, NEW b \in Bufs, b \notin Free
    PROVE  View(brelse(cache, b), Free \cup {b}, IF b \in ToWrite THEN Dirty \cup {b} ELSE Dirty,
                Range(cache.hash), Locked \ {b}, ToWrite, cache.pool)
BY Zenon, Facts, ReleaseView

\* The read of bread() ends, well or not.
LEMMA ReadDoneKeeps ==
    ASSUME IInv, NEW p \in Clients, NEW ok \in BOOLEAN, ReadDone(p, ok)
    PROVE  IInv'
<1> DEFINE b == buf[p]
           fresh == IF cache.blk[b] \in disk THEN cache.fresh \cup {b} ELSE cache.fresh \ {b}
           E == IF b \in ToWrite THEN Dirty \cup {b} ELSE Dirty
<1>1. /\ pc[p] = "read" /\ buf' = [buf EXCEPT ![p] = NULL] /\ pc' = [pc EXCEPT ![p] = "out"]
      /\ want' = [want EXCEPT ![p] = NULL] /\ UNCHANGED todo
      /\ ok => /\ cache' = [SetFlag(cache, b, "VALID") EXCEPT !.fresh = fresh]
               /\ held' = [held EXCEPT ![p] = @ \cup {b}]
      /\ ~ok => cache' = brelse(cache, b) /\ held' = held
  BY Zenon DEF ReadDone, IoDone, Leave, reclaimvars
<1>2. p \in Procs /\ p # kswapd /\ b \in Bufs /\ b \notin Free /\ buf[p] # NULL
  BY Zenon, <1>1, Facts, ClientHas DEF Taken
<1>3. want' \in [Clients -> Blocks \cup {NULL}]
  BY Zenon, <1>1, Facts
<1>4. "out" \in Labels /\ "out" \notin Taken
  BY Zenon DEF Labels, Taken
<1>5. CASE ok
  <2>1. fresh \in SUBSET Bufs
    BY Zenon, <1>2 DEF IInv, TypeOK, CacheOK, CacheType
  <2>2. View(SetFlag(cache, b, "VALID"), Free, Dirty, Range(cache.hash), Locked, ToWrite,
             cache.pool)
    <3>1. View(cache, Free, Dirty, Range(cache.hash), Locked, ToWrite, cache.pool)
      BY Zenon, Facts
    <3> QED BY Zenon, <1>2, <3>1, ValidView
  <2> HIDE DEF fresh
  <2>3. View(cache', Free, Dirty, Range(cache.hash), Locked, ToWrite, cache.pool)
    <3>1. PICK c : c = SetFlag(cache, b, "VALID")
      BY Zenon
    <3>2. View(c, Free, Dirty, Range(cache.hash), Locked, ToWrite, cache.pool)
      BY Zenon, <2>2, <3>1
    <3>3. cache' = [c EXCEPT !.fresh = fresh]
      BY Zenon, <1>1, <1>5, <3>1
    <3> QED BY Zenon, <2>1, <3>2, <3>3, MarkView
  <2>4. Holds(p, "out")
    BY Zenon, <1>1, <1>2, <1>3, <1>4, <1>5, <2>3 DEF Holds
  <2> QED BY Zenon, <1>4, <2>4, HoldKeeps
<1>6. CASE ~ok
  <2>1. View(cache', Free \cup {b}, E, Range(cache.hash), Locked \ {b}, ToWrite, cache.pool)
    BY Zenon, <1>1, <1>2, <1>6, BrelseView
  <2>2. E \in SUBSET Bufs /\ ToWrite \in SUBSET Bufs
    BY Zenon, <1>2, Facts
  <2>3. E \ {b} = Dirty \ {b} /\ (b \in E <=> b \in ToWrite)
    BY Zenon DEF IInv, DirtyOK
  <2>4. /\ buf[p] = b /\ buf' = [buf EXCEPT ![p] = NULL] /\ pc' = [pc EXCEPT ![p] = "out"]
        /\ UNCHANGED <<held, todo>> /\ ToWrite \ {b} = ToWrite \ {b}
    BY Zenon, <1>1, <1>6
  <2> HIDE DEF b, E
  <2>5. Releases(p, b, "out", E, ToWrite)
    BY Zenon, <1>2, <1>3, <1>4, <2>1, <2>3, <2>4 DEF Releases
  <2> QED BY Zenon, <1>2, <1>4, <2>2, <2>5, ReleaseKeeps
<1> QED BY Zenon, <1>5, <1>6

\* A client releases a buffer, or has changed it.
LEMMA BrelseKeeps ==
    ASSUME IInv, NEW p \in Clients, NEW b \in held[p], Brelse(p, b) \/ bwrite(p, b)
    PROVE  IInv'
<1> DEFINE fresh == {x \in cache.fresh : cache.blk[x] # cache.blk[b]} \cup {b}
           w == [cache EXCEPT !.flags[b] = @ \cup {"DIRTY", "VALID"}, !.fresh = fresh]
<1>1. /\ pc[p] = "out" /\ held' = [held EXCEPT ![p] = @ \ {b}]
      /\ pc' = [pc EXCEPT ![p] = "out"]
      /\ UNCHANGED <<buf, want, todo>>
      /\ cache' = brelse(cache, b) \/ cache' = brelse(w, b)
  <2>1. CASE Brelse(p, b)
    BY Zenon, <2>1 DEF Brelse, At, Leave, reclaimvars
  <2>2. CASE bwrite(p, b)
    <3>1. w = [cache EXCEPT !.flags[b] = @ \cup {"DIRTY", "VALID"},
                            !.fresh = {x \in @ : cache.blk[x] # cache.blk[b]} \cup {b}]
      BY Zenon DEF IInv, TypeOK, CacheOK, CacheType
    <3> QED BY Zenon, <2>2, <3>1 DEF bwrite, At, Leave, reclaimvars
  <2> QED BY Zenon, <2>1, <2>2
<1>2. p \in Procs /\ p # kswapd /\ b \in Bufs /\ b \notin Free
  BY Zenon, ClientHas
<1>3. "out" \in Labels /\ ("out" \in Taken <=> pc[p] \in Taken)
  BY Zenon, <1>1 DEF Labels
<1>4. CASE cache' = brelse(cache, b)
  <2> DEFINE E == IF b \in ToWrite THEN Dirty \cup {b} ELSE Dirty
  <2>1. View(cache', Free \cup {b}, E, Range(cache.hash), Locked \ {b}, ToWrite, cache.pool)
    BY ZenonT(40), <1>2, <1>4, BrelseView
  <2>2. E \in SUBSET Bufs /\ ToWrite \in SUBSET Bufs
    BY Zenon, <1>2, Facts
  <2>3. E \ {b} = Dirty \ {b} /\ (b \in E <=> b \in ToWrite)
    BY Zenon DEF IInv, DirtyOK
  <2> HIDE DEF E
  <2> QED BY Zenon, <1>1, <1>2, <1>3, <2>1, <2>2, <2>3, Facts, ReleaseKeeps DEF Releases
<1>5. CASE cache' = brelse(w, b)
  <2>1. fresh \in SUBSET Bufs
    BY Zenon, <1>2 DEF IInv, TypeOK, CacheOK, CacheType
  <2> HIDE DEF fresh
  <2>2. View(cache, Free, Dirty, Range(cache.hash), Locked, ToWrite, cache.pool)
    BY Zenon, Facts
  <2>3. View(w, Free, Dirty, Range(cache.hash), Locked, ToWrite \cup {b}, cache.pool)
    BY Zenon, <1>2, <2>1, <2>2, WriteView
  <2> HIDE DEF w
  <2>4. PICK D, W \in SUBSET Bufs : D = Dirty \cup {b} /\ W = ToWrite \cup {b}
    BY Zenon, <1>2, Facts
  <2>5. View(cache', Free \cup {b}, IF b \in W THEN Dirty \cup {b} ELSE Dirty,
             Range(cache.hash), Locked \ {b}, W, cache.pool)
    BY ZenonT(40), <1>2, <1>5, <2>3, <2>4, ReleaseView
  <2>6. View(cache', Free \cup {b}, D, Range(cache.hash), Locked \ {b}, W, cache.pool)
    BY Zenon, <2>4, <2>5
  <2>7. D \ {b} = Dirty \ {b} /\ W \ {b} = ToWrite \ {b} /\ (b \in D <=> b \in W)
    BY Zenon, <2>4
  <2>8. Releases(p, b, "out", D, W)
    BY Zenon, <1>1, <1>2, <1>3, <2>6, <2>7, Facts DEF Releases
  <2> QED BY Zenon, <1>2, <1>3, <2>4, <2>8, ReleaseKeeps
<1> QED BY Zenon, <1>1, <1>4, <1>5

\* What a process writes back is on the free list, and off the dirty list.
LEMMA WriterHas ==
    ASSUME IInv, NEW p \in Syncers \cup {kbdflushd}
    PROVE  /\ p \in Procs /\ p # kswapd /\ p \notin Clients
           /\ buf[p] # NULL => /\ buf[p] \in Bufs /\ buf[p] \in Free /\ buf[p] \in ToWrite
                               /\ buf[p] \notin Dirty
BY Zenon, Facts, Procs4 DEF IInv, DirtyOK

\* It is unlocked again, clean, or on the dirty list.
WrittenBack(b) ==
    \/ cache' = Relist(cache, b)
    \/ cache' = Clear(Clear(cache, b, "DIRTY"), b, "LOCKED")

\* The invariant is kept then.
LEMMA WrittenKeeps ==
    ASSUME IInv, NEW p \in Syncers \cup {kbdflushd}, NEW b \in Bufs, buf[p] = b,
           NEW l \in Labels, l \notin Taken,
           pc' = [pc EXCEPT ![p] = l], buf' = [buf EXCEPT ![p] = NULL],
           UNCHANGED <<want, held, todo>>, WrittenBack(b)
    PROVE  IInv'
<1>1. /\ p \in Procs /\ p # kswapd
      /\ b \in Free /\ b \in ToWrite /\ b \notin Dirty
  BY Zenon, WriterHas, Procs4
<1>2. View(cache, Free, Dirty, Range(cache.hash), Locked, ToWrite, cache.pool)
  BY Zenon, Facts
<1>3. CASE cache' = Relist(cache, b)
  <2>1. PICK D, W \in SUBSET Bufs : D = Dirty \cup {b} /\ W = ToWrite
    BY Zenon, Facts
  <2>2. View(cache', Free \cup {b}, D, Range(cache.hash), Locked \ {b}, W, cache.pool)
    <3>1. View(Relist(cache, b), Free, Dirty \cup {b}, Range(cache.hash), Locked \ {b}, ToWrite,
               cache.pool)
      BY Zenon, <1>2, RelistView
    <3>2. Free \cup {b} = Free
      BY Zenon, <1>1
    <3> QED BY Zenon, <1>3, <2>1, <3>1, <3>2
  <2>3. D \ {b} = Dirty \ {b} /\ W \ {b} = ToWrite \ {b} /\ (b \in D <=> b \in W)
    BY Zenon, <1>1, <2>1
  <2>4. Releases(p, b, l, D, W)
    BY Zenon, <1>1, <2>2, <2>3, Facts DEF Releases
  <2> QED BY Zenon, <1>1, <2>4, ReleaseKeeps
<1>4. CASE cache' = Clear(Clear(cache, b, "DIRTY"), b, "LOCKED")
  <2>1. PICK W \in SUBSET Bufs : W = ToWrite \ {b}
    BY ZenonT(40), Facts
  <2>2. PICK c : c = Clear(cache, b, "DIRTY")
    BY Zenon
  <2>3. View(c, Free, Dirty, Range(cache.hash), Locked, W, cache.pool)
    BY Zenon, <1>2, <2>1, <2>2, CleanView
  <2>4. View(cache', Free, Dirty, Range(cache.hash), Locked \ {b}, W, cache.pool)
    BY Zenon, <1>4, <2>2, <2>3, UnlockView
  <2>5. View(cache', Free \cup {b}, Dirty, Range(cache.hash), Locked \ {b}, W, cache.pool)
    <3>1. Free \cup {b} = Free
      BY Zenon, <1>1
    <3> QED BY Zenon, <2>4, <3>1
  <2>6. /\ Dirty \ {b} = Dirty \ {b} /\ W \ {b} = ToWrite \ {b} /\ (b \in Dirty <=> b \in W)
        /\ Dirty \in SUBSET Bufs
    BY Zenon, <1>1, <2>1, Facts
  <2>7. Releases(p, b, l, Dirty, W)
    BY Zenon, <1>1, <2>5, <2>6, Facts DEF Releases
  <2> QED BY Zenon, <1>1, <2>6, <2>7, ReleaseKeeps
<1> QED BY Zenon, <1>3, <1>4 DEF WrittenBack

\* sync_buffers() and kbdflushd get sync_resource.
LEMMA SyncBeginKeeps ==
    ASSUME IInv, NEW p \in Syncers \cup {kbdflushd},
           (\E d \in SyncDevs : sync_buffers(p, d)) \/ (p = kbdflushd /\ FlushBegin)
    PROVE  IInv'
<1>1. /\ pc[p] \in {"out", "flush"} /\ pc' = [pc EXCEPT ![p] = "getdirty"]
      /\ UNCHANGED <<cache, buf, want, held, todo>>
  BY Zenon DEF sync_buffers, FlushBegin, At, Goto, clientvars, reclaimvars
<1>2. p \in Procs /\ p # kswapd
  BY Zenon, WriterHas
<1>3. (buf[p] # NULL <=> "getdirty" \in Taken) /\ "getdirty" \in Labels
  BY Zenon, <1>1, <1>2, Facts DEF Taken, Labels
<1> QED BY Zenon, <1>1, <1>2, <1>3, Facts, IdleKeeps

\* The end of the loop over the dirty list.
LEMMA SyncEndMoves ==
    ASSUME NEW p, NEW ch, SyncEnd(p, ch)
    PROVE  \E l \in Labels : l \notin Taken /\ pc' = [pc EXCEPT ![p] = l]
<1>1. pc' = [pc EXCEPT ![p] = "flush"] \/ pc' = [pc EXCEPT ![p] = "synced"]
  BY Zenon DEF SyncEnd, Goto, Leave
<1>2. "flush" \in Labels /\ "synced" \in Labels /\ "flush" \notin Taken /\ "synced" \notin Taken
  BY Zenon DEF Labels, Taken
<1> QED BY Zenon, <1>1, <1>2

\* get_dirty_buffer() takes the first dirty buffer that is not locked, or the
\* loop ends.
LEMMA GetDirtyKeeps ==
    ASSUME IInv, NEW p \in Syncers \cup {kbdflushd}, get_dirty_buffer(p)
    PROVE  IInv'
<1>0. View(cache, Free, Dirty, Range(cache.hash), Locked, ToWrite, cache.pool)
  BY Zenon, Facts
<1>1. pc[p] = "getdirty" /\ UNCHANGED <<want, held, todo>>
  BY Zenon DEF get_dirty_buffer, At, clientvars, reclaimvars
<1>2. p \in Procs /\ p # kswapd /\ p \notin Clients /\ buf[p] = NULL
  BY Zenon, <1>1, WriterHas, Facts DEF Taken
<1>3. CASE cache.dirty = <<>>
  <2>1. UNCHANGED <<cache, buf>> /\ \E l \in Labels : l \notin Taken /\ pc' = [pc EXCEPT ![p] = l]
    BY Zenon, <1>3, SyncEndMoves DEF get_dirty_buffer
  <2> QED BY Zenon, <1>1, <1>2, <2>1, Facts, IdleKeeps
<1>4. CASE cache.dirty # <<>>
  <2>1. PICK b \in Bufs : b = Head(cache.dirty) /\ b \in Dirty /\ b \in cache.pool
    <3>1. cache.dirty \in Seq(Bufs)
      BY Zenon, ListsOK DEF IInv, TypeOK
    <3>2. Head(cache.dirty) \in Dirty
      BY Zenon, <1>4, <3>1, ListElements DEF Dirty
    <3> QED BY Zenon, <3>2, Facts DEF IInv, InPool
  <2>2. CASE Has(cache, b, "LOCKED")
    <3>1. UNCHANGED <<cache, buf>> /\ pc' = [pc EXCEPT ![p] = "getdirty"]
      BY Zenon, <1>4, <2>1, <2>2 DEF get_dirty_buffer, SleepOn, Leave
    <3>2. (buf[p] # NULL <=> "getdirty" \in Taken) /\ "getdirty" \in Labels
      BY Zenon, <1>2 DEF Taken, Labels
    <3> QED BY Zenon, <1>1, <1>2, <3>1, <3>2, Facts, IdleKeeps
  <2>3. CASE ~Has(cache, b, "LOCKED")
    <3>1. /\ cache' = TakeDirty(cache, b) /\ buf' = [buf EXCEPT ![p] = b]
          /\ pc' = [pc EXCEPT ![p] = "gotdirty"]
      BY Zenon, <1>4, <2>1, <2>3 DEF get_dirty_buffer, Goto
    <3>2. b \notin Locked
      BY Zenon, <2>3 DEF Locked, Flagged
    <3>3. View(cache', Free, Dirty \ {b}, Range(cache.hash), Locked \cup {b}, ToWrite, cache.pool)
      BY Zenon, <1>0, <3>1, TakeDirtyView
    <3>4. "gotdirty" \in Plain /\ "gotdirty" \in Labels
      BY Zenon DEF Taken, Freeing, Plain, Labels
    <3>5. b \in Dirty /\ b \in cache.pool
      BY Zenon, <2>1
    <3> QED BY Zenon, <1>1, <1>2, <3>1, <3>2, <3>3, <3>4, <3>5, TakeKeeps DEF Takes
  <2> QED BY Zenon, <2>2, <2>3
<1> QED BY Zenon, <1>3, <1>4

\* kbdflushd writes the buffer or puts it back.
LEMMA FlushGotKeeps ==
    ASSUME IInv, FlushGot
    PROVE  IInv'
<1>1. pc[kbdflushd] = "gotdirty" /\ UNCHANGED <<want, held, todo>>
  BY Zenon DEF FlushGot, At, clientvars, reclaimvars
<1>2. PICK b \in Bufs : /\ b = buf[kbdflushd] /\ b \in ToWrite /\ b # NULL
                        /\ kbdflushd \in Procs /\ kbdflushd # kswapd
  BY Zenon, <1>1, WriterHas, Facts DEF Taken
<1>3. Has(cache, b, "DIRTY")
  BY Zenon, <1>2 DEF ToWrite, Flagged
<1>4. CASE first = b
  <2>1. /\ cache' = Relist(cache, b) /\ buf' = [buf EXCEPT ![kbdflushd] = NULL]
        /\ \E l \in Labels : l \notin Taken /\ pc' = [pc EXCEPT ![kbdflushd] = l]
    BY Zenon, <1>2, <1>3, <1>4, SyncEndMoves DEF FlushGot
  <2> QED BY Zenon, <1>1, <1>2, <2>1, WrittenKeeps DEF WrittenBack
<1>5. CASE first # b
  <2>1. UNCHANGED <<cache, buf>> /\ pc' = [pc EXCEPT ![kbdflushd] = "flushing"]
    BY Zenon, <1>2, <1>3, <1>5 DEF FlushGot, SleepOn, Leave
  <2>2. (buf[kbdflushd] # NULL <=> "flushing" \in Taken) /\ "flushing" \in Labels
    BY Zenon, <1>2 DEF Taken, Labels
  <2> QED BY Zenon, <1>1, <1>2, <2>1, <2>2, Facts, IdleKeeps
<1> QED BY Zenon, <1>4, <1>5

\* The write of kbdflushd ends, well or not.
LEMMA FlushDoneKeeps ==
    ASSUME IInv, NEW ok \in BOOLEAN, FlushDone(ok)
    PROVE  IInv'
<1>1. /\ pc[kbdflushd] = "flushing" /\ UNCHANGED <<want, held, todo>>
      /\ buf' = [buf EXCEPT ![kbdflushd] = NULL]
  BY Zenon DEF FlushDone, WriteDone, IoDone, clientvars, reclaimvars
<1>2. PICK b \in Bufs : b = buf[kbdflushd]
  BY Zenon, <1>1, WriterHas, Facts DEF Taken
<1>3. WrittenBack(b)
  BY Zenon, <1>2 DEF FlushDone, sync_one_buffer, WrittenBack
<1>4. \E l \in Labels : l \notin Taken /\ pc' = [pc EXCEPT ![kbdflushd] = l]
  <2>1. "getdirty" \in Labels /\ "getdirty" \notin Taken
    BY Zenon DEF Labels, Taken
  <2>2. \/ pc' = [pc EXCEPT ![kbdflushd] = "getdirty"]
        \/ SyncEnd(kbdflushd, [Woken({"buffer_wait"}) EXCEPT ![kbdflushd] = NULL])
    BY Zenon DEF FlushDone, Leave, Goto
  <2> QED BY Zenon, <2>1, <2>2, SyncEndMoves
<1> QED BY ZenonT(40), <1>1, <1>2, <1>3, <1>4, WrittenKeeps

\* sync_buffers() writes the buffer or puts it back.
LEMMA SyncGotKeeps ==
    ASSUME IInv, NEW p \in Syncers, SyncGot(p)
    PROVE  IInv'
<1>1. pc[p] = "gotdirty" /\ UNCHANGED <<want, held, todo>>
  BY Zenon DEF SyncGot, At, clientvars, reclaimvars
<1>2. PICK b \in Bufs : b = buf[p] /\ b # NULL /\ p \in Procs /\ p # kswapd
  BY Zenon, <1>1, WriterHas, Facts DEF Taken
<1>3. CASE first = b
  <2>1. /\ cache' = Relist(cache, b) /\ buf' = [buf EXCEPT ![p] = NULL]
        /\ \E l \in Labels : l \notin Taken /\ pc' = [pc EXCEPT ![p] = l]
    BY Zenon, <1>2, <1>3, SyncEndMoves DEF SyncGot
  <2> QED BY Zenon, <1>1, <1>2, <2>1, WrittenKeeps DEF WrittenBack
<1>4. CASE first # b /\ dev \in {NULL, Dev[cache.blk[b]]}
  <2>1. UNCHANGED <<cache, buf>> /\ pc' = [pc EXCEPT ![p] = "syncing"]
    BY Zenon, <1>2, <1>4 DEF SyncGot, SleepOn, Leave
  <2>2. (buf[p] # NULL <=> "syncing" \in Taken) /\ "syncing" \in Labels
    BY Zenon, <1>2 DEF Taken, Labels
  <2> QED BY Zenon, <1>1, <1>2, <2>1, <2>2, Facts, IdleKeeps
<1>5. CASE first # b /\ dev \notin {NULL, Dev[cache.blk[b]]}
  <2>1. /\ cache' = Relist(cache, b) /\ buf' = [buf EXCEPT ![p] = NULL]
        /\ pc' = [pc EXCEPT ![p] = "getdirty"]
    BY Zenon, <1>2, <1>5 DEF SyncGot, Goto
  <2>2. "getdirty" \in Labels /\ "getdirty" \notin Taken
    BY Zenon DEF Labels, Taken
  <2> QED BY Zenon, <1>1, <1>2, <2>1, <2>2, WrittenKeeps DEF WrittenBack
<1> QED BY Zenon, <1>3, <1>4, <1>5

\* The write of sync_buffers() ends, well or not.
LEMMA SyncDoneKeeps ==
    ASSUME IInv, NEW p \in Syncers, NEW ok \in BOOLEAN, SyncDone(p, ok)
    PROVE  IInv'
<1>1. /\ pc[p] = "syncing" /\ UNCHANGED <<want, held, todo>>
      /\ buf' = [buf EXCEPT ![p] = NULL] /\ pc' = [pc EXCEPT ![p] = "getdirty"]
  BY Zenon DEF SyncDone, WriteDone, IoDone, Goto, clientvars, reclaimvars
<1>2. PICK b \in Bufs : b = buf[p]
  BY Zenon, <1>1, WriterHas, Facts DEF Taken
<1>3. WrittenBack(b)
  BY Zenon, <1>2 DEF SyncDone, sync_one_buffer, WrittenBack
<1>4. "getdirty" \in Labels /\ "getdirty" \notin Taken
  BY Zenon DEF Labels, Taken
<1> QED BY ZenonT(40), <1>1, <1>2, <1>3, <1>4, WrittenKeeps

\* getblk() creates the buffers of a page, or asks for a free buffer.
LEMMA GetblkMissKeeps ==
    ASSUME IInv, NEW p \in Clients, GetblkMiss(p)
    PROVE  IInv'
<1>1. /\ p \in Procs /\ p # kswapd /\ pc[p] = "getblk" /\ UNCHANGED <<want, held, todo>>
  BY Zenon, Procs4 DEF GetblkMiss, At, reclaimvars, clientvars
<1>2. buf[p] = NULL
  BY ZenonT(40), <1>1, Facts DEF Taken
<1>3. CASE ~(MustGrow /\ FreePages # {})
  <2>1. pc' = [pc EXCEPT ![p] = "getfree"] /\ UNCHANGED <<cache, buf>>
    BY Zenon, <1>3 DEF GetblkMiss, Goto
  <2>2. (buf[p] # NULL <=> "getfree" \in Taken) /\ "getfree" \in Labels
    BY Zenon, <1>2 DEF Taken, Labels
  <2> QED BY Zenon, <1>1, <2>1, <2>2, Facts, IdleKeeps
<1>4. CASE MustGrow /\ FreePages # {}
  <2>1. PICK g \in FreePages : /\ cache' = create_buffers(cache, g)
                               /\ buf' = [buf EXCEPT ![p] = <<g, PerPage>>]
                               /\ pc' = [pc EXCEPT ![p] = "gotfree"]
    BY Zenon, <1>4 DEF GetblkMiss, Goto
  <2>2. PICK P, z : P = {g} \X (1 .. PerPage) /\ z = <<g, PerPage>>
    BY Zenon
  <2>3. g \in Pages /\ \A x \in cache.pool : x[1] # g
    BY Zenon DEF FreePages
  <2>4. z \in P /\ P \subseteq Bufs /\ \A x \in P : x[1] = g
    <3>1. PerPage \in 1 .. PerPage
      BY SMTT(30), BufferTableAssumption
    <3> QED BY Zenon, <2>2, <2>3, <3>1 DEF Bufs
  <2>5. P \cap cache.pool = {}
    BY Zenon, <2>3, <2>4
  <2>6. View(cache', Free \cup (P \ {z}), Dirty, Range(cache.hash), Locked \cup {z}, ToWrite,
             cache.pool \cup P)
    <3>1. \A x \in Free \cup Locked \cup ToWrite : x[1] # g
      BY Zenon, <2>3 DEF IInv, InPool
    <3>2. View(cache, Free, Dirty, Range(cache.hash), Locked, ToWrite, cache.pool)
      BY Zenon, Facts
    <3> QED BY Zenon, <2>1, <2>2, <2>3, <3>1, <3>2, CreateView
  <2>7. /\ CacheOK(cache') /\ Range(cache'.hash) = Range(cache.hash)
        /\ Free' = Free \cup (P \ {z}) /\ Dirty' = Dirty
        /\ Locked' = Locked \cup {z} /\ ToWrite' = ToWrite /\ cache'.pool = cache.pool \cup P
    BY Zenon, <2>6 DEF View, Free, Dirty, Locked, ToWrite
  <2>8. buf' = [buf EXCEPT ![p] = z] /\ z \in Bufs /\ z # NULL
    BY Zenon, <2>1, <2>2, <2>4, Procs4
  <2>9. "gotfree" \in Labels /\ "gotfree" \in Taken
    BY Zenon DEF Labels, Taken
  <2>10. TypeOK'
    <3>1. pc' \in [Procs -> Labels]
      BY Zenon, <2>1, <2>9 DEF IInv, TypeOK
    <3>2. buf' \in [Procs -> Bufs \cup {NULL}]
      BY Zenon, <2>8 DEF IInv, TypeOK
    <3> QED BY Zenon, <1>1, <2>7, <3>1, <3>2 DEF IInv, TypeOK
  <2>11. /\ \A q \in Procs : buf'[q] = IF q = p THEN z ELSE buf[q]
         /\ \A q \in Procs : pc'[q] = IF q = p THEN "gotfree" ELSE pc[q]
    BY Zenon, <2>1, <2>8 DEF IInv, TypeOK
  <2>12. /\ \A q \in Procs \ {p} : Owned(q)' = Owned(q)
         /\ Owned(p)' = Owned(p) \cup {z}
    <3>1. \A q \in Procs \ {p} : Owned(q)' = Owned(q)
      BY Zenon, <1>1, <2>11 DEF Owned
    <3>2. Owned(p)' = Owned(p) \cup {z}
      BY Zenon, <1>1, <1>2, <2>8, <2>11 DEF Owned
    <3> QED BY Zenon, <3>1, <3>2
  <2>13. Locked \subseteq cache.pool /\ z \notin cache.pool /\ z \notin Locked
    BY Zenon, <2>4, <2>5 DEF IInv, InPool
  <2>14. \A q \in Procs : Owned(q) \subseteq Locked /\ Owned(q) \subseteq Bufs
    BY Zenon, OwnedIs DEF IInv, OwnersOK
  <2>15. OwnersOK'
    <3>1. {z} \in SUBSET Bufs /\ {z} \cap Locked = {} /\ OwnersOK
      BY Zenon, <2>8, <2>13 DEF IInv
    <3> QED BY ZenonT(40), <1>1, <2>7, <2>12, <2>14, <3>1, OwnTake
  <2>16. PlacesOK'
    <3>1. \A q \in Procs : buf'[q] # NULL <=> pc'[q] \in Taken
      BY Zenon, <2>8, <2>9, <2>11 DEF IInv, PlacesOK
    <3>2. \A q \in Clients : q \in Procs /\ held[q] \subseteq Owned(q)
      BY SMTT(30), OwnedIs, Procs4 DEF IInv
    <3>3. \A q \in Clients : buf'[q] \notin held'[q]
      BY Zenon, <1>1, <2>11, <2>13, <2>14, <3>2 DEF IInv, PlacesOK
    <3>4. buf'[kswapd] \notin Range(todo')
      BY Zenon, <1>1, <2>11, Procs4 DEF IInv, PlacesOK
    <3> QED BY Zenon, <3>1, <3>3, <3>4 DEF PlacesOK
  <2>17. InPool'
    BY ZenonT(40), <2>4, <2>7 DEF IInv, InPool
  <2>18. FreeOK'
    <3>1. cache'.pool \ Locked' \subseteq Free'
      BY ZenonT(40), <2>7 DEF IInv, FreeOK
    <3>2. Free \subseteq cache.pool
      BY Zenon DEF IInv, InPool
    <3>3. ASSUME NEW q \in Clients PROVE Owned(q)' \cap Free' = {}
      <4>1. q \in Procs /\ Owned(q)' \subseteq Owned(q) \cup {z}
        BY Zenon, <2>12, <3>3, Procs4
      <4> QED BY ZenonT(40), <2>5, <2>7, <2>13, <2>14, <3>2, <3>3, <4>1 DEF IInv, FreeOK
    <3>4. buf'[kswapd] \notin Free'
      <4>1. buf'[kswapd] = buf[kswapd] /\ kswapd \in Procs
        BY Zenon, <1>1, <2>11, Procs4
      <4>2. buf[kswapd] = NULL \/ buf[kswapd] \in Owned(kswapd)
        BY Zenon DEF Owned
      <4>3. buf[kswapd] \notin P
        BY Zenon, <2>4, <2>5, <2>13, <2>14, <4>1, <4>2, Procs4
      <4> QED BY Zenon, <2>7, <4>1, <4>3 DEF IInv, FreeOK
    <3> QED BY Zenon, <3>1, <3>3, <3>4 DEF FreeOK
  <2>19. DirtyOK'
    <3>1. Dirty' \subseteq ToWrite'
      BY Zenon, <2>7 DEF IInv, DirtyOK
    <3>2. kswapd \in Procs /\ Owned(kswapd)' = Owned(kswapd)
      BY Zenon, <1>1, <2>12, Procs4
    <3>3. \A x \in ToWrite' : x \notin Locked' \/ x \in Owned(kswapd)' => x \in Dirty'
      BY Zenon, <2>7, <3>2 DEF IInv, DirtyOK
    <3>4. \A q \in Syncers \cup {kbdflushd} : buf'[q] = buf[q]
      BY Zenon, <2>11, Procs4
    <3>5. \A q \in Syncers \cup {kbdflushd} :
              buf'[q] # NULL => buf'[q] \in (Free' \cap ToWrite') \ Dirty'
      BY Zenon, <2>7, <3>4 DEF IInv, DirtyOK
    <3> QED BY Zenon, <3>1, <3>3, <3>5 DEF DirtyOK
  <2>20. PagesOK'
    <3>1. buf'[kswapd] = buf[kswapd] /\ pc'[kswapd] = pc[kswapd] /\ kswapd \in Procs
      BY Zenon, <1>1, <2>11, Procs4
    <3>2. ASSUME NEW x \in cache'.pool
          PROVE  IF pc[kswapd] \in Freeing /\ x[1] = buf[kswapd][1]
                 THEN x \in {buf[kswapd]} \cup Range(todo)
                 ELSE {x[1]} \X (1 .. PerPage) \subseteq cache'.pool
      <4>1. CASE x \in cache.pool
        BY Zenon, <2>7, <4>1 DEF IInv, PagesOK
      <4>2. CASE x \in P
        <5>1. x[1] = g /\ {x[1]} \X (1 .. PerPage) \subseteq cache'.pool
          BY Zenon, <2>2, <2>4, <2>7, <4>2
        <5>2. pc[kswapd] \in Freeing => buf[kswapd][1] # g
          <6> SUFFICES ASSUME pc[kswapd] \in Freeing PROVE buf[kswapd][1] # g
            BY Zenon
          <6>1. buf[kswapd] # NULL
            BY ZenonT(40), <3>1, Facts DEF Freeing, Taken
          <6>2. buf[kswapd] \in Owned(kswapd)
            BY Zenon, <6>1 DEF Owned
          <6> QED BY Zenon, <2>3, <2>13, <2>14, <3>1, <6>2
        <5> QED BY Zenon, <5>1, <5>2
      <4> QED BY Zenon, <2>7, <3>2, <4>1, <4>2
    <3> QED BY ZenonT(40), <1>1, <2>7, <3>1, <3>2 DEF IInv, PagesOK
  <2> QED BY Zenon, <2>10, <2>15, <2>16, <2>17, <2>18, <2>19, <2>20 DEF IInv
<1> QED BY Zenon, <1>3, <1>4
=============================================================================
