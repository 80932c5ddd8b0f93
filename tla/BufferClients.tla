---------------------------- MODULE BufferClients ----------------------------
(***************************************************************************)
(* bread(), brelse() and bwrite() of fs/buffer.c: the processes that read  *)
(* and write blocks.                                                       *)
(***************************************************************************)
EXTENDS BufferState

bread(p, k) ==
    /\ At(p, "out") /\ Cardinality(held[p]) < MaxHeld
    /\ \A b \in held[p] : cache.blk[b] < k
    /\ want' = [want EXCEPT ![p] = k]
    /\ Goto(p, "getblk")
    /\ UNCHANGED <<cache, disk, chan, buf, held, orphans, syncvars,
                   reclaimvars>>

\* getblk() finds the block: it waits for a locked buffer and searches again.
GetblkHit(p) ==
    LET b == search_buffer_hash(cache, want[p]) IN
    /\ At(p, "getblk") /\ b # NULL
    /\ IF Has(cache, b, "LOCKED")
       THEN /\ SleepOn(p, "buffer_wait", "getblk")
            /\ UNCHANGED <<cache, buf>>
       ELSE /\ cache' = remove_from_free_list(SetFlag(cache, b, "LOCKED"), b)
            /\ buf' = [buf EXCEPT ![p] = b]
            /\ Goto(p, "bread")
            /\ UNCHANGED chan
    /\ UNCHANGED <<disk, clientvars, syncvars, reclaimvars>>

\* A page is free when its last buffer is.
FreePages == {g \in Pages : \A b \in cache.pool : b[1] # g}

\* get_free_buffer(GROW_IF_NEEDED): no unused buffer is left.
MustGrow == cache.free = <<>> \/ cache.blk[Head(cache.free)] # NULL

GetblkMiss(p) ==
    /\ At(p, "getblk") /\ search_buffer_hash(cache, want[p]) = NULL
    /\ IF MustGrow /\ FreePages # {}
       THEN LET g == CHOOSE x \in FreePages : TRUE IN
            /\ cache' = create_buffers(cache, g)
            /\ chan' = IF PerPage > 1 THEN Woken(Released(cache)) ELSE chan
            /\ buf' = [buf EXCEPT ![p] = <<g, PerPage>>]
            /\ Goto(p, "gotfree")
       ELSE Goto(p, "getfree") /\ UNCHANGED <<cache, chan, buf>>
    /\ UNCHANGED <<disk, clientvars, syncvars, reclaimvars>>

\* No buffer on the free list: kswapd is called to help.
GetFreeNone(p) ==
    /\ At(p, "getfree") /\ cache.free = <<>>
    /\ chan' = [Woken({"kswapd"}) EXCEPT ![p] = "get_free_buffer"]
    /\ Leave(p, "getblk")
    /\ UNCHANGED <<cache, disk, buf, clientvars, syncvars, reclaimvars>>

\* getblk() has a free buffer: it writes a dirty one to the disk first, to
\* release it and search again, and gives a clean one to the block.
GotFree(p) ==
    LET b == buf[p] IN
    /\ At(p, "gotfree")
    /\ IF Has(cache, b, "DIRTY")
       THEN SleepOn(p, "io", "syncfree") /\ UNCHANGED cache
       ELSE /\ cache' = Rehash(cache, b, want[p])
            /\ Goto(p, "bread")
            /\ UNCHANGED chan
    /\ UNCHANGED <<disk, buf, clientvars, syncvars, reclaimvars>>

SyncFreeDone(p, ok) ==
    LET b == buf[p]
        c == sync_one_buffer(b, ok)
    IN  /\ WriteDone(p, "syncfree", ok)
        /\ cache' = brelse(IF ok THEN remove_from_dirty_list(c, b) ELSE c, b)
        /\ chan' = [Woken(Released(cache')) EXCEPT ![p] = NULL]
        /\ buf' = [buf EXCEPT ![p] = NULL]
        /\ Goto(p, "getblk")
        /\ UNCHANGED <<clientvars, syncvars, reclaimvars>>

\* bread() has the buffer: it returns it or reads the block.  All devices are
\* registered: for another one bread() returns NULL with the buffer locked.
BreadBuffer(p) ==
    /\ At(p, "bread")
    /\ IF Has(cache, buf[p], "VALID")
       THEN /\ held' = [held EXCEPT ![p] = @ \cup {buf[p]}]
            /\ buf' = [buf EXCEPT ![p] = NULL]
            /\ want' = [want EXCEPT ![p] = NULL]
            /\ Leave(p, "out") /\ UNCHANGED chan
       ELSE SleepOn(p, "io", "read") /\ UNCHANGED <<held, buf, want>>
    /\ UNCHANGED <<cache, disk, orphans, syncvars, reclaimvars>>

\* The read ends; a failed one releases the buffer and bread() returns NULL.
ReadDone(p, ok) ==
    LET b == buf[p]
        fresh == IF cache.blk[b] \in disk THEN cache.fresh \cup {b}
                 ELSE cache.fresh \ {b}
    IN  /\ IoDone(p, "read")
        /\ IF ok
           THEN /\ cache' = [SetFlag(cache, b, "VALID") EXCEPT !.fresh = fresh]
                /\ held' = [held EXCEPT ![p] = @ \cup {b}]
                /\ chan' = [chan EXCEPT ![p] = NULL]
           ELSE /\ cache' = brelse(cache, b)
                /\ chan' = [Woken(Released(cache')) EXCEPT ![p] = NULL]
                /\ UNCHANGED held
        /\ buf' = [buf EXCEPT ![p] = NULL]
        /\ want' = [want EXCEPT ![p] = NULL]
        /\ Leave(p, "out")
        /\ UNCHANGED <<disk, orphans, syncvars, reclaimvars>>

\* A client, which may have slept since it got the buffer, releases it.
Brelse(p, b) ==
    /\ At(p, "out") /\ b \in held[p]
    /\ cache' = brelse(cache, b)
    /\ chan' = Woken(Released(cache'))
    /\ held' = [held EXCEPT ![p] = @ \ {b}]
    /\ Leave(p, "out")
    /\ UNCHANGED <<disk, buf, want, orphans, syncvars, reclaimvars>>

\* It has written to the buffer: no other copy of the block is the last one.
bwrite(p, b) ==
    LET k == cache.blk[b]
        w == [cache EXCEPT
                !.flags[b] = @ \cup {"DIRTY", "VALID"},
                !.fresh = {x \in @ : cache.blk[x] # k} \cup {b}]
    IN  /\ At(p, "out") /\ b \in held[p]
        /\ cache' = brelse(w, b)
        /\ disk' = disk \ {k}
        /\ chan' = Woken(Released(cache'))
        /\ held' = [held EXCEPT ![p] = @ \ {b}]
        /\ Leave(p, "out")
        /\ UNCHANGED <<buf, want, orphans, syncvars, reclaimvars>>

ClientStep(p) ==
    \/ \E k \in Blocks : bread(p, k)
    \/ GetblkHit(p)
    \/ GetblkMiss(p)
    \/ GetFree(p, "gotfree")
    \/ GetFreeNone(p)
    \/ GotFree(p)
    \/ BreadBuffer(p)
    \/ \E ok \in BOOLEAN : SyncFreeDone(p, ok) \/ ReadDone(p, ok)
    \/ \E b \in held[p] : Brelse(p, b) \/ bwrite(p, b)
==============================================================================
