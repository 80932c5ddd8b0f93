---------------------------- MODULE BufferReclaim ----------------------------
(***************************************************************************)
(* reclaim_buffers() of fs/buffer.c, with which kswapd frees the pages of  *)
(* buffers.                                                                *)
(***************************************************************************)
EXTENDS BufferState

\* get_free_page() finds that memory is low, on behalf of any process.
MemoryLow ==
    /\ kswapd \in team /\ current = NULL /\ chan[kswapd] = "kswapd"
    /\ chan' = Woken({"kswapd"})
    /\ UNCHANGED <<team, cache, disk, pc, current, buf, clientvars, syncvars,
                   reclaimvars>>

\* The mark of an earlier call is taken for this one's when both are made in
\* the same second of uptime.
ReclaimBegin(samesecond) ==
    /\ At(kswapd, "reclaim")
    /\ cache' = IF samesecond THEN cache ELSE [cache EXCEPT !.mark = {}]
    /\ Goto(kswapd, "getfree")
    /\ UNCHANGED <<disk, chan, buf, reclaimvars, clientvars, syncvars>>

ReclaimEnd ==
    /\ found' = FALSE /\ reclaimed' = 0
    /\ chan' = [Woken({"get_free_buffer", "buffer_wait"}) EXCEPT
                  ![kswapd] = "kswapd"]
    /\ Leave(kswapd, "reclaim")

\* The sizes have been gone through: again, if this pass has found something.
NextPass ==
    IF found THEN /\ found' = FALSE
                  /\ Goto(kswapd, "getfree") /\ UNCHANGED <<chan, reclaimed>>
    ELSE ReclaimEnd

ReclaimNone ==
    /\ At(kswapd, "getfree") /\ cache.free = <<>>
    /\ NextPass
    /\ UNCHANGED <<cache, disk, buf, todo, clientvars, syncvars>>

\* A free buffer: one passed over before ends the pass, a dirty one is
\* written first.
ReclaimGot ==
    LET b == buf[kswapd] IN
    /\ At(kswapd, "rgot")
    /\ IF b \in cache.mark
       THEN /\ cache' = [PutBack(cache, b) EXCEPT !.mark = @ \ {b}]
            /\ buf' = [buf EXCEPT ![kswapd] = NULL]
            /\ NextPass
       ELSE /\ found' = TRUE
            /\ IF Has(cache, b, "DIRTY") THEN SleepOn(kswapd, "io", "rsync")
               ELSE Goto(kswapd, "siblings") /\ UNCHANGED chan
            /\ UNCHANGED <<cache, buf, reclaimed>>
    /\ UNCHANGED <<disk, todo, clientvars, syncvars>>

\* The buffer is given up also when the write failed.
ReclaimSynced(ok) ==
    LET b == buf[kswapd]
        c == sync_one_buffer(b, ok)
    IN  /\ WriteDone(kswapd, "rsync", ok)
        /\ cache' = IF ok THEN remove_from_dirty_list(c, b) ELSE c
        /\ chan' = [chan EXCEPT ![kswapd] = NULL]
        /\ Goto(kswapd, "siblings")
        /\ UNCHANGED <<buf, clientvars, syncvars, reclaimvars>>

\* reclaim_siblings(): gives up when one is locked, otherwise locks them all.
reclaim_siblings ==
    LET b == buf[kswapd]
        s == SiblingsOf(b)
    IN  /\ At(kswapd, "siblings")
        /\ IF \E x \in Range(s) : Has(cache, x, "LOCKED")
           THEN /\ cache' = [PutBack(cache, b) EXCEPT !.mark = @ \cup {b}]
                /\ buf' = [buf EXCEPT ![kswapd] = NULL]
                /\ Goto(kswapd, "getfree") /\ UNCHANGED todo
           ELSE /\ cache' = LockAll(cache, Range(s))
                /\ todo' = s
                /\ Goto(kswapd, "free") /\ UNCHANGED buf
        /\ UNCHANGED <<disk, chan, found, reclaimed, clientvars, syncvars>>

\* The next sibling is freed, after it has been written if it is dirty ...
ReclaimSibling ==
    /\ At(kswapd, "free") /\ todo # <<>>
    /\ IF Has(cache, Head(todo), "DIRTY")
       THEN SleepOn(kswapd, "io", "sibsync") /\ UNCHANGED <<cache, todo>>
       ELSE /\ cache' = Discard(cache, Head(todo))
            /\ todo' = Tail(todo)
            /\ Goto(kswapd, "free") /\ UNCHANGED chan
    /\ UNCHANGED <<disk, buf, found, reclaimed, clientvars, syncvars>>

\* ... or the write has failed.
SiblingSynced(ok) ==
    LET b == Head(todo)
        c == sync_one_buffer(b, ok)
    IN  /\ IoDone(kswapd, "sibsync") /\ (ok \/ kswapd \in FailingWriters)
        /\ disk' = Written(b, ok)
        /\ cache' = Discard(IF ok THEN remove_from_dirty_list(c, b) ELSE c, b)
        /\ todo' = Tail(todo)
        /\ chan' = [chan EXCEPT ![kswapd] = NULL]
        /\ Goto(kswapd, "free")
        /\ UNCHANGED <<buf, found, reclaimed, clientvars, syncvars>>

\* The page is free.
Reclaimed ==
    /\ At(kswapd, "free") /\ todo = <<>>
    /\ cache' = Discard(cache, buf[kswapd])
    /\ buf' = [buf EXCEPT ![kswapd] = NULL]
    /\ IF reclaimed + 1 = NR_BUF_RECLAIM THEN ReclaimEnd
       ELSE /\ reclaimed' = reclaimed + 1
            /\ Goto(kswapd, "getfree") /\ UNCHANGED <<chan, found>>
    /\ UNCHANGED <<disk, todo, clientvars, syncvars>>

ReclaimStep ==
    \/ MemoryLow
    \/ \E same \in BOOLEAN : ReclaimBegin(same)
    \/ GetFree(kswapd, "rgot")
    \/ ReclaimNone
    \/ ReclaimGot
    \/ \E ok \in BOOLEAN : ReclaimSynced(ok) \/ SiblingSynced(ok)
    \/ reclaim_siblings
    \/ ReclaimSibling
    \/ Reclaimed
==============================================================================
