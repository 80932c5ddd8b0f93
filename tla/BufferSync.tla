----------------------------- MODULE BufferSync ------------------------------
(***************************************************************************)
(* sync_buffers(), which sync() and umount call, invalidate_buffers() and  *)
(* the daemon kbdflushd() of fs/buffer.c.                                  *)
(***************************************************************************)
EXTENDS BufferState

\* A process calls sync_buffers(d).
sync_buffers(p, d) ==
    /\ At(p, "out") /\ sync = NULL
    /\ sync' = p /\ dev' = d
    /\ Goto(p, "getdirty")
    /\ UNCHANGED <<first, flushed, cache, disk, chan, buf, clientvars, reclaimvars>>

\* kbdflushd is woken up and gets sync_resource.
FlushBegin ==
    /\ At(kbdflushd, "flush") /\ sync = NULL
    /\ sync' = kbdflushd
    /\ Goto(kbdflushd, "getdirty")
    /\ UNCHANGED <<first, flushed, dev, cache, disk, chan, buf, clientvars, reclaimvars>>

\* The end of the loop: sync_buffers() wakes the waiters if it has written
\* something, kbdflushd sleeps again.
SyncEnd(p, ch) ==
    /\ IF p = kbdflushd
       THEN /\ chan' = [ch EXCEPT ![p] = "kbdflushd"]
            /\ Leave(p, "flush")
       ELSE /\ chan' = [q \in Procs |-> IF flushed > 0 /\ ch[q] = "buffer_wait"
                                        THEN NULL ELSE ch[q]]
            /\ Goto(p, "synced")
    /\ UNCHANGED dev
    /\ sync' = NULL /\ first' = NULL /\ flushed' = 0

get_dirty_buffer(p) ==
    /\ At(p, "getdirty")
    /\ IF cache.dirty = <<>>
       THEN SyncEnd(p, chan) /\ UNCHANGED <<cache, buf>>
       ELSE LET b == Head(cache.dirty) IN
            /\ UNCHANGED syncvars
            /\ IF Has(cache, b, "LOCKED")
               THEN /\ SleepOn(p, "buffer_wait", "getdirty")
                    /\ UNCHANGED <<cache, buf>>
               ELSE /\ cache' = TakeDirty(cache, b)
                    /\ buf' = [buf EXCEPT ![p] = b]
                    /\ Goto(p, "gotdirty")
                    /\ UNCHANGED chan
    /\ UNCHANGED <<disk, clientvars, reclaimvars>>

\* kbdflushd ends when it meets the buffer it began with.
FlushGot ==
    LET b == buf[kbdflushd] IN
    /\ At(kbdflushd, "gotdirty")
    /\ IF ~Has(cache, b, "DIRTY")
       THEN /\ Goto(kbdflushd, "getdirty")
            /\ buf' = [buf EXCEPT ![kbdflushd] = NULL]
            /\ UNCHANGED <<cache, chan, syncvars>>
       ELSE IF first = b
       THEN /\ cache' = Relist(cache, b)
            /\ buf' = [buf EXCEPT ![kbdflushd] = NULL]
            /\ SyncEnd(kbdflushd, Woken({"buffer_wait"}))
       ELSE /\ first' = IF first = NULL THEN b ELSE first
            /\ SleepOn(kbdflushd, "io", "flushing")
            /\ UNCHANGED <<cache, buf, sync, flushed, dev>>
    /\ UNCHANGED <<disk, clientvars, reclaimvars>>

\* After NR_BUF_RECLAIM writes kbdflushd ends, or lets others run while there
\* are too many dirty buffers.
FlushDone(ok) ==
    LET b == buf[kbdflushd]
        c == sync_one_buffer(b, ok)
        wake == [Woken({"buffer_wait"}) EXCEPT ![kbdflushd] = NULL]
        batch == ok /\ flushed + 1 = NR_BUF_RECLAIM
    IN  /\ WriteDone(kbdflushd, "flushing", ok)
        /\ cache' = IF ok THEN Clear(c, b, "LOCKED") ELSE Relist(c, b)
        /\ buf' = [buf EXCEPT ![kbdflushd] = NULL]
        /\ IF batch /\ Len(cache.dirty) < MAX_DIRTY
           THEN SyncEnd(kbdflushd, wake)
           ELSE /\ flushed' = IF batch THEN 0 ELSE IF ok THEN flushed + 1 ELSE flushed
                /\ chan' = wake
                /\ IF batch THEN Leave(kbdflushd, "getdirty")
                   ELSE Goto(kbdflushd, "getdirty")
                /\ UNCHANGED <<sync, first, dev>>
        /\ UNCHANGED <<clientvars, reclaimvars>>

\* sync_buffers() passes over the buffers of other devices; it ends when it
\* meets the first of them again.
SyncGot(p) ==
    LET b == buf[p]
        done == buf' = [buf EXCEPT ![p] = NULL] /\ cache' = Relist(cache, b)
    IN  /\ p \in Syncers /\ At(p, "gotdirty")
        /\ IF first = b
           THEN done /\ SyncEnd(p, Woken({"buffer_wait"} \cup TooDirty(cache')))
           ELSE IF dev \in {NULL, Dev[cache.blk[b]]}
           THEN SleepOn(p, "io", "syncing") /\ UNCHANGED <<cache, buf, syncvars>>
           ELSE /\ done
                /\ first' = IF first = NULL THEN b ELSE first
                /\ chan' = Woken(TooDirty(cache'))
                /\ Goto(p, "getdirty")
                /\ UNCHANGED <<sync, flushed, dev>>
        /\ UNCHANGED <<disk, clientvars, reclaimvars>>

\* sync_buffers() unlocks the buffer and wakes nobody until the end.
SyncDone(p, ok) ==
    LET b == buf[p]
        c == sync_one_buffer(b, ok)
    IN  /\ WriteDone(p, "syncing", ok)
        /\ cache' = IF ok THEN Clear(c, b, "LOCKED") ELSE Relist(c, b)
        /\ chan' = [Woken(TooDirty(cache')) EXCEPT ![p] = NULL]
        /\ buf' = [buf EXCEPT ![p] = NULL]
        /\ flushed' = IF ok THEN 1 ELSE flushed
        /\ Goto(p, "getdirty")
        /\ UNCHANGED <<sync, first, dev, clientvars, reclaimvars>>

\* invalidate_buffers(d): the unlocked buffers of the device leave the hash
\* table and lose their contents.
Invalid(d) ==
    {b \in cache.pool : /\ ~Has(cache, b, "LOCKED") /\ cache.blk[b] # NULL
                        /\ Dev[cache.blk[b]] = d}

\* The caller returns, or goes on with invalidate_buffers() for the device
\* it synced, as umount does.
Synced(p, invalidate) ==
    /\ At(p, "synced")
    /\ IF invalidate /\ dev # NULL
       THEN LET S == Invalid(dev) IN
            /\ cache' = [cache EXCEPT
                 !.hash = Without(@, S),
                 !.fresh = {b \in @ : b \notin S \/ Has(cache, b, "DIRTY")},
                 !.flags = [b \in Bufs |-> IF b \in S THEN @[b] \ {"VALID"}
                                           ELSE @[b]]]
            /\ chan' = IF S = {} THEN chan ELSE Woken({"buffer_wait"})
            /\ orphans' = orphans \cup {cache.blk[b] : b \in S \cap Range(cache.dirty)}
       ELSE UNCHANGED <<cache, chan, orphans>>
    /\ Leave(p, "out")
    /\ dev' = NULL
    /\ UNCHANGED <<disk, buf, want, held, sync, first, flushed,
                   reclaimvars>>

SyncStep(p) ==
    \/ \E d \in SyncDevs : sync_buffers(p, d)
    \/ get_dirty_buffer(p)
    \/ SyncGot(p)
    \/ \E ok \in BOOLEAN : SyncDone(p, ok) \/ Synced(p, ok)

FlushStep ==
    \/ FlushBegin
    \/ get_dirty_buffer(kbdflushd)
    \/ FlushGot
    \/ \E ok \in BOOLEAN : FlushDone(ok)
==============================================================================
