----------------------------- MODULE BufferCache -----------------------------
(***************************************************************************)
(* The buffer cache, fs/buffer.c: the processes that read and write blocks *)
(* (Clients), sync_buffers() and the invalidate_buffers() of umount        *)
(* (Syncers), the daemon kbdflushd and kswapd's reclaim_buffers(), in any  *)
(* interleaving of what they do between two sleeps.                        *)
(*                                                                         *)
(* One size of buffers, PerPage of them on a page.  The circular lists are *)
(* sequences; the hash table is one bucket, searched from its head.  The   *)
(* contents of a buffer or a disk block are abstracted to whether they are *)
(* the last ones written to the block.  sync_resource is a lock that works *)
(* (Sched shows it does).  The structures of new buffers are always        *)
(* available: only their pages can run out.                                *)
(***************************************************************************)
EXTENDS BufferClients, BufferSync, BufferReclaim

Init ==
    /\ team \in Teams
    /\ cache = EmptyCache
    /\ disk = Blocks
    /\ chan = [p \in Procs |-> CASE p = kbdflushd -> "kbdflushd"
                                 [] p = kswapd -> "kswapd" [] OTHER -> NULL]
    /\ pc = [p \in Procs |-> CASE p = kbdflushd -> "flush"
                               [] p = kswapd -> "reclaim" [] OTHER -> "out"]
    /\ current = NULL
    /\ want = [p \in Clients |-> NULL]
    /\ buf = [p \in Procs |-> NULL]
    /\ held = [p \in Clients |-> {}]
    /\ sync = NULL /\ first = NULL /\ flushed = 0 /\ dev = NULL
    /\ found = FALSE /\ reclaimed = 0 /\ todo = <<>>
    /\ orphans = {}

----------------------------------------------------------------------------
Next ==
    \/ \E p \in Clients : ClientStep(p)
    \/ \E p \in Syncers : SyncStep(p)
    \/ FlushStep
    \/ ReclaimStep

Spec == Init /\ [][Next]_vars

----------------------------------------------------------------------------
\* Owners, flags and lists agree.  A buffer is locked by one process at a
\* time, whatever daemon takes it from whatever list, and marked
\* BUFFER_LOCKED exactly as long; an unlocked one is on the free list, where
\* getblk() takes it from, and what a client uses is not; an unlocked one is
\* on the dirty list exactly if it is dirty ("a dirty buffer ... is not marked
\* as dirty!" is never printed), so that kbdflushd and sync_buffers() find it.
BuffersAccounted ==
    /\ \A p, q \in Procs : p # q => Owned(p) \cap Owned(q) = {}
    /\ UNION {Owned(p) : p \in Procs} = {b \in Bufs : Has(cache, b, "LOCKED")}
    /\ \A p \in Clients : Owned(p) \cap Range(cache.free) = {}
    /\ \A b \in cache.pool :
          /\ Has(cache, b, "LOCKED") \/ b \in Range(cache.free)
          /\ b \in Range(cache.dirty) => Has(cache, b, "DIRTY")
          /\ Has(cache, b, "DIRTY") /\ ~Has(cache, b, "LOCKED") =>
               b \in Range(cache.dirty)

\* What bread() returned and was not written since is what the last bwrite()
\* of the block left, through every write-back, reuse and reclaim of its
\* buffers, unless the block was invalidated while it was dirty.
ReadsLastWrite ==
    \A p \in Clients : \A b \in held[p] :
        cache.blk[b] \in orphans \/ b \in cache.fresh

\* No bwrite() is lost: a block whose last contents are not on the disk has
\* a dirty buffer with them.
WritesNotLost ==
    \A k \in Blocks \ (disk \cup orphans) :
        \E b \in cache.pool : /\ cache.blk[b] = k /\ b \in cache.fresh
                              /\ Has(cache, b, "DIRTY")
==============================================================================
