----------------------------- MODULE BufferState -----------------------------
(***************************************************************************)
(* The state of the buffer cache and of the processes that use it, and     *)
(* what the functions of fs/buffer.c have in common: who has the CPU,      *)
(* sleeping and waking up, taking a buffer from the free list, writing a   *)
(* buffer.                                                                 *)
(*                                                                         *)
(* The kernel is not preemptive: `current' is the process between two of   *)
(* its sleeps, and nobody else moves until it sleeps or leaves.            *)
(***************************************************************************)
EXTENDS BufferTable

CONSTANTS
    Clients, Syncers, kbdflushd, kswapd,
    Dev,           \* [Blocks -> devices]
    SyncDevs,      \* the arguments of sync_buffers(): devices, NULL for all
    MaxHeld,       \* bound: the buffers a client holds at once
    MAX_DIRTY,     \* kstat.max_dirty_buffers
    NR_BUF_RECLAIM,
    FailingWriters,  \* the processes whose writes to the disk may fail
    Teams            \* the sets of processes that run together

ASSUME BufferCacheAssumption ==
    /\ Clients \cap Syncers = {} /\ kbdflushd # kswapd
    /\ {kbdflushd, kswapd} \cap (Clients \cup Syncers) = {}
    /\ NULL \notin Clients \cup Syncers \cup {kbdflushd, kswapd}
    /\ NULL \notin {"io", "buffer_wait", "get_free_buffer", "kbdflushd", "kswapd"}

Procs == Clients \cup Syncers \cup {kbdflushd, kswapd}

VARIABLES
    team,     \* the processes that run; the others never get the CPU
    cache,    \* the buffer table and its lists
    disk,     \* the blocks whose last contents are on the disk
    chan,     \* the address a process sleeps on, "io", or NULL
    pc, current,
    want,     \* the block a client asks for
    buf,      \* the buffer a process works on
    held,     \* the buffers a client got from bread()
    sync,     \* the holder of sync_resource
    first, flushed, dev,    \* the locals of sync_buffers() and kbdflushd()
    found, reclaimed, todo, \* the locals of reclaim_buffers()
    orphans   \* history: the blocks whose buffer was invalidated while dirty

syncvars == <<sync, first, flushed, dev>>
reclaimvars == <<found, reclaimed, todo>>
clientvars == <<want, held, orphans>>
vars == <<team, cache, disk, chan, pc, current, buf, syncvars, reclaimvars,
          clientvars>>

----------------------------------------------------------------------------
\* insert_on_dirty_list() wakes kbdflushd when there are too many.
TooDirty(c) == IF Len(c.dirty) > MAX_DIRTY /\ Len(c.dirty) > Len(cache.dirty)
               THEN {"kbdflushd"} ELSE {}

Woken(addrs) == [p \in Procs |-> IF chan[p] \in addrs THEN NULL ELSE chan[p]]

\* The addresses brelse() wakes.
Released(c) == {"get_free_buffer", "buffer_wait"} \cup TooDirty(c)

----------------------------------------------------------------------------
\* p has the CPU, or gets it, at label l.
At(p, l) ==
    p \in team /\ pc[p] = l /\ chan[p] = NULL /\ current \in {p, NULL}

\* The transfer p waits for at label l ends and p gets the CPU.
IoDone(p, l) == pc[p] = l /\ chan[p] = "io" /\ current = NULL

Goto(p, l) == pc' = [pc EXCEPT ![p] = l] /\ current' = p /\ UNCHANGED team
Leave(p, l) == pc' = [pc EXCEPT ![p] = l] /\ current' = NULL /\ UNCHANGED team
SleepOn(p, a, l) == chan' = [chan EXCEPT ![p] = a] /\ Leave(p, l)

----------------------------------------------------------------------------
\* The loop of get_free_buffer(): take the head of the free list unless it is
\* locked, which it is while it is written to the disk by somebody else.
GetFree(p, got) ==
    /\ At(p, "getfree") /\ cache.free # <<>>
    /\ LET b == Head(cache.free) IN
       IF Has(cache, b, "LOCKED")
       THEN /\ SleepOn(p, "buffer_wait", "getfree")
            /\ UNCHANGED <<cache, buf>>
       ELSE /\ cache' = SetFlag(remove_from_free_list(cache, b), b, "LOCKED")
            /\ buf' = [buf EXCEPT ![p] = b]
            /\ Goto(p, got)
            /\ UNCHANGED chan
    /\ UNCHANGED <<disk, clientvars, syncvars, reclaimvars>>

\* sync_one_buffer(): what the end of the write does to the flags of b ...
\* Variant: BUFFER_DIRTY is cleared although the write failed.
SyncOneAlways(b, ok) == Clear(cache, b, "DIRTY")

sync_one_buffer(b, ok) == IF ok THEN Clear(cache, b, "DIRTY") ELSE cache

\* ... and to the disk.
Written(b, ok) ==
    IF ~ok THEN disk
    ELSE IF b \in cache.fresh THEN disk \cup {cache.blk[b]}
    ELSE disk \ {cache.blk[b]}

\* The write of buf[p] that p waits for at label l ends.
WriteDone(p, l, ok) ==
    /\ IoDone(p, l)
    /\ ok \/ p \in FailingWriters
    /\ disk' = Written(buf[p], ok)

\* The buffers a process has locked.
Owned(p) ==
    ((IF p \in Clients THEN held[p] ELSE {}) \cup {buf[p]} \cup
     (IF p = kswapd THEN Range(todo) ELSE {})) \ {NULL}
==============================================================================
