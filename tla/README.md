# Verification of the Fiwix kernel

Fiwix is a small UNIX-like kernel for the i386. This directory holds TLA+
models of its parts, the TLC configurations that check them on small instances,
and TLAPS proofs about them. Paths such as `kernel/sleep.c` are relative to
`src/`; `PROJECT.json` gives the lines behind every definition.

## How the kernel executes

The kernel is not preemptive. A process that is in the kernel keeps the CPU
until it calls `do_sched()`, from `sleep()` or on the way back to user mode.
Interrupt handlers and their bottom halves run between any two instructions
executed with the interrupts enabled; on the way out of an interrupt that
arrived in kernel mode nothing is rescheduled (`kernel/core386.S`).

So the code between two sleeping points of a process is atomic with respect to
the other processes, and only a stretch under `CLI` is atomic with respect to
the interrupts. This decides what is one action in every module: a step goes
from one sleeping point to the next where only processes share the state, and
from one `CLI`/`STI` boundary to the next where interrupts do too. Nearly all
the difficulty of the code lies in state that was tested before a sleep and is
used after it.

## The parts of the system

| Part | Source | State it keeps | Interacts with |
|---|---|---|---|
| sleep, wakeup, scheduling | `kernel/sleep.c`, `sched.c`, `timer.c` | run list, hash of sleepers, resource locks, quanta | everything that sleeps |
| process lifecycle | `kernel/process.c`, `syscalls/{fork,exit,wait4,setpgid,setsid}.c` | process table, pids, parents, groups | signals, scheduling |
| signals | `kernel/signal.c`, `syscalls/{kill,sigaction,pause}.c` | pending sets, dispositions | lifecycle, every interruptible sleep |
| pipes and FIFOs | `fs/pipefs` | ring, offsets, reader and writer counts | sleep, signals, descriptors |
| block requests | `drivers/block/blk_queue.c`, `ata.c` | request queue, groups, transfer in progress | interrupts, buffer cache |
| buffer cache | `fs/buffer.c` | hash, free and dirty lists, flags | block requests, kswapd, file systems |
| inode cache, descriptors | `fs/inode.c`, `fs/fd.c` | inodes, counts, open files | file systems, pipes |
| file locks | `fs/locks.c` | lock lists | inodes, sleep |
| timers, bottom halves | `kernel/timer.c` | callouts | interrupts, sleep |
| pages | `mm/page.c`, `mm/alloc.c`, `mm/swapper.c`, `mm/buddy_low.c` | free pages, page hash, free blocks | buffer cache, kswapd |
| address spaces | `mm/mmap.c`, `mm/fault.c` | regions, page tables | pages, inodes |
| System V IPC | `kernel/syscalls/{sem,msg,shm}*.c` | semaphores, queues, segments | sleep |
| sockets | `net` | connections, one-way buffers | sleep, descriptors |
| terminals and their drivers | `drivers/char` | character queues | interrupts, signals |
| file systems | `fs/{ext2,minix,iso9660,procfs}` | on-disk structures | buffer and inode caches |
| boot, traps, console, library | `kernel`, `drivers/video`, `lib` | hardware set-up, formatting | - |

`PROJECT.json` lists every part with its status, and the main hazards of the code
at the lines where they bite, with the properties that are about them.

## The modules

A module without a component of its own (`BlockMap`, `DiskFs`, `InodeTable`,
`Ext2`, `Minix`, `Charq`, `Console`, `Keyboard`, `PageCache`) holds the operators
of one source file; the module that extends it composes them. Where a component
has many calls its state is one record `k`, a call is an operator from `k` to
its next value (or to the set of values it may end in), and an action applies
one call. Definitions have the names of the C functions they translate.

| Module | Code | State and actions |
|---|---|---|
| `Sched` | `kernel/{sleep,sched,timer,signal,main}.c`, `core386.S` | state, sleep address, quantum and place in the kernel of each process, resource flags, `need_resched`, `current`; an action per stretch between two points where an interrupt may enter |
| `ProcLists` | `kernel/sleep.c`, `sched.c` | heads and links of the run list and of the sleep hash; `PushRun`, `PushSleep` and `Unlink` assign pointers in the order of the code, stale links included |
| `WaitQueues` | - | what `kernel/sleep.c` promises: sets instead of lists. `ProcLists` implements it |
| `Pipe` | `fs/pipefs/pipe.c` | offsets, size and bytes of the ring, holders of the two ends, the lock, and the locals of each call; an action per stretch between two sleeping points |
| `ByteStream` | - | what a pipe promises: bytes leave in the order they entered. `Pipe` implements it |
| `BlkQueue` | `drivers/block/blk_queue.c`, `ata.c`, `gbread()` | queue, status and group of each request, the transfer in progress, the process between two sleeps and its interrupt flag |
| `BufferTable`, on `Lists` | `fs/buffer.c` | what the functions that do not sleep do to the buffers, their flags, the free, dirty and hash lists and the pages |
| `BufferCache` | `fs/buffer.c` | composes, on the state in `BufferState`, `BufferClients` (`bread()`, `bwrite()`, `brelse()`), `BufferSync` (`sync_buffers()`, `invalidate_buffers()`, `kbdflushd`) and `BufferReclaim` (`reclaim_buffers()`); an action per stretch between two sleeps |
| `Lifecycle` | `kernel/{process,signal}.c`, `syscalls/{fork,exit,wait4,kill,sigaction,setpgid,setsid}.c` | the process table with pids, parents, groups, sessions, pending signals; `sys_fork()` and `do_exit()` in the pieces between their sleeps |
| `BlockMap`, `DiskFs`, `Ext2`, `Minix` | `fs/ext2`, `fs/minix` | bitmaps, free counts, index trees, directory entries |
| `InodeTable`, `Vfs` | `fs/{inode,namei,fd,locks,super}.c`, `kernel/syscalls` | references, links, open files, descriptors, working directories, mounts, file locks; one action per system call |
| `SysvIpc` | `kernel/syscalls/{sem,msg}*.c` | semaphore sets, undo entries, queues and messages as linked cells; an action per stretch between two sleeps |
| `PageCache`, `Mm` | `mm`, `fs/elf.c`, `syscalls/{execve,fork,exit,mmap,brk,shm*}.c` | page frames, hash, free list, buddy blocks; regions and page tables; a shared segment; one action per call or fault |
| `UnixSockets` | `net`, `fs/sockfs`, `syscalls/select.c` | sockets, rings, listening queues, packets, sleepers; an action per stretch between two sleeps |
| `Charq`, `Console`, `Keyboard`, `Tty` | `drivers/char` | blocks of the character queues, cursor and escape state, modifiers, terminals, sessions; processes, interrupts and bottom halves interleave |

Two parts meet in one module where the code of one depends on the other's state:
signals and processes in `Lifecycle`, the keyboard, the console and the line
discipline in `Tty`, file mappings, the page cache and the buddy allocator in
`Mm`, the on-disk file systems and the calls in `Vfs`. Elsewhere a module takes
what the module below it has been shown to give: `BufferCache` and `Pipe` use a
lock that works (`Sched`), and every module uses `sleep()` and `wakeup()` as in
`WaitQueues`.

## The runs

Each run is `tlc -config <cfg> <module>`. States are distinct states.

| Run | Instance | States |
|---|---|---|
| `sched` | 4 processes, 1 resource, 1 device channel, quantum 1, one process that processes and interrupts stop and continue | 120,326 |
| `lists` | 3 processes, 3 addresses in 2 buckets | 155,313 |
| `pipe` | 2 readers and 2 writers, or 1 and 1 with page faults and users of other pipes; a ring of 2 bytes, requests of 1 to 3, both values of `O_NONBLOCK` | 829,805 |
| `blkqueue` | 2 processes, groups of 2, a driver that answers at once or the ATA driver, failures | 16,456 |
| `buffer` | 2 clients, or 1 with `kbdflushd` and with `kswapd` or `sync_buffers()`; 2 buffers of one page, 3 blocks of 2 devices | 878,437 |
| `lifecycle` | INIT and 2 or 3 more processes, as many pids as processes, seven menus of calls | 135,324 |
| `vfs` | 2 processes, ext2 and Minix 1 and 2, 6 inodes, 7 blocks or 4, a block that cannot be read, menus of up to 6 calls | 79,850 |
| `ipc` | 3 processes, 2 sets of 1 or 2 semaphores with `SEMVMX` 2, 2 queues of 4 bytes, seven menus of up to 7 calls | 208,682 |
| `tty` | 2 processes, 3 in the menu of sessions, 3 consoles of 3 columns and 4 lines, a serial line, a pseudo-terminal, a mouse; queues of 2 blocks of 2 characters; nineteen menus | 350,054 |
| `mm` | 2 processes, 10 page frames, 3 files of 2 pages, 1 segment, eight menus of up to 9 calls | 70,080 |
| `sockets` | 3 processes, 4 sockets, rings of 3 bytes, seven menus of up to 11 calls | 431,121 |
| `pipe_atomic` | 1 reader, 2 writers, a ring of 2 bytes | violation |

A *menu* is a set of calls with their arguments and a number of calls (and of
interrupts). The initial state chooses one. Without menus the product of all
calls would only allow sequences too short for the interesting ones; with them
each run explores every interleaving of the calls that act on the same state.
What two menus never combine is not covered: in `Vfs` mounts with writes, in
`Mm` segments with `mmap()`, in `Tty` the serial line with console switches.

What the runs show:

- **sched.** `NoLostWakeup`: whoever is asleep, or past the test that leads to
  sleep, on a resource will be woken by its release, although the interrupts are
  enabled between the test and `sleep()`. `LockWaiterRetries`: a process asleep on
  a resource eventually tries again, if the holders of the resource get the CPU
  again and again while they are runnable (`HolderRuns`). That it then gets the lock
  is not claimed, nor that a runnable process is ever chosen: `do_sched()` takes the
  largest quantum (`kernel/sched.c:63`), and with four processes two that keep waking
  each other can keep a third off the CPU for ever.
  `IdleLeavesCPU`: the idle loop eventually gives the CPU to a runnable process.
- **lists.** `ListsIntact`: the run list and the buckets hold exactly the runnable
  and the sleeping processes, once each, and their back links agree.
  `ImplementsWaitQueues`: together they behave as `WaitQueues`.
- **pipe.** `BlockedForCause`: nobody sleeps for what is there, and readers and
  writers never sleep at the same time. `ImplementsStream`: the ring refines
  `ByteStream`, and a copy takes the oldest bytes; with one process at each end
  although its size was computed before a sleep, see `SleepersAlone` below.
- **blkqueue.** `NoLostCompletion`: no process sleeps for an answer that came.
  `QueueIntact`: no request is freed while queued, and an interrupt belongs to the
  first request. `CallsEndWithoutErrors`: without failures every call ends.
- **buffer.** `BuffersAccounted`: each buffer has one owner and the lists agree with
  the flags. `ReadsLastWrite`, `WritesNotLost`:
  a read returns the last write, and a dirty block stays known until written.
- **lifecycle.** `FamilyIntact`: parents are alive and the counters of
  `sys_wait4()` are exact, also while a `sys_fork()` sleeps half way and the parent of
  its caller exits. Only the count of INIT is larger, by the unfinished children
  that `do_exit()` gave it (`strays`): `sys_fork()` takes them back without a word.
  `ZombieAnnounced`: nobody sleeps in a wait for any child or for one pid with that
  child a zombie. `SignalNotSleptOn`: no unblocked signal is slept on.
  `GroupInSession`: a process group stays in one session.
- **vfs.** `RefsCounted`: every reference count is the number of its holders
  after each call, whichever way it returned, but for those that `umount()` leaks (see
  below). `LinksCounted`: link counts are the
  number of names, no inode is lost, and the kernel's own consistency warnings do
  not appear. `BlocksAccounted`: each block in use has one place in one tree, and
  the bitmap and the free counts agree, also when `bmap()` finds the disk full or
  cannot read the block it has just allocated. `TruncateFreesTail`: truncation leaves
  exactly the pointers below the new length. `FlockExclusive`: locks held together
  are compatible. `DirectoryListed`: a directory read in pieces, while names come
  and go, shows each entry that was there throughout exactly once.
- **ipc.** `NoIpcStall`: nobody sleeps for what is there. `QueuesIntact`: chains,
  sizes and waiting counts agree with messages and sleepers, and no semaphore is
  negative. (It may exceed `SEMVMX`: `semexit()` and `SETALL` do not test for it.)
  `UndoneOnExit`: exit gives back exactly what the process took with `SEM_UNDO`, also
  with the entry of another process in the list of the same set.
- **tty.** `PoolConserved`: every character block is in the pool or in one queue.
  `EditedAsTyped`: a line is what the editing characters make of the keys.
  `OutputOnce`: written characters leave once and in order (the order on the serial
  line and the pseudo-terminal only). `SleepersHaveCause`: nobody sleeps for what is
  there, except a process whose wakeup came between its test and `sleep()`.
  `CttyOfSession`, `CursorOnScreen`, `SwitchAllowed`: as their comments say.
- **mm.** `RegionsDisjoint`: regions are sorted, disjoint and contain all mapped
  pages. `MemoryAccounted`: each frame has as many users as references, the pages
  that `free_seg()` leaves behind counted apart (`leaked`).
  `MemoryIntact`: every process finds in memory, and every reader in a file, what a
  system without copy-on-write, page cache and demand paging would give.
- **sockets.** `StreamsIntact`: what waits in the ring of a connection is what was
  written and not yet read, in order, with the offsets at the end of the ring and in
  both directions.
  `NoSocketStall`: nobody sleeps for what is there. `ConnectionsCounted`: peers,
  queues, names and buffers are accounted for.

### Why the bounds are enough

The bounds are the smallest at which each mechanism has all its cases. Three
processes: one that holds, one that waits, one that comes in between; four in `sched`,
where two can keep a third from the CPU, and in `lifecycle`, where INIT, a process,
its child and its grandchild are needed for the grandparent that exits during a
`sys_fork()`. Rings and queues smaller than a request, so that every call meets full,
empty and wrapped ones. Two blocks to a queue and two characters to a block, so that queues cross
block boundaries. Two direct and two indirect pointers, so that all four levels of
an index tree are used below nine blocks. Ten page frames, so that memory runs out
in several menus. `MaxCount`, `MaxHeld`, `MAX_PID_VALUE`, `MaxStrays`, `MaxPackets` and the menus'
numbers of calls are the bounds of what is unbounded in the code.

Symmetry is used where processes are interchangeable and no liveness property is
checked. Deadlock is not checked where the system may stop: when the menus' calls
are used up, or all processes have ended. In `buffer` it may also stop because a
client that holds a buffer and `sync_buffers()` can wait for each other, see below.

### Fairness

`sched` assumes weak fairness of the steps of the process that has the CPU, of
`do_sched()` and the context switch, of the timer tick, and of the answer of a
device somebody waits for: code that is executing goes on, and the timer and the
devices do interrupt. Nothing is assumed about signals, which may come for ever, or
about user programs. That the holder of a lock is chosen by `do_sched()` does not
follow from the code, and `LockWaiterRetries` has it as its condition. `blkqueue`
assumes weak fairness of each process and of `run_blk_request()`, and strong fairness
of the end of a transfer: an interrupt or a time-out stays pending while `CLI` is in
effect, and is enabled again and again.

### What the runs leave out

Some behaviour of the code breaks a property, and the passing runs exclude it by
name: by a bound in the configuration, or by an element missing from the constant
`Hazards`. An action is then not taken in the case named, and everything else it
does is in the run. Adding the name to `Hazards` in the configuration shows the
counterexample.

By a bound:

- `lists`: interrupt handlers signal only processes that no other process
  continues (`IrqSignalled`, `Continued`). `runnable()` tests the state before `CLI()`,
  and a signal in between has a process inserted twice (`kernel/sleep.c:29`).
- `buffer`: two clients are not checked together with a process that writes
  buffers back (`Teams`): `getblk()` does not look again after `get_free_buffer()`
  slept, and a block gets two buffers (`fs/buffer.c:371`). `kswapd` is not among
  `FailingWriters`: `reclaim_buffers()` frees a buffer whose write failed. Blocks
  that were dirty when `invalidate_buffers()` took them out are not claimed.
- `lifecycle`: `ZombieAnnounced` is about waits for any child and for one pid.
- `pipe`: a copy is interrupted by a page fault, or the lock held by the user of
  another pipe, only in the instance with one reader and one writer (`Users`,
  `SleepersAlone`). With two at one end the second goes on with the `n` it computed
  before the first one moved the offsets (`fs/pipefs/pipe.c:71`, `:145`), and
  `ImplementsStream` fails: the code is wrong there. The instance with two readers and
  two writers has every interleaving of their calls, but no sleep with the lock held.
- `lifecycle`: at most one unfinished child is given to INIT (`MaxStrays`).
- `vfs`: `TruncateFreesTail` ends below the second doubly indirect block of the triply
  indirect tree: there `fs/ext2/inode.c:495` divides by the pointers of one block
  where it should divide by those of two levels.

By `Hazards`, in `vfs`:

- `rename_onto_dir`: `rename()` onto an existing directory, of anything but a regular
  file, which alone `rename.c:80` refuses: it takes one link off the victim, which has
  at least two, and none off its parent (`LinksCounted`). Every such rename is left out.
- `rename_enotdir`: `rename()` to a path that goes on after a file (`d/x/y` where `x` is
  a file): `fs/namei.c:74-78` has put the inode and `rename.c:112` puts it again
  (`RefsCounted`).
- `symlink_eio`: `minix_symlink()` frees a block it could not read, and `iput()` frees
  it again (`BlocksAccounted`).
- `removed`: a name is made in a working directory that has been removed, and is
  lost with it (`LinksCounted`).
- `pipe`: the error paths of `sys_pipe()` drop one of the two references of the
  inode (`RefsCounted`).
- `rmdir_mounted`: `rmdir()` of the root of a mounted file system, from a process
  whose own root is elsewhere (`LinksCounted`).
- `nospace`: a new inode finds no room in its directory, and no block to extend it.
  `mkdir()`, and `symlink()` of Minix, free the inode's block and have `iput()` free
  it again (`BlocksAccounted`); the others put an inode whose count is still 0,
  and it stays allocated (`LinksCounted`).
- `getcwd`: called from a working directory above the root of the process, it keeps
  a reference to a directory that is the working directory too (`RefsCounted`).
- `getdents_eio`: a read error in a later block drops entries past which the offset
  has moved (`DirectoryListed`).

In `mm`:

- `split_file`, `mprotect_file`: a file mapping split by `munmap()` or `mprotect()` has
  two regions with one reference (`MemoryAccounted`).
- `merge_file`: two adjacent mappings of the same page of a file are merged, since
  the offsets are compared for equality, and the second shows the next page.
- `mmap_full`: a failing `mmap()` of a file keeps a reference (`MemoryAccounted`).
- `mprotect_present`: `mprotect()` of pages in memory frees them (`MemoryIntact`).
- `fixed_over_next`: a fixed mapping over the region after it (`RegionsDisjoint`).
- `stack_over`: the stack grows over a region (`RegionsDisjoint`).
- `truncate`: cached pages survive the truncation of their file (`MemoryIntact`).
- `dirty_shared`: a private mapping reads the disk although a shared one has stores
  that are not there yet (`MemoryIntact`).
- `eio`: a page whose read failed stays in the cache (`MemoryIntact`).
- `fork_nomem`, `exec_nomem`: memory runs out half way and pages stay allocated
  (`MemoryAccounted`).
- `kernel_fault`: the kernel faults on a user page without memory, and repeats the
  fault for ever (`MemoryAccounted`).
- `shm_same`, `shm_fork`, `shm_exit`, `shm_unmap`: attaches are found by
  address alone; `fork()`, exit, `execve()` and `munmap()` do not count them
  (`MemoryAccounted`).

In `ipc`:

- `undo_list`: a process exits whose undo entry is in the list of a set that has more
  than two entries, begins with the entry of another process, or belongs to a later
  set in the same slot: `semexit()` unlinks every second entry from the first on,
  whoever it belongs to (`UndoneOnExit`). Lists of one or two entries that begin with
  one of the process that exits are in the run, the other entry being anybody's.
- `fork_undo`: `fork()` clears the parent's undo list instead of the child's
  (`UndoneOnExit`).
- `undo_pool`: without a free undo entry `semop()` reverses too few of its operations
  (`UndoneOnExit`).
- `typed`, `mprev`: a message taken from the middle or the end of a queue leaves a
  pointer to it (`QueuesIntact`).
- `rmid_sender`: a queue is removed under a sleeping sender, whose test for it never
  succeeds (`QueuesIntact`).
- `set_qbytes`: `IPC_SET` enlarges a queue and wakes no sender (`NoIpcStall`).
- `sem_num`: a set is removed under a process that sleeps on the semaphore number equal
  to the size of the set, which `semop.c:103` accepts and the loops of `IPC_RMID` do not
  reach (`NoIpcStall`). Such operations are in the run as long as the number is within
  the block of the set; beyond it they use the memory of another set.
- `negative_type`: `msgrcv()` of a negative type goes to sleep with a message of such a
  type in the queue: that branch is a `FIXME` (`msgrcv.c:75`) and finds none
  (`NoIpcStall`).
- `sma_pool`: `semget()` when all blocks of semaphores are used up makes a set with a
  null pointer (`semget.c:205`; `QueuesIntact`).

In `sockets`:

- `duplex`: the two directions of a connection share one buffer: a write that stores
  over bytes which wait there for the writer itself (`StreamsIntact`). Writes in both
  directions that do not meet in the buffer are in the run.
- `connect_signal`: `connect()` interrupted by a signal returns 0, still queued
  (`ConnectionsCounted`).
- `reconnect`: a connected or queued socket is queued again (`ConnectionsCounted`).
- `bound_peer`: the last close of a connected bound socket before its peer's: its inode
  is never put (`ConnectionsCounted`).
- `listener_closed`, `accept_nfile`: a closed listener, or a failing `accept()`, leaves
  connectors asleep (`NoSocketStall`).
- `select_connect`: `connect()` does not wake `select()` (`NoSocketStall`).

In `tty`:

- `serial_full`, `oflush`, `start`: the serial interrupt, `TCOFLUSH` and the start of a
  stopped console do not wake the writers of a full queue (`SleepersHaveCause`).
- `pty_queued`, `psaux_reopen`: a pseudo-terminal is freed, or the mouse opened again,
  with blocks in its queues (`PoolConserved`).
- `lf`: a line feed in the last row of the screen, below the scroll region or with the
  cursor restored there: `lf()` compares with `lines` (`console.c:167`), one more than
  the last row, and the cursor leaves the screen (`CursorOnScreen`).
- `reldisp`: `VT_RELDISP` after `VT_SETMODE` forgot the switch in progress selects
  console 0, which does not exist.

### Hazards without a property

Met while modelling, and no property speaks of them. Where a call is "in the
model" the behaviour is there and nothing in the repository says what is right.

- `kernel/sched.c:63`: a process with less quantum than those that keep being woken
  may never be chosen (in the model). Only that some runnable process runs is checked.
- `fs/buffer.c:371`: a block with two buffers, see `Teams` above; `:550`: `bread()` from a
  device that does not exist returns with its buffer locked (not in the model).
- `kernel/syscalls/mount.c:194`: `umount()` does not put the block special file that
  `mount()` looked up. `RefsCounted` counts these references apart (`leaked`) and says
  that no other is lost.
- `kernel/syscalls/shmget.c:48`: `free_seg()` frees the table of a segment and not its
  pages; `shmdt.c:49`: a removed segment stays after its last detach (both in the model).
  `MemoryAccounted` counts the pages of a freed segment apart (`leaked`), and does not
  say that a removed segment goes away.
- `net/unix.c:427`: `read()` with the offset at the end of the ring returns 0, which looks
  like the end of the file; `:431`, `:488`: an error is returned after part of the bytes
  moved; `MSG_PEEK` moves the offset of the packet (all in the model). `:89`: packets left
  in a socket that is closed are not freed; `:375`: the sender's name is read from
  a packet just freed (both not accounted for).
- `kernel/syscalls/fork.c:120`: a signal that reaches a child while `sys_fork()` sleeps
  is thrown away by `sigpending = 0` (in the model). `wait4.c:63`: after a stopped
  child reported before, `flag` stays set and the next child is taken to match (in the
  model). `exit.c:46`: an exiting leader clears its own `sid` in the middle of the loop,
  and the processes after it get no `SIGHUP` and keep their terminal (in the models
  `Lifecycle` and `Tty`).
- `kernel/process.c:245`: `get_unused_pid()` keeps `pid_resource` locked when all numbers
  are taken, which 64 processes cannot bring about (in the model).
- `kernel/signal.c:166`, `:185`: blocked signals delivered together with others, and
  nested handlers: `Lifecycle` has one handler and no `sigprocmask()`.
- `fs/pipefs/pipe.c:163`: an error after part of the bytes went into the pipe (in the
  model; the bytes stay in the stream).
- `drivers/block/ata.c:557`: an interrupt that comes after the time-out of its transfer.
- `fs/buffer.c:599`: `sync_buffers()` may not end; `:608`: it waits for a dirty buffer with
  the ones it wrote still unannounced, and a client that holds the one may wait for
  another (in the model, which is why deadlock is not checked).
- `kernel/syscalls/select.c:155`, `kernel/timer.c:320`: time-outs, see "Not modelled".
- `fs/inode.c:372`, `:431`, `:443`, `fs/ext2/namei.c:355`, `umount2.c:79`, `mm/page.c:445`: two
  calls of `iget()`, an `iput()` that sleeps, locks taken in two orders, users that come
  after the test, a page read twice: calls do not overlap in `Vfs` and `Mm`.
- `fs/ext2/inode.c:430`: a length inside a block frees that block too. `fs/ext2/dir.c:124`: only
  half of the buffer is used, and one that holds no entry looks like the end.
- `fs/locks.c:149`: `F_SETLK` waits and `F_SETLKW` does not (in the model); `:170` reads a
  lock just freed.
- `mm/mmap.c:535`: `munmap()` of a range with a hole does not end (in the model).
- `kernel/syscalls/semget.c:68`: the semaphores of a removed set are never given back (in
  the model), so a pool of them runs out after enough calls.
- `drivers/char/tty.c:762`, `:819`: the interrupts are enabled between the test of the queue
  and `sleep()`, and a wakeup in between is lost. The model has that moment (`gap`), and
  `SleepersHaveCause` excuses the processes it happened to (`missed`), and no others.
- `drivers/char/tty.c:695`: the `VTIME` call-out wakes an address nobody sleeps on; `:763`: an
  interrupted raw read loses characters (both in the model).

## Findings

`pipe_atomic` is a run that must fail. The comment at `fs/pipefs/pipe.c:138` says
that a write of at most `PIPE_BUF` bytes is not interleaved with others;
`pipefs_write()` copies what fits and sleeps for the rest, and
`WriteNotInterleaved` is violated.

Other places where the code and a text of the repository disagree, met while
modelling: `kernel/signal.c:104` reaps the children
of the sender where the comment means the receiver's; `drivers/char/keyboard.c:601`
never serves the last console (`README.md:37`, `docs/devices.txt:22`);
`kernel/syscalls/shmdt.c:49` does not destroy a removed segment
(`include/fiwix/shm.h:13`); `kernel/syscalls/fork.c:132` clears the wrong undo list
(`include/fiwix/sem.h:13`); `drivers/char/tty.c:636` tests the group of a reader only
before its first sleep (comment in line 635); `kernel/syscalls/open.c:87` takes every
error for `-ENOENT` (its comment says so); `fs/ext2/file.c:148` takes the byte count
of `gbread()` for an error, which `mm/page.c:393` guards against.

## What is proved

TLC checks the instances above. TLAPS proves the following for every value of the
constants; `tlapm <module>.tla` checks it.

### `SchedProofs`

Assumptions (named in `Sched`): the quantum is a positive number
(`PriorityAssumption`); `Idle` is no process (`IdleAssumption`), `NULL` neither a
process nor an address (`NullAssumption`); resources and channels are different
addresses (`AddressAssumption`); the signals are among stop, continue and one that
is caught (`SignalAssumption`). Any number of processes, resources and channels.

`SchedInvariance` proves the inductive invariant `SchedInv`. It consists of the types,
`LabelsOK` (where in the kernel a process can be in each state), `ResourceOK` (a
resource is locked exactly while somebody is in its critical section), `CurrentOK`
(who can have the CPU), `BlockedOK` (what a sleeper sleeps on), and the five properties
that follow from it: `WakeupNotLost` (the property of the run), `LockExcludes`,
`SleepersAddressed`, `RunsRunnable` and `IdleIsIdle`. `NoLostWakeup` is not inductive
alone: that the holder will wake the sleeper needs `locked` to mean that there is a
holder, and that a sleeper's address be the one `wakeup()` is called with. One lemma
per action shows that the action keeps the invariant.

### `PipeProofs`

Assumption (`PipeAssumption` in `Pipe`): the ring has at least one byte, the sets
of readers and writers are finite and disjoint, and the user of another pipe and
`NULL` are in neither. Hypothesis of each theorem: `SleepersAlone`, a pipe whose copies
sleep with the lock held, or wait for the lock, has one reader and one writer (each
element of `Users` says who has the pipe and whether copies sleep). Without it the
theorems are false, and so is the code, see above. For a pipe that is shared the theorems
therefore say nothing about page faults and users of other pipes.
`PipeInvariant` proves `PipeInv`:

- `TypeOK`: types, and each process at a label of its own end;
- `RingOK`: `i_size` is the distance of the offsets; equal offsets mean a full ring
  except at 0, and `readoff = PIPE_BUF` only with `writeoff < PIPE_BUF`;
- `LockOK`: the lock is held exactly during a copy, and a process that lost the CPU
  between its decision and its copy shares its end with nobody;
- `CallsOK`: only holders of a descriptor are in a call;
- `DecidedOK`: a copy that was decided on is still possible;
- `BlockedForCause`, the property of the run.

The argument: with one process at each end a decided read can only meet a write,
which never shrinks what can be read, and a decided write only a read, which never
shrinks the room; `LockOK` says that nobody else comes in between. A reader asleep has
`i_size = 0` or `readoff = PIPE_BUF`, and in both cases `RingOK` leaves room for a
writer, so the two never wait for each other. `SleepersHaveReason` is
`BlockedForCause` for a ring of any size; `CopiesFit` says
that no copy leaves the ring or exceeds what the pipe holds or has room for, and
that reads and writes never copy at the same time.

`RingImplementsStream` proves `ImplementsStream`, that `Pipe` implements `ByteStream`,
under the same hypothesis. The refinement mapping reads the ring from `readoff` on,
modulo `PIPE_BUF`, as a sequence of `i_size` bytes, and maps `count` and `done` of a
writer to the size of its call and the bytes of it sent. `RingGet`, `RingPut` and
`RingWrap` say what the three changes of the ring do to that sequence: a read drops a
prefix, a write appends behind the last byte and overwrites none, and an offset that
goes from `PIPE_BUF` to 0 changes nothing. They need `PipeInv` (the offsets are
`i_size` apart and the copy fits) and one invariant more, `CallsFit`: a writer that
decided on a copy has that many bytes of its request left. `ReadCopy` is then `Get`,
`WriteCopy` is `Put`, the start and every return of a write call is `Begin`, and each
other step is a stutter. `OldestAtReadoff` shows that the bytes handed to a reader are
the prefix that `Get` drops.

### `BlkQueueProofs`

Assumption (`BlkQueueAssumption` in `BlkQueue`): a group has at least one request;
the interrupt handler and `NULL` are no processes. Any number of processes, both kinds of
drivers, transfers that fail or not. `IInvHolds` proves the inductive invariant `IInv`:

- `TypeOK`: the types;
- `QueueOnce`: a request is in the queue at most once, and exactly while its status is
  "queued" or "processing";
- `Transfer`: the interrupt awaited is that of the first request, and no other is in
  progress;
- `CallsOK`: what each call can have in the queue. A call that has returned or is about
  to has nothing there; `brh->left` is the number of requests of the group still
  there; a process between its test and its sleep, or asleep, still waits for something;
- `CpuOK`: who has the CPU; between `run_blk_request()` and `sleep()` a process has the
  interrupts masked, or the queue is empty.

`NoLostCompletion` (theorem `NoCompletionIsLost`) is the last conjunct of `CallsOK`
for sleepers. It is kept by an interrupt that ends a request because of `QueueOnce` and
the count: the interrupt wakes the owner exactly when nothing of its call is left. It
is not disturbed between test and sleep because of `CpuOK`. `QueueIntact` (theorem
`QueueStaysIntact`) follows from `QueueOnce`, `Transfer` and `CallsOK`.

### `BufferCacheProofs`

`BuffersStayAccounted` proves `BuffersAccounted` for any number of clients and callers
of `sync_buffers()`, any sets of blocks and pages, any choice of the processes that
run together, and any bounds. Assumptions: processes, daemons and `NULL` are different
things (`BufferCacheAssumption`), blocks are numbers and a page has at least one buffer
(`BufferTableAssumption`). One hypothesis: the writes of `kswapd` do not fail
(`kswapd \notin FailingWriters`); those of all others may. Without it the theorem is
false: `reclaim_siblings()` and `reclaim_buffers()` free a buffer whose write failed
while it is on the dirty list (the code has a `FIXME` there).

The inductive invariant `IInv` (in `BufferCacheInvariant`):

- `TypeOK`: the types; the three lists and `kswapd`'s list of siblings have no buffer
  twice;
- `OwnersOK`, `PlacesOK`: the locked buffers are the ones that processes work on, hold or
  will free; each has one owner, which has it in one place;
- `InPool`: what is on a list or has a flag is in the buffer table;
- `FreeOK`: a buffer is off the free list exactly while a client has it or `kswapd` has
  taken it from there;
- `DirtyOK`: what is on the dirty list is dirty; a dirty buffer is off the list only
  while a client or the process that writes it back has it;
- `PagesOK`: the buffers of a page are in the table together, but for the page that
  `kswapd` frees, of which it has the others locked.

`BuffersAccounted` is not inductive. `brelse()` puts a buffer on the free list without
looking whether it is there, and a list with a buffer twice would still name it after
it was taken once. So it matters who can have a buffer that is on the free list:
`sync_buffers()` and `kbdflushd`, which lock a dirty buffer and leave it there (`DirtyOK`),
and `kswapd` for the siblings it has locked (`PagesOK`).

The proof is in four modules. `BufferCacheInvariant` shows what each function of
`BufferTable` does to five sets (the buffers on the free, dirty and hash lists, the
locked ones, the dirty ones): a `View` of the cache. Then it shows that four kinds of
steps keep `IInv`: a process goes on with its buffer (`Moves`), takes one
(`Takes`), gives one back (`Releases`), or hands one to its caller (`Holds`).
`BufferCacheSteps` (clients, `sync_buffers()`, `kbdflushd`) and `BufferReclaimSteps`
(`kswapd`) show of which kind each action is; freeing a page is of none, and is treated
on its own. `BufferCacheProofs` adds `invalidate_buffers()` and the search of the hash
list, which need induction on the length of a list (`SetInduction`: a set of naturals
that is not empty has a least element), and puts the actions together.

### What is only model-checked

Liveness under fairness (`LockWaiterRetries`, `IdleLeavesCPU`, `CallsEndWithoutErrors`)
and whatever needs `ENABLED` are out of the prover's reach. The induction
theorems of the library have an operator as a parameter, which the provers cannot
instantiate; where an induction was needed it was done with the least
element of a set of naturals (`SetInduction`). The pointers of `ProcLists` and its
refinement of `WaitQueues` would need that for every list function and are left to
TLC. So are `Lifecycle`, and the modules with recursive operators, which the SMT
backend does not accept: `Vfs`, `Mm`, `Tty`, `SysvIpc`, `UnixSockets` and what they extend.

`ReadsLastWrite` and `WritesNotLost` do not hold for all constants: two clients with
`kbdflushd` give a block two buffers (see above) and violate the first, a failing write
of `kswapd` violates the second.

## Not modelled

- **Timers.** The list of callouts, alarms, interval timers and the time-outs of
  `select()` and of sleeps; `Sched` has the tick, `Tty` one expiry, `BlkQueue` the
  time-out of a transfer.
- **The inode cache under concurrency.** `iget()`, `iput()`, `sync_inodes()` and
  `inode_lock()` sleep; `Vfs` runs each call to its end. The hazards at
  `fs/inode.c:372`, `:431` and `fs/ext2/namei.c:355` are outside it.
- **Sleeps for memory** inside calls of `Vfs`, `Mm`, `SysvIpc` and `UnixSockets`, and page
  faults while they copy from or to user memory, except in `Pipe`. One matters:
  `allocate()` of the buddy allocator finds a level empty (`mm/buddy_low.c:116`), may sleep in
  `get_free_page()` (`:130`), and overwrites what was freed to that level meanwhile (`:138`).
- **Read errors in `Vfs`** beyond those of new data blocks and of directories being listed:
  `is_subdir()` puts an inode after a failed lookup (`fs/ext2/namei.c:232-239`, and Minix's);
  `lookup()` returns without `iput()` (`:256-258`); `mkdir()` frees a block twice (`:566-571`,
  `fs/minix/namei.c:412-417`); an unreadable directory counts as empty (`:184-189`, `:216`);
  `truncate()` of an unreadable index block. Nothing is claimed of these paths.
- **Paths of `BlkQueue`**: a request that has been answered before its owner looks
  (`blk_queue.c:80-85`) and failing allocations; adding a request and entering
  `run_blk_request()` are one step.
- **Formats.** The layout of superblocks, inodes and directories on disk, of ELF
  files and of `/proc`; the contents of the screen; user ids, permissions and times
  (a permission check may succeed or fail in `Vfs`).
- **iso9660 and procfs**, which only read: no state of theirs changes.
- **Hardware.** The ATA registers beyond "a transfer ends", floppy, CD-ROM, RAM disk,
  partitions, PCI, PS/2 and UART set-up, video, boot, traps and the
  multiboot code: they run once, or talk to devices whose behaviour the repository
  does not state.
- **Library code** (`lib`), the printer, memory devices, `kexec`, `shutdown()` and other
  calls without state of their own.
