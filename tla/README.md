# Verification of the xv6 kernel (system call lab)

The repository is xv6-labs-2024, the RISC-V teaching kernel with the additions
of the system call lab (`trace` and `sysinfo`). `src/xv6-labs-2024` and
`src/Submission/xv6-labs-2024` hold the same files; all references here are to
the first. The kernel is built with `LAB=syscall`.

## The system and its parts

| Part | State it keeps | Operations | Works with |
|---|---|---|---|
| Spin locks (`spinlock.c`) | `locked` and `cpu` of each lock, `noff` and `intena` of each hart | `acquire`, `release`, `holding`, `push_off`, `pop_off` | every other part |
| Processes (`proc.c`) | process table, `nextpid`, `wait_lock`, `c->proc` | `fork`, `exit`, `wait`, `kill`, `sleep`, `wakeup`, `yield`, `scheduler`, `sched` | traps call it; every driver sleeps and wakes through it |
| Sleep locks (`sleeplock.c`) | `locked`, `pid` | `acquiresleep`, `releasesleep` | buffers and inodes |
| Traps (`trap.c`, `kernelvec.S`, `trampoline.S`) | `ticks`, `tickslock` | `usertrap`, `usertrapret`, `kerneltrap`, `clockintr`, `devintr` | system calls, drivers, `yield` |
| System calls (`syscall.c`, `sysproc.c`) | `trace_mask` of each process | `syscall`, argument fetching, `sys_*`, `trace`, `sysinfo` | processes, memory, files |
| Log (`log.c`) | log header in memory and on disk, `outstanding`, `committing` | `begin_op`, `log_write`, `end_op`, `commit`, recovery | buffer cache below, file system calls above |
| Buffer cache (`bio.c`) | LRU list of buffers, `refcnt`, `valid` | `bread`, `bwrite`, `brelse`, `bpin`, `bunpin` | disk driver, log |
| Disk driver (`virtio_disk.c`) | descriptors, available and used rings, requests in flight | `virtio_disk_rw`, `virtio_disk_intr` | the device, `sleep`/`wakeup` |
| Inodes, directories (`fs.c`) | inode table, bitmap, blocks | `iget`, `iput`, `ilock`, `bmap`, `itrunc`, `readi`, `writei`, `dirlink`, `namex` | log, buffer cache |
| Open files (`file.c`, `sysfile.c`) | file table with reference counts, descriptors of each process | `filealloc`, `filedup`, `fileclose`, `fileread`, `filewrite`, `sys_*` | pipes, inodes, devices |
| Pipes (`pipe.c`) | ring of 512 bytes, `nread`, `nwrite`, the two open ends | `pipewrite`, `piperead`, `pipeclose` | `sleep`/`wakeup`, files |
| Console and UART (`console.c`, `uart.c`, `printf.c`) | edit buffer with `r`, `w`, `e`; transmit ring | `consoleread`, `consolewrite`, `consoleintr`, `uartputc`, `uartintr` | interrupts, `sleep`/`wakeup` |
| Memory (`kalloc.c`, `vm.c`) | free list of pages; page tables | `kalloc`, `kfree`, `walk`, `mappages`, `uvmalloc`, `copyin`, `copyout` | processes, `exec` |
| `exec` (`exec.c`) | the image of one process | `exec`, `loadseg` | inodes, memory |
| Boot (`main.c`, `start.c`, `entry.S`, `plic.c`) | device set-up | runs once | all |
| User programs (`user/`), `mkfs`, graders | none in the kernel | clients of the system calls | system calls |

### What is hard to test, and what makes each part correct

*Spin locks.* Harts interleave at single memory accesses and interrupts arrive
between any two instructions that allow them. Correct: at most one hart in a
critical section; a handler never spins on a lock of the code it interrupted;
`holding()`, which reads the lock without owning it, is exact; interrupts come
back as they were after any nesting.

*Processes.* Threads, harts and interrupts interleave between lock operations;
the lock of a process changes hands across a context switch. Correct: no
process runs on two harts; no slot is freed while its thread is still on its
stack; no wakeup is lost between `exit` and `wait`; every process has a living
parent; a zombie is reaped exactly once; every runnable process runs.

*Log.* The machine may stop between any two disk writes, during recovery too;
several system calls share one transaction. Correct: after recovery the disk
holds the effects of a prefix of the committed transactions and nothing else;
a system call never runs out of log space; the last one out commits.

*Pipes, console, UART, disk driver.* Producers and consumers sleep and wake
each other; rings wrap and fill; an end is closed or a process is killed while
another sleeps. Correct: bytes arrive once and in order; nobody sleeps while
there is something for it to do; descriptors are not lost.

*Inodes, files, buffers.* Reference counts decide when something is freed or
recycled. Correct: nothing is freed or recycled while it is in use.

*Memory, system call arguments.* Sizes and addresses come from user programs.
Correct: sizes that wrap or partly map are refused, and what was allocated
before a failure is given back.

## The modules and the code

| Module | Models | Abstract specification | Proofs |
|---|---|---|---|
| `SpinLock` | `spinlock.c`, the interrupt path of `trap.c` | `Mutex` | `SpinLockProofs` |
| `Proc` | `proc.c`, `usertrap`, `sys_fork`, `sys_exit`, `sys_wait`, `sys_kill` | `Processes` | `ProcProofs` |
| `Log` | `log.c`, and of `bio.c` what it depends on | `AtomicDisk` | `LogProofs` |
| `Pipe` | `pipe.c`, the last `fileclose` of an end | `ByteStream` | `PipeProofs` |
| `VirtioDisk` | `virtio_disk.c`, the device | | `BlockIOProofs` |
| `BufferCache` (extends `VirtioDisk`) | `bio.c`, `sleeplock.c` | `BlockStore` | `BlockIOProofs` |
| `Uart` | `uart.c`, the 16550 | | `ConsoleProofs` |
| `Console` (extends `Uart`) | `console.c` | `LineEditor` | `ConsoleProofs` |
| `Vm` | `kalloc.c`, the user page tables of `vm.c`, and `fork`, `exec`, `sbrk`, `exit` as users of pages | | |
| `Inodes` | of `fs.c`: inode table, `ilock`, `iput`, `namex` | | `FileTreeProofs` |
| `FileTree` (extends `Inodes`) | of `sysfile.c`: `link`, `unlink`, `open`, `mkdir`, `mknod`, `chdir`; `fork` and `exit` as users of directories | `NameSpace` | `FileTreeProofs` |
| `FileTable` | of `file.c` and `sysfile.c`: file table and descriptors, `dup`, `close`, `pipe` | | `FileDataProofs` |
| `FileData` (extends `FileTable`) | of `fs.c`: bitmap, `bmap`, `itrunc`, `readi`, `writei`; `fileread`, `filewrite` | | `FileDataProofs` |

The `MC` modules instantiate them for TLC. A definition whose comment starts
with "Mutant" is a deliberately wrong variant of the definition after it: the
property it is listed with in `PROJECT.json` must fail when the variant takes
its place.

The modules stand on one another. `SpinLock` works at single memory accesses
and shows that `acquire` and `release` are atomic. `Proc` therefore takes one
step from one lock acquisition to the next, and shows that `sleep` and `wakeup`
lose nothing. All other modules therefore take a stretch of code between two
lock operations, and `sleep(chan, lk)` and `wakeup`, as single steps.
`BufferCache` shows that a block is read and written by one process at a time
and that a sleep lock is a lock; `Log` and the inode modules use both as such.

*`SpinLock`.* `locked` and `lkcpu` are `lk->locked` and `lk->cpu`; `noff`,
`intena` and `intr` belong to a hart. `PushOffRead`, `PushOff`, `AcquireCheck`,
`AcquireTestAndSet`, `AcquireSetCpu`, `ReleaseClearCpu`, `ReleaseUnlock` and
`PopOff` are the memory accesses of the code in order; `Interrupt` saves a
frame at any point where the hart accepts interrupts and `InterruptReturn`
restores it. The callers obey what the kernel obeys: one order of locks, and
handlers that give back what they took.

*`Proc`.* The fields of `struct proc`, the lock of each slot, `wait_lock`,
`c->proc` and the loop position of each scheduler. A thread has a program
counter, and moves only while it is on a hart. As in the code a lock belongs to
a hart: `SchedulerRun` takes `p->lock` and `Forkret`, `YieldReturn` or
`WaitWoken` releases it on the other side of `swtch`. `Yield` may happen
wherever kernel code runs with interrupts enabled. `SysExit` is open to init as
to everybody (`user/init.c` exits when `fork` or `wait` fails): its `exit` goes
to `initpanic`, the loop of `panic("init exiting")`, and stays there. `victims` is a history
variable: the pids that were given to `kill` or faulted.

*`Log`.* `disk`, `logblk` and `head` survive a `Crash`, everything else does
not. A step ends at a disk write. `boot` is the progress of recovery, which can
be interrupted by a crash as well. `Evict` is `bget` recycling a buffer nobody
has pinned. Assumed: a disk block is written entirely or not at all, and
`bwrite` returns when the block is on disk.

*`Pipe`.* `data`, `nread`, `nwrite`, `readopen`, `writeopen` are `struct pipe`;
counters are taken modulo `UintMax1`. Since `pi->lock` is held from one `sleep`
to the next, a step is one turn of a loop; `kill`, which does not take that
lock, comes between the tests of `killed` and the `sleep` (`WriteTested`,
`ReadTested`). `copyin` and `copyout` may fail at any byte.

*`VirtioDisk`.* A request takes the three lowest free descriptors and goes
through the available ring to the device, which fetches requests in order,
finishes them in any order, writes the used ring and raises an interrupt; it
may go on while the handler runs, so the handler takes one entry a step. Ring
indices are taken modulo `IdxMax1`. A failed `alloc3_desc` gives back what it
took and wakes the other sleepers, as `free_desc` does in the code. `kill` wakes
a sleeper of either kind, which must test again.

*`BufferCache`.* `lru` is the list of `bcache.head`; `Victim` is the last unused
buffer of it. A process goes through `bget`, the sleep lock, the disk if the
buffer is not valid, perhaps a change (logged and pinned, or written at once),
and `brelse`. `Install` and `Bunpin` are what the log does later to a pinned
buffer.

*`Uart`, `Console`.* The transmit ring with `uart_tx_w` and `uart_tx_r`, a
transmitter that holds `FIFOSIZE` bytes, and the handler `uartintr`, which
reads a key, echoes it through `uartputc_sync` without the transmit lock, and
starts the transmitter. `r`, `w` and `e` of the input ring are taken modulo
`UintMax1`. The keys are an ordinary one, return, `^D`, backspace, `^U` and
`^P`. A slot is emptied when its character leaves it.

*`Vm`.* Pages are counted: `free` is the length of the free list, and a table
has its mapped virtual pages and the page-table pages below its root. Every
step allocates for one virtual page and any allocation may fail, at the page or
at a page table that `walk` needs. Sizes are in half pages, so that
`PGROUNDUP` is not the identity. `fork`, `sbrk`, `exec` (arguments, segments,
stack, commit) and `freeproc` are sequences of such steps with the code's error
paths.

*`Inodes`, `FileTree`.* `dinode` is the disk, `itable` the inodes in memory,
`lock` their sleep locks. Each call walks its path one element at a time; a
reference is an element of what a process holds. `iput` is three steps, since
the code lets go of `itable.lock` between its test and the freeing. A call is
in one transaction, so what it writes is not lost half way (this is what `Log`
shows); ending the transaction changes nothing here. `dirlink` may find no
block for the entry at any time.

*`FileTable`, `FileData`.* `ofile` of each process and `ref`, `off` and type of
each file. `ftable.lock` is taken for one file at a time, so `pipe` and `fork` are
sequences of steps: `held` is a file that a call has and no descriptor refers to
(`f` of `open`, `rf` and `wf` of `pipe`), `fds` the descriptors `pipe` has set, `np`
the child that gets one descriptor a step. The failures are those of the code: no second
file, no page, no first or second descriptor, a failed `copyout`; each clears the
descriptors that were set and closes one file after the other. `used` is the bitmap, `addrs` and `size` the inodes, `word` the
block numbers that an indirect block would be read as. A freed block keeps its
words until `bzero`. `Plus` adds like the code's `uint`, modulo `UintMax1`. `filewrite` is a sequence of chunks, each under the lock
of the inode with a step for each block; `logged` is the set of blocks that the
chunk's transaction has touched. Blocks, files and descriptors run out.

## What the runs check

| Run | Instance | Shows |
|---|---|---|
| `spinlock` | 2 harts, 2 locks, handlers take the second | `NoPanic`, `HoldingIsExact`, `InterruptsRestored`, `ImplementsMutex`, `SpinnersProgress` |
| `proc` | 3 slots, 2 harts, 2 forks, `kill(2)`, 2 may fault | `ProcInv` (types, one hart per process, a parent that can wait), `NoPanic`, `NoLostWakeup`, `KilledWasAsked`, `ImplementsLifeCycle` |
| `proc_live` | 3 slots, 2 harts, user programs preempted | `RunnableRuns`, `ZombieReaped` |
| `log` | 3 processes, 3 blocks, 2 values, log for 2 calls | `LogInv` (types, a waker for every sleeper, pins released), `NoPanic`, `ImplementsAtomicDisk`, `SleeperWakes` |
| `pipe` | 1 writer, 1 reader that may be killed, ring of 2, counters modulo 4 | `SleepingReaderHasReason`, `FreedUnused`, `EndOfFileIsTrue`, `WriteReturns`, `ImplementsByteStream` |
| `disk` | 3 callers, 8 descriptors, indices modulo 4 | `DriverInv` (descriptors conserved, sleepers have a reason, real completions only), `RequestReturns` |
| `block_io` | 2 processes, 2 buffers, 3 blocks, 2 values, 6 descriptors | `CacheInv` (types, one buffer per block, exact `refcnt`, no forgotten waiter), `ImplementsBlockStore` |
| `console` | 1 writer, 1 reader that may be killed, rings of 2, indices modulo 4 | `ConsoleInv` (types, sleepers have a reason, a full ring is readable), `TransmitterNotOverrun`, `SleepingWriterWakes`, `EofGivesEmptyRead`, `ImplementsLineEditor` |
| `vm` | 3 processes, 22 pages, sizes to 2 pages, 2 segments, 2 arguments | `PagesConserved`, `VmInv` (types, no panic, size and page table agree) |
| `file_tree` | 2 processes and init, 3 inodes | `CountsExact` (types, no panic but that of a full table, exact `ref`, covering `nlink`), `InUseIsAllocated`, `NoDeadlock` (no cycle of locks, `iput` never blocks), `ImplementsNameSpace` |
| `file_tree_dotdot` | the same with nested directories | `NoPanic` is violated |
| `file_data` | 2 processes, 2 inodes, 2 files, 2 descriptors, 3 blocks | `FileMapExact` (types, no panic, bitmap and block numbers agree, every byte mapped), `ChunkFits`, `FileRefExact`, `ChunksFollow` |

The refinements say most: `Mutex`
(one owner at a time), `Processes` (the life cycle of a pid), `AtomicDisk` (a
crash loses exactly the open transaction), `ByteStream`, `BlockStore` (a holder
of a block has it alone and sees what was written last), `LineEditor` (editing
never reaches an ended line; characters come once and in order) and `NameSpace`
(names bind allocated inodes; an inode is freed only without a name and
unused; a directory is unbound only when it is empty).

### Bounds, and why they are enough

* Locks: an interrupted critical section, its handler, and another hart that
  contends for either lock need two locks and two harts.
* Processes: with three slots a process can have a parent other than init, lose
  it, and exit concurrently on another hart; slots are reused because a failed
  or finished fork leaves pids free below `MaxPid`. `MaxPid` bounds the number
  of forks. A fault sets the same flag as a `kill`.
* Liveness of processes: in `proc_live` three processes compete for two harts, so that
  one always waits while others run, and a child can leave init a zombie and then
  itself. Kernel code preempted anywhere multiplies the states: there the timer preempts
  user programs and the loop of `panic` only (`UserPreemptionSpec`). One case needs a
  fourth process and is not in the runs: init inherits a zombie from a process that is not its
  own child, whose `exit` wakes that process's parent only, so that the `wakeup` in
  `reparent` is all that tells init. `NoLostWakeupHolds` covers it.
* `KillPid` is one child. `kill(1)` makes init exit, which `SysExit` does too; the
  theorems but `KilledWasAskedHolds` allow any argument. It leaves out 0 because of
  what `kill(0)` does (below).
* Log: two calls fit, the third sleeps, and a group commit of several blocks
  has a crash between any two of its disk writes. A call writes `OpBlocks`
  blocks, fewer than the `MAXOPBLOCKS` it reserves, as the calls of this kernel
  do.
* Pipe: writes of three bytes overfill the ring of two; the counters wrap after
  four bytes. `UintMax1` is a multiple of `PIPESIZE`, as 2^32 is of 512. The
  proofs cover any number of readers and writers.
* Disk: eight descriptors, as in the code, are two chains and two more: two requests
  are in flight and finished in either order, one interrupt finds one or both of them,
  and a third request gets part of a chain and gives it back. At most one process sleeps for
  descriptors at a time; `DriverAlways` covers more. In `block_io` six are two chains.
  `IdxMax1` of 4 and 3 lets the indices wrap often.
* Cache: three blocks and two buffers make every miss an eviction. The data of
  a block is one of two values.
* Console: rings of two are full and empty within a line; `MaxLen` bounds one
  `read`. At most one key waits in the 16550. Output begins only while no input
  is waiting and one key may be pressed until it ends (`Press`, `WriteCall`):
  this bounds how positions in the two rings combine, which do not depend on
  each other, and leaves the race of an echo with output. These two bounds apply
  because `Bounded` is `TRUE`; the proofs hold without them too.
* Memory: eight virtual pages and page-table pages of two entries give tables
  that are shared and tables that are not; 22 pages are too few for three
  processes, so that every allocation of every call fails in some behaviour.
* Tree: `file_tree` makes directories in the root only, enters and removes
  them, and makes, links, opens and removes files in both. Nested directories
  are in `file_tree_dotdot`, which ends in the panic below. The kernel's table
  has 50 entries for the 200 inodes of the disk; the run has as many of both, and the
  full table is left to `CountsAlwaysExact` and `OnlyIgetPanics`.
* File table: two files are too few for an open file and a pipe, and two descriptors
  too, so that each failure of `open` and `pipe` happens, and while the other
  process is between two steps of `exit` or of another call.
* Files: a direct and an indirect block for each of two files and three blocks
  on the disk, one bit to a bitmap block; a write of three bytes spans blocks
  and chunks, and leaves offsets in the middle of a block. The read of 13 wraps
  modulo 14 when it is added to an offset: without the test of `fs.c:477` it would be
  taken to end below the size. Writes never wrap: a chunk is small.
* Symmetry: harts in `proc`, processes (and blocks) in `block_io`, `file_tree`,
  `file_data` and, all but the first, `vm`. These check safety only.
* Deadlock is checked except for `pipe` and `console`, where everybody may stop
  and no key be pressed any more.

### Fairness

* `SpinLock`: a hart executes its instructions (weak fairness); critical
  sections and handlers are finite (strong fairness, since interrupts may
  suspend them again and again). Nothing is assumed of which hart's swap wins,
  so only global progress is claimed, not freedom from starvation, which these
  locks do not have.
* `Proc`: schedulers run (weak); kernel code and preemption by the timer are
  strongly fair, because a clock tick is long compared with a step of kernel
  code and a spin lock that is free again and again is eventually taken. init
  calls `wait` for ever (`user/init.c`) unless it exits, which `ZombieReaped`
  excepts; the loop of its panic is interrupted like user code. Nothing is assumed of other programs:
  they may run for ever without a system call.
* `Log`: recovery and commits proceed, calls end, and a process that was woken
  looks again. Crashes are never fair.
* `Pipe`: the scheduler's part (calls go on, woken processes get the lock), and
  of the programs that the reader keeps reading and that a killed process exits
  and so closes its descriptors. With two writers `WriteReturns` does not hold:
  one of them can fill the ring again each time before the other gets the lock.
* `VirtioDisk`: the device fetches and finishes what it was given (weak, for
  each request), interrupts are taken and the handler goes on (weak), and a
  process gets `vdisk_lock` if it is free again and again (strong). Processes
  need not make requests. That everybody who sleeps for descriptors gets some
  is not claimed: others may take them each time.
* `Console`: the transmitter sends, who holds a lock goes on (weak); the
  handler gets a lock, and finds the transmitter idle, that is so again and
  again (strong). Keys are never fair.

### What disagrees with the code

* `unlink` of an empty directory takes back the link its ".." had in the
  parent, but the directory lives on, with that entry, while it is a current
  directory. The parent can be removed and freed too; a lookup of ".." then
  stops the kernel with `panic("ilock: no type")` (`sysfile.c:225`,
  `file_tree_dotdot`).

init exits when a `fork` or a `wait` of it fails (`user/init.c:31`, `48`), and stops
the kernel with `panic("init exiting")`, although a `fork` fails whenever there is no
free slot or page. `Proc` has these steps; no part of the code claims
that they cannot happen.

Three more are left out of the runs by the choice of constants. They are listed
as hazards, with the constants that show them:

* `kill(0)` marks a free slot as killed (`proc.c:612`), because unused slots
  have pid 0; the next process created there dies at its first trap
  (`KilledWasAsked` with 0 in `KillPid`).
* `begin_op` reserves space for `LOGSIZE` data blocks, but `mkfs` makes a log of
  `LOGSIZE` blocks of which one is the header. Calls that wrote all their
  `MAXOPBLOCKS` blocks would reach `panic("too big a transaction")` (`NoPanic` of
  `Log` with `OpBlocks = MAXOPBLOCKS`). The calls of this kernel write fewer.
  `filewrite` comes closest: `ChunkFits` is exact, a chunk of
  `(MAXOPBLOCKS-1-1-2)/2` blocks that is not aligned can touch `MAXOPBLOCKS`.
* A writer that is killed in the middle of a write returns without waking the
  readers of the bytes it has already stored (`pipe.c:84`;
  `SleepingReaderHasReason` with a writer in `Killable`).

## What is proved

TLAPS checks these for every value of the constants.

`SpinLockProofs`, from `LockAssumption` (locks are finitely many numbers,
handlers take some of them): `MutualExclusionHolds`, `NoPanicHolds`,
`HoldingIsExactHolds`, `InterruptsRestoredHolds` and `SpinLockImplementsMutex`.
None of these is inductive. The inductive invariant `IInv` adds, for each
program counter, which locks the hart owns (`PcInv`, `OwnerInv`), that `noff`
is the number of locks held plus the push under way (`NoffInv`), how `intr`,
`intena` and the setting the code chose agree (`IntrInv`), and the same for the
frame an interrupt suspended (`SavedInv`). There is one lemma per action and
one step per conjunct. For the refinement, an action either leaves the owner of
every lock unchanged, or is the swap that takes a lock or the one that frees it.

`PipeProofs`, from `PipeAssumption` (the counters are wider than the ring, and wrap at a
multiple of its size):
`TypeOKHolds`, `FreedUnusedHolds`, `SleepingWriterHolds`, `EndOfFileHolds`,
`PipeIsByteStream`, and `SleepingReaderHolds` under the additional hypothesis that no writer can be
killed, without which it is false. The sleeping properties speak of moments
when `pi->lock` is free. The inductive invariant says what makes them true in
between: a writer sleeps on a full ring unless a reader is past its wait (and
will wake it), a reader sleeps on an empty one unless a writer is in its loop
(and will wake it), a call has its end open, and the lock belongs to the
process inside. `PipeIsByteStream` adds that the ring holds at most `PIPESIZE` bytes
(`UsedInv`). It reads the stream as a window of the ring: a byte put behind a window
shorter than the ring appends to it and disturbs nothing in it, and the window from
the next index is its tail. That the indices may wrap at `UintMax1` and not at the end
of the ring is where `UintMax1` has to be a multiple of `PIPESIZE`.

`LogProofs`, from `LogAssumption` (the sizes of `param.h` and of `mkfs`'s log, and
that a call writes at most the `MAXOPBLOCKS` blocks it reserves): `LogInvariant`
without further hypothesis; `LogNoPanic` and `LogAtomic` if `CallsFit`, that a call
writes fewer, because the log's header takes one of the blocks that `begin_op`
counts on. `BookInv` counts the calls in a transaction and the pins of its blocks,
and says who commits and what the header on disk lists meanwhile. `SpaceInv` adds the
reservation argument: the blocks in the log and those that the calls in progress may
still add to it (`Room`) fit. `DataInv` relates the disk, the log on disk and the
buffers at every point of a commit and of recovery: a buffer that is not pinned is
like its home block, `write_log` has copied the blocks up to `tail`, and
`install_trans` has installed those up to `tail`. For the refinement, the write of
the header is the step that commits, and every other disk write is a stutter.

`ProcProofs`, from `ProcAssumption` (types of the constants): `ProcInvariant`,
`ProcNoPanic`, `NoLostWakeupHolds` and `ProcLifeCycle` without further
hypothesis, whether init exits, is killed or faults; `KilledWasAskedHolds` if
`ZeroSpared` (nobody calls `kill(0)`, see above). `NoPanic` says that the tests of
`sched` pass and that no hart resumes a thread that has exited; init's own exit is
not among the panics it forbids. `TableInv` says for each program
counter which state its slot is in and which locks its hart holds (`HartInv`,
`StateInv`, `LockInv`, `WaitLockInv`, `PlaceInv`), that the slot `fork` fills is its
own until it runs (`ForkInv`), that pids are unique and free slots clean (`PidInv`),
that init is never a zombie, because its `exit` panics first (`InitInv`), and which children `reparent` has already given
away (`ExitInv`). `WakeupInv` says why a sleeping parent of a zombie will be woken: a
`wakeup` of it is under way that has not passed its slot, and `wait` has seen no
zombie below its loop variable when it goes to sleep. `KilledInv` adds that a free
slot is not killed, which is where `kill(0)` has to be excluded.

`BlockIOProofs`, from `DiskAssumption` (three descriptors at least, ring indices that
count further than there can be requests, and that wrap at a multiple of the ring's
size or divide it, as 2^16 does): `DriverAlways` for the driver by itself, if each
caller has a buffer of its own (`CallersFit`), which `BufferCacheAlways` and
`DriverUnderCache` show of the callers in `bio.c`; and `CacheIsBlockStore`.
`RequestInv` says that every request under way has a chain of three descriptors and
is in one place (the available ring, the device, the used ring) or finished, that a
ring has a different request at each index of its window although indices wrap, and
that the rings hold no more than is busy. `BufferInv` gives each buffer its holders
and its lock's owner; `StatusInv` says that a process goes on only after the device
has carried out its request; `ContentInv` says that a valid buffer has what was put
last into its block, and that a block whose content is not on the disk has a buffer
that is pinned or being written.

`FileDataProofs`, from `FilesAssumption` and `DataAssumption` (finitely many processes
and descriptors, sizes that are not zero, `MAXOPBLOCKS` of at least 6, and a largest
file below half the range of an unsigned integer): `FileRefAlwaysExact`,
`FileMapAlwaysExact`, `ChunkAlwaysFits`, `ChunksAlwaysFollow`. `TableInv` adds to the
exact counts that a free file is blank, that the files `pipealloc` has got are
nobody else's (`HeldOf`), that the descriptors `pipe` has set have its files (`FdOf`), and
that the child of a `fork` under way is its own (`ForkOf`). A file that goes from a call to
a descriptor, or back when `pipe` fails, keeps its count (`Moved`, `Back`). Sums wrap
(`Plus`); `PlusIs` shows where the code's tests keep them from it. `MapInv` says that each block in use is at exactly one place of one
inode; it is what keeps a block of data from being read as an indirect block, since
data is written only to a block at a data place. `CoverInv` and `CoverOf` say that
there are blocks up to the size, and up to where a chunk has written. `LogOf` counts
the blocks that a chunk has logged by the turns of its loop: the indirect block and
its bit, two for each turn, and one less if the chunk begins inside a block, which
exists already. That the bound `MAXOPBLOCKS` is met exactly rests on that last point.

`ConsoleProofs`, from `UartAssumption` and `ConsoleAssumption` (indices that wrap at a
multiple of the rings' sizes, and a transmitter for two characters at least: `uartinit`
enables its FIFO of 16): `ConsoleNeverStuck`, `TransmitterNeverOverrun`, `EofSeenOnce`
and `ConsoleIsLineEditor`. `FifoInv` is why the race of the echo with `uartstart` is
harmless: both find the transmitter empty before either writes, so at most one character
of each is in it or on its way to it. With a transmitter for one character the theorem
would be false. `WriterInv` and `ReaderInv` say who will wake a sleeper while the lock is held,
`CountInv` that a read has its `n` and `target` in order, and `RingInv` that `r`, `w`
and `e` follow one another within the size of the ring and that no character from `w`
on ends a line, so that `^U` stops at `w`. For the refinement the pending lines and the
line being typed are two adjacent windows of the ring, treated as in the pipe.

`FileTreeProofs`, from `InodesAssumption` and `TreeAssumption` (finitely many inodes and
processes, calls and paths of the right form). Without further hypothesis: `RefIsExact`,
and `IputFindsItFree`, the claim of the comment in `iput`; both follow from `PointerInv`,
which says what each program counter's locals are, which locks they mean (`LockInv`), and
that `ref` counts the pointers. All others assume `DotDotSafe`: directories are
made in the root only, or no path contains "..". Both rule out that a lookup uses the ".."
of a directory that has been removed, which is what `file_tree_dotdot` shows to go wrong.
Under it `IInv` is inductive (`TreeRight`), and gives `UsedIsAllocated`, `OnlyIgetPanics`,
`CountsAlwaysExact`, `NeverDeadlocked` and `TreeIsANameSpace`, with any number of entries
in the table: `iget` panics when it is full, as it can in this kernel, and no other
`panic` is reached. `IInv` adds to `PointerInv`:

* `CopyInv`: a valid entry of the table agrees with the disk.
* `EntryInv`: a free inode is blank, a file has no entries, "." and ".." are in place.
* `LinkInv`: `nlink` is at least the number of names, of subdirectories, and of `Pending`
  links, those that `link` has counted and not entered, or `unlink` removed and not yet
  uncounted. The property itself leaves these out and is not inductive.
* `TreeInv`: no set of directories has a child of each of its members in it.
* `CwdInv` and `PlaceOK`: what a current directory, an open file or a local variable
  points to is allocated, or is the inode that an `iput` has just freed.
* `UnlinkOK`, `NewOK` and `FreeingOK`: what a call found out stays true while it holds the
  lock. The name to remove still names `ip`; the inode from `ialloc` is nobody else's until
  it is entered; the inode that `iput` frees, after it let go of `itable.lock`, still has no
  other pointer and no name.

Deadlock: who waits while holding an inode is in `unlink` (in `create` the lock that is
waited for is on an inode nobody else points to), and waits for a child of the directory it
holds. A circle of waiters would be a set of directories that `TreeInv` rules out. For the
refinement, `create` binds, `link` binds, `unlink` unbinds, `ialloc` and `iput` change the
kind of one inode; every other step at most changes which inodes are in use.

Only model-checked: all liveness properties, which need fairness and `ENABLED`; and the
invariants of `Vm`. `PagesConserved` is a sum over a set, which is defined by recursion, and
`VmInv` rests on it where it says that no more than `NPAGE` pages are ever free.

## What is not modelled

* `trace` and `sysinfo`, the additions of the lab: each sets one field of the
  calling process or reports counts (`freemem_size` is `free` of `Vm`). The
  load average is updated without a lock and is only reported.
* `sleep` and `ticks`; saving and restoring registers; booting; the PLIC.
* The bits of page table entries, the kernel's own page table, and `copyin`,
  `copyout` and `copyinstr`, which appear as calls that may fail.
* The bytes of files and programs, path strings, formatting, `string.c`.
* The exit status of a process. Pids are bounded, so their wrap-around after
  2^31 forks is out of the model.
* `bget` running out of buffers, which is a panic in the code: a process waits
  in the model. A failed `copyin` in `writei`, which leaves a changed buffer
  that is not logged.
* User programs, `mkfs`, the graders and the tests: clients of the system
  calls. `user/usertests.c` alone is half as long as the kernel with all
  its drivers, and the repository holds every file twice (`src/Submission`), so
  the share of its lines that the modules stand for is small although nearly
  all of the kernel's state changes are in them.

`PROJECT.json` lists every part with its status.

## Plan

Modelled, in this order: `SpinLock`, `Proc`, `Log`, `Pipe`; `VirtioDisk` and
`BufferCache`; `Uart` and `Console`; `Vm`; `Inodes` and `FileTree`; `FileTable`
and `FileData`.

Proved, in this order: `SpinLock`, `Pipe`, `Log`, `Proc`, `VirtioDisk` and
`BufferCache`, `FileTable` and `FileData`, `Uart` and `Console`, `Inodes` and `FileTree`.

Left: `Vm`. A theorem about it needs `PagesConserved` stated with the cardinality of the
set of uses of a page in place of the sum.
