# Verification of xv6-modified

TLA+ models of the xv6 kernel in `src/`, with its four scheduling policies, and
of the user programs that the system needs to start and to be used,
model-checked with TLC and partly proved with TLAPS. Every definition that
models code is listed in `PROJECT.json` under `map` with the lines it models.

## 1. The system

xv6 is a small Unix kernel for several x86 CPUs. Kernel code runs in process
context, in the scheduler thread of each CPU, and in interrupt handlers. The
user programs are single-threaded processes; `mkfs` runs on the host.

| Part | State | Operations | Modules |
|---|---|---|---|
| spin-locks (`spinlock.c`) | `locked`, `cpu`, per CPU `ncli`, `intena` | `acquire`, `release`, `holding`, `pushcli`, `popcli` | `Spinlock` |
| sleep and wakeup, sleep-locks (`proc.c`, `sleeplock.c`) | `chan`, `state`, `lk->locked`, `lk->pid` | `sleep`, `wakeup`, `acquiresleep`, `releasesleep` | `SleepLock` |
| scheduling core (`proc.c`) | `state`, `cpu->proc`, `ptable.lock` | `swtch`, `sched`, `yield` | `Sched` |
| process table (`proc.c`) | `pid`, `parent`, `killed`, `nextpid` | `fork`, `exit`, `wait`, `waitx`, `kill` | `ProcTable` |
| round robin, FCFS, PBS (`proc.c`, `trap.c`) | scan position, `start_time`, `priority` | the branches of `scheduler`, `checkPremption`, `set_priority` | `Policy` |
| MLFQ (`proc.c`, `trap.c`) | the queues, `queueNo`, `cur_time`, `wait_time` | `push`, `pop`, the MLFQ branch of `scheduler`, aging in `modify_times` | `Mlfq`, `MlfqRing` |
| clock (`trap.c`, `proc.c`, `sysproc.c`) | `ticks`, `start_time`, `end_time`, `run_time` | the timer interrupt, `modify_times`, `sys_sleep`, the results of `waitx` | `Clock` |
| physical and virtual memory, exec (`kalloc.c`, `vm.c`, `exec.c`) | free list, page directories, `sz` | `kalloc`, `kfree`, `allocuvm`, `deallocuvm`, `copyuvm`, `freevm`, `exec`, `growproc` | `Vm` |
| start of the CPUs (`main.c`, `entryother.S`, `kalloc.c`) | the word with the stack, `started`, `kmem` | `startothers`, `mpenter`, `mpmain`, `kinit1`, `kinit2` | `Boot` |
| log (`log.c`) | on-disk log, `log.lh`, `outstanding`, `committing` | `begin_op`, `log_write`, `end_op`, `commit`, recovery | `Log`, `AtomicDisk` |
| buffer cache, IDE driver (`bio.c`, `ide.c`) | buffers, LRU list, `idequeue`, disk | `bget`, `bread`, `bwrite`, `brelse`, `iderw`, `ideintr` | `Bio`, `BlockStore` |
| block allocator, file content (`fs.c`, `file.c`) | free map, `addrs`, `size`, `f->off` | `balloc`, `bfree`, `bmap`, `readi`, `writei`, `itrunc`, `filewrite` | `FileData` |
| inodes, directories, paths (`fs.c`, `sysfile.c`) | inode cache, disk inodes, directory entries, `cwd` | `iget`, `ilock`, `iput`, `ialloc`, `namex`, `dirlink`, `create`, `link`, `unlink`, `chdir` | `Inode` |
| file table (`file.c`, `sysfile.c`) | `ftable`, `ofile` | `filealloc`, `filedup`, `fileclose`, `open`, `dup`, `pipe`, `close` | `FileTable` |
| pipes (`pipe.c`) | ring, `nread`, `nwrite`, open flags | `pipewrite`, `piperead`, `pipeclose` | `Pipe`, `Fifo` |
| console input (`console.c`) | `input.buf`, `r`, `w`, `e` | `consoleintr`, `consoleread` | `Console`, `LineInput` |
| shell and init (`sh.c`, `init.c`) | processes, descriptors, the command | `parsecmd`, `runcmd`, `main` of both | `Shell`, `ShParse` |
| user allocator (`umalloc.c`) | circular free list, `freep` | `malloc`, `free`, `morecore` | `Umalloc` |
| grep (`grep.c`) | none | `match`, `matchhere`, `matchstar` | `Grep` |
| mkfs (`mkfs.c`) | the image, `freeinode`, `freeblock` | `ialloc`, `iappend`, `balloc` | `Mkfs` |

How the parts meet. Everything rests on spin-locks. `sleep()` and `wakeup()`
use `ptable.lock`, and every blocking part uses them: `wait()`, sleep-locks,
pipes, the console, the disk and the log. System calls on files run between
`begin_op()` and `end_op()`. They lock inodes with sleep-locks, and inodes
reach blocks through the buffer cache. `fork()` and `exit()` touch the process
table, the file table, the inode cache and memory. The shell rests on `fork()`,
`wait()`, descriptors and pipes at once, and `mkfs` makes the disk that the file
system starts from.

What is hard to get right, and to test: wakeups between a test and a sleep;
crashes between any two disk writes; error paths that must undo a part of what
was done; reference counts read in one critical section and used in another;
lock orders; queues that different code changes at different times; rings
whose counters wrap; memory that runs out in the middle of a `fork()`; a
pipeline in which one process keeps one descriptor too many.
`PROJECT.json` lists these hazards at their lines with the properties that
would catch them.

## 2. How the models are built

A section of code under one spin-lock is one action, unless it calls `sched()`
or `swtch()`. `Spinlock` and `SleepLock` justify this: they model the locks step
by step. Sleep-locks are held across steps, as in the code. What is shared
without a lock (`log_write()`'s test of the log size, the fields of a new
`struct file`, `ip->ref` in `iput()`) has steps of its own. A panic is a
location that an invariant excludes; only that of `bget()` is reachable in a run, and the
invariant says when.

Data is abstracted to what the properties tell apart. Pids, blocks, inodes and
bytes are members of small sets. Pages are numbers. A path is a list of names.
Counters that wrap in the code wrap in the model (`UINT`, `UintMod`),
and ring sizes are constants.

Components lower down are replaced by what they promise. `FileData` works on the
disk that `AtomicDisk` specifies and `Log` implements. `Bio` takes a sleep-lock in
one step. `ProcTable`, `Policy` and `Mlfq` share the scheduling core `Sched` by
EXTENDS; `ProcTable` and `Mlfq` are proved to implement it. `Shell` has of the
kernel what `ProcTable`, `FileTable` and `Pipe` show of it.

The modules `MC...` give the constants their values. Six of them check several
parts in one run that share constants or questions but no state: a variable
`part` says which part a behaviour is about, and the other variables keep their
initial values. `MCProcTable` has `ProcTable` and `MlfqRing`; `MCSpinlock` has `Spinlock`
and `SleepLock`; `MCFileSystem` has `Inode` (with the requests of `MCInode`) and `FileData`;
`MCMachine` has `Vm`, `Boot` and `Clock`; `MCStreams` has `Pipe`, `FileTable` and `Console`;
`MCUser` has `Shell`, `ShParse`, `Umalloc`, `Grep` and `Mkfs`.

Definitions whose comment starts with "Faulty" are variants of the definition
after them with a plausible error; no specification uses them. They show that
the property named for them in `PROJECT.json` (`mutants`) notices the error.

### Modules, state and actions

* `Log`: `disk`, `logdata` and `head` survive a crash; `cache`, `dirty`, `lh`,
  `outstanding`, `committing` do not. `commit()` is a sequence of stages with one
  disk write per step, and recovery runs the same stages. `AtomicDisk` has a
  disk, a cache, and one step that makes all finished operations durable.
* `Sched`: slots, the process of each CPU and the holder of `ptable.lock`, which
  passes from scheduler to process and back at `swtch()`.
* `ProcTable`: adds pids, parents, channels, kill flags, and the place of each
  process in its system call, so that `fork()` and `exit()` interleave.
* `Policy`: one module for the three policies that scan the table. `SCHEDULER`, in
  the code a macro, is a variable that keeps the value `Init` chooses. An interrupt, the
  `checkPremption()` at its end and the `yield()` after it are three steps.
* `Mlfq`: queues as sequences; the loops of `scheduler()` and `modify_times()` turn
  by turn.
* `MlfqRing`: the arrays `front`, `rear`, `sz` and `queue`, with every index arithmetic of
  `push()` and `pop()`. Its invariant says that the arrays behave as the sequences.
* `Clock`: the timer interrupt in three steps (count, account, wake), processes that
  fork, run and exit meanwhile, and `sys_sleep()` with its test and its `sleep()` apart.
  `waited` is a history variable: the ticks that found the process not running.
* `SleepLock`: each `acquire()` and `release()` of `lk->lk` and `ptable.lock` is a step.
* `Spinlock`: CPUs, processes, scheduler threads, interrupt frames. `xchg` is
  atomic, `lk->cpu` is written after and cleared before, interrupts come wherever
  they are enabled.
* `Bio`: buffers with flags, the LRU order, the disk queue and the interrupt. A
  process that panics in `bget()` keeps `bcache.lock` for ever (location `nobuf`).
  `BlockStore` is a block device on which a process owns the block it has.
* `FileData`: blocks of cells, inode addresses, the shared offset, transactions
  with a committed copy, crashes.
* `Inode`: the cache, the disk inodes, directory contents, current directories.
  The system calls are programs of steps between locks.
* `FileTable`: file slots with `ref` and `type`, descriptors, references to inodes
  and open pipe ends. `exit()` clears a descriptor before it closes the file and not after
  it: only the process itself looks at its descriptors, and it does not come back.
* `Vm`: how often a page is on the free list, kernel stacks, address spaces. Each
  `kalloc()` is a step that another process may precede.
* `Pipe`: a ring with wrapping counters, readers, writers, kills; `Fifo` says what
  it promises.
* `Boot`: the CPUs from `startothers()` to their schedulers, and the free list pointer
  by pointer; every `kalloc()` and `kfree()` reads the list in one step and writes it
  in another, so that two CPUs without the lock would lose pages.
* `Console`: the ring with `r`, `w` and `e`, the editing keys, readers with kills.
  `LineInput` has the line being edited and the finished input as sequences.
* `ShParse`: the recursive functions of the parser on tokens, and a grammar to
  compare them with. `Shell`: each process is at a place of the code of `init` or the
  shell or runs a program that reads or writes; `fork()`, `pipe()`, `open()` and `exec()`
  may fail.
* `Umalloc`: headers at addresses, `sbrk()` up to a limit. `Grep`: the three functions,
  and what a pattern means as a way to cut the text. `Mkfs`: inodes, blocks and the
  counters from which the image is made.

## 3. Runs

`tlc -config <cfg> <module>` repeats a run. "Pass" runs find no error.
The two "violation" runs find behaviours of the code that contradict what a document
or a comment of the repository says; section 6 explains them.

| Run | Module, cfg | Expected | What it shows | Properties |
|---|---|---|---|---|
| `log` | `MCLog`, `MCLog.cfg` | pass | Two processes run file system calls over two blocks with crashes at any point: the log implements the atomic disk, and a process that begin_op() put to sleep is always woken. | `SleeperHasWaker`, `CrashAtomic`, `SleeperWakes` |
| `proc_table` | `MCProcTable`, `MCProcTable.cfg` | pass | Three slots on two CPUs: fork(), exit(), wait(), kill(), sleep() and wakeup() in every interleaving lose no exit, leave no orphan and never run a process twice; and the ring arrays of the MLFQ scheduler behave as the queues that its specification has. | `OneCpuEach`, `NoMissedExit`, `FamilySound`, `RingsAreQueues` |
| `mlfq` | `MCMlfq`, `MCMlfq.cfg` | pass | Two slots, two queues, two CPUs: a process is queued at most once, never while it runs, push() never drops one, and a process that wakeup1() makes runnable without queueing it is queued in the end. | `QueuesSound`, `RunnableQueued` |
| `mlfq_starve` | `MCMlfq`, `MCMlfqStarve.cfg` | violation | Aging changes the number of the queue and not the place in it, so a runnable process starves behind two that sleep often. | `NoStarvation` |
| `policy` | `Policy`, `MCPolicy.cfg` | pass | Two CPUs that scan one table of three slots: under round robin every runnable process runs, under PBS the one that alone has the highest priority, under FCFS the oldest if no other keeps its CPU for ever. | `EveryoneRuns`, `FirstRuns` |
| `locks` | `MCSpinlock`, `MCSpinlock.cfg` | pass | Two CPUs, their schedulers, two processes and interrupts everywhere they can come: spin-locks exclude, holding() is exact, no panic is reachable, and every kernel thread gets its interrupt state back; and three processes at a sleep-lock, with every acquire() below it a step, exclude each other and miss no wakeup. | `LocksExact`, `InterruptsRestored`, `SleepLockSound` |
| `lock_order` | `MCSpinlock`, `MCSpinOrder.cfg` | violation | Two CPUs that hold ptable.lock and cons.lock can each spin for the lock of the other, because they are taken in both orders. | `NoStandstill` |
| `bio` | `MCBio`, `MCBio.cfg` | pass | Two processes share three buffers and four blocks, with up to two blocks pinned by the log, so that bget() may run out of buffers: it panics only then, the cache implements a block store, in which only the process that has a block changes it, and the disk always works on the head of its queue. | `BuffersSound`, `QueueServed`, `AsBlockStore` |
| `file_system` | `MCFileSystem`, `MCFileSystem.cfg` | pass | Two processes make, enter, look up, link and remove a directory, a device in it and a file next to it, and write and discard files with crashes at any point: counts stay exact over every error path, no inode is freed under somebody, and the disk a crash leaves has no lost, shared or missing blocks. | `RefExact`, `CacheCoherent`, `NotFreedInUse`, `LinksExact`, `CrashConsistent`, `WritesExact` |
| `machine` | `MCMachine`, `MCMachine.cfg` | pass | Two processes fork, exec, grow, shrink, exit and wait over fifteen pages, so that every kalloc() may fail: every page stays in exactly one place; three CPUs start one after the other while the allocator is still filled without its lock; and sys_sleep(), waitx() and the timer interrupt keep time together on two CPUs while ticks wraps. | `MemorySound`, `PagesApart`, `ClockSound`, `AllStart`, `SleepEnds` |
| `streams` | `MCStreams`, `MCStreams.cfg` | pass | Pipes, open files and console input, each with processes that share them, are killed or close them: the pipe is a first-in first-out queue and the console ring a line input over wrapping counters, nobody sleeps without a reason, and files and pipe ends are released exactly once, by the last reference. | `WaitJustified`, `UseLive`, `CountsExact`, `AsFifo`, `AsLineInput` |
| `user` | `MCUser`, `MCUser.cfg` | pass | init and the shell run pipelines, lists, redirections and background commands over processes and pipes, with fork(), pipe(), open() and exec() failing at any time; the parser of the shell, malloc(), the matcher of grep and mkfs agree with reference definitions on all inputs up to the bounds. | `Wired`, `ForegroundDone`, `ParsesExactly`, `HeapSound`, `MatchExact`, `ImageSound`, `CommandEnds` |

Every module of a component states the types of its variables as `TypeOK`. It is a
theorem, or a part of a proved invariant, for the modules that section 4 names. For the others it holds on the
instances of the runs, but no run lists it, since the properties above say more.

### Bounds, and why they are enough

* Two processes, or CPUs, are enough for a race between two. A third slot is
  there where a third party matters: a slot that is reused (`proc_table`), the
  process between two others in a scan (`policy`).
* `proc_table`: `MaxPid` bounds the number of forks to four, so that a slot is
  reused; `KillPids` are the pids of processes that come and go; `Event` is one
  channel other than `wait()`. Rings of three entries start, wrap, fill and empty at
  every position, and two of them show that `push()` searches them all.
* `mlfq`: `AGE = 0` makes aging happen at the first tick a process waits. Two slots
  on two CPUs are what liveness allows; the safety properties of the run are
  proved for any number of slots, CPUs and queues. `mlfq_starve` needs a third
  slot and one CPU. `cur_time` and `wait_time` saturate just above the values the
  code compares them with.
* `policy`: `Builds` are the three values of the macro SCHEDULER, of which each
  behaviour has one. Two priorities and `MaxTicks = 2` give every order of three
  processes by priority and by start time.
* `log`: an operation writes up to two of two blocks, so that operations share a
  commit and a block is logged again; the log has room for both.
* `bio`: one buffer less than blocks, so that buffers are recycled; `MaxPinned`
  bounds the dirty buffers that the log keeps, as LOGSIZE does in the kernel. Two
  pinned blocks and one process use up the three buffers: `bget()` of the other
  process panics.
* `locks`: two CPUs, two processes and two locks are enough for every pair of
  threads that meet at a lock; the two properties of `Spinlock` are proved for any
  number. Three waiters, so that a release wakes two.
* `file_system`, names: the set of requests (`Tree` in `MCInode`) is different for the two
  processes, because all calls of both together exceed what TLC can explore. It
  has every system call of the module (`open()` with O_CREATE), every error path, and the removal of a
  directory that another process is in. Only one process makes names in the
  directory it may remove, because of the orphans of section 6. Three inodes let
  a freed one be handed out again, and three cache entries are enough for them
  as long as no inode has two; an entry keeps what it held when `ref` drops to 0, so
  that `iget()` takes over entries that are valid for another inode.
* `file_system`, data: files of at most one direct and two indirect blocks, blocks
  of two cells, chunks of three, so chunks start at either half of a block and
  cross into the indirect block; `MaxCalls` bounds writes and truncations.
* `machine`, memory: fifteen pages for two processes of five to nine pages, so each
  `kalloc()` fails in some behaviour; pages of two bytes give sizes inside a page, and
  four user pages need two page table pages; `UintMod` lets `sz + n` wrap. Boot:
  three CPUs, so that a second one is started after a first; `Early` pages are just
  the stacks of the others. Clock: `ticks` wraps at four and sleeps are two ticks long,
  so a sleep spans the wrap; an error of waiting times grows by steps of one, so it
  would pass through two before the wrap hides it. A tick waits for a woken process
  that has not run for a whole turn of the clock: with 32 bits that is 497 days.
* `streams`, pipes: a ring of two bytes whose counters wrap after four and start
  anywhere meets every alignment of a full, an empty and a wrapped ring. Two byte
  values tell apart what a wrong index would mix up. Files: three files and two
  descriptors run out, and so does the page of the pipe. Console: a ring of three
  with indices that wrap after six, and reads of up to two characters.
* `user`: five slots hold `init`, the shell and the processes of a pipeline with a
  nested list; one pipe, so that a second `pipe()` fails; programs write up to twice
  into a pipe that holds one write, so they block. All lines of up to five tokens,
  all patterns of up to four and texts of up to two characters; a heap of nine headers
  that is extended twice, with requests from `malloc(0)`, a header alone, on; an image
  with files of up to three blocks.

Symmetry is used only in runs without liveness properties (`locks`, `lock_order`,
`bio`), over sets whose members the module never tells apart. `CHECK_DEADLOCK FALSE`
stands where the system may really stop: `file_system` and the runs of the locks have
the deadlocks of section 6, and file data ends at `MaxCalls`; in `streams` both ends of
the pipe may be closed; in `user` the inputs of the algorithms have a largest size.

### Fairness

* `Log`: disk writes complete, and an operation ends after finitely many writes.
* `Policy`: every CPU runs its scheduler, its timer interrupts the process it
  runs, and `trap()` comes to its end. Under FCFS `FirstRuns` has as a hypothesis that no process keeps its CPU for
  ever, because FCFS does not preempt.
* `Mlfq`: the same, and every process sleeps now and then, because the code never
  preempts a process in the lowest queue.
* `Boot`: every CPU goes on. Turns of a loop that waits change nothing.
* `Clock`: the timer goes on ticking and a process gives its CPU up when it ticks (weak
  fairness); a process that is runnable again and again is run, and gets `tickslock`
  (strong fairness). The first is what `policy` shows of round robin; for FCFS, PBS
  and MLFQ it is an assumption on the other processes.
* `Shell`: some process takes a step as long as one can. Nothing is assumed of which:
  `CommandEnds` holds whatever the scheduler picks.

## 4. Proofs

`tlapm <module>` checks a module; the largest take up to twenty minutes. All theorems
hold for every value of the constants that satisfies the named ASSUME of the module
(`SchedConstants`, `PipeConstants`, `BioConstants` and so on). A theorem of a part that a
run only instantiates has the same condition as a hypothesis (`FileConstants`,
`RingConstants`); the module of the run assumes it of its instance. Other hypotheses are
said in the statement of the theorem (`Slack`, `GoodDisk`).

| Module | Theorem | What it establishes |
|---|---|---|
| `LogProofs` | `ImplementsAtomicDisk` | The log implements the atomic disk for any number of processes and blocks and any size of the log. (`CrashAtomic`) |
| `LogProofs` | `TypeCorrect` | The variables of the log keep their types: log.outstanding never drops below zero. |
| `LogProofs` | `SomebodyWakes` | While a process sleeps in begin_op() an operation or a commit is under way that will wake it. (`SleeperHasWaker`) |
| `LogProofs` | `NeverTooBig` | No operation panics and the log never overflows if operations leave a part of their reservation unused. |
| `ProcTableProofs` | `SchedSafe` | No process runs on two CPUs, whatever the scheduling policy picks. (`OneCpuEach`) |
| `ProcTableProofs` | `TypeCorrect` | The fields of the process table keep their types. |
| `ProcTableProofs` | `WaitSafe` | No process sleeps in wait() next to a zombie child, without children, or killed. (`NoMissedExit`) |
| `ProcTableProofs` | `FamilyStaysSound` | Every process but init has a live parent, and a slot is EMBRYO exactly while one fork() builds it. (`FamilySound`) |
| `ProcTableProofs` | `PidsUnique` | No two slots in use share a pid. |
| `ProcTableProofs` | `ImplementsSched` | The process table implements the shared scheduling core, and so never runs a process twice. (`OneCpuEach`) |
| `SpinlockProofs` | `LocksStayExact` | A spin-lock is held by the CPU that it names and by no other, ncli counts the locks of every CPU, and no panic of spinlock.c or sched() is reachable, for any number of CPUs, processes and locks. (`LocksExact`) |
| `SpinlockProofs` | `InterruptsStayRestored` | pushcli(), popcli() and sched() give every kernel thread its own interrupt state back. (`InterruptsRestored`) |
| `SpinlockProofs` | `SleepLocksStaySound` | A sleep-lock has one holder at a time, lk->pid names it, and no process sleeps for a lock that nobody will wake it for, for any number of processes. (`SleepLockSound`) |
| `SpinlockProofs` | `WakeupKept` | No wakeup falls between the test of a condition under its lock and the sleep. |
| `MlfqProofs` | `TypeCorrect` | The queues, levels and counters keep their types; no level leaves the range of the queues. |
| `MlfqProofs` | `QueuesStaySound` | Every queue holds a process at most once, none that runs, and has room for every process that is not queued. (`QueuesSound`) |
| `MlfqProofs` | `QueuedOnce` | A process has at most one entry in all queues together. |
| `MlfqProofs` | `NotQueuedWhileRunning` | A running process is in no queue. |
| `MlfqProofs` | `PushNeverDrops` | push() never finds a full queue for a process that is not queued yet. |
| `MlfqProofs` | `ImplementsSched` | The MLFQ scheduler implements the shared scheduling core. (`OneCpuEach`) |
| `ProcTableProofs` | `RingsStayQueues` | The arrays front, rear, sz and queue are the queues that the MLFQ proofs reason about, for any number of processes and queues. (`RingsAreQueues`) |
| `StreamsProofs` | `StreamsImplementFifo` | The ring of a pipe implements the bounded first-in first-out queue over every wrap-around of its counters, for any number of processes, any PIPESIZE and any uint that it divides. (`AsFifo`) |
| `StreamsProofs` | `WaitsStayJustified` | No reader or writer of a pipe and no reader of the console sleeps that could go on, but for the reader that a killed writer left asleep, and readers and writers never wait for each other. (`WaitJustified`) |
| `StreamsProofs` | `PipeFreedLast` | pipeclose() frees the pipe exactly when no descriptor refers to it and no call uses it. |
| `StreamsProofs` | `ImplementsLineInput` | The input buffer of the console implements the abstract line discipline for any INPUT_BUF, over every wrap-around of its three counters: readers see committed lines only, once and in order. (`AsLineInput`) |
| `StreamsProofs` | `CountsStayExact` | The references of every open file, inode and pipe end are exactly those of the descriptor tables and of the calls under way, for any number of processes, files and descriptors. (`CountsExact`) |
| `StreamsProofs` | `UsesStayLive` | A read() or write() works on a live file with a live inode or pipe end, no panic of file.c is reachable, and a pipe is freed exactly when its last end is closed. (`UseLive`) |
| `FileTableProofs` | `FileCountsExact` | The same of the file table alone: filealloc(), filedup(), fileclose() in its two sections, fork() and exit() file by file, open(), dup(), pipe() and the calls that use a file. |
| `FileTableProofs` | `FilesInUseLive` | The same of the file table alone: a file in use is live and no panic of file.c is reachable, which follows from the exact counts. |
| `BioProofs` | `ImplementsBlockStore` | As long as no read of the disk fails, the buffer cache and the disk queue implement the block store, for any number of buffers, blocks and processes: bread() returns what the last bwrite() of the block wrote. (`AsBlockStore`) |
| `BioProofs` | `QueueStaysServed` | The disk works on the head of idequeue exactly while the queue is not empty: iderw() and ideintr() start every request once. (`QueueServed`) |
| `BioProofs` | `BuffersStaySound` | refcnt is exact, and the only panic that can be reached is that of bget(), which happens only when every buffer is in use or pinned by the log, for any number of buffers and processes. (`BuffersSound`) |
| `BioProofs` | `RefcntStaysExact` | refcnt counts the processes that use a buffer, however few buffers there are. |

* `LogProofs`. The inductive invariant joins the types with five parts.
  `PhaseInv`: `outstanding` counts the operations, none runs during a commit, one
  process commits. `EmptyInv`: outside a transaction the headers are empty.
  `CacheInv`: a clean buffer agrees with the disk, and dirty ones are in the log.
  `CopyInv`: no block is logged twice, and the copies made so far are exact.
  `SpaceInv`: what `begin_op()` reserved and is not used yet fits. `CrashAtomic`
  follows by mapping the disk to what recovery would make of it: home blocks
  overwritten by the copies that the on-disk header names. Writing the header is
  then the one step that changes the abstract disk. `NeverTooBig` has the extra
  hypothesis `Slack` (operations leave part of their reservation unused), because
  without it the property is false (section 6).
* `ProcTableProofs`. `Sched` first: a slot is RUNNING exactly when one CPU has it
  (`SchedInv`), which is inductive with the types. `NoMissedExit` needs that a process in `wait()` sleeps on its own
  address (`WaitInv`). That needs parents to be alive and set before the child runs
  (`ParentInv`), which needs each `fork()` to own its slot (`ForkInv`). Pids are below
  `nextpid` (`PidInv`). Steps map to steps of `Sched` (`ImplementsSched`).
  The rings of MLFQ: `front` and `rear` are both -1 or both indices, `sz` counts the slots
  between them, and no two of those slots hold the same process (`Distinct`). The
  last part is what gives `push()` room: a full ring of distinct entries has them
  all. Lemmas take the arithmetic modulo the size away first.
* `SpinlockProofs`. `CountInv`: `ncli` is the number of locks the code on a CPU has, plus
  one between `pushcli()` and the lock or between the unlock and `popcli()`; interrupts
  are on only where it has none. `LockInv`: `lk->cpu` names a CPU exactly while
  the code on it has the lock, the lock is locked from the `xchg` to the unlock, and
  two CPUs are never in between. Both need (`Types`) that code below a handler or in a
  saved context has no lock: `ptable.lock` passes with the CPU at `swtch()`. These two give `LocksExact`.
  `InterruptsRestored` needs `ThreadInv` on top: a CPU has at most one handler, on top
  of its frames, and `intena` is off in it and on in a thread outside, in saved
  contexts as well. Each action has a step of its own, the larger ones a lemma.
  Sleep-locks: `SpinInv` says in which sections the two spin-locks are held, and
  that the lock cannot be freed between the test and the sleep; with it
  `Exclusive` and `NoLostWakeup` are inductive.
* `MlfqProofs`. Lemmas say what `push()` and `pop()` do to queues without duplicates.
  `OneEntry` needs `RunningUnqueued` (a process that is switched out is pushed), and
  types need `PreemptInv` (a process about to be demoted is not in the lowest
  queue). `PushNeverDrops` is a counting argument on `OneEntry`.
* `StreamsProofs`, pipes. Arithmetic first: because PIPESIZE divides 2^32, the place of a
  byte goes on round the ring where the counter wraps (`PlaceIs`), and no place comes twice
  in one round (`PlacesDiffer`). So a write leaves the unread bytes alone and appends
  (`Wrote`), and a read takes the oldest (`Took`). The invariant joins the types with
  `EndsOK` (an end is open while a descriptor refers to it or its last one is being
  closed, and a call has its descriptor), `NothingLeft`, `SleepJustified` and `NoStandoff`.
  Console: the same arithmetic for three counters. `ConsInv` says that the
  committed and the edited characters fit the ring together (`IndicesOK`), that a full
  ring has nothing left to edit, and that only a process without a line sleeps. The
  mapping reads the ring from `r` to `w` and from `w` to `e`. Composition: a behaviour of
  `MCStreams` is one of each part (`StreamsCompose`), so the theorems of the parts,
  those of `FileTableProofs` included, are theorems of the whole.
* `FileCounts` and `FileTableProofs`. `FilesInv` joins `RefExact` and `ObjectsExact` with
  what a process has at each point of a call: `Shape` (which of its fields are set),
  `FreshFor` (a file is new until `open()` or `pipe()` fills it in, and the copy `ff` that
  `fileclose()` works on is that of a last reference), `DescsFor` (the file of a read or
  write is named by a descriptor of the process), `ForkFor` (a `fork()` has its child for
  itself) and `Separate` (no two calls fill the same file in). The counts are cardinalities,
  so lemmas say what the change of one descriptor or of one call does to them
  (`NamedChange`, `CallsChange`, `FilesHoldChange`), and `StepKeeps` puts a step together from
  these. There is one lemma for each action. `UseLive` follows: a file with a
  reference is open, because it is counted.
* `BioProofs`. `UseInv`: a process has its buffer from `bget()` to `brelse()`, and the lock of
  it from `acquiresleep()` on. `QueueInv`: the disk queue has exactly the buffers of
  the processes that sleep in `iderw()`, each once. `FlagInv`: what the flags are at each
  point of a call. `OneBuffer`: no block has two buffers. They are inductive together with
  `RefcntExact`, `QueueServed` and `RoomInv` (the log pins at most `MaxPinned` blocks). With
  `NoPanic` and `RunOut` they give `BuffersSound`. The panic of `bget()` can be reached: NBUF is
  30 and NPROC 64, and the log pins up to LOGSIZE blocks. `RunOut` says that the buffers had
  really run out. It is inductive because the process that panics keeps `bcache.lock`, so
  that no buffer changes hands after it, and because `ideintr()` cleans only buffers
  that a process waits for. There is no hypothesis on the number of buffers. For the refinement, `Coherent` is
  inductive too: a buffer that is valid and clean has what the disk has. `GoodDisk`
  is a hypothesis because without it the property is false (section 6).

Only model-checked: liveness under fairness, which the prover does not reach;
the modules without a proof module (`Policy`, `FileData`, `Inode`, `Vm`, `Boot`, `Clock`,
`Shell`, `Umalloc`, `Mkfs`); and the recursive algorithms of `ShParse` and `Grep`, which would
need induction over their inputs. `Shell` uses `ShParse` and is out of the prover's
reach for the same reason; for the others a proof would be possible.

## 5. What is not modelled

Device registers (`lapic.c`, `ioapic.c`, `picirq.c`, `mp.c`, `uart.c`, `kbd.c`, the port protocol of
`ide.c`) and the boot of the first CPU (`bootasm.S`, `bootmain.c`, `entry.S`) are fixed sequences
of port and memory accesses by one CPU. `syscall.c` only decodes arguments.
Formatting and drawing (`cprintf`, `printf.c`, the screen), ELF parsing and the string
functions have no state. The other user programs and tests are clients of the
system calls: what they do is among the behaviours the modules allow.
`memide.c` replaces `ide.c` in one build and has no queue. Segment registers, PTE
flags and register frames are below the level of the properties. A part listed
as `partly` in `PROJECT.json` says what it leaves out.

## 6. Where the code and its documents disagree

Two of them are runs.

`mlfq_starve`: `README.md:67` says "Aging prevents starvation."; but
aging decrements `p->queueNo` and calls `push()`, which returns at once because the
process is in its old queue already (`src/proc.c:860`). The process stays there,
and two processes that sleep often keep queue 0 busy for ever.

`lock_order`: `src/spinlock.c:21` says that `acquire()` "Loops (spins) until the lock is
acquired."; but `scheduler()`, `yield()` and `modify_times()` print under `ptable.lock`, and the
console wakes and sleeps under `cons.lock`: two CPUs can spin for each other's lock
(`src/proc.c:430`). The Makefile's default of one CPU hides it.

The properties below are stated in the modules and do not hold either. Each is
violated when the cfg named is changed as described; they are not runs of the
project.

| Property | Where | What the code does | Change to the cfg |
|---|---|---|---|
| `BornAlive` (`ProcTable`) | `src/proc.c:776` | `kill()` compares pids and not states. It marks a slot that a failed `fork()` gave back with its pid still set, and the next process in the slot is born killed. `src/proc.c:766` says "Kill the process with the given pid." | `MCProcTable.cfg`: `PROPERTY BornAlive` |
| `QueueNoIsQueue` (`Mlfq`) | `src/proc.c:996` | `getpinfo()` reports `queueNo`, which changes while the entry stays in the old queue. `README.md:14` calls it "the queue which it currently is in". | `MCMlfqStarve.cfg`: `SPECIFICATION Spec`, `INVARIANT QueueNoIsQueue` |
| `StartsInQueue0` (`Mlfq`) | `src/proc.c:860` | A free slot ages and is pushed; the process that gets the slot starts in that queue. `README.md:65` says processes "are initially assigned the 0th queue". | the same with `NQUEUE = 3`, `INVARIANT StartsInQueue0` |
| `EqualsTakeTurns` (`Policy`) | `src/proc.c:529` | The PBS loop uses `p` as its position and its choice: with priorities 50, 60, 50 in three slots the third process never runs. `README.md:44` says "Processes with same priority are executed in a round robin fashion." | `MCPolicy.cfg`: `NCPU = 1`, `PROPERTY EqualsTakeTurns` |
| `AsBlockStore` (`Bio`) | `src/ide.c:118` | A read that fails sets `B_VALID` with the old data. `src/bio.c:95` says `bread()` will "Return a locked buf with the contents of the indicated block." | `MCBio.cfg`: `ReadErrors = TRUE` |
| `NoPanic` (`Log`) | `src/log.c:218` | `LOGSIZE` (`src/param.h:11`, "max data blocks in on-disk log") counts the header, so operations that use all of MAXOPBLOCKS reach the panic of `log_write()`. | `MCLog.cfg`: four blocks, one value, `MAXOPBLOCKS = 2`, `LOGSIZE = NLOG = 4`, `SPECIFICATION Spec`, `INVARIANT NoPanic` |
| `FreedWhenUnused` (`Inode`) | `src/fs.c:337` | Two `iput()` calls that overlap both read two references, and nobody frees the inode. `src/fs.c:327` says "If that was the last reference and the inode has no links to it, free the inode". | `MCFileSystem.cfg`: `Request <- LinkUnlink`, `INVARIANT FreedWhenUnused` |
| `NoStandstill` (`Inode`) | `src/sysfile.c:280` | `create()` puts the directory, which takes its lock, with the new inode locked, while an `unlink()` of that name waits for the inode with the directory locked. `src/usertests.c:855` runs these calls "to look for deadlocks". | the same cfg: `Request <- LinkUnlink`, `INVARIANT NoStandstill` |
| `NoStandstill` (`Inode`) | `src/fs.c:560` | `link(file, ".")` waits for the lock of the directory that it holds itself. | the same cfg: `Request <- LinkDot`, `Proc = {p1}`, `INVARIANT NoStandstill` |
| `DotDotAllocated` (`Inode`) | `src/sysfile.c:222` | The `".."` of a removed directory that is still in use outlives the directory it names. | the same cfg: `Request <- Removed`, `Proc = {p1}`, `INVARIANT DotDotAllocated` |
| `LinksExact` (`Inode`) | `src/sysfile.c:277` | A file can be created in a removed directory and keeps its link count when the directory goes. `src/fs.c:101` calls `nlink` "the number of links referring to it". | the same cfg: `Request <- Removed`, `Proc = {p1}`, `INVARIANT LinksExact` |
| `SizeIsMapped` (`Vm`) | `src/proc.c:202` | `sbrk()` by minus the size frees all memory and reports a failure with the old size in place. `src/proc.c:190` says "Return 0 on success, -1 on failure." | `MCMachine.cfg`: `INVARIANT SizeIsMapped` |
| `NeverNegative` (`Clock`) | `src/trap.c:53` | A process that is made and run on another CPU between `ticks++` and the accounting of that tick, and exits before the next, has run for one tick and lived for none: `waitx()` reports a waiting time of -1. `src/README.md:4` says it is used "to get total waiting time and running time". | `MCMachine.cfg`: `INVARIANT NeverNegative` |


## 7. Plan

Done, in this order: log; scheduling core, process table; MLFQ; sleep-locks;
pipes; spin-locks; buffer cache and disk; other policies; inodes; file table;
file content; memory; shell and its parser; user allocator; grep; mkfs; console
input; start of the CPUs; clock; the rings of MLFQ. Proofs for the first seven, for the
file table, the console and those rings.

Next, modelling:

1. A composition of `Log` with `Bio`: the pinned buffers of a transaction against NBUF.
2. A composition of `FileTable` with `Pipe`: a process that is killed in a pipe and
   exits while another one closes.
3. `Policy` with `Clock`, so that the fairness `SleepEnds` assumes is the policy's own.

Next, proofs: `Clock` and `Boot`, whose invariants are short, then `Inode` (`RefExact`, with the
counting lemmas of `FileCounts`). For each the invariant is to be checked with TLC first.
