# Verification of the lab8 uCore kernel

The repository holds eight snapshots of a teaching operating system for RISC-V
(uCore, NKU 2025): `lab01` boots, `lab8` is the complete kernel with processes,
a stride scheduler, semaphores and monitors, a virtual file system and a simple
disk file system.  `lab8` is the program verified here; of the earlier code only
the buddy allocator of `lab02`, which lab8 does not contain, is modelled too.

## 1. Inventory

One processor.  The kernel is **not preemptive**: `trap()` reschedules only when
the interrupted code was user code (`trap.c:256`), so kernel code gives up the
processor only by calling `schedule()`.  System calls of user processes run with
interrupts off; kernel threads (`initproc`, `idleproc`) run with interrupts on,
except inside `local_intr_save` sections.

| Component | State | Operations | Hard because | Modules |
|---|---|---|---|---|
| timer list (`schedule/sched.c`) | `timer_list`, delta `expires` | `add_timer`, `del_timer`, `run_timer_list`, `do_sleep` | every operation must re-base deltas; `do_kill` wakes early; timers live on stacks | `TimerList`, `Timer`, `AlarmClock` |
| process life cycle (`process/proc.c`) | `state`, `wait_state`, `flags`, `parent`, `nr_process` | `do_fork/exit/wait/kill/yield/sleep`, `init_main`, `cpu_idle` | orphans, three independent wake-ups, a kill at any moment | `Process` |
| scheduler core (`schedule/sched.c`), trap return (`trap.c`) | run queue, `current`, `need_resched` | `wakeup_proc`, `schedule`, timer interrupt | a process queued twice or never | `Process` |
| stride class (`default_sched_stride.c`, `skew_heap.h`) | skew heap, 32-bit strides, priorities | enqueue, dequeue, pick, `lab6_set_priority` | wrap-around, starvation, stale heap links | `SkewHeap`, `StrideSched`, `StrideShare` |
| semaphores, wait queues (`sync/sem.c`, `wait.c`) | `value`, FIFO of waiters | `up`, `down`, `wakeup_queue` | hand-over of the token, lost wake-ups | `Semaphore` |
| monitors, philosophers (`monitor.c`, `check_sync.c`) | `next_count`, `cv[i].count`, states | `cond_wait`, `cond_signal`, philosophers | signaller and signalled both inside | `Monitor`, `PhilSema`, `PhilMonitor`, `Dining` |
| keyboard (`devs/dev_stdin.c`) | ring buffer, wait queue | interrupt writes, processes read | full buffer; key racing a kill; many readers | `Stdin`, `Keyboard` |
| process tree (`set_links`, `remove_links`) | `cptr/yptr/optr` | fork, reap, adopt | pointer surgery | `ProcLinks`, `Family` |
| pids (`get_pid`) | `last_pid`, `next_safe` | search | window between calls, wrap | `GetPid` |
| descriptors, VFS (`fs/*.c`, `fs/vfs`) | file tables, `open_count`, `ref_count` | open, close, dup, read, chdir, fork, exec, exit | counts on error paths; exits that keep a table | `FileTable` |
| SFS (`fs/sfs/sfs_inode.c`) | bitmap, block map, inode copies | read, write, truncate, seek, open, close | block accounting when one step of several fails | `SfsFile`, `FlatFiles` |
| locks of the file systems (`fs/`) | seven kinds of semaphores | every system call | nesting, error exits | `LockOrder` |
| page allocator (`mm/default_pmm.c`) | linked free list, `nr_free` | alloc, free, merge | list order and merging | `PageAlloc`, `PagePool` |
| buddy allocator (`lab02`) | one list per order | alloc, free | splitting, buddies | `Buddy`, `BuddyPool` |
| kernel heap (`mm/kmalloc.c`) | circular slob list | `kmalloc`, `kfree` | splitting, merging, three sizes of requests | `Slob` |
| address spaces (`mm/vmm.c`, `pmm.c`) | area list with cache, page tables | `mm_map`, `find_vma`, `dup_mmap`, `copy_range`, `exit_mmap`, user checks | clean-up when memory ends, rounding | `AddressSpace` |
| kernel objects of a process (`proc.c`) | mm, stack, directory, files, buffers | `do_fork`, `do_execve`, `load_icode`, `do_exit`, `do_wait` | chains of allocations and labels | `ProcMemory` |
| round robin class, devices, drivers, boot, monitor, libraries, user programs | - | - | straight-line code, I/O | - |

**Interaction.**  Processes are tied together by the scheduler (`wakeup_proc`,
`schedule`) and by what they sleep for: a child (`do_wait`), a timer, a key or a
semaphore.  `Process` composes the first three with kills and exits.  The
allocators, the file system and the address spaces are called by processes and
do not call back; what crosses those interfaces is a result or "no memory", so
each is modelled with any failure at any call.

What makes each part correct: a timer fires on exactly its tick; a process is on
the run queue exactly when it is runnable and not running; whoever sleeps will be
found by its event; a zombie is reaped once, by its parent; two neighbours never
eat at once and nobody waits for ever; counts equal references; a block, page or
unit of heap is free or has one owner; what a failed call took is given back; locks
are taken in one order.

## 2. How the project was planned

Scheduling and the life cycle came first (`TimerList`, `Process` and their
proofs), then synchronisation (`Semaphore`, the philosophers), the scheduling
class, the keyboard, the process tree and pids, descriptors, files, allocators,
address spaces and locks.  All of the plan's modules are written and checked.
What would come next: directories of SFS; the sharing of address spaces
by threads, for which the kernel has code (`CLONE_VM`) and no user.

## 3. Modules

**Scheduling and processes**

- `TimerList` - `timer_list` (next to fire first) and `expires` (the delta
  field).  `add_timer` walks the list: `w[i]` is the value of the new timer's
  field after passing `i` timers, so the choice of `k` and `w` is unique.  Each
  operation runs with interrupts off, hence in one step.
- `Timer` - `do_sleep` on top: up to `schedule()`, and `do_sleep_return` after it
  (at any time, because `do_kill` can wake the process early).  `now` and
  `deadline` are history variables.  `AlarmClock` is the abstract specification:
  absolute alarm times, no list, no deltas.
- `Process` - every process has `state`, `wait_state`, `exiting` (`PF_EXITING`),
  `need_resched`, `time_slice`, `parent`; `rq[p]` counts p's nodes in the run
  queue.  `pc[p]` is where p goes on when it runs: `user`, `trap_tail` (the end of
  `trap()`), `wait`, `sleep`, `read` (behind the `schedule()` of the call that
  blocked), `dead`, or the loops of `init_main` and `cpu_idle`.  `scheduling` says
  that `current` is about to run `schedule()`.  Actions correspond to the
  functions of the same names; `tick` is the timer interrupt with its three parts
  (timers, keyboard, time slice).  Abstractions: user programs make any call in
  any order; the set of children replaces the sibling list and `do_wait` may reap
  any dead child; `schedule` may pick any queued process; reads are of one
  character; `do_fork` may fail without a trace.
- `SkewHeap` - insert, remove and merge of `skew_heap.h` on the nodes' links,
  as recursive functions.  `StrideSched` - strides modulo `2^Width`, comparator,
  picks, forks, sleeps, exits.  `StrideShare` adds history counters of picks.
- `GetPid` - the static window `last_pid`..`next_safe`; the scan of `proc_list`
  element by element.  `ProcLinks` - the four pointers under fork, exit (the
  adoption loop one child per round) and wait; `Family` abstracts it to a list of
  children for each parent.

**Synchronisation and input**

- `Semaphore` - `value`, `wait_queue` (first come first), `ready` and `running`.
  `up` hands the token to the first waiter instead of counting it; `down` takes a
  token or queues the thread.  With `Preemptive = FALSE` a thread keeps the
  processor until it blocks, as in this kernel; with `TRUE` it may lose it
  between any two statements, so that what holds there does not rest on the
  kernel being cooperative.
- `Monitor` - `mutex`, `next` with `next_count`, one semaphore and `count` for each
  condition variable; `cond_signal` and `cond_wait` step by step; `LeaveMonitor`
  is the exit code that every user repeats.
- `PhilSema`, `PhilMonitor` - the two programs of `check_sync.c`, one action per
  statement.  `pc[i]` moves past a `down` even if the thread blocks there.  (The
  call of `check_sync` is commented out in `proc.c:1245`; the functions are
  compiled.)  `Dining` - the abstract table: phases and meals, no threads.
- `Stdin` - the ring written by the interrupt, readers that sleep for several
  characters, the wake-up of all of them by one key, kills while asleep.  Keys are
  numbered, so that a lost or doubled one shows.  `Keyboard` - the abstract
  bounded buffer: each key to one reader, in order while there is room.  A key that
  finds it full costs one unread key; the buffer promises neither which, nor that the
  new key comes last, because the code puts it first (section 5).

**Files**

- `FileTable` - `fd_array`, `files_count`, the inode counts, working directories,
  under open (with its failures), close, dup, chdir, read, fork, exec and exit.
  Only a read of the keyboard sleeps, with its descriptor acquired.  Every fork copies
  the table: no caller passes `CLONE_FS` (`sys_fork` passes 0, `kernel_thread`
  `CLONE_VM`).
- `SfsFile` - direct and indirect block map, bitmap, size, dirty flag, the inode
  on disk and in memory, transfers cut at block boundaries, truncation, two
  descriptors on a file.  The history `unsaved` notes a file whose inode left memory
  with changes that nobody marked as dirty.  `FlatFiles` - files as sequences of cells.
- `LockOrder` - every function of the file systems as the sequences of `down`,
  `up`, sleep and calls it can make; each system call expands to one of them.
  The layers are `{vdev, bootfs, mm, files} < fs < sin < io < disk0`.

**Memory**

- `PageAlloc` - the free list as `next`/`prev` pointers, `property`, flags; `Walk` is
  the loop over it, `First` the entry where it breaks.  Any page in use may be freed at any
  time; the history `linkage` says whether a block was ever freed behind all other free
  blocks, which links it to itself, and whether that link was followed since.
  `PagePool` - first fit on a set of pages (`Next`), or any free run (`LooseNext`).  `Buddy` - the lists of each order;
  `BuddyPool` - aligned runs.  `Slob` - the blocks' `units` and `next`, the circular
  list and its search position, the pages of large requests with their headers.
- `AddressSpace` - areas and their cache, page tables in three levels, `load_icode`
  step by step with failures, fork and exit.  The program headers are chosen once
  from `Programs`.  `ProcMemory` - which objects a process
  holds at each label of `do_fork`, `do_execve`, `load_icode`, `do_exit`, `do_wait`.

**Model-checking modules.**  `MCSleep`, `MCDining`, `MCCalls`, `MCStride`,
`MCFiles`, `MCMemory` and `MCForkExit` put components side by side that share no
state in the kernel.  The variable `part` says which of them moves in a behaviour; each
property speaks about its part.  A component with theorems is taken with EXTENDS, so
that the property of the run is the definition that the theorem states.  Interleaving them would add products of
independent states and nothing else.

Definitions named `Mutant_...` are plausible bugs, put beside the definition
they change; they are not part of the specifications and serve to show that each
property can fail.

## 4. Runs

| Run | Shows | Bounds |
|---|---|---|
| `sleep` | the delta list keeps every deadline and implements `AlarmClock`; each key goes to one reader, in order while the ring has room, a key that finds it full costs one unread key, nobody sleeps beside keys: it implements `Keyboard` | 3 processes; sleeps up to 3 ticks in 5 (insertion at the front, middle and end, equal deadlines, removal anywhere); buffer of 2, reads of up to 3, 4 keys |
| `process` | run queue, wake-ups, reaping, counting, freed processes, the assertions of `init_main` | 3 user processes (grandparent, parent, child), slices of 1 tick, sleeps and unread characters up to 2, kill of anyone including `initproc` |
| `killed_exits` | **violated**: a killed process need not exit | 2 user processes, fair scheduling, fair ticks, nobody has to type |
| `stride` | the heap holds exactly the waiting processes; time is shared by priority; nobody starves | pool: 3 processes that sleep, exit and come back, or leave the processor idle, 3-bit strides (they wrap after a few picks); share: 4 processes, priorities 1 to 4, 5-bit strides, 12 picks; live: 3 processes, priority 1, one sleeps |
| `dining` | with semaphores nobody is forgotten and the threads implement `Dining`; all threads end, with the monitor too | 4 philosophers (two disjoint pairs of non-neighbours), 1 round, preemptive |
| `monitor` | monitor ownership, signalled conditions, nobody forgotten; the threads implement `Dining` | as `dining` |
| `files` | inode and descriptor counts, block ownership; files implement `FlatFiles` as long as no unmarked change of an inode is lost | tables: 3 processes, 3 tables of 3 entries, all keyboard; opens: 2 processes, a file and two directories, failures of each kind; files: 2 files, one descriptor at a time, on 3 blocks of 2 cells, 1 direct (so the indirect block and a full disk occur), transfers of up to 3; descs: one file with 2 descriptors; both: 2 files and 2 descriptors at offsets 0, 1 and 3, up to the first lost change |
| `sfs_stale` | **violated**: an assertion of `sfs_bmap_load_nolock` | one file, two descriptors |
| `calls` | locks are taken in layer order, none is held asleep, every call ends; the window of `get_pid` holds free pids only, each search ends | 2 processes, all 13 calls, the root and one file; up to 7 processes, pids up to 8: exhaustion is near and the window wraps |
| `memory` | buddy and heap: nothing overlaps or is lost, free memory merges, requests fail only when nothing fits; first fit: the same until a block is freed behind all other free ones, then a list that covers exactly the free pages, until the broken link is followed | any order of requests and frees; first fit: 4 pages, requests of 1 and 2; buddy: 8 pages, 1 and 3; heap: 3 pages of 6 units, sizes below a unit, of several, and above a page |
| `page_end` | **violated**: a block freed behind all free ones | 5 pages, requests of 1 and 2, any order |
| `fork_exit` | areas, page tables and user checks; no object lost or wrongly released but those known; sibling pointers implement `Family`; fork copies every page | 2 address spaces of 16 pages in 4 tables, a program in one table (two segments overlap) and one in two; 3 processes of objects; `initproc` and 4 processes in the tree (a middle child, adoption of several) |

Symmetry over processes, address spaces or files is used where every property is
a safety property.  Deadlock is not checked where the system may stop:
`init_main` has finished or panicked, all calls or rounds are done, memory or a
bound on history is used up, an assertion has stopped the kernel.  In `dining`
and `calls` the liveness property excludes the deadlock that would matter.
`MAX_PROCESS`, `MAX_PID`, buffer, block, page and table sizes are the code's
constants, made small so that they are reached; `MaxSleep`, `MaxNow`, `MaxChars`,
`MaxLen`, `MaxKeys`, `MaxIO`, `MaxCalls`, `MaxRuns`, `MaxOrphans`, `MaxLost` and
`CountLimit` bound inputs and histories.

**Fairness.**  `dining` assumes weak fairness of each program's next-state
relation and of "some thread takes a step": the processor does not stop, nor only
switch, while a thread can go on.  No fairness between threads is needed, because
rounds are finite and a thread that is passed over stays ready.  `calls`
assumes weak fairness of a started call's and a started search's steps: kernel
code runs.
`stride` assumes that the timer interrupt makes the running process call
`schedule()` again and again (the time slice of `Process`), and nothing about the
pick: that a waiting process gets its turn is the property.  With exits allowed
the property would be false: an endless chain of processes that fork one child
and exit starves a waiting one, because newcomers begin at stride 0.
`killed_exits` needs fairness to refute a liveness claim: it lets every step
that the processor will certainly make happen, takes a pending interrupt
eventually (strong fairness, because system calls keep switching interrupts
off), and assumes that the scheduling class picks every queued process again.

## 5. Where the code and what is said of it part

Three runs end in a violation, each with an entry under `findings`:

- `killed_exits` kills a process that has not run yet.  Nothing tests
  `PF_EXITING` on its first way to user mode (`forkret`), nor after the
  `schedule()` at the end of `trap()`; its first system call is a blocking read, it
  sleeps, and `do_kill` refuses to kill it again.  Its parent waits for ever.  The
  comment in `proc.c:58` promises that a kill leads to `do_exit`.
- `sfs_stale` opens a file twice, truncates it through one descriptor and writes
  through the other, whose offset is now behind the end: the assertion
  `index <= din->blocks` (`sfs_inode.c:356`) stops the kernel.
- `page_end` frees a page and then one behind it: the insertion loop goes on
  after it appended the block and links it to itself, so it stays in the list
  when it is allocated, against the allocator's own check (`default_pmm.c:239`).

The models contain more such places.  Each has its own definition, which the
passing runs do not claim; the bounds of those runs, or the wording of their
properties, step around it as the last column says.  To see one, check the
property as an invariant of its module's `Spec` (of `StrideShare`: `ShareSpec`, of
`Buddy`: `BuddySpec`) with the constants given.

| Place | Said | Done | Property and constants | Around it |
|---|---|---|---|---|
| `default_sched_stride.c:138` | "bigger value will get more CPU time" (`proc.h:96`) | priority 0, which every process begins with, divides by zero: the stride goes back by one and the process stays the minimum | `StrideShare!BiggerMeansMore`; one process not in `Setters` | all in `Setters` |
| `vfsfile.c:47` | `ref_count < MAX_INODE_COUNT` (`inode.c:113`) | an exclusive open of an existing name keeps the reference of its lookup | `FileTable!InodeCheck`; `MAX_INODE_COUNT` 9, `MaxLost` 9 | `lost` is counted; `MaxLost` 1 |
| `sfs_inode.c:941` | `tblks == din->blocks` | after an enlargement that stopped on a full disk the file has more blocks than its size needs | `SfsFile!SizeMatchesBlocks`; as `files` | the kernel stops there; nothing is claimed of it |
| `sfs_inode.c:366` | dirty is "true if inode modified" (`sfs.h:72`) | `blocks` grows without `dirty` behind an existing indirect block | `SfsFile!DirtyIfModified`; 2 files and 2 descriptors | `ImplementsFlatFiles` is claimed up to the first lost change (`unsaved`): a lost block keeps its data, which a truncation does not clear and a later enlargement shows again |
| `dev_stdin.c:27` | nothing; one expects it of a ring with two positions (line 18) | a key that finds the buffer full goes where the next read starts: with a buffer of 2, keys 1, 2, 3 are read as 3, 2 | `Stdin!InTypingOrder`; as `sleep` | `Keyboard` promises order only while there is room |
| `default_pmm.c:147` | "from low to high addr", "merge low addr or high addr blocks" (lines 51-54) | a block freed behind all others is linked to itself; the boot's own checks do such frees | `PageAlloc!ListedAreFree`; run `page_end` | `PagesInv` and `ImplementsFirstFit` say less once `linkage` is not `"merged"` |
| `buddy_system_pmm.c:223` | "number of free pages" (line 47) | freeing adds the size of the merged block | `Buddy!CountsFreePages`; as `memory` | `BuddyInv` speaks of the lists |
| `buddy_system_pmm.c:114` | "insert in the order of addresses" (line 103) | a block behind all others goes to the head | `Buddy!SortedByAddress`; as `memory` | the lists are sets for `BuddyPool` |
| `buddy_system_pmm.c:261` | set up for the given memory (`pmm.h:22`) | sizes are rounded up to a power of two: pages beyond the end are handed out | `Buddy!HeldExists`; `BuddyPages` 6 | `BuddyPages` 8 |
| `kmalloc.c:236` | `size + SLOB_UNIT < PAGE_SIZE` (line 99) | the header is added once in the test and twice in the assertion | `Slob!SmallEnough`; as `memory` | the kernel stops there; `HeapInv` speaks of the heap |
| `kmalloc.c:223` | large requests get pages that hold them (line 26) | `find_order` halves rounding down: 8193 bytes get two pages | `Slob!BigEnough`; `Sizes` {1, 13, 25} | sizes up to 13, one page and a bit |
| `proc.c:951` | "cleanup the env" (line 707) | `bad_free_phdrs` frees `phdrs` and runs into the exit that frees it again | `ProcMemory!ReleasedOnce`; as `fork_exit` | `MisusedAtMost` allows `phdrs` |
| `proc.c:803` | `load_icode` sets up memory (line 997) | a page that is missing after a successful read leaves `ret` 0: `do_execve` returns 0 without an address space | `ProcMemory!ExecutedHasProgram`; as `fork_exit` | such a process is `stranded` |
| `vmm.c:184` | overlap gives `-E_INVAL`; the assertion in line 115 | only the first address of an area is looked up | `AddressSpace!NoOverlapAssertion`; `AnyOrder` TRUE, programs as `fork_exit` | `AnyOrder` FALSE |
| `pmm.c:411` | a directory is freed "only when all pde0s in it are already invalid" (line 414) | it is freed with the first area whose tables are all there | `AddressSpace!DirectoryFreedEmpty`; as `fork_exit` (`InTwoTables`) | `OnlyDirectoriesLost` with one table |
| `pmm.c:295` | "cleanup the env" (`proc.c:707`) | a directory without a table is never freed | `AddressSpace!NoMemoryLost`; as `fork_exit` | the same |
| `proc.c:861` | 256 "pages in user stack" (`memlayout.h:65`) | four pages are allocated and no fault handler adds others | `AddressSpace!CheckedIsMapped`; as `fork_exit` | checks concern areas |

## 6. Proofs

All theorems hold for every value of the constants that satisfies the named
assumptions; no finite instance is involved.

**`SleepProofs`**, of `Timer` (with `TimerListProofs`: what each operation does to the list,
the set of linked timers and their order) - for any set of processes and any
`MaxSleep`, `MaxNow`:

- `Invariance`: `Spec => []IInv`.  `IInv` is `TypeOK`, `LinksAlive`,
  `DeltasEncodeDeadlines`, `FiresInOrder`, `NoEarlyFire` and the facts that make
  them inductive (a process outside `do_sleep` has deadline 0 and no link).
  Re-basing the successor is right only because the walk's remainder is the
  difference of two absolute deadlines (`WalkKeepsDeadline`), firing only because
  a run of zero deltas is a run of equal deadlines (`ConstantRun`, by
  well-founded minimality).
- `TypeCorrect`, `NoDanglingTimer`, `DeltasCorrect`, `OrderCorrect`, `NeverEarly`
  as consequences, and `Refinement`: `Spec => ImplementsAlarmClock`.

Of `Stdin` - for any readers, any `STDIN_BUFSIZE` from one on, any lengths
and numbers of keys.  Positions only grow and slots are their remainders, so the
first lemmas are about division: positions less than the size apart have
different slots (`OwnSlots`), positions the size apart have the same
(`SameSlot`).  From them, what a key and a read do to the sequence of unread keys
(`Written`, `ReadTakes`), overwriting included.  `KeyIInv` adds to the types and the
queue that each key is in one place (`KeysOK`) and that a reader that runs on was
woken by a key or is to die (`ReasonsOK`); counting the places with the library's
cardinality theorems gives `EveryKeyOnce`.  Results: `KeysCorrect`, `ShortReads`
(an action property that no run repeats), and `KeyRefinement`: the ring with its
queue implements `Keyboard`, which promises no order once a key has found the buffer full.

**`ProcessProofs`** - for any finite set of user processes and any limits:

- `Invariance`: one lemma per system call, continuation and interrupt.  `IInv`
  joins the invariants with three facts they need: `PlaceOK` (where each process
  can be: a zombie is in `do_exit`, a wait state names the call that sleeps,
  kernel threads stay in their loops), `RunnerOK` (the processor's holder is
  runnable until it calls `schedule()`) and `InitOK` (`initproc` lives, is
  nobody's child but `idleproc`'s, and waits for all children).  Run-queue
  exactness, for example, is not inductive without `PlaceOK` and
  `NoDanglingEntry`: a tick may wake whoever has a linked timer only because that
  process is inside `do_sleep`, hence no zombie.  `NoLostWakeup` needs
  `ParentsAlive` and `InitOK` (an orphan that is dead already wakes `initproc`).
- `TypeCorrect`, `RunQueueCorrect`, `WaitStatesCorrect`, `NoDangling`,
  `ParentsStayAlive`, `NoWakeupIsLost`, `FreedCorrect` as consequences.
- `BirthsAndDeaths`: a step creates one process, frees one zombie child of the
  running process, or does neither.  From it `ReapingCorrect` (an action
  property) and, with the library's cardinality facts, `CountCorrect`.
- `QuitsLast`: `Spec => []InitQuitsLast`.  It needs that no processes are each
  other's ancestors, which the links alone do not say: `QuitInv` asks for a rank
  that grows from parents to children (`Ranks`).  Fork gives the child its
  parent's rank plus one, and adoption keeps the ranks because `initproc` has the
  lowest; hence a user process that is left leads to a child of `initproc`, and
  `init_main` does not leave its loop.

**`PhilSemaProofs`** - for any number of philosophers from two on, any `TIMES`,
preemptive or not.  `IInv` is `SemOK` (values are 0 or 1, and 0 while
anybody waits), `VarsOK` (types), `QueueOK` (who is queued where, and off the
processor), `SectionOK` (one thread in the critical section, `mutex` taken then),
`PlaceOK` (at each statement: the state in the table, and whether the token is in
the philosopher's semaphore or taken), `TableOK` (neighbours are not both marked
as eating) and `Remembered` (a hungry philosopher has an eating neighbour or is
about to be tested).  `NobodyForgotten` alone is not inductive: it is broken
between the assignment and the two tests of `put_forks`, so `Remembered` names
the tests that are still to come.  Results: `TypeCorrect`,
`ForksCorrect`, `WaitersCorrect`, `NobodyForgottenCorrect`, and `Refinement`: the
threads implement `Dining`.

**`PhilMonitorProofs`** - for any number of philosophers from two on, any `TIMES`,
preemptive or not.  `IInv` is `Core` and `Rest`.  `Core` follows the one token:
it lies in a semaphore or one thread owns the monitor (`TokenOK`), every thread is
queued exactly where its statement says (`QueueOK`), no value exceeds 1 (`SemOK`).
`Rest` says that `count` and `next_count` number the waiters (`CountersOK`), that
neighbours are not both marked as eating (`TableOK`), that a philosopher woken at
his condition is marked as eating (`PlaceOK`), that a signaller that waits on
`next` will get the token back from the thread it woke (`PromiseOK`), and who is
still to be tested (`Remembered`).  `MonitorInv` alone is not inductive: between
`up(&cv.sem)` and the wake-up nobody is in the monitor's code, and only
`PromiseOK` says that nobody can get in.  Results: `MonitorCorrect`, and
`Refinement`: this program, too, implements `Dining`.

**`CallsProofs`**, of `LockOrder` - for any number of processes, inodes and calls.  A
sequence of steps is described by the semaphores that its process has before it
and after it (`Leads`).  Each function of the file systems, with each of its
error paths, is shown to lead from any set of outer semaphores back to the same
set (`Good`, one lemma per function).  `IInv` says that what is left of every call
leads to no semaphores (`PathOK`), that a token is with its semaphore or with one
process (`TokenOK`), and who waits and who is off the processor (`WaitOK`,
`OffOK`).  Results: `OrderCorrect`, `TokensCorrect`, and `NeverCircular`, because
a semaphore of the innermost layer in a circle would have a holder that waits in
a layer further inside (`OrderExcludesCircles`).  `CalmKernel`: without preemption
nobody sleeps with a semaphore and no `down` of the file systems waits at all.
(With preemption a process may wait for one semaphore with another in hand; the
other theorems cover that case too.)
Of `GetPid` - for any limits: `PidTypeCorrect` (pids stay in their range), `WindowCorrect` (no process has a pid strictly
between `last_pid` and `next_safe` between calls; during a scan that holds of the
pids already passed, which is what `PidIInv` says) and `UniqueCorrect` (a found pid
is nobody's).
Of `AddressSpace` - for any address spaces and programs, any sizes of pages, tables,
directories and user space.  `SpacesIInv` says that the areas are in order, disjoint
and areas of the program (`ListOK`), that each page lies in an area and
each table and directory under its parent (`TreeOK`), and how far a load or a copy has
come (`LoadOK`, `CopyOK`).  A copy takes areas off the end of its parent's
list, so what is left followed by what it has is that list, and of each area it has
the pages up to where the loop stands; without that neither the order of the
areas nor the completeness of the fork is inductive.

- `insert_vma_struct` keeps the order wherever the area goes (`InsertFacts`), and a
  segment behind all mapped ones overlaps nothing (`NoOverlapAtEnd`).
- The loop of `unmap_range` finds every page that has a table, although it jumps from
  table to table (`UnmappedFacts`), so no table that `exit_range` frees holds a page
  (`FreedFacts`, `RangeFacts`, `MmapFacts`).  If each directory has one table only,
  a directory is also freed with its table, unless the table never came to be.
- `copy_range` jumps only over pages that the parent does not have (`CoveredRound`).
- From any cached area `user_mem_check` goes on with the one that has the address,
  and the list is finite (`CheckFacts`); `copy_string` is such a check for each page
  (`CopyFacts`).  The recursive functions are identified with what they compute by the least
  address where they would differ.

Results: `SpacesCorrect`, `CopiesComplete` (an action property), `ChecksCorrect`.
`SpacesCorrect` has no overlap when segments come in the order of their addresses
(`~AnyOrder`); all else holds in any order.

Of `ProcLinks` - for any finite set of processes.  `IsFamily` says that the four
pointers encode a list of children for each parent; it has one gap, which the code
has too: while a process exits, its first child still points back to the one that
was handed over before it.  Nobody follows that pointer before the child is handed
over in its turn.  Each operation is a step on lists (`Born`, `Handed`, `Without`),
and since `Chain`, the loop over `optr`, is a function of the pointers, the lists are
what `do_wait` sees.  Results: `LinksCorrect`, and `FamilyRefinement`: the pointers
implement `Family`.

**`FileTableProofs`** - for any finite sets of processes and tables, any inodes and
any number of entries.  A step changes one table at most, so the counts of an
inode are split into what that table adds and what the others add (`UsersSplit`,
`OneTableUsers`, `OneTablePwds`), and each step is an account of one table
(`InodesStep`).  `IInv` adds two facts to `TablesInv` and `InodeCountsExact`.
`ReadersReadStdin`: a sleeping read is a living process's and its descriptor names
the keyboard; without it `file_read` could release an entry that nobody acquired.
`UnusedTables`: an address that is not allocated has no orphans; without it a
forked copy would start with a count that exceeds its owners.  A `put_files` that
counts down to 0 is then the last living owner's (`LastOwner`): there is no orphan
and no reader, so closing every open entry frees every entry (`ClosedEntries`).  Results: `TablesCorrect`
and `InodesCorrect`.
Of `SfsFile` - for any finite set of blocks, any files and descriptors, any sizes of
blocks, inodes and files.  A file's pointers, the indirect one and those in the
indirect block included, are one function `BlockMap`, and `Owned` says that each
block is free or has exactly one pointer.  `SfsIInv` adds that a file has no holes
below its number of blocks and that the copy on disk of an inode that is not dirty
leads to the same blocks (`SavedAs`): without it, a closed file that is opened again would
take blocks that were given away.  A write, an enlargement and a truncation are loops
that may stop at any round; `Sound`, what each round keeps, is also what a call leaves
that failed half-way.  That the recursive functions for the loops exist is
`LoopExists`, that they stay within `Sound` is `StaysInside`.  Result: `BlocksCorrect`.

**`MemoryProofs`**, of `PageAlloc` - for any number of pages, any sizes of requests and
any order of calls.  The invariant has a part for each stage of the history
`linkage` (`PagesIInv`).

- `RunsIInv`, while no block was freed behind all others: the `next` of a listed page is
  the lowest start of a free run above it, its `prev` the highest below (`Linked`), and
  each start has its run's size (`AllSized`).  Allocation moves one start or drops it
  (`StartsAlloc`).  After freeing, the block in front in the list is the only one that can
  touch, and merging downward and then upward gives exactly the maximal runs
  (`LowerMerged`, `FreeMerges`, `StartsFree`).
- `CoverIInv`, from then on: the flagged pages are chained by `next` in order, and by `prev`
  up to the links that lead from a block to itself (`Chained`); their blocks are disjoint
  and cover exactly the free pages (`Covers`).  Merging, taking and freeing keep
  that as long as no link to itself is followed (`CoversMerge`, `CoversTake`, `CoversFree`,
  `InsertChained`), and the runs of the first stage are such a cover (`RunsCover`).
- `BoundsIInv`, always: only the types, because after a link to itself was followed the
  list may hold pages in use (`ListedAreFree`, run `page_end`), and nothing is claimed.

A loop over a chained list sees each block once, in order, and ends (`WalkChained`);
where it breaks is the lowest page it looks for (`FirstChained`).  Results:
`PagesCorrect`, and `PagesRefinement`: requests are answered by first fit until a block
is freed behind all others, and then by free pages or a refusal until a link to itself is
followed.  The one induction the library's theorems cannot give with a parameter is taken
by well-founded minimality (`StaysIn`, `Least`), also for the existence of the recursive
function `Walk` (`WalkExists`).

Of `Slob` - for any sizes of page, unit and header, any number of pages and any
requests.  `HeapIInv` says that the listed blocks form one circle in the order of
addresses, that free and taken blocks tile the units of the heap exactly (`Tiles`),
that no listed block touches the next (`Apart`), that `units` is 0 where no block
starts (`Clear`), and that each large request has a header of its own (`Headed`).

- The search meets every listed block (`EachIsMet`), so the place where a block
  belongs exists, and is unique, wherever the last call stopped.
- Freeing links a block behind that place, joins it with the block after it and then
  with the one in front (`FreeKeeps`); taking unlinks a block or cuts off its
  beginning (`TakeKeeps`, from `WholeLeaves` and `PartLeaves`).  A surplus never
  touches the next block, because the whole did not.
- A new page always makes a small request fit, so that the second search of
  `slob_alloc` cannot fail.

Result: `HeapCorrect`.

Of `Buddy` - for any number of pages and any set of requests (the code's array of
lists ends at order 15).  `BuddyIInv` says of the free and held blocks together
that they are aligned, disjoint and cover all memory, of the free ones that no two
are buddies, of the lists that no block is in one twice (`BlocksOK`, `BuddySound`),
and of `nr_free` that it is never below the number of free pages: that is all that
its error (section 5) leaves of it, and enough for the test at the start of a request.

- Powers of two divide each other, so two aligned blocks are disjoint or one lies in
  the other (`PowerDivides`, `Nested`), and a block and its buddy are the halves of a block
  (`BuddyFacts`).
- Splitting replaces a block by parts that cover it, each upper half with a buddy
  that is not free (`SplitBlock`, `TakeBlock`).
- A round of merging replaces two blocks by one (`MergeRound`); where the loop ends
  the block has no free buddy, and has no more to merge at the top (`MergeEnd`).
- An aligned run of free pages lies in one free block: were it spread over
  several, the smallest would have a free buddy (`HiddenRun`).  So a search that
  finds no block has overlooked no run (`NoneFits`).

Results: `BuddyCorrect`, and `BuddyRefinement`: requests are answered by aligned runs,
and refused only if there is none.  `PagePool` and `BuddyPool` remember the last request
with its answer, so that a refusal is held against what was asked.

Of `ProcMemory` - for any set of processes.  The inductive
invariant is a table with a row for every label of `do_fork`, `copy_mm`,
`load_icode` and `do_execve`: what is allocated there, for the child or the caller,
surely and perhaps (`ForkTable`, `ExecTable`, `RestTable`), and which pointers are
not NULL (`PointerTable`, `Pointers`).  It is what the author of the `goto` labels
must have had in mind, and the clean-up labels are right because each is reached
only with its row fulfilled.  Three facts more: only `do_fork` works on another
process and no two calls on the same (`Makers`), `initproc` forks once and a caller
of `do_fork` is whole (`InitForks`).  A step is a move from a row to a row of the
tables (`TryFits`, `ReleaseFits`, `LeaveFits`, `BranchFits`, one fact per step of the
code); `MoveKeeps` carries that to all processes.  Results: `ObjectsInvariance` (the
table holds at every label) and `ObjectsCorrect`.

The assumptions are the `...Assumption` definitions of the modules: limits are
natural numbers, kernel threads differ from user processes, `MAX_PID` exceeds
`MAX_PROCESS` as `proc.h` asserts, a time slice has at least one tick, `initproc` is a
process, there is at least one page, and for the counts that processes, file tables and
blocks are finitely many.  `SlobAssumption` has pages of whole units and a
`bigblock_t` larger than a `slob_t` (24 and 16 bytes).  `BuddyAssumption` has at least
one page, requests of at least one, and a bound on `nr_free` that does not lie below
the size of memory.  `AddressSpaceAssumption` has
positive sizes, the stack inside user space and programs linked below it.

**Only model-checked.**  The stride class (`SkewHeap` is recursive: what it
computes for every heap would be an induction over data).  `ImplementsFlatFiles`: that the
transfers of every length move exactly the cells they should would again be an induction
over the data.  Liveness stays with TLC: the prover does not treat fairness or ENABLED.

## 7. Not modelled

- **Round robin class**: `sched_init` always selects the stride class.
- **Block and console devices, drivers**: copies and port I/O under one lock; an
  error of `disk0` panics, so there is no failure to continue from.
- **Directory entries of SFS**: the system never creates one (`unlink` and `link`
  are in no operation table); the superblock on disk is read once.
- **Sharing of address spaces** by `CLONE_VM` and **of descriptor tables** by
  `CLONE_FS`: no user process does the one, no caller passes the other.
- **The `VM_READ` test of `user_mem_check`** (`vmm.c:368`) and its answer for kernel
  addresses when there is no mm: all areas of the models are readable, and the checked
  process has an mm.
- **What follows a `load_icode` that returns 0 without an address space**: `ProcMemory`
  keeps such a process as `stranded`, `FileTable` leaves the case out.  That
  `current->pgdir` still names the directory freed before (`proc.c:1043-1054`), and
  that `user_main` would go back to where it began, is not followed up.
- **Best fit and slub of `lab02`**: best fit is first fit with another choice of
  block; the slub is a demonstration beside the kernel's allocator.
- **`try_down`, `wait_current_set` over whole queues, `vfs_unmount`**: no caller.
- **Boot, debug monitor, printing and string libraries, image builder**:
  straight-line code with no state a property would be about.  User programs are
  any sequence of calls.
- **Snapshots lab01 to lab7**: earlier states of lab8's code.  They, the
  libraries, drivers and user programs are most of the lines of the repository;
  the models cover the kernel of `lab8` where it keeps state.
