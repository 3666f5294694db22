# A TLA+ development of justLibrary

justLibrary is a C11 utility library: containers, allocators, a memory
tracker, a thread pool, path and file helpers, a logger and a small test
runner. This directory holds TLA+ models of it, configurations that check
them with TLC, and proofs checked by TLAPS. Paths below are relative to the
repository; `tla/PROJECT.json` maps every definition to its lines.

## 1. Inventory

| component | files | state | operations that change it |
|---|---|---|---|
| thread pool | `src/system/threadPool.c`, `threadPool.h` | task queue, one mutex, two condition variables, `activeWorkers`, `shutdown`, worker handles | Create, Destroy, AddTask, Wait, the worker loop |
| queue | `src/dataStructures/queue.c`, `queue.h` | ring of slots, `head`, `tail`, `size`, power-of-two `capacity` | Create, Destroy, Reserve, ShrinkToFit, Emplace/Enqueue, Dequeue, Clear |
| ring buffer | `ringBuffer.c`, `ringBuffer.h` | ring that overwrites its oldest element | Create, Destroy, Emplace/Push, Pop, Clear |
| hash map | `hashMap.c`, `hashMap.h` | open-addressing table with tombstones | Create, Destroy, Set, Remove, Clear, Resize |
| ordered set | `orderedSet.c`, `orderedSet.h` | AVL tree, size, optional linear allocator | Create, Destroy, Insert, Remove, Clear |
| dynamic array, stack | `dynamicArray.c`, `dynamicArray.h`, `stack.h` | buffer, size, capacity, optional linear allocator | Create, Destroy, Reserve, Push, Emplace, PushRange, Pop, Clear, ShrinkToFit |
| bitset | `bitset.c`, `bitset.h` | 64-bit words, capacity | Set, Clear, Toggle, SetAll, ClearAll, Union, Intersection, Difference |
| memory tracker | `src/memory/tracker.c`, `tracker.h` | list of live blocks with canaries, tags with counters and limits | Malloc, Calloc, Realloc, Free, SetLimit |
| linear allocator | `linearAlloc.c`, `linearAlloc.h` | a buffer and an offset | Create, Destroy, Allocate, Reset, Rewind |
| object pool | `objectPool.c`, `objectPool.h` | intrusive free list over fixed-size cells | Create, Destroy, Take, Return |
| filesystem | `filesystem.c`, `filesystem.h` | a handle (descriptor, mode); the files themselves | open, close, read, write, seek, whole-file reads, writes and appends, making, listing, removing and renaming; path functions |
| test manager | `testManager.c`, `testManager.h`, `expect.h` | tests by group, counters of results | Register, RunAll (a pipe and a forked child for each test) |
| logger, asserts | `logger.c`, `logger.h`, `asserts.h`, `defines.h` | none; the build decides the levels | output, abort |
| single header | `justLibrary.h` | - | a copy of the files above |

Interaction. Every container allocates from the memory tracker
(`JUST_MALLOC_TAGGED`) or, when one is given, from a linear allocator. The
thread pool keeps its tasks in a queue and is the only component that starts
threads; the tracker keeps global state that all threads share without a lock.
The stack is a dynamic array; in the debug build the object pool keeps a bitset
of its slots. The test manager prints with the logger and starts processes; the
file functions work on files that other processes use too. Every other
structure belongs to one thread, or to a user who locks around it.

Hard behaviours, the reason the hazards in `PROJECT.json` are listed:

- *Interleaving*: the pool's condition variables (lost and spurious wakeups,
  one signal for each task, a broadcast by the last worker), shutdown while
  tasks run and submit more tasks, the tracker's unlocked list; processes that
  append to one file or make the same directories; a parent and a child at the
  two ends of a pipe.
- *Partial failure*: a thread that cannot be spawned, a ring, a table or a node
  that cannot be allocated in the middle of an operation; transfers that stop
  half-way, tests and processes that die.
- *Long call sequences*: rings that wrap and are resized, tables full of
  tombstones, trees that need double rotations, free lists.
- *Numeric edges*: power-of-two rounding, exact fits, sums of sizes that wrap.

What makes each part correct: the pool runs every accepted task exactly once,
in order of acceptance, wakes whoever can go on, and disappears only when
nothing is left to do; the queue and the ring buffer are (bounded) FIFOs; the
map is a function and the set a set whatever was inserted and removed before;
an operation that fails leaves its structure as it was; the tracker's counters
equal the live blocks; allocators never hand out memory twice or out of bounds;
whole-file calls move all bytes or say that they did not, and leave no
descriptor open (where the code falls short of this, section 5 says so); a path goes on meaning the same place; every test is run and
counted once, for its own end.

## 2. Plan

1. `TaskService`, `ThreadPool`: the library's only concurrent component
   (done: checked, proved, refinement proved).
2. `Fifo`, `JustQueue`: the structure the pool depends on (done: checked,
   proved, refinement proved).
3. `Tracker`: calls that exclude one another (counters, limits, failing
   Realloc), then two threads on the unlocked list (done: checked; list,
   counters and limits proved for calls that exclude one another).
4. `LinearAlloc` with sizes that wrap and `ObjectPool` in both builds (done:
   checked, proved), `RingBuffer` against `Window`, a bounded FIFO that may
   forget its oldest element (done: checked, refinement proved).
5. `HashMap` against `Dictionary`: probing, tombstones, rebuilding and its
   failure (done: checked, proved, refinement proved).
6. `DynamicArray` and `JustStack` against `Lifo` (pushing from the array
   itself, growth, failure) (done: checked, proved, refinement proved),
   `OrderedSet` against `SortedSet` (rotations, the failing insertion) (done:
   checked), `Bitset` inside the object pool's debug build and beside it (tail
   bits of the last word) (done: checked, proved).
7. `TestManager` with the parts of the logger it depends on (done: checked,
   proved), `Paths` and `Files` with several processes (done: checked;
   the properties of `Files` proved).

## 3. Modules

`justLibrary.h` is a copy of all headers and sources. Where several definitions
translate parts of one function, the map gives some of them the function's
lines in its own file and others its lines in the copy; the two texts are the
same.

### ThreadPool

State: the fields of `justThreadPool` (`taskQueue`, `capacity` of its ring,
`activeWorkers`, `shutdown`, `threadCount`), the mutex (`lock`), a program
counter for each thread, the worker's local `task`, the argument of a call in
progress, what Create has acquired (`held`), and history variables
(`offered`, `accepted`, `finished`, `waitFor`) that only properties read.

A critical section is two steps: `MtxLock` and one action that does everything
up to the `mtx_unlock` or `cnd_wait` which releases the mutex. No code outside
critical sections touches the shared fields, so finer steps would add no
behaviour. `cnd_wait` is three: release and sleep, be woken (by a signal, a
broadcast or for no reason), take the mutex again.

| action | code |
|---|---|
| `WorkerSleeps`, `WorkerExits`, `WorkerTakes`, `TaskReturns`, `WorkerBooks` | `workerThreadLoop` |
| `AddTask`, `AddTaskAccepts`, `AddTaskRefuses` | `justThreadpoolAddTask`, from clients and from running tasks |
| `Wait`, `WaitSleeps`, `WaitReturns` | `justThreadpoolWait` |
| `PendingTasks`, `PendingReturns` | `justThreadpoolPendingTasks` |
| `CreateInits`, `CreateFails`, `SpawnWorker`, `SpawnFails`, `CreateReturns` | `justThreadpoolCreate` with its error paths |
| `Destroy`, `DestroyAnnounces`, `DestroyJoins`, `DestroyFrees` | `justThreadpoolDestroy` |
| `MtxLock`, `SpuriousWakeup`, `Signalled`, `Broadcast` | C11 threads (external) |

The task queue is a sequence here; that the ring behaves as one is what
`JustQueue` shows. `RaceDestroy` says whether Destroy may be called while
another client is inside a call. The header does not forbid it, but the code
cannot survive it: Destroy joins workers only, and a client that is about to
lock the mutex in AddTask then finds it destroyed. The runs have
`RaceDestroy = FALSE`; of the theorems only `PoolNoUseAfterDestroy` needs it.

`TaskService` is what a user may rely on: tasks accepted while open, started
in order on free slots, run once, nothing undone when the service is gone.

### JustQueue

One action for each call, on the ring itself: `data` is a function on slot
indices, so wrapping, growing and cutting are really done. Allocation of up to
`MaxCap` slots may succeed or fail at will (a failing call changes nothing and
is a stuttering step); beyond it, it fails. A write outside the buffer sets
`overrun`.
`cut` remembers that a resize has cut the ring to exactly its content, a case
the code mishandles (section 5): `RingShape` says that nothing else can lead to
an overrun, and `ImplementsFifo` holds up to it. After an overrun the model
stops, because memory then holds anything. Peek, Size, Capacity and IsEmpty
only read.
`Fifo` is the abstract queue. `PowersOfTwo` has the powers of two and the
rounding up to one that queue, ring buffer and map share.

### Tracker

State: `memoryTags` (name, bytes, limit, count of each entry), the doubly
linked list (`activeAllocations`, `next`, `prev`), the headers, the blocks whose
footer was overwritten (`broken`), and a small program counter for each thread.
`owned` is history: the blocks callers hold.
A call is one step, except that `linkAllocation` is two, around the load of the
head: that is the interleaving two threads need. Finer steps (the counters,
`unlinkAllocation`) would only add ways to fail, and `tracker_threads` fails
already. `Room` and `Total` are the code's size arithmetic modulo `Word`.
`Cut[t]` is tag `t` as it fits into the 32-byte name; a lookup compares names
with the uncut tag, as `strcmp` does. Realloc may be refused by the limit, fail
in the system, stay or move. A broken canary leads to `abort()`, after which
nothing happens any more.

| action | code |
|---|---|
| `MallocStarts`, `LinkReads`, `LinkPublishes` | `justTrackedMalloc`, `justTrackedCalloc`, `linkAllocation` |
| `Realloc` (`ReallocStarts` with `ReallocFails` or `ReallocMoves`) | `justTrackedRealloc` |
| `Free` | `justTrackedFree`, `unlinkAllocation` |
| `SetLimit`, `Query` | `justMemorySetLimit`; the getters, and a Malloc that returns NULL, which register the tag |
| `CheckBounds` | `justMemoryCheckBounds` |
| `Overrun` | a caller that writes behind its block (external) |

### HashMap

`slots` is the buffer, `Path` the offsets a probe visits, and `Matches`,
`Tombs`, `Unused` what it meets there. `Set` works on `Table`: the buffer
itself or, when the load or a missing buffer demands it, the one
`hashmapResize` builds by re-inserting the old slots in order. `SetFails` is a
rebuild whose buffer is refused, after which capacity and counters are those of
the new table and the buffer is still the old one; `failed` remembers it until
the map is cleared or destroyed. If they are the same, the entries are still in the buffer, but with a count of 0
`Get` and `Remove` do not look for them until a `Set` has counted one again. If the two sizes differ the
code runs out of its buffer; the model stops there (`Sound`), because what such
a read returns is anybody's guess. `Dictionary` is the abstract map.

### RingBuffer, ObjectPool, LinearAlloc

`RingBuffer` has one action for each call; Emplace followed by the copy is
`Push` (a free slot) or `PushOver` (the oldest gives way). `Window` is its
abstract specification.

`ObjectPool` numbers slots where the code has byte offsets. The link of a slot
is the slot's first word, so `Write` lets a holder put anything there. `debug`,
chosen in the initial state, is the build: with it any slot may be returned at any time and the
assertion on `allocatedBits` traps wrong returns; without it callers return
only what they hold. `Walk` and `Bar` are what `justObjectPoolDebugPrint` reads
from the list.

`Bitset` has the bits in words, as sets of bit numbers; the last word has a
tail beyond the capacity. `allocatedBits` is such a bitset, and `PoolAudit` adds
callers that keep sets of their own and combine them with the pool's and with
one another's. Sets of different capacities share words, so tails fill up.

`LinearAlloc` keeps offsets and sizes modulo `Word`. The caller's view is
history: blocks it may still use and its markers, numbered by age. Rewinding
gives up the blocks younger than the marker; a marker may be stale.

### DynamicArray, JustStack

Memory is a function from blocks to cells. realloc stays in place, or moves and
frees the old block; the arena copies and never frees. A push names its source:
a caller's buffer or a part of the array, which is read after the array has
grown, as `memcpy` does, and gives junk if its block is gone. `JustStack` adds
Pop and Peek of the stack. `Lifo` is the abstract sequence.

### OrderedSet

The tree is a value: Nil or a record with two subtrees. Insertion and removal
are the recursive functions of the code with their rotations, memory being
there or not. A node is an address, so `held` marks the node a caller's pointer
from Find points to and moves with it. `SortedSet` is the abstract set. The
module uses RECURSIVE operators and is for TLC only.

### TestManager

The parent's program counter follows `justTestRunAll` and `runTestForked`; the
child is a state, an exit status and a stdout buffer that `fork` copies from the
parent. `writers` are the processes that hold the write end of the pipe. A test
may write to either stream, leave a process behind, return, exit or be killed
at any moment, while `exit` flushes its stdout too; pipe and fork may fail. `LogOutput` is the logger as far as the
transcript depends on it: levels compiled in, and the stream of a level. `debug`
and `toFile` (is stdout a terminal or a file) are chosen in the initial state.

### Paths, Files

A path is a sequence of tokens, a separator or a name. The functions of `Paths`
are those of the code, buffer sizes included. A caller chains them, and `place`
is what it means by the result.

`Files` has the file system as external: places with nothing, a directory or an
inode, and the bytes of inodes. `Walk` is the kernel's way along a path, token
by token: a name leads on from a directory only. Each system call of a library call is a step;
processes interleave between them, transfers are short or fail, readdir, stat and
fstat may fail, and a process may die, which closes its descriptors and leaves the files as they are.
`call[p].hits` is history: what others did during the call; `call[p].err` notes a
system call that failed without the caller being told. A listing reads the
directory its path names at the moment, where the code has a descriptor to the one
it named first; the two differ only when others have moved it, which is in `hits`.

| action | code |
|---|---|
| `HandleOpen`, `HandleClose`, `HandleRead`, `HandleWrite`, `HandleSeek` | `justFileOpen`, `Close`, `Read`, `Write`, `Seek` |
| `ReadBegins`, `ReadSize`, `ReadNoMemory`, `ReadChunk`, `ReadReturns` | `justFileReadEntire` |
| `WriteBegins`, `AppendNothing`, `WriteChunk`, `WriteFails`, `WriteReturns` | `justFileWriteEntire`, `justFileAppendEntire` |
| `MkdirBegins`, `MkdirChecks`; `MkdirsBegins`, `MkdirsStep` | `justMkdir`; `justMkdirRecursive` |
| `FileRemove`, `FileRename` | `justFileRemove`, `justFileRename` |
| `ListBegins`, `ListEntry` (readdir), `ListKind` (stat and callback), `ListReturns` | `justListDir` |

## 4. Runs

| run | shows | bounds |
|---|---|---|
| `pool_calls` | no task lost or run twice, nobody oversleeps or is forgotten, graceful shutdown, no use after Destroy, refinement of `TaskService`, what Wait and a zero from PendingTasks mean, every accepted task finishes, every call returns (submissions being finite); no deadlock | 2 workers, 2 clients, 2 tasks, ring of 1 growing to 2, one Wait or PendingTasks for each client, one spurious wakeup |
| `queue_fifo` | ring shape, overruns only after an exact cut, refinement of `Fifo` up to it | rings of 2, 4 and 8 slots, 2 values |
| `tracker_calls` | list, counters and limits exact between calls | 1 thread, 3 blocks, 3 tags (one too long for its entry) on a table of 3, sizes 1 and 2, limits 3 and 4 |
| `tracker_threads` | violation: a block disappears from the list | 2 threads, 2 blocks |
| `map_calls` | exact counters, an unused slot and a dictionary until a rebuild fails; `Get` finds every key also after that, unless the count is 0 | 4 keys in one chain (up to symmetry), tables of 4 and 8 slots, failures at will |
| `ring_window` | refinement of `Window` | rings of 1, 2 and 4 slots, 2 values |
| `objects_builds` | the free list is exact in both builds; the pool's bits name the slots held; bitset operations are exact on the indices all sets have; Equals is equality of what can be seen | 3 slots, words of 2 bits, sets of capacity 3 and 4 |
| `linear_blocks` | blocks aligned, disjoint, inside | buffer of 8 bytes at an odd address, sizes 1 to 3, alignments 1, 2, 4, 4 blocks |
| `array_stack` | the buffer is owned and its capacity true; a push copies its source except after a move; refinement of `Lifo` | heap blocks of up to 4 cells, an arena of 6, ranges of 1 to 3 elements |
| `set_calls` | balance, heights, size and nodes; pointers survive insertions; refinement of `SortedSet` | elements 1 to 7, an arena of 4 nodes, 1 insertion without memory, pointers to one element |
| `files_calls` | undisturbed calls are exact, reads and listings when no system call fails, concurrent appends keep everything, no descriptor stays open, concurrent mkdirs cooperate, chained path functions lead to the place meant | 2 processes, 3 calls, 2 names, 2 levels, 2 inodes, files of 2 bytes, 2 files and 2 directory paths as arguments; path buffers of 10, 3 segments |
| `tests_forked` | every test counted once and for its own end, the transcript complete, RunAll returns | 2 tests in 2 groups of at most 2, pipe of 1 line, 2 lines for each test, both builds, terminal and file |

Why the bounds are enough. With two workers and two tasks one worker can
sleep while the other is overtaken, a signal can go to a worker that finds
the queue empty, and a task can submit a task during shutdown. Two
clients let one wait while the other submits. One spurious wakeup for each
behaviour reaches every sleeping state. The proofs below remove all these
bounds for safety. `MinCap = 2` stands for the code's 8: with rings of 2, 4
and 8 every wrapped position meets every growth and every cut.
Three tracked blocks give the list a head, a middle and an end; a long tag,
registered anew by every call, fills the table. Four
keys, two of them with the same hash, form one chain around the end of the
table, with tombstones in its middle, and reach purging as well as doubling. Four blocks are enough for a
marker with older and younger blocks and a stale one besides. Word sizes are as
small as the sums allow, and the runs of tracker and linear allocator stay
clear of the wrap (section 5). In the map `Word` is too large to matter except for a
`tombstoneCount` below zero. Three slots in words of two bits leave the pool's
bitset with a tail that a set of capacity 4 can fill.
Four heap cells and an arena of six let an array grow twice and then fail. Seven
elements give trees of height 4, in which insertions and removals take every
rotation case below the root and at it, a child of balance 0 included; a removal
that rotates at two levels needs 12 elements and is beyond the bound. Two processes with three
calls let one call be disturbed by two others; two bytes fill a buffer, and a
transfer of one of them lets a write fail half-way. A pipe of one line blocks a test
that writes two before its parent reads. Groups of two let both tests be in one
group, so that the inner loop goes on, or in two; a third test in a full group,
which aborts the registration, is beyond the run and in the theorems.

Fairness. `pool_calls`: weak fairness of each thread's next step
(`ThreadStep(t)`, one condition for each thread), which any scheduler gives to a
thread that can run; the step that ends a task is one of them, so the functions
of tasks are taken to return. Calls by clients, failures and spurious wakeups are not fair. Submissions are finite: a task is submitted
once at most. Without that a Wait need not return, because its loop also waits for
what is submitted after the call (section 5). The
mutex is not assumed fair: clients make finitely many calls and spurious
wakeups are bounded, so a contender eventually finds it free for good.
`tests_forked`: the parent goes on, and a test and a process it leaves behind
come to an end by themselves, without a signal's help (`ChildEnds`). The code sets no time limit, so a test that hangs stops RunAll;
that a full or an inherited pipe does not is what the run shows.

`CHECK_DEADLOCK FALSE` stands where the program really ends: `tests_forked` when
RunAll has returned, `files_calls` when the bound of calls is reached.

## 5. Findings

Shown by a run:

- `tracker_threads`: `README.md:4` advertises thread-safe tracking;
  `tracker.c:115-121` is an unlocked list insertion, and a block is lost from
  the list when two threads are there at once.

Seen while modelling, each the reason for an exception that a property states:

- `threadPool.h:76` and `:90` speak of a maximum number of pending tasks;
  `justQueueEmplace` doubles the ring instead.
- `threadPool.h:98` says Wait blocks until the tasks that are currently queued and
  active complete. The loop (`threadPool.c:170-173`) waits for an idle pool, hence
  for tasks submitted after the call as well; a task that submits its successor for
  ever keeps Wait for ever. `CallsReturn` is about finitely many submissions.
- `queue.c:152` does not mask the tail. ShrinkToFit on a
  queue that holds exactly 8, 16, ... elements, a Dequeue and an Enqueue write
  one element behind the buffer (`RingShape`).
- `queue.c:128-148` frees the old buffer only when the queue holds an element,
  so resizing an empty queue leaks it (buffer ownership is not modelled).
- `hashMap.c:154-159` forgets the counters, and on doubling adopts the larger
  capacity, before it knows that it has the memory (`CountersTrusted`). With the
  same capacity all entries are still there, but `count` is 0 (`:156`), so Get
  (`:278`) and Remove (`:307`) return at once and find none of them; once a Set
  has counted an entry they find all again, until the count is back at 0
  (`KeysReachable`).
- `tracker.c:83` cuts a tag that is too long, `:69` looks for it uncut. Every
  call registers it anew, and its limit is set on one entry and tested on a
  fresh one (`GrowthWithinLimit`). If another tag is the cut one, blocks of the
  long tag are charged to its entry without a test of its limit.
- `tracker.c:186` and `linearAlloc.c:86` compare a sum that wraps for requests
  near `SIZE_MAX`, which are then granted; `NoWrap` excludes them.
- `tracker.h:113` says CheckBounds returns false on corruption;
  `verifyIntegrity` aborts before it can.
- `dynamicArray.h:60` says a capacity of 0 becomes 8; Create leaves it 0, and
  the first push allocates.
- `dynamicArray.c:129`: pushing a range of the array itself, or one of its
  elements, reads freed memory when realloc moves the buffer
  (`PushCopiesSource`).
- `bitset.h:173`, `:182`, `:191` say the smaller capacity is used; the code
  uses the words both have. A union with a larger set leaves bits in the tail
  of the smaller one, which come out in a later union with a larger set; an
  intersection with a smaller set clears bits beyond its capacity in the shared
  word (`AuditExact`).
- `orderedSet.h:107` promises true if inserted; without memory for the node the
  answer is true, and the size counts it (`TreeSound`).
- `justPathNormalize` drops segments beyond its 64 and returns true
  (`PathsLeadHome`). `justPathJoin` of "a/" and "/b" has two separators.
- `justFileReadEntire` returns a buffer after an error of read or fstat,
  and for a directory. `justListDir` takes an error of readdir (`filesystem.c:525`)
  for the end and returns true (`:543`) with a partial listing; an entry whose stat
  fails (`:536`) is reported as no directory (`UndisturbedCallsExact`). `justMkdirRecursive` returns true when the last
  name is a plain file (`MkdirsCooperate`).
- `testManager.c:54`: a fork that fails is not noticed, and the test counts as
  failed. With stdout a file, lines in the parent's buffer come out again
  through the child (`TranscriptComplete` says none is lost, and exact only on a
  terminal). A test that calls `exit(1)` itself has passed, PASS being 1.
- `testFilesys.c:213` has the comment that justFileRemove removes an empty
  directory; the function calls `unlink`, which removes files only (`FileRemove`; no
  property is about it).
- `logger.c:103-106` prints a level and up to 4095 characters into 4096
  (message texts are not modelled).

## 6. Proofs

Each `...Proofs` module extends the modules it is about. There is one inductive
invariant for each component, or a chain of them, with a lemma for the initial
state, one for the steps and one for the property that follows. Nothing is assumed but the named
assumptions on the constants, which TLC evaluates in the runs, and the
hypotheses that the theorems state. The bounds of section 4 play no part.

| module | theorems | hypotheses |
|---|---|---|
| `ThreadPoolProofs` | all safety properties of `pool_calls`, `ImplementsService` | `~RaceDestroy`, for `NoUseAfterDestroy` only |
| `JustQueueProofs` | `RingShape`, `ImplementsFifo` | |
| `TrackerProofs` | `AllocationsListed`, `CountersExact`; `GrowthWithinLimit` | `CallsExclude`; besides `CutsApart` and `[]RequestsFit` |
| `ArrayProofs`, array and stack | `BufferOwned`, `PushCopiesSource`, `ImplementsLifo` | |
| `ArrayProofs`, linear allocator | `BlocksDisjoint`, `BlocksInside`; `BlocksAligned` | `NoWrap`; none for alignment |
| `FixedCapacityProofs`, pool and bitset | `FreeListExact`, `AuditExact`, `EqualsIsEquality` | |
| `FixedCapacityProofs`, ring buffer | `ImplementsWindow` | |
| `HashMapProofs` | `KeysReachable`, `CountersTrusted`, `ImplementsDictionary` | `[]TableFits` |
| `SystemProofs`, test manager | `EveryTestCountedOnce`, `VerdictsTruthful`, `TranscriptComplete` | |
| `SystemProofs`, files | `DescriptorsClosed`, `AppendsKept`; `MkdirsCooperate`; `UndisturbedCallsExact` | none; `DirsFit`; `ListsFit` |
| `NumberLemmas` | lemmas: the least element of a set of numbers, set induction, remainders, powers of two, functions given step by step, a sequence with one element more | |

### Thread pool

`ThreadPoolProofs` proves, for every number of workers, clients and tasks,
every initial capacity and every bound, the invariants and action properties
checked by `pool_calls` (and three that only the proof states:
`MutualExclusion`, `ActiveWorkersExact`, `NoMemoryLeak`). The assumptions are those of `PoolAssumption` (numbers are
naturals, the owner is a client, clients are not workers, null values are
fresh), with finiteness of `Workers` following from `1 .. ThreadCount`;
`PoolNoUseAfterDestroy` assumes `~RaceDestroy` besides.

The inductive invariant is `PoolInv`. The safety properties are not inductive
alone:

- `MutualExclusion` needs nothing but types and is used everywhere after it: a
  thread in a critical section is the only one.
- `ActiveWorkersExact` equates a counter with the cardinality of `Busy`; each
  action adds or removes at most one worker (cardinality lemmas of the library).
- `NoWorkerOverslept`, the argument that one signal for each task is enough:
  while somebody sleeps, queued tasks are no more than awake idle workers. A
  submission adds a task and wakes a worker; a worker that takes a task leaves
  both sides; a worker goes to sleep only with an empty queue.
- `NoWaiterForgotten` needs `ActiveWorkersExact`: the last worker to book sees
  exactly zero.
- `TasksConserved` needs `ArgumentsFresh` (a submission in progress carries a
  task nobody else has).
- `GracefulShutdown` needs `ExitsAreFinal` (a worker leaves only with shutdown
  announced and an empty queue), `LifeCycle` (the joined workers are a prefix)
  and `Usage` (nobody submits to a half-built pool).
- `WaitCoversCall` and `ZeroPendingMeansDone` are action properties that follow
  from `PoolInv`: an idle pool has no queued or running task, so everything
  accepted is finished.

Each conjunct has a lemma with one step for each action.
The same module proves `PoolImplementsService`: the initial state maps to
the service's, `CreateReturns` to Open, `AddTaskAccepts` to Submit,
`WorkerTakes` to Start, `TaskReturns` to Finish, `DestroyAnnounces` to Close,
`DestroyFrees` and `CreateFails` to Vanish, every other step to a stutter, under
`PoolInv`.

### Queue

`RingAlwaysShaped` and `QueueImplementsFifo` hold for every minimum and maximum
capacity, every set of values and every order of calls. `RingShape` is itself
inductive: capacities are powers of two, so that the mask is a remainder, and
the tail is `(head + size) % capacity`, except after a cut to exactly the
content, when it is the capacity itself. The refinement compares `Contents`
before and after each call; growing and cutting copy `size` elements from
`(head + i) % capacity` to `i`, and distinct positions below the capacity stay
distinct (`RemainderApart`).

### Ring buffer

`RingImplementsWindow` needs only `RingForm`: the capacity is 0 or a power of
two, the head is `(tail + count) % capacity`, and an unmade ring is empty.
`View(d, h, n, c)` is `n` slots of a ring of `c` from slot `h` on. Writing the
slot behind a view appends to it (`ViewAppends`), moving its start by one drops
its oldest element (`ViewTail`); a push on a full ring does both, at one slot,
and the two lemmas in that order give the abstract push that forgets.

### Dynamic array and stack

`ArrayForm` says of the buffer (`Held`) that its address is Null exactly when
its capacity is 0, that otherwise it is a block of `capacity` cells, and that on
the heap there is no other block, so that nothing leaks; the size is at most the
capacity. `UnmadeEmpty` adds that an array that does not exist holds nothing.
Every way to grow or shrink ends in one of a few outcomes; `Left` is what they
have in common: the new buffer is held, the elements are the old ones, and the
old block is untouched or gone. That last part is what a push from the array
itself depends on: it reads after it has grown, so it reads the old elements
except when realloc moved the buffer, the exception `PushCopiesSource` states.
`ArrayCallRefines` has a step for each call and shows the invariant, the copied
source and the abstract step together. The constants need no bound: the heap may
refuse any size, and the arena ends where it ends. That Null is no address is
an assumption.

### Linear allocator

For every buffer and every set of requests with `NoWrap` (buffer, alignment and
size together stay below `Word`), blocks are disjoint and inside the buffer.
`BlocksDisjoint` is not inductive: `Rewind` needs `BlocksBelowMarks`, that a
live block ends below the offset and below every marker younger than itself.
`NoWrap` is necessary (section 5). `LinearBlocksAligned` needs it not: the
padding is computed from the address, and a sum that wraps moves the end of a
block and not its start.

### Object pool and bitsets

`PoolInv` names the list: a sequence `f` of distinct slots in `Lists`, from the
pool's head to `End`, `Chained(f)` by the links that the free slots hold, and
containing exactly the slots not taken; in the debug build the bits set are the
slots taken. The walk that `FreeListExact` speaks of then visits `f`, by
induction over its steps. `AuditInv` adds that each caller's bitset holds, below
every capacity, the members it was meant to hold; nothing is said of tails.
All this is for every capacity and every width of a word.

### Hash map

`MapInv` says of a buffer that fits its capacity (`Sound`) that the search for a
stored key gets to its slot (`Reach`) and that no key is stored twice (`Unique`).
It needs no counter and survives a failed rebuild: the probe then meets every stored
key, and `Get`, if the count lets it probe at all, finds it (`ReachedIsFound`). A
count of 0 beside an entry needs a failed rebuild, because until then the counters
are exact (`EntryCounted`). `CountInv` adds that, until a rebuild fails, the counters are the
numbers of occupied slots and of tombstones and at least one slot is unused,
which is why every search ends. The loop of `hashmapResize` is a recursive
function of the number of old slots done; what it has built after `n` of them
(`RefillStarts`, `RefillSkips`, `RefillPuts`) is carried on by set induction on
`n`.

`TableFits` is `4 * capacity < Word`. The code multiplies the counters by 4 in
its load test and doubles the capacity, modulo the word. A table of that many
slots does not fit into an address space, because a slot takes more than four
bytes; the hypothesis says no more than that. It is a hypothesis on the
behaviour and not an assumption on the constants because the capacity a caller
asks for is unbounded.

### Test manager

Three invariants, each part of the next. `CountInv`: no test is in two places of
the groups, and the tests with a verdict are those before the position of the
loops. `FateInv`: the status that `waitpid` delivers is that of the child just
forked, so a verdict is about its test's own end. `OutputInv`: every line
written is in the transcript, the pipe or a stdout buffer, a killed test's own
lines excepted; what a child has in its buffer is its own or is still in the
parent's, so a killed child loses nobody else's; and the parent reads until no
process holds the write end, so the pipe is empty when it goes on.

### Files

`FilesInv` says for each process what its call in progress has: `HasFile` and
`Writing`, an open file of a kind the call can have opened, and for a call that
writes the bytes written so far and their number; `FdsOf`, as many open
descriptors as the handle and the call account for, which gives
`DescriptorsClosed`; `KeptOf`, for an append that nobody's truncation,
overwriting or removal has hit, that the bytes the file had when the call began
are still its beginning, and that behind them the bytes of this process are the
first ones of its buffer, in order, whatever others put between them. A byte
carries the name of its writer, so no step of another process can add to that
part or disturb it: it appends behind, or it is noted in `hits`. Both theorems
hold for any number of processes and any short or failing transfer, and a process
may die between any two system calls.

`MkdirsCooperate` is about what paths mean in a tree that others change. The
recursive function `Walk` is shown to have the steps its definition says
(`WalkIs`), and three facts about it carry the proof: a path that leads somewhere
leads to the same place in a tree that has grown (`WalkFollows`), the walk along a
prefix is the beginning of the walk along the path (`WalkStarts`), and what lies on
the way to something that exists is a directory (`WayToIt`). `DirsInv` says for
every call, unless names were taken away meanwhile, that the prefixes it has done
are there; a step of another process keeps that, because it only adds names or is
noted as a move (`MoveNoted`). When mkdir() finds no directory to work in, the
prefix before it is there and is no directory, so it is a file (`MetFile`): this is
why false without an error of the system means that a file was in the way.
`DirsFit` says of the paths of directory calls that names in them are separated,
that the modelled tree is deep enough for them, and that they start at the root
or in a working directory that cannot disappear; TLC evaluates it in
`MCFiles`.

`UndisturbedCallsExact` is about calls whose `hits` are empty. `ExactInv` says
what such a call knows while it runs: a read has the file that its path names,
and the bytes it has got are the beginning of that file, as many as its offset
(`ReadOf`); the file of a write is what the write has written (`WriteOf`); a
listing knows the names there were, the entry it has read is one of them, and every
entry it has reported has the kind it has now, or is a directory reported as none,
and then `err` is set (`ListOf`). A step of another process either changes nothing or is
noted, after which the invariant says nothing of the call (`OthersExact`), so
what is left is how each system call of the process itself extends what is known
(`PrefixLonger` for a read, `BufferWritten` for a write). For a listing it has to be
shown that the joined path leads to the entry: `WalkOn` follows the walk one
token further, and `JoinLeads` applies it to the separator, if there is one, and to the
name. `ListsFit` says that the joined path fits the local buffer of
`justListDir`; where it does not, every entry is reported as no directory. TLC
evaluates it in `MCFiles`.

### Tracker

`CallsExclude` says that there is no second thread. It is needed: with two the
properties are false, which is the finding of `tracker_threads`. A link in
progress remains two steps, and the invariant describes the state between them.

`ListInv` names the list: blocks `s[1] .. s[n]`, linked both ways from the head,
are exactly the live blocks that no call is still linking (`Chained`); every
header names an entry of the tag table (`TagsKnown`); a call in progress links a
live block that points to the head it has read (`JobsSound`); callers hold the
linked blocks, with the sizes they know, and the one that Realloc is replacing
(`OwnedSound`).
`ListWithout` and `ListWith` give the new enumeration after `unlinkAllocation`
and `linkAllocation`, and `WalkListed` says that following `next` visits what
was enumerated.

`TallyInv` adds that an entry's counters are the number and the sum of the
sizes, modulo `Word`, of the linked blocks whose headers name it; the one a call
is about to link is counted when it is published. The sum is the library's fold over a set; it is shown equal to a
function on finite sets that adds one element at a time (`SumExists`, `SumIs`,
`SumWithout`). That a block leaves the entry it was counted in is `HomesKept`:
entries are never removed and a header's entry never changes.

`LimitInv` adds `Promised`: the block a call is about to publish fits, with what
its entry holds already, under the entry's limit, unless it is the caller's own
block that the system could not resize. `PublishGrowth` turns that into the
bound at the step that publishes, the only one that makes an entry grow
(`NoGrowth`). Two hypotheses exclude what section 5 reports: `RequestsFit`, that
a request and the bytes its tag holds stay below `Word`, and `CutsApart`, that
no tag too long for its entry is another tag in use once it is cut. Without
`CutsApart` Malloc tests the limit of the fresh entry it registers and charges
the block to the older entry of the same name.

### Only model-checked

- Liveness: `AcceptedTasksFinish`, `CallsReturn`, `RunAllReturns`. The prover
  has no support for fairness.
- `PathsLeadHome`. What normalising a path does to its meaning is a statement
  about a fold over its segments.
- The ordered set. Its tree functions are RECURSIVE operators, as in the code,
  and the prover does not work with those.

The library's induction theorems take an operator as a parameter, which the
provers cannot instantiate. Where an argument is by induction on a number (list
walks, sums, the map's rebuilding) it is made with `SetInduction`: a set of
numbers with 0 and the successor of each element is all of them. The folds over
paths and the trees would need induction over the data themselves.

## 7. Left out

- A task that calls `justThreadpoolWait` on its own pool waits for itself; the
  header says nothing about it and the model does not let tasks wait.
- Tasks that submit their successors for ever: submissions are finite (sections 4
  and 5).
- Primitives that a failing Create has initialised and does not destroy: the
  model keeps them in `held`, no property forbids it.
- The old buffer of an empty queue that is resized (section 5): the queue's
  model does not follow who owns a buffer.
- Tracker: several threads in `getOrCreateTag` or in the counters at once
  (`tracker_threads` shows that the list alone is lost), double frees, and what
  reports print.
- Sizes: products of capacity and element size in the containers, and rounding
  to a power of two beyond half of `SIZE_MAX`, are taken not to overflow.
- Using a structure whose Create returned false: a linear allocator then counts
  addresses from NULL, a hash map's Destroy frees an uninitialised field.
- Paths: `justPathExtension`, which only searches a string. Files: `Flush`,
  `Tell`, modification times, permissions, links, and listing a directory that
  the process cannot open.
- Test manager: the Windows branch without processes, and the macros of
  `expect.h`, which are what a test does. Registration from several threads.
- Logger: formatting and colours. Asserts: a failed
  one ends the program, which is modelled where a component depends on it.
