----------------------------- MODULE ThreadPool -----------------------------
(***************************************************************************)
(* justThreadPool (src/system/threadPool.c): a fixed set of C11 worker     *)
(* threads that take tasks from one justQueue under one mutex, with two    *)
(* condition variables, hasWork (workers wait for tasks) and workingDone   *)
(* (callers of justThreadpoolWait wait for the pool to be idle).           *)
(*                                                                         *)
(* Every thread has a program counter.  A critical section is two steps,   *)
(* mtx_lock and everything up to the mtx_unlock or cnd_wait that releases  *)
(* the mutex; nothing outside a critical section reads or writes the       *)
(* fields the mutex protects.  A thread in cnd_wait is asleep ("wSleep",   *)
(* "bSleep") until it is woken ("wWoken", "bWoken"), and must then take    *)
(* the mutex again.                                                        *)
(*                                                                         *)
(* One client, Owner, creates the pool and destroys it.  Clients and       *)
(* running tasks may submit tasks; clients may also wait and poll.         *)
(***************************************************************************)
EXTENDS Integers, Sequences, FiniteSets

CONSTANTS
  ThreadCount,      \* THREAD_COUNT of justThreadpoolCreate
  InitialCapacity,  \* QUEUE_CAPACITY once defaulted and rounded
  UsesArena,        \* is a JustLinearAllocator passed to Create?
  Clients,          \* application threads
  Owner,            \* the client that creates and destroys the pool
  Tasks,            \* identities of the submissions
  RaceDestroy,      \* may Destroy begin while another client is in a call?
  MaxCalls,         \* bound: Wait and PendingTasks calls of each client
  MaxSpurious,      \* bound: spurious wakeups in a behaviour
  NoThread, NoTask  \* null values

Workers == 1 .. ThreadCount
Threads == Workers \cup Clients

ASSUME PoolAssumption ==
  /\ ThreadCount \in Nat
  /\ InitialCapacity \in Nat \ {0}
  /\ UsesArena \in BOOLEAN
  /\ RaceDestroy \in BOOLEAN
  /\ MaxCalls \in Nat
  /\ MaxSpurious \in Nat
  /\ Owner \in Clients
  /\ Clients \cap Workers = {}
  /\ NoThread \notin Threads
  /\ NoTask \notin Tasks

VARIABLES
  pc,             \* where each thread is
  lock,           \* holder of POOL->lock, or NoThread
  taskQueue,      \* POOL->taskQueue, oldest task first
  capacity,       \* POOL->taskQueue.capacity
  activeWorkers,  \* POOL->activeWorkers
  shutdown,       \* POOL->shutdown
  threadCount,    \* POOL->threadCount
  joined,         \* local i of Destroy's join loop
  held,           \* what the pool has acquired and not given back
  open,           \* Create has returned true and Destroy is not called yet
  task,           \* local task of each worker
  arg,            \* argument of each thread's AddTask call
  calls,          \* calls of Wait and PendingTasks left to each client
  spurious,       \* spurious wakeups that may still happen
  \* history
  offered,        \* tasks passed to AddTask
  accepted,       \* tasks for which AddTask returned true
  finished,       \* tasks whose function has returned
  waitFor         \* tasks accepted when the thread called Wait

poolVars == <<taskQueue, capacity, activeWorkers, shutdown>>
lifeVars == <<threadCount, joined, held, open>>
callVars == <<arg, calls, offered, waitFor>>
history  == <<accepted, finished>>
vars == <<pc, lock, poolVars, lifeVars, task, callVars, spurious, history>>

-----------------------------------------------------------------------------
(* C11 threads, as the pool uses them *)

\* A thread at one of these labels is about to lock; the value is where it
\* continues with the mutex held.
AfterLock ==
  [wLock  |-> "wLoop", wWoken |-> "wLoop", fLock |-> "fCrit",
   aLock  |-> "aCrit", pLock  |-> "pCrit",
   bLock  |-> "bCrit", bWoken |-> "bCrit", dLock |-> "dCrit"]

Locking  == DOMAIN AfterLock
Critical == {"wLoop", "fCrit", "aCrit", "pCrit", "bCrit", "dCrit"}

\* Where a woken thread resumes inside cnd_wait.
AfterWake == [wSleep |-> "wWoken", bSleep |-> "bWoken"]
Asleep    == DOMAIN AfterWake

Waiters(cnd) == {t \in Threads : pc[t] = cnd}

\* Mutant: the signal is an optimisation of the empty queue only.
SignalledIfEmpty(cnd) ==
  IF Waiters(cnd) = {} \/ taskQueue # <<>>
    THEN {{}} ELSE {{t} : t \in Waiters(cnd)}

\* Mutant: the signal is forgotten.
SignalledNobody(cnd) == {{}}

\* The sets of threads a cnd_signal may wake: one waiter, if there is one.
Signalled(cnd) ==
  IF Waiters(cnd) = {} THEN {{}} ELSE {{t} : t \in Waiters(cnd)}

\* Mutant: the broadcast wakes one thread.
BroadcastOne(cnd) ==
  IF Waiters(cnd) = {} THEN {} ELSE {CHOOSE t \in Waiters(cnd) : TRUE}

\* The threads a cnd_broadcast wakes.
Broadcast(cnd) == Waiters(cnd)

\* Thread t goes to label next, and the threads in W are woken.
Goto(t, next, W) ==
  pc' = [x \in Threads |-> IF x = t THEN next
                           ELSE IF x \in W THEN AfterWake[pc[x]]
                           ELSE pc[x]]

\* mtx_lock, and the second half of cnd_wait.
MtxLock(t) ==
  /\ pc[t] \in Locking
  /\ "lock" \in held
  /\ lock = NoThread
  /\ lock' = t
  /\ Goto(t, AfterLock[pc[t]], {})
  /\ UNCHANGED <<poolVars, lifeVars, task, callVars, spurious, history>>

\* C11 lets cnd_wait return although nobody signalled.
SpuriousWakeup(t) ==
  /\ pc[t] \in Asleep
  /\ spurious > 0
  /\ spurious' = spurious - 1
  /\ Goto(t, AfterWake[pc[t]], {})
  /\ UNCHANGED <<lock, poolVars, lifeVars, task, callVars, history>>

\* Leaving the critical section of thread t for label next, waking W.
Unlock(t, next, W) ==
  /\ lock' = NoThread
  /\ Goto(t, next, W)

-----------------------------------------------------------------------------
(* workerThreadLoop *)

\* while (empty && !shutdown) cnd_wait(hasWork)
WorkerSleeps(w) ==
  /\ pc[w] = "wLoop"
  /\ taskQueue = <<>> /\ ~shutdown
  /\ Unlock(w, "wSleep", {})
  /\ UNCHANGED <<poolVars, lifeVars, task, callVars, spurious, history>>

\* Mutant: a worker that sees the shutdown leaves the queue behind.
WorkerExitsAtOnce(w) ==
  /\ pc[w] = "wLoop"
  /\ shutdown
  /\ Unlock(w, "exited", {})
  /\ UNCHANGED <<poolVars, lifeVars, task, callVars, spurious, history>>

\* if (shutdown && empty) return
WorkerExits(w) ==
  /\ pc[w] = "wLoop"
  /\ taskQueue = <<>> /\ shutdown
  /\ Unlock(w, "exited", {})
  /\ UNCHANGED <<poolVars, lifeVars, task, callVars, spurious, history>>

\* Mutant: the task is read but not removed.
WorkerPeeks(w) ==
  /\ pc[w] = "wLoop"
  /\ taskQueue # <<>>
  /\ task' = [task EXCEPT ![w] = Head(taskQueue)]
  /\ activeWorkers' = activeWorkers + 1
  /\ Unlock(w, "run", {})
  /\ UNCHANGED <<taskQueue, capacity, shutdown, lifeVars, callVars, spurious,
                 history>>

\* Dequeue a task and count the worker as active.
WorkerTakes(w) ==
  /\ pc[w] = "wLoop"
  /\ taskQueue # <<>>
  /\ task' = [task EXCEPT ![w] = Head(taskQueue)]
  /\ taskQueue' = Tail(taskQueue)
  /\ activeWorkers' = activeWorkers + 1
  /\ Unlock(w, "run", {})
  /\ UNCHANGED <<capacity, shutdown, lifeVars, callVars, spurious, history>>

\* task.func(task.arg) returns.
TaskReturns(w) ==
  /\ pc[w] = "run"
  /\ finished' = finished \cup {task[w]}
  /\ Goto(w, "fLock", {})
  /\ UNCHANGED <<lock, poolVars, lifeVars, task, callVars, spurious, accepted>>

\* Mutant: the test is made before the counter is decremented.
WokenByLastTooEarly(active) ==
  IF taskQueue = <<>> /\ active + 1 = 0 THEN Broadcast("bSleep") ELSE {}

\* The waiters woken by a worker that leaves active workers behind.
WokenByLast(active) ==
  IF taskQueue = <<>> /\ active = 0 THEN Broadcast("bSleep") ELSE {}

\* activeWorkers--, and wake the waiters if the pool is idle.
WorkerBooks(w) ==
  /\ pc[w] = "fCrit"
  /\ activeWorkers' = activeWorkers - 1
  /\ task' = [task EXCEPT ![w] = NoTask]
  /\ Unlock(w, "wLock", WokenByLast(activeWorkers - 1))
  /\ UNCHANGED <<taskQueue, capacity, shutdown, lifeVars, callVars,
                 spurious, history>>

-----------------------------------------------------------------------------
(* justThreadpoolAddTask *)

\* Where a call made by thread t returns to: a task's function runs on a
\* worker, every other caller is a client.
Home(t) == IF t \in Workers THEN "run" ELSE "idle"

MayCall(t) == pc[t] = Home(t) /\ (t \in Workers \/ open)

AddTask(t, k) ==
  /\ MayCall(t)
  /\ k \notin offered
  /\ offered' = offered \cup {k}
  /\ arg' = [arg EXCEPT ![t] = k]
  /\ Goto(t, "aLock", {})
  /\ UNCHANGED <<lock, poolVars, lifeVars, task, calls, waitFor, spurious,
                 history>>

\* Mutant: the new task overtakes the ones that wait.
EnqueuedFirst(k) == <<k>> \o taskQueue

\* JUST_QUEUE_EMPLACE: the queue with k at its end, in a ring that doubles
\* when it is full.
Enqueued(k)   == Append(taskQueue, k)
GrownCapacity == IF Len(taskQueue) >= capacity THEN 2 * capacity ELSE capacity

\* The slot is reserved (growing the ring when it is full) and filled, and
\* one worker is signalled.
AddTaskAccepts(t) ==
  /\ pc[t] = "aCrit"
  /\ ~shutdown
  /\ capacity' = GrownCapacity
  /\ taskQueue' = Enqueued(arg[t])
  /\ accepted' = accepted \cup {arg[t]}
  /\ arg' = [arg EXCEPT ![t] = NoTask]
  /\ \E W \in Signalled("wSleep") : Unlock(t, Home(t), W)
  /\ UNCHANGED <<activeWorkers, shutdown, lifeVars, task, calls, offered,
                 waitFor, spurious, finished>>

\* false: the pool is shutting down, or the ring could not be grown.
AddTaskRefuses(t) ==
  /\ pc[t] = "aCrit"
  /\ shutdown \/ Len(taskQueue) >= capacity
  /\ arg' = [arg EXCEPT ![t] = NoTask]
  /\ Unlock(t, Home(t), {})
  /\ UNCHANGED <<poolVars, lifeVars, task, calls, offered, waitFor, spurious,
                 history>>

-----------------------------------------------------------------------------
(* justThreadpoolWait and justThreadpoolPendingTasks, called by clients *)

\* Mutant: workers that still execute a task are overlooked.
IdleQueue == taskQueue = <<>>

\* The negation of Wait's loop condition.
Idle == taskQueue = <<>> /\ activeWorkers = 0

Wait(c) ==
  /\ MayCall(c) /\ calls[c] > 0
  /\ calls' = [calls EXCEPT ![c] = @ - 1]
  /\ waitFor' = [waitFor EXCEPT ![c] = accepted]
  /\ Goto(c, "bLock", {})
  /\ UNCHANGED <<lock, poolVars, lifeVars, task, arg, offered, spurious,
                 history>>

WaitSleeps(c) ==
  /\ pc[c] = "bCrit"
  /\ ~Idle
  /\ Unlock(c, "bSleep", {})
  /\ UNCHANGED <<poolVars, lifeVars, task, callVars, spurious, history>>

WaitReturns(c) ==
  /\ pc[c] = "bCrit"
  /\ Idle
  /\ Unlock(c, "idle", {})
  /\ UNCHANGED <<poolVars, lifeVars, task, callVars, spurious, history>>

\* Mutant: only the queue is counted.
PendingQueued == Len(taskQueue)

\* The value justThreadpoolPendingTasks returns.
PendingCount == Len(taskQueue) + activeWorkers

PendingTasks(c) ==
  /\ MayCall(c) /\ calls[c] > 0
  /\ calls' = [calls EXCEPT ![c] = @ - 1]
  /\ Goto(c, "pLock", {})
  /\ UNCHANGED <<lock, poolVars, lifeVars, task, arg, offered, waitFor,
                 spurious, history>>

\* A client that polls goes on polling until it is told zero, so the count
\* matters only when it is zero.
PendingReturns(c) ==
  /\ pc[c] = "pCrit"
  /\ Unlock(c, "idle", {})
  /\ UNCHANGED <<poolVars, lifeVars, task, callVars, spurious, history>>

-----------------------------------------------------------------------------
(* justThreadpoolCreate and justThreadpoolDestroy, called by the owner *)

Primitives == {"lock", "hasWork", "workingDone"}
Memory == {"queue"} \cup (IF UsesArena THEN {} ELSE {"threads"})

\* What a Create that fails before its spawn loop leaves behind: memory is
\* released, but primitives initialised before the one that failed are not
\* destroyed.
CreateLeftovers ==
  IF ThreadCount > 0 THEN {{}, {"lock"}, {"lock", "hasWork"}} ELSE {{}}

\* Everything up to the spawn loop succeeds.
CreateInits ==
  /\ pc[Owner] = "new"
  /\ ThreadCount > 0
  /\ held' = Memory \cup Primitives
  /\ capacity' = InitialCapacity
  /\ Goto(Owner, "spawn", {})
  /\ UNCHANGED <<lock, taskQueue, activeWorkers, shutdown, threadCount, joined,
                 open, task, callVars, spurious, history>>

\* THREAD_COUNT is 0, or an allocation or the initialisation of a primitive
\* fails.
CreateFails ==
  /\ pc[Owner] = "new"
  /\ held' \in CreateLeftovers
  /\ Goto(Owner, "gone", {})
  /\ UNCHANGED <<lock, poolVars, threadCount, joined, open, task, callVars,
                 spurious, history>>

\* One turn of the spawn loop: thrd_create succeeds and the
\* new thread enters workerThreadLoop.
SpawnWorker ==
  /\ pc[Owner] = "spawn"
  /\ threadCount < ThreadCount
  /\ threadCount' = threadCount + 1
  /\ pc' = [pc EXCEPT ![threadCount'] = "wLock"]
  /\ UNCHANGED <<lock, poolVars, joined, held, open, task, callVars, spurious,
                 history>>

\* thrd_create fails: Create calls Destroy on what exists and returns false.
SpawnFails ==
  /\ pc[Owner] = "spawn"
  /\ threadCount < ThreadCount
  /\ Goto(Owner, "dLock", {})
  /\ UNCHANGED <<lock, poolVars, lifeVars, task, callVars, spurious, history>>

CreateReturns ==
  /\ pc[Owner] = "spawn"
  /\ threadCount = ThreadCount
  /\ open' = TRUE
  /\ Goto(Owner, "idle", {})
  /\ UNCHANGED <<lock, poolVars, threadCount, joined, held, task, callVars,
                 spurious, history>>

\* The owner calls Destroy.  Unless RaceDestroy, it does so only when no
\* other client is inside a call, and no client calls afterwards.
Destroy ==
  /\ pc[Owner] = "idle"
  /\ open
  /\ ~RaceDestroy => \A c \in Clients : pc[c] = "idle"
  /\ open' = FALSE
  /\ Goto(Owner, "dLock", {})
  /\ UNCHANGED <<lock, poolVars, threadCount, joined, held, task, callVars,
                 spurious, history>>

\* shutdown = true; cnd_broadcast(hasWork)
DestroyAnnounces ==
  /\ pc[Owner] = "dCrit"
  /\ shutdown' = TRUE
  /\ Unlock(Owner, "dJoin", Broadcast("wSleep"))
  /\ UNCHANGED <<taskQueue, capacity, activeWorkers, lifeVars, task, callVars,
                 spurious, history>>

\* Mutant: the worker is detached instead of joined.
DestroyDetaches ==
  /\ pc[Owner] = "dJoin"
  /\ joined < threadCount
  /\ joined' = joined + 1
  /\ UNCHANGED <<pc, lock, poolVars, threadCount, held, open, task, callVars,
                 spurious, history>>

\* One turn of the join loop.
DestroyJoins ==
  /\ pc[Owner] = "dJoin"
  /\ joined < threadCount
  /\ pc[joined + 1] = "exited"
  /\ joined' = joined + 1
  /\ UNCHANGED <<pc, lock, poolVars, threadCount, held, open, task, callVars,
                 spurious, history>>

\* Destroy the primitives and the queue, free the handles.
DestroyFrees ==
  /\ pc[Owner] = "dJoin"
  /\ joined = threadCount
  /\ held' = {}
  /\ taskQueue' = <<>>
  /\ capacity' = 0
  /\ threadCount' = 0
  /\ Goto(Owner, "gone", {})
  /\ UNCHANGED <<lock, activeWorkers, shutdown, joined, open, task, callVars,
                 spurious, history>>

-----------------------------------------------------------------------------
Init ==
  /\ pc = [t \in Threads |-> IF t = Owner THEN "new"
                             ELSE IF t \in Workers THEN "none" ELSE "idle"]
  /\ lock = NoThread
  /\ taskQueue = <<>>
  /\ capacity = 0
  /\ activeWorkers = 0
  /\ shutdown = FALSE
  /\ threadCount = 0
  /\ joined = 0
  /\ held = {}
  /\ open = FALSE
  /\ task = [w \in Workers |-> NoTask]
  /\ arg = [t \in Threads |-> NoTask]
  /\ calls = [c \in Clients |-> MaxCalls]
  /\ spurious = MaxSpurious
  /\ offered = {}
  /\ accepted = {}
  /\ finished = {}
  /\ waitFor = [c \in Clients |-> {}]

\* The steps a worker takes by itself once it is spawned.
WorkerStep(w) ==
  \/ WorkerSleeps(w) \/ WorkerExits(w) \/ WorkerTakes(w)
  \/ TaskReturns(w) \/ WorkerBooks(w)

\* The steps of a call in progress.
AddTaskStep(t) == AddTaskAccepts(t) \/ AddTaskRefuses(t)
ClientStep(c)  == WaitSleeps(c) \/ WaitReturns(c) \/ PendingReturns(c)
CreateStep     == CreateInits \/ CreateFails \/ SpawnWorker \/ SpawnFails
                  \/ CreateReturns
DestroyStep    == DestroyAnnounces \/ DestroyJoins \/ DestroyFrees

\* The pool is gone and nobody is in a call.
Finished ==
  /\ pc[Owner] = "gone"
  /\ \A c \in Clients \ {Owner} : pc[c] = "idle"
  /\ UNCHANGED vars

Next ==
  \/ \E t \in Threads : \/ MtxLock(t) \/ SpuriousWakeup(t) \/ AddTaskStep(t)
                        \/ \E k \in Tasks : AddTask(t, k)
  \/ \E w \in Workers : WorkerStep(w)
  \/ \E c \in Clients : Wait(c) \/ PendingTasks(c) \/ ClientStep(c)
  \/ CreateStep \/ Destroy \/ DestroyStep
  \/ Finished

\* The next step of a thread that is in a call or in its loop.
ThreadStep(t) ==
  \/ MtxLock(t) \/ AddTaskStep(t)
  \/ t \in Workers /\ WorkerStep(t)
  \/ t \in Clients /\ ClientStep(t)
  \/ t = Owner /\ (CreateStep \/ DestroyStep)

\* Every thread that can run eventually does, and the function of a task
\* returns.  Nothing makes a client call, an allocation fail or a wait wake
\* up for no reason.  The mutex need not be fair: the bounds on calls,
\* submissions and spurious wakeups make every contender give way.
Fairness == \A t \in Threads : WF_vars(ThreadStep(t))

Spec     == Init /\ [][Next]_vars
FairSpec == Spec /\ Fairness

-----------------------------------------------------------------------------
(* Properties *)

WorkerLabels == {"none", "wLock", "wLoop", "wSleep", "wWoken", "run",
                 "aLock", "aCrit", "fLock", "fCrit", "exited"}
ClientLabels == {"idle", "aLock", "aCrit", "bLock", "bCrit", "bSleep", "bWoken",
                 "pLock", "pCrit"}
OwnerLabels  == ClientLabels \cup
                {"new", "spawn", "dLock", "dCrit", "dJoin", "gone"}

LabelsOK ==
  /\ pc \in [Threads -> WorkerLabels \cup OwnerLabels]
  /\ \A w \in Workers : pc[w] \in WorkerLabels
  /\ \A c \in Clients \ {Owner} : pc[c] \in ClientLabels
  /\ pc[Owner] \in OwnerLabels

PoolOK ==
  /\ lock \in Threads \cup {NoThread}
  /\ taskQueue \in Seq(Tasks)
  /\ capacity \in Nat
  /\ activeWorkers \in Int
  /\ threadCount \in 0 .. ThreadCount
  /\ joined \in 0 .. ThreadCount
  /\ held \in SUBSET {"queue", "threads", "lock", "hasWork", "workingDone"}

FlagsOK == shutdown \in BOOLEAN /\ open \in BOOLEAN

CallsOK ==
  /\ task \in [Workers -> Tasks \cup {NoTask}]
  /\ arg \in [Threads -> Tasks \cup {NoTask}]
  /\ \A t \in Threads : pc[t] \in {"aLock", "aCrit"} => arg[t] \in Tasks
  /\ \A w \in Workers : pc[w] \in {"run", "aLock", "aCrit"} => task[w] \in Tasks
  /\ calls \in [Clients -> Nat]
  /\ spurious \in Nat
  /\ offered \in SUBSET Tasks
  /\ accepted \in SUBSET Tasks
  /\ finished \in SUBSET Tasks
  /\ waitFor \in [Clients -> SUBSET Tasks]

\* Every variable holds a value of its type (the fields of justThreadPool,
\* threadPool.h:55-70, and the locals of its functions), every thread is at
\* a label of its kind, and a task that is being submitted or executed is one.
TypeOK == LabelsOK /\ PoolOK /\ FlagsOK /\ CallsOK

\* The workers between activeWorkers++ (threadPool.c:33) and activeWorkers--
\* (threadPool.c:43): the task runs, is inside AddTask, or has returned.
Busy == {w \in Workers : pc[w] \in {"run", "aLock", "aCrit", "fLock", "fCrit"}}

Queued  == {taskQueue[i] : i \in 1 .. Len(taskQueue)}

\* The workers whose task's function has not returned.
Executing == {w \in Workers : pc[w] \in {"run", "aLock", "aCrit"}}
Running   == {task[w] : w \in Executing}

\* Only the thread that holds POOL->lock is in a critical section, so the
\* fields of the pool are never read or written by two threads at once.
MutualExclusion == \A t \in Threads : pc[t] \in Critical <=> lock = t

\* The counter that decides when workingDone is broadcast and when Wait
\* returns is exact: no increment or decrement is lost or repeated.
ActiveWorkersExact == activeWorkers = Cardinality(Busy)

\* No task is lost, duplicated or run twice: an accepted task is in exactly
\* one place (once in the queue, on one worker, or finished), however
\* submissions, workers and shutdown interleave.
TasksConserved ==
  /\ accepted = Queued \cup Running \cup finished
  /\ Queued \cap Running = {}
  /\ (Queued \cup Running) \cap finished = {}
  /\ \A i, j \in 1 .. Len(taskQueue) : taskQueue[i] = taskQueue[j] => i = j
  /\ \A v, w \in Executing : task[v] = task[w] => v = w

\* One cnd_signal for each task is enough: while some worker sleeps on
\* hasWork, there is for every queued task a worker that is awake and
\* will look at the queue, so the pool never leaves a worker asleep beside
\* a task nobody is coming for.
IdleAwake == {w \in Workers : pc[w] \in {"wLock", "wWoken", "wLoop"}}
NoWorkerOverslept ==
  Waiters("wSleep") # {} => Len(taskQueue) <= Cardinality(IdleAwake)

\* A thread asleep in justThreadpoolWait is owed a wakeup: there is still a
\* task or a busy worker whose end will broadcast workingDone.
NoWaiterForgotten == Waiters("bSleep") # {} => ~Idle

\* Nobody sleeps on hasWork once shutdown is announced, so the join loop of
\* Destroy cannot wait for a worker that will never be woken.
NoSleepInShutdown == shutdown => Waiters("wSleep") = {}

\* Shutdown is graceful: when Destroy has joined its threads and frees the
\* pool, every worker it spawned has left workerThreadLoop and every task
\* AddTask accepted has run, tasks submitted by tasks included.
Joined == pc[Owner] = "dJoin" /\ joined = threadCount
GracefulShutdown ==
  Joined \/ pc[Owner] = "gone"
    => /\ \A w \in Workers : pc[w] \in {"none", "exited"}
       /\ accepted = finished

\* No thread is inside a pool function when the mutex and the queue it uses
\* have been destroyed.
NoUseAfterDestroy ==
  "lock" \notin held => \A t \in Threads : pc[t] \notin Locking \cup Critical \cup Asleep

\* Whichever step of Create fails, and after Destroy, the queue's buffer and
\* the handle array have been given back.
NoMemoryLeak == pc[Owner] = "gone" => held \cap {"queue", "threads"} = {}

\* justThreadpoolWait returns only when every task accepted before the call
\* has returned, even if others were submitted meanwhile.
WaitCoversCall ==
  [][\A c \in Clients :
       pc[c] = "bCrit" /\ pc'[c] = "idle" => waitFor[c] \subseteq finished]_vars

\* A poller told by justThreadpoolPendingTasks that nothing is pending may
\* rely on it: every accepted task has returned.
ZeroPendingMeansDone ==
  [][\A c \in Clients :
       pc[c] = "pCrit" /\ pc'[c] = "idle" /\ PendingCount = 0
         => accepted \subseteq finished]_vars

\* Every accepted task runs to its end, whether or not the pool is being
\* destroyed.
AcceptedTasksFinish == \A k \in Tasks : k \in accepted ~> k \in finished

\* Every call of justThreadpoolWait returns.  Submissions are finite here, each
\* task is submitted once at most; tasks that submit others for ever would
\* keep the loop of Wait for ever, because it waits for these too.
WaitTerminates ==
  \A c \in Clients : pc[c] \in {"bLock", "bSleep"} ~> pc[c] = "idle"

\* A call of justThreadpoolDestroy (the one Create makes when a thread
\* cannot be spawned too) joins its workers and returns.
DestroyTerminates == pc[Owner] = "dLock" ~> pc[Owner] = "gone"

\* When submissions are finite, nobody who blocks in the pool blocks for ever:
\* a Wait returns although other tasks are submitted and signals go to other
\* threads meanwhile, and so does a Destroy.
CallsReturn == WaitTerminates /\ DestroyTerminates

\* The strengthening that makes the safety invariants inductive.

\* Where the owner is in the pool's life decides what exists.
LifeCycle ==
  /\ pc[Owner] = "new" => held = {} /\ threadCount = 0
  /\ pc[Owner] \notin {"new", "gone"}
       => /\ ThreadCount > 0
          /\ held = Memory \cup Primitives
          /\ capacity > 0
          /\ \A w \in Workers : pc[w] = "none" <=> w > threadCount
          /\ joined <= threadCount
          /\ \A w \in 1 .. joined : pc[w] = "exited"
  /\ pc[Owner] \notin {"dJoin", "gone"} => joined = 0
  /\ pc[Owner] \in {"new", "spawn", "dLock", "dCrit", "dJoin", "gone"} => ~open
  /\ shutdown => pc[Owner] \in {"dJoin", "gone"}
  /\ pc[Owner] = "dJoin" => shutdown
  /\ pc[Owner] = "new" \/ (pc[Owner] = "gone" /\ ~shutdown)
       => \A w \in Workers : pc[w] = "none"

\* Until Create has returned true no task has been submitted, and without
\* RaceDestroy only the owner is in a call once Destroy begins.
Usage ==
  /\ pc[Owner] # "gone" /\ (threadCount < ThreadCount \/ pc[Owner] \in {"new", "spawn"})
       => /\ offered = {} /\ ~open
          /\ \A c \in Clients \ {Owner} : pc[c] = "idle"
  /\ pc[Owner] = "gone" /\ ~shutdown
       => offered = {} /\ \A c \in Clients \ {Owner} : pc[c] = "idle"
  /\ ~RaceDestroy /\ ~open => \A c \in Clients \ {Owner} : pc[c] = "idle"

\* A worker leaves its loop only for good.
ExitsAreFinal ==
  \A w \in Workers : pc[w] = "exited" => shutdown /\ taskQueue = <<>>

\* A pool that is gone stays as Destroy left it.
GoneForGood ==
  pc[Owner] = "gone" => /\ \A w \in Workers : pc[w] \in {"none", "exited"}
                        /\ accepted = finished
                        /\ held \cap {"queue", "threads"} = {}

\* Every call of AddTask carries a task of its own.
ArgumentsFresh ==
  /\ accepted \subseteq offered
  /\ \A t \in Threads : pc[t] \in {"aLock", "aCrit"}
                           => arg[t] \in offered \ accepted
  /\ \A s, t \in Threads : /\ pc[s] \in {"aLock", "aCrit"}
                             /\ pc[t] \in {"aLock", "aCrit"}
                             /\ arg[s] = arg[t]
                             => s = t

WaitsForAccepted == \A c \in Clients : waitFor[c] \subseteq accepted

\* The inductive invariant: the safety properties of the pool with the facts
\* about its life, its users and its submissions that they rest on.
PoolInv ==
  /\ TypeOK
  /\ LifeCycle
  /\ Usage
  /\ GoneForGood
  /\ ExitsAreFinal
  /\ ArgumentsFresh
  /\ WaitsForAccepted
  /\ MutualExclusion
  /\ TasksConserved
  /\ ActiveWorkersExact
  /\ NoWaiterForgotten
  /\ NoSleepInShutdown
  /\ NoWorkerOverslept

\* The phase of the service that the owner's progress stands for.
Phase ==
  IF pc[Owner] = "gone" THEN "gone"
  ELSE IF shutdown THEN "closing"
  ELSE IF pc[Owner] \in {"new", "spawn"} \/ threadCount < ThreadCount
    THEN "absent" ELSE "open"

\* The task whose function each worker is executing.
Execution == [w \in Workers |-> IF w \in Executing THEN task[w] ELSE NoTask]

Service ==
  INSTANCE TaskService WITH Slots <- Workers, Free <- NoTask, phase <- Phase,
                            pending <- taskQueue, running <- Execution

\* The pool implements the abstract service: tasks are accepted only while
\* it is open, started in order of acceptance, one on each worker, run
\* once, and it is gone only when nothing is left to do.
ImplementsService == Service!Spec
=============================================================================
