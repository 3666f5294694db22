-------------------------- MODULE ThreadPoolProofs --------------------------
(***************************************************************************)
(* Theorems about ThreadPool, for every number of workers, clients, tasks, *)
(* calls and spurious wakeups.                                             *)
(***************************************************************************)
EXTENDS ThreadPool, FiniteSetTheorems, TLAPS

\* The constants that the operators of ThreadPool are built from.
LEMMA LabelFacts ==
  /\ Locking = {"wLock", "wWoken", "fLock", "aLock", "pLock", "bLock",
                "bWoken", "dLock"}
  /\ Asleep = {"wSleep", "bSleep"}
  /\ Owner \in Threads
  /\ \A w \in Workers : w \in Threads /\ w # Owner /\ w \notin Clients /\ w \in Nat
  /\ \A c \in Clients : c \in Threads /\ c \notin Workers
  /\ NoThread \notin Threads
BY PoolAssumption DEF Locking, AfterLock, Asleep, AfterWake, Threads, Workers

-----------------------------------------------------------------------------
(* Type correctness *)

LEMMA TypeInit == Init => TypeOK
<1> SUFFICES ASSUME Init PROVE TypeOK
  OBVIOUS
<1>1. LabelsOK
  BY LabelFacts
     DEF Init, LabelsOK, WorkerLabels, ClientLabels, OwnerLabels, Threads
<1>2. PoolOK
  BY PoolAssumption DEF Init, PoolOK
<1>3. \A t \in Threads : pc[t] \in {"new", "none", "idle"}
  BY DEF Init
<1>4. CallsOK
  BY <1>3, PoolAssumption, LabelFacts DEF Init, CallsOK
<1>5. FlagsOK
  BY Zenon DEF Init, FlagsOK
<1> QED
  BY <1>1, <1>2, <1>4, <1>5 DEF TypeOK

\* Moving a thread to a label of its kind, and waking sleepers, keeps every
\* thread at a label of its kind.
LEMMA GotoLabels ==
  ASSUME LabelsOK, NEW t \in Threads, NEW next, NEW W \in SUBSET Threads,
         \A x \in W : pc[x] \in Asleep,
         t \in Workers => next \in WorkerLabels,
         t \in Clients \ {Owner} => next \in ClientLabels,
         t = Owner => next \in OwnerLabels,
         Goto(t, next, W)
  PROVE  LabelsOK'
<1>1. AfterWake["wSleep"] = "wWoken" /\ AfterWake["bSleep"] = "bWoken"
  BY DEF AfterWake
<1>2. \A x \in W : pc[x] = "wSleep" \/ pc[x] = "bSleep"
  BY LabelFacts
<1>3. \A x \in Threads : pc'[x] = IF x = t THEN next
                                 ELSE IF x \in W THEN AfterWake[pc[x]]
                                 ELSE pc[x]
  BY DEF Goto
<1>4. \A w \in Workers : pc'[w] \in WorkerLabels
  BY <1>1, <1>2, <1>3, LabelFacts DEF LabelsOK, WorkerLabels
<1>5. \A c \in Clients \ {Owner} : pc'[c] \in ClientLabels
  BY <1>1, <1>2, <1>3, LabelFacts DEF LabelsOK, ClientLabels
<1>6. pc'[Owner] \in OwnerLabels
  BY <1>1, <1>2, <1>3, LabelFacts DEF LabelsOK, ClientLabels, OwnerLabels
<1>7. \A x \in Threads : pc'[x] \in WorkerLabels \cup OwnerLabels
  BY <1>4, <1>5, <1>6 DEF Threads, OwnerLabels
<1>8. pc' \in [Threads -> WorkerLabels \cup OwnerLabels]
  BY <1>7 DEF Goto
<1> QED
  BY <1>4, <1>5, <1>6, <1>8 DEF LabelsOK

\* Goto, one thread at a time.
LEMMA GotoEffect ==
  ASSUME NEW t \in Threads, NEW next, NEW W \in SUBSET Threads,
         \A x \in W : pc[x] \in Asleep,
         Goto(t, next, W)
  PROVE  /\ pc'[t] = next
         /\ \A x \in Threads \ {t} : x \notin W => pc'[x] = pc[x]
         /\ \A x \in W \ {t} : \/ pc[x] = "wSleep" /\ pc'[x] = "wWoken"
                               \/ pc[x] = "bSleep" /\ pc'[x] = "bWoken"
<1>1. AfterWake["wSleep"] = "wWoken" /\ AfterWake["bSleep"] = "bWoken"
  BY DEF AfterWake
<1> QED
  BY <1>1, LabelFacts DEF Goto

\* Every step of the pool keeps every variable in its type.
LEMMA TypeStep == TypeOK /\ [Next]_vars => TypeOK'
<1> SUFFICES ASSUME TypeOK, [Next]_vars PROVE TypeOK'
  OBVIOUS
<1> USE LabelFacts DEF TypeOK
<1>1. ASSUME NEW t \in Threads, MtxLock(t) PROVE TypeOK'
  <2>1. LabelsOK'
    BY <1>1, GotoLabels DEF MtxLock, AfterLock, LabelsOK, WorkerLabels,
       ClientLabels, OwnerLabels
  <2>2. PoolOK'
    BY <1>1, PoolAssumption DEF MtxLock, PoolOK, CallsOK, poolVars, lifeVars
  <2>3. FlagsOK'
    BY <1>1, Zenon DEF MtxLock, FlagsOK, poolVars, lifeVars
  <2>4. CallsOK'
    BY <1>1, GotoEffect DEF MtxLock, AfterLock, CallsOK, callVars, history
  <2> QED
    BY <2>1, <2>2, <2>3, <2>4
<1>2. ASSUME NEW t \in Threads, SpuriousWakeup(t) PROVE TypeOK'
  <2>1. LabelsOK'
    BY <1>2, GotoLabels DEF SpuriousWakeup, AfterWake, LabelsOK,
       WorkerLabels, ClientLabels, OwnerLabels
  <2>2. PoolOK'
    BY <1>2, PoolAssumption DEF SpuriousWakeup, PoolOK, CallsOK, poolVars,
       lifeVars
  <2>3. FlagsOK'
    BY <1>2, Zenon DEF SpuriousWakeup, FlagsOK, poolVars, lifeVars
  <2>4. CallsOK'
    BY <1>2, GotoEffect DEF SpuriousWakeup, AfterWake, CallsOK, callVars,
       history
  <2> QED
    BY <2>1, <2>2, <2>3, <2>4
<1>3. ASSUME NEW t \in Threads, NEW k \in Tasks, AddTask(t, k) PROVE TypeOK'
  <2>1. LabelsOK'
    BY <1>3, GotoLabels DEF AddTask, MayCall, Home, LabelsOK, WorkerLabels,
       ClientLabels, OwnerLabels
  <2>2. PoolOK'
    BY <1>3, PoolAssumption DEF AddTask, PoolOK, CallsOK, poolVars, lifeVars
  <2>3. FlagsOK'
    BY <1>3, Zenon DEF AddTask, FlagsOK, poolVars, lifeVars
  <2>4. CallsOK'
    BY <1>3, GotoEffect DEF AddTask, MayCall, Home, CallsOK, callVars, history
  <2> QED
    BY <2>1, <2>2, <2>3, <2>4
<1>4. ASSUME NEW t \in Threads, AddTaskAccepts(t) PROVE TypeOK'
  <2>1. LabelsOK'
    BY <1>4, GotoLabels DEF AddTaskAccepts, Unlock, Home, LabelsOK,
       WorkerLabels, ClientLabels, OwnerLabels, Signalled, Waiters
  <2>2. PoolOK'
    BY <1>4, PoolAssumption DEF AddTaskAccepts, Unlock, PoolOK, CallsOK,
       poolVars, lifeVars, Enqueued, GrownCapacity
  <2>3. FlagsOK'
    BY <1>4, Zenon DEF AddTaskAccepts, FlagsOK, poolVars, lifeVars
  <2>4. CallsOK'
    <3>1. PICK V \in SUBSET Threads : /\ \A x \in V : pc[x] \in Asleep
                                      /\ Goto(t, Home(t), V)
      BY <1>4 DEF AddTaskAccepts, Unlock, Signalled, Waiters
    <3>2. /\ pc'[t] \notin {"aLock", "aCrit"}
          /\ \A x \in Threads \ {t} : \/ pc'[x] = pc[x]
                                      \/ pc'[x] \in {"wWoken", "bWoken"}
      BY <3>1, GotoEffect DEF Home
    <3>3. \A w \in Workers : pc'[w] \in {"run", "aLock", "aCrit"}
                               => pc[w] \in {"run", "aLock", "aCrit"}
      BY <1>4, <3>2 DEF AddTaskAccepts
    <3> QED
      BY <1>4, <3>2, <3>3 DEF AddTaskAccepts, CallsOK, callVars, history
  <2> QED
    BY <2>1, <2>2, <2>3, <2>4
<1>5. ASSUME NEW t \in Threads, AddTaskRefuses(t) PROVE TypeOK'
  <2>1. LabelsOK'
    BY <1>5, GotoLabels DEF AddTaskRefuses, Unlock, Home, LabelsOK,
       WorkerLabels, ClientLabels, OwnerLabels
  <2>2. PoolOK'
    BY <1>5, PoolAssumption DEF AddTaskRefuses, Unlock, PoolOK, CallsOK,
       poolVars, lifeVars
  <2>3. FlagsOK'
    BY <1>5, Zenon DEF AddTaskRefuses, FlagsOK, poolVars, lifeVars
  <2>4. CallsOK'
    BY <1>5, GotoEffect, SMTT(60) DEF AddTaskRefuses, Unlock, Home, CallsOK, callVars,
       history
  <2> QED
    BY <2>1, <2>2, <2>3, <2>4
<1>6. ASSUME NEW w \in Workers, WorkerSleeps(w) PROVE TypeOK'
  <2>1. LabelsOK'
    BY <1>6, GotoLabels DEF WorkerSleeps, Unlock, LabelsOK, WorkerLabels,
       ClientLabels, OwnerLabels
  <2>2. PoolOK'
    BY <1>6, PoolAssumption DEF WorkerSleeps, Unlock, PoolOK, CallsOK,
       poolVars, lifeVars
  <2>3. FlagsOK'
    BY <1>6, Zenon DEF WorkerSleeps, FlagsOK, poolVars, lifeVars
  <2>4. CallsOK'
    BY <1>6, GotoEffect, SMTT(60) DEF WorkerSleeps, Unlock, CallsOK, callVars, history
  <2> QED
    BY <2>1, <2>2, <2>3, <2>4
<1>7. ASSUME NEW w \in Workers, WorkerExits(w) PROVE TypeOK'
  <2>1. LabelsOK'
    BY <1>7, GotoLabels DEF WorkerExits, Unlock, LabelsOK, WorkerLabels,
       ClientLabels, OwnerLabels
  <2>2. PoolOK'
    BY <1>7, PoolAssumption DEF WorkerExits, Unlock, PoolOK, CallsOK,
       poolVars, lifeVars
  <2>3. FlagsOK'
    BY <1>7, Zenon DEF WorkerExits, FlagsOK, poolVars, lifeVars
  <2>4. CallsOK'
    <3>1. /\ pc'[w] = "exited"
          /\ \A x \in Threads \ {w} : pc'[x] = pc[x]
      BY <1>7, GotoEffect DEF WorkerExits, Unlock
    <3> QED
      BY <1>7, <3>1, SMTT(60) DEF WorkerExits, CallsOK, callVars, history
  <2> QED
    BY <2>1, <2>2, <2>3, <2>4
<1>8. ASSUME NEW w \in Workers, WorkerTakes(w) PROVE TypeOK'
  <2>1. LabelsOK'
    BY <1>8, GotoLabels DEF WorkerTakes, Unlock, LabelsOK, WorkerLabels,
       ClientLabels, OwnerLabels
  <2>2. PoolOK'
    BY <1>8, PoolAssumption DEF WorkerTakes, Unlock, PoolOK, CallsOK,
       poolVars, lifeVars
  <2>3. FlagsOK'
    BY <1>8, Zenon DEF WorkerTakes, FlagsOK, poolVars, lifeVars
  <2>4. CallsOK'
    <3>1. /\ pc'[w] = "run"
          /\ \A x \in Threads \ {w} : pc'[x] = pc[x]
      BY <1>8, GotoEffect DEF WorkerTakes, Unlock
    <3>2. Head(taskQueue) \in Tasks
      BY <1>8 DEF WorkerTakes, PoolOK
    <3> QED
      BY <1>8, <3>1, <3>2 DEF WorkerTakes, CallsOK, callVars, history
  <2> QED
    BY <2>1, <2>2, <2>3, <2>4
<1>9. ASSUME NEW w \in Workers, TaskReturns(w) PROVE TypeOK'
  <2>1. LabelsOK'
    BY <1>9, GotoLabels DEF TaskReturns, LabelsOK, WorkerLabels,
       ClientLabels, OwnerLabels
  <2>2. PoolOK'
    BY <1>9, PoolAssumption DEF TaskReturns, PoolOK, CallsOK, poolVars,
       lifeVars
  <2>3. FlagsOK'
    BY <1>9, Zenon DEF TaskReturns, FlagsOK, poolVars, lifeVars
  <2>4. CallsOK'
    BY <1>9, GotoEffect DEF TaskReturns, CallsOK, callVars, history
  <2> QED
    BY <2>1, <2>2, <2>3, <2>4
<1>10. ASSUME NEW w \in Workers, WorkerBooks(w) PROVE TypeOK'
  <2>1. LabelsOK'
    BY <1>10, GotoLabels DEF WorkerBooks, Unlock, LabelsOK, WorkerLabels,
       ClientLabels, OwnerLabels, WokenByLast, Broadcast, Waiters
  <2>2. PoolOK'
    BY <1>10, PoolAssumption DEF WorkerBooks, Unlock, PoolOK, CallsOK,
       poolVars, lifeVars
  <2>3. FlagsOK'
    BY <1>10, Zenon DEF WorkerBooks, FlagsOK, poolVars, lifeVars
  <2>4. CallsOK'
    <3>1. PICK V \in SUBSET Threads : /\ \A x \in V : pc[x] \in Asleep
                                      /\ Goto(w, "wLock", V)
      BY <1>10 DEF WorkerBooks, Unlock, WokenByLast, Broadcast, Waiters
    <3>2. /\ pc'[w] = "wLock"
          /\ \A x \in Threads \ {w} : \/ pc'[x] = pc[x]
                                      \/ pc'[x] \in {"wWoken", "bWoken"}
      BY <3>1, GotoEffect
    <3> QED
      BY <1>10, <3>2 DEF WorkerBooks, CallsOK, callVars, history
  <2> QED
    BY <2>1, <2>2, <2>3, <2>4
<1>11. ASSUME NEW c \in Clients, Wait(c) PROVE TypeOK'
  <2>1. LabelsOK'
    BY <1>11, GotoLabels DEF Wait, MayCall, Home, LabelsOK, WorkerLabels,
       ClientLabels, OwnerLabels
  <2>2. PoolOK'
    BY <1>11, PoolAssumption DEF Wait, PoolOK, CallsOK, poolVars, lifeVars
  <2>3. FlagsOK'
    BY <1>11, Zenon DEF Wait, FlagsOK, poolVars, lifeVars
  <2>4. CallsOK'
    BY <1>11, GotoEffect DEF Wait, MayCall, Home, CallsOK, callVars, history
  <2> QED
    BY <2>1, <2>2, <2>3, <2>4
<1>12. ASSUME NEW c \in Clients, WaitSleeps(c) PROVE TypeOK'
  <2>1. LabelsOK'
    BY <1>12, GotoLabels DEF WaitSleeps, Unlock, LabelsOK, WorkerLabels,
       ClientLabels, OwnerLabels
  <2>2. PoolOK'
    BY <1>12, PoolAssumption DEF WaitSleeps, Unlock, PoolOK, CallsOK,
       poolVars, lifeVars
  <2>3. FlagsOK'
    BY <1>12, Zenon DEF WaitSleeps, FlagsOK, poolVars, lifeVars
  <2>4. CallsOK'
    BY <1>12, GotoEffect DEF WaitSleeps, Unlock, CallsOK, callVars, history
  <2> QED
    BY <2>1, <2>2, <2>3, <2>4
<1>13. ASSUME NEW c \in Clients, WaitReturns(c) PROVE TypeOK'
  <2>1. LabelsOK'
    BY <1>13, GotoLabels DEF WaitReturns, Unlock, LabelsOK, WorkerLabels,
       ClientLabels, OwnerLabels
  <2>2. PoolOK'
    BY <1>13, PoolAssumption DEF WaitReturns, Unlock, PoolOK, CallsOK,
       poolVars, lifeVars
  <2>3. FlagsOK'
    BY <1>13, Zenon DEF WaitReturns, FlagsOK, poolVars, lifeVars
  <2>4. CallsOK'
    BY <1>13, GotoEffect DEF WaitReturns, Unlock, CallsOK, callVars, history
  <2> QED
    BY <2>1, <2>2, <2>3, <2>4
<1>14. ASSUME NEW c \in Clients, PendingTasks(c) PROVE TypeOK'
  <2>1. LabelsOK'
    BY <1>14, GotoLabels DEF PendingTasks, MayCall, Home, LabelsOK,
       WorkerLabels, ClientLabels, OwnerLabels
  <2>2. PoolOK'
    BY <1>14, PoolAssumption DEF PendingTasks, PoolOK, CallsOK, poolVars,
       lifeVars
  <2>3. FlagsOK'
    BY <1>14, Zenon DEF PendingTasks, FlagsOK, poolVars, lifeVars
  <2>4. CallsOK'
    BY <1>14, GotoEffect DEF PendingTasks, MayCall, Home, CallsOK, callVars,
       history
  <2> QED
    BY <2>1, <2>2, <2>3, <2>4
<1>15. ASSUME NEW c \in Clients, PendingReturns(c) PROVE TypeOK'
  <2>1. LabelsOK'
    BY <1>15, GotoLabels DEF PendingReturns, Unlock, LabelsOK, WorkerLabels,
       ClientLabels, OwnerLabels
  <2>2. PoolOK'
    BY <1>15, PoolAssumption DEF PendingReturns, Unlock, PoolOK, CallsOK,
       poolVars, lifeVars
  <2>3. FlagsOK'
    BY <1>15, Zenon DEF PendingReturns, FlagsOK, poolVars, lifeVars
  <2>4. CallsOK'
    BY <1>15, GotoEffect DEF PendingReturns, Unlock, CallsOK, callVars,
       history
  <2> QED
    BY <2>1, <2>2, <2>3, <2>4
<1>16. CASE CreateInits
  <2>1. LabelsOK'
    BY <1>16, GotoLabels DEF CreateInits, LabelsOK, WorkerLabels,
       ClientLabels, OwnerLabels
  <2>2. PoolOK'
    BY <1>16, PoolAssumption DEF CreateInits, PoolOK, CallsOK, poolVars,
       lifeVars, Memory, Primitives
  <2>3. FlagsOK'
    BY <1>16, Zenon DEF CreateInits, FlagsOK, poolVars, lifeVars
  <2>4. CallsOK'
    BY <1>16, GotoEffect DEF CreateInits, CallsOK, callVars, history
  <2> QED
    BY <2>1, <2>2, <2>3, <2>4
<1>17. CASE CreateFails
  <2>1. LabelsOK'
    BY <1>17, GotoLabels DEF CreateFails, LabelsOK, WorkerLabels,
       ClientLabels, OwnerLabels
  <2>2. PoolOK'
    BY <1>17, PoolAssumption DEF CreateFails, PoolOK, CallsOK, poolVars,
       lifeVars, CreateLeftovers
  <2>3. FlagsOK'
    BY <1>17, Zenon DEF CreateFails, FlagsOK, poolVars, lifeVars
  <2>4. CallsOK'
    BY <1>17, GotoEffect DEF CreateFails, CallsOK, callVars, history
  <2> QED
    BY <2>1, <2>2, <2>3, <2>4
<1>18. CASE SpawnWorker
  <2>1. LabelsOK'
    BY <1>18, PoolAssumption DEF SpawnWorker, LabelsOK, PoolOK, Workers,
       Threads, WorkerLabels
  <2>2. PoolOK'
    BY <1>18, PoolAssumption DEF SpawnWorker, Unlock, PoolOK, CallsOK,
       poolVars, lifeVars
  <2>3. FlagsOK'
    BY <1>18, Zenon DEF SpawnWorker, FlagsOK, poolVars, lifeVars
  <2>4. CallsOK'
    BY <1>18, SMTT(60) DEF SpawnWorker, LabelsOK, PoolOK, Workers, Threads, CallsOK,
       callVars, history
  <2> QED
    BY <2>1, <2>2, <2>3, <2>4
<1>19. CASE SpawnFails
  <2>1. LabelsOK'
    BY <1>19, GotoLabels DEF SpawnFails, LabelsOK, WorkerLabels,
       ClientLabels, OwnerLabels
  <2>2. PoolOK'
    BY <1>19, PoolAssumption DEF SpawnFails, PoolOK, CallsOK, poolVars,
       lifeVars
  <2>3. FlagsOK'
    BY <1>19, Zenon DEF SpawnFails, FlagsOK, poolVars, lifeVars
  <2>4. CallsOK'
    BY <1>19, GotoEffect DEF SpawnFails, CallsOK, callVars, history
  <2> QED
    BY <2>1, <2>2, <2>3, <2>4
<1>20. CASE CreateReturns
  <2>1. LabelsOK'
    BY <1>20, GotoLabels DEF CreateReturns, LabelsOK, WorkerLabels,
       ClientLabels, OwnerLabels
  <2>2. PoolOK'
    BY <1>20, PoolAssumption DEF CreateReturns, PoolOK, CallsOK, poolVars,
       lifeVars
  <2>3. FlagsOK'
    BY <1>20, Zenon DEF CreateReturns, FlagsOK, poolVars, lifeVars
  <2>4. CallsOK'
    BY <1>20, GotoEffect DEF CreateReturns, CallsOK, callVars, history
  <2> QED
    BY <2>1, <2>2, <2>3, <2>4
<1>21. CASE Destroy
  <2>1. LabelsOK'
    BY <1>21, GotoLabels DEF Destroy, LabelsOK, WorkerLabels, ClientLabels,
       OwnerLabels
  <2>2. PoolOK'
    BY <1>21, PoolAssumption DEF Destroy, PoolOK, CallsOK, poolVars, lifeVars
  <2>3. FlagsOK'
    BY <1>21, Zenon DEF Destroy, FlagsOK, poolVars, lifeVars
  <2>4. CallsOK'
    BY <1>21, GotoEffect DEF Destroy, CallsOK, callVars, history
  <2> QED
    BY <2>1, <2>2, <2>3, <2>4
<1>22. CASE DestroyAnnounces
  <2>1. LabelsOK'
    BY <1>22, GotoLabels DEF DestroyAnnounces, Unlock, LabelsOK,
       WorkerLabels, ClientLabels, OwnerLabels, Broadcast, Waiters
  <2>2. PoolOK'
    BY <1>22, PoolAssumption DEF DestroyAnnounces, Unlock, PoolOK, CallsOK,
       poolVars, lifeVars
  <2>3. FlagsOK'
    BY <1>22, Zenon DEF DestroyAnnounces, FlagsOK, poolVars, lifeVars
  <2>4. CallsOK'
    BY <1>22, GotoEffect DEF DestroyAnnounces, Unlock, Broadcast, Waiters,
       CallsOK, callVars, history
  <2> QED
    BY <2>1, <2>2, <2>3, <2>4
<1>23. CASE DestroyJoins
  <2>1. LabelsOK'
    BY <1>23 DEF DestroyJoins, LabelsOK
  <2>2. PoolOK'
    BY <1>23, PoolAssumption DEF DestroyJoins, Unlock, PoolOK, CallsOK,
       poolVars, lifeVars
  <2>3. FlagsOK'
    BY <1>23, Zenon DEF DestroyJoins, FlagsOK, poolVars, lifeVars
  <2>4. CallsOK'
    BY <1>23 DEF DestroyJoins, CallsOK, callVars, history
  <2> QED
    BY <2>1, <2>2, <2>3, <2>4
<1>24. CASE DestroyFrees
  <2>1. LabelsOK'
    BY <1>24, GotoLabels DEF DestroyFrees, LabelsOK, WorkerLabels,
       ClientLabels, OwnerLabels
  <2>2. PoolOK'
    BY <1>24, PoolAssumption DEF DestroyFrees, PoolOK, CallsOK, poolVars,
       lifeVars
  <2>3. FlagsOK'
    BY <1>24, Zenon DEF DestroyFrees, FlagsOK, poolVars, lifeVars
  <2>4. CallsOK'
    BY <1>24, GotoEffect, SMTT(60) DEF DestroyFrees, CallsOK, callVars, history
  <2> QED
    BY <2>1, <2>2, <2>3, <2>4
<1>25. CASE UNCHANGED vars
  <2>1. FlagsOK'
    BY <1>25, Zenon DEF FlagsOK, vars, poolVars, lifeVars, callVars, history
  <2> QED
    BY <1>25, <2>1 DEF LabelsOK, PoolOK, CallsOK, vars, poolVars, lifeVars,
       callVars, history
<1> QED
  BY <1>1, <1>2, <1>3, <1>4, <1>5, <1>6, <1>7, <1>8, <1>9, <1>10, <1>11,
     <1>12, <1>13, <1>14, <1>15, <1>16, <1>17, <1>18, <1>19, <1>20, <1>21,
     <1>22, <1>23, <1>24, <1>25, SMTT(60)
     DEF Next, WorkerStep, AddTaskStep, ClientStep, CreateStep, DestroyStep,
         Finished

\* The type of every variable is an invariant of the pool.
THEOREM TypeCorrect == Spec => []TypeOK
<1>1. TypeOK /\ [Next]_vars => TypeOK'
  BY TypeStep
<1> QED
  BY <1>1, TypeInit, PTL DEF Spec

-----------------------------------------------------------------------------
(* What the steps that lock, wake or are woken do to the program counters. *)

LockMove(t) ==
  /\ \/ pc[t] \in {"wLock", "wWoken"} /\ pc'[t] = "wLoop"
     \/ pc[t] = "fLock" /\ pc'[t] = "fCrit"
     \/ pc[t] = "aLock" /\ pc'[t] = "aCrit"
     \/ pc[t] = "pLock" /\ pc'[t] = "pCrit"
     \/ pc[t] \in {"bLock", "bWoken"} /\ pc'[t] = "bCrit"
     \/ pc[t] = "dLock" /\ pc'[t] = "dCrit"
  /\ \A x \in Threads \ {t} : pc'[x] = pc[x]
  /\ pc' \in [Threads -> WorkerLabels \cup OwnerLabels]

LEMMA LockEffect ==
  ASSUME TypeOK, NEW t \in Threads, MtxLock(t)
  PROVE  LockMove(t)
<1>1. Goto(t, AfterLock[pc[t]], {}) /\ pc[t] \in Locking
  BY DEF MtxLock
<1>2. pc'[t] = AfterLock[pc[t]] /\ \A x \in Threads \ {t} : pc'[x] = pc[x]
  BY <1>1, GotoEffect
<1>3. pc' \in [Threads -> WorkerLabels \cup OwnerLabels]
  BY TypeStep DEF Next, TypeOK, LabelsOK
<1> QED
  BY <1>1, <1>2, <1>3, LabelFacts DEF LockMove, AfterLock

SpuriousMove(t) ==
  /\ \/ pc[t] = "wSleep" /\ pc'[t] = "wWoken"
     \/ pc[t] = "bSleep" /\ pc'[t] = "bWoken"
  /\ \A x \in Threads \ {t} : pc'[x] = pc[x]
  /\ pc' \in [Threads -> WorkerLabels \cup OwnerLabels]

LEMMA SpuriousEffect ==
  ASSUME TypeOK, NEW t \in Threads, SpuriousWakeup(t)
  PROVE  SpuriousMove(t)
<1>1. Goto(t, AfterWake[pc[t]], {}) /\ pc[t] \in Asleep
  BY DEF SpuriousWakeup
<1>2. pc'[t] = AfterWake[pc[t]] /\ \A x \in Threads \ {t} : pc'[x] = pc[x]
  BY <1>1, GotoEffect
<1>3. pc' \in [Threads -> WorkerLabels \cup OwnerLabels]
  BY TypeStep DEF Next, TypeOK, LabelsOK
<1> QED
  BY <1>1, <1>2, <1>3, LabelFacts DEF SpuriousMove, AfterWake

AcceptsMove(t) ==
  /\ pc'[t] = (IF t \in Workers THEN "run" ELSE "idle")
  /\ pc[t] = "aCrit"
  /\ pc' \in [Threads -> WorkerLabels \cup OwnerLabels]
  /\ \A x \in Threads \ {t} : \/ pc'[x] = pc[x]
                              \/ pc[x] = "wSleep" /\ pc'[x] = "wWoken"
  /\ Waiters("wSleep") # {}
       => \E v \in Waiters("wSleep") :
            /\ pc'[v] = "wWoken"
            /\ \A x \in Threads \ {t, v} : pc'[x] = pc[x]

LEMMA AcceptsEffect ==
  ASSUME TypeOK, NEW t \in Threads, AddTaskAccepts(t)
  PROVE  AcceptsMove(t)
<1>1. PICK V \in Signalled("wSleep") : Goto(t, Home(t), V)
  BY DEF AddTaskAccepts, Unlock
<1>2. V \in SUBSET Threads /\ \A x \in V : pc[x] = "wSleep"
  BY <1>1 DEF Signalled, Waiters
<1>3. pc' \in [Threads -> WorkerLabels \cup OwnerLabels]
  BY TypeStep DEF Next, AddTaskStep, TypeOK, LabelsOK
<1>4. /\ pc[t] = "aCrit" /\ pc'[t] = Home(t)
      /\ \A x \in Threads \ {t} : x \notin V => pc'[x] = pc[x]
      /\ \A x \in V : pc[x] = "wSleep" /\ pc'[x] = "wWoken"
  BY <1>1, <1>2, GotoEffect, LabelFacts DEF AddTaskAccepts
<1>5. ASSUME Waiters("wSleep") # {}
      PROVE  \E v \in Waiters("wSleep") :
               /\ pc'[v] = "wWoken"
               /\ \A x \in Threads \ {t, v} : pc'[x] = pc[x]
  <2>1. PICK v \in Waiters("wSleep") : V = {v}
    BY <1>1, <1>5 DEF Signalled
  <2> QED
    BY <1>4, <2>1
<1> QED
  BY <1>3, <1>4, <1>5 DEF AcceptsMove, Home

BooksMove(w) ==
  /\ pc'[w] = "wLock" /\ pc[w] = "fCrit"
  /\ pc' \in [Threads -> WorkerLabels \cup OwnerLabels]
  /\ \A x \in Threads \ {w} : \/ pc'[x] = pc[x]
                              \/ pc[x] = "bSleep" /\ pc'[x] = "bWoken"
  /\ taskQueue = <<>> /\ activeWorkers' = 0
       => \A x \in Threads : pc'[x] # "bSleep"

LEMMA BooksEffect ==
  ASSUME TypeOK, NEW w \in Workers, WorkerBooks(w)
  PROVE  BooksMove(w)
<1> DEFINE V == WokenByLast(activeWorkers - 1)
<1>1. Goto(w, "wLock", V)
  BY DEF WorkerBooks, Unlock
<1>2. V \in SUBSET Threads /\ \A x \in V : pc[x] = "bSleep"
  BY DEF WokenByLast, Broadcast, Waiters
<1>3. pc' \in [Threads -> WorkerLabels \cup OwnerLabels]
  BY TypeStep DEF Next, WorkerStep, TypeOK, LabelsOK
<1>4. /\ pc'[w] = "wLock"
      /\ \A x \in Threads \ {w} : x \notin V => pc'[x] = pc[x]
      /\ \A x \in V \ {w} : pc[x] = "bSleep" /\ pc'[x] = "bWoken"
  <2> HIDE DEF V
  <2> QED
    BY <1>1, <1>2, GotoEffect, LabelFacts
<1>5. taskQueue = <<>> /\ activeWorkers' = 0
        => \A x \in Threads : pc'[x] # "bSleep"
  BY <1>4 DEF WorkerBooks, WokenByLast, Broadcast, Waiters
<1> HIDE DEF V
<1> QED
  BY <1>3, <1>4, <1>5 DEF BooksMove, WorkerBooks

AnnouncesMove ==
  /\ pc'[Owner] = "dJoin" /\ pc[Owner] = "dCrit"
  /\ pc' \in [Threads -> WorkerLabels \cup OwnerLabels]
  /\ \A x \in Threads \ {Owner} :
       IF pc[x] = "wSleep" THEN pc'[x] = "wWoken" ELSE pc'[x] = pc[x]

LEMMA AnnouncesEffect ==
  ASSUME TypeOK, DestroyAnnounces
  PROVE  AnnouncesMove
<1>1. Goto(Owner, "dJoin", Waiters("wSleep"))
  BY DEF DestroyAnnounces, Unlock, Broadcast
<1>2. pc' \in [Threads -> WorkerLabels \cup OwnerLabels]
  BY TypeStep DEF Next, DestroyStep, TypeOK, LabelsOK
<1> QED
  BY <1>1, <1>2, GotoEffect, LabelFacts DEF AnnouncesMove, DestroyAnnounces, Waiters

-----------------------------------------------------------------------------
(* The life of the pool *)

LEMMA LifeInit == Init => LifeCycle
BY PoolAssumption, LabelFacts DEF Init, LifeCycle

\* The steps of calls in progress and of the workers' loop leave the life of
\* the pool alone: the owner stays where it is or inside its call, no worker
\* is born, and none comes back from its exit.
CallStep ==
  \/ \E t \in Threads : \/ MtxLock(t) \/ SpuriousWakeup(t) \/ AddTaskStep(t)
                        \/ \E k \in Tasks : AddTask(t, k)
  \/ \E w \in Workers : WorkerStep(w)
  \/ \E c \in Clients : Wait(c) \/ PendingTasks(c) \/ ClientStep(c)

OwnerStays ==
  \/ pc'[Owner] = pc[Owner]
  \/ pc[Owner] \in ClientLabels /\ pc'[Owner] \in ClientLabels
  \/ pc[Owner] = "dLock" /\ pc'[Owner] = "dCrit"
WorkersStay ==
  \A w \in Workers : /\ pc'[w] = "none" <=> pc[w] = "none"
                     /\ pc[w] = "exited" => pc'[w] = "exited"

LEMMA CallStepFrame ==
  ASSUME TypeOK, CallStep
  PROVE  /\ OwnerStays
         /\ WorkersStay
         /\ capacity > 0 => capacity' > 0
         /\ UNCHANGED <<threadCount, joined, held, open, shutdown>>
<1> DEFINE Frame == /\ OwnerStays
                    /\ WorkersStay
                    /\ capacity > 0 => capacity' > 0
                    /\ UNCHANGED <<threadCount, joined, held, open, shutdown>>
<1>0. LabelsOK /\ PoolOK
  BY DEF TypeOK
<1> USE <1>0, LabelFacts DEF LabelsOK, PoolOK, OwnerStays, WorkersStay, ClientLabels, OwnerLabels,
                       poolVars, lifeVars
<1>1. ASSUME NEW t \in Threads, MtxLock(t) PROVE Frame
  <2>1. LockMove(t)
    BY <1>1, LockEffect
  <2> QED
    BY <1>1, <2>1 DEF MtxLock, LockMove
<1>2. ASSUME NEW t \in Threads, SpuriousWakeup(t) PROVE Frame
  <2>1. SpuriousMove(t)
    BY <1>2, SpuriousEffect
  <2> QED
    BY <1>2, <2>1 DEF SpuriousWakeup, SpuriousMove
<1>3. ASSUME NEW t \in Threads, NEW k \in Tasks, AddTask(t, k) PROVE Frame
  BY <1>3 DEF AddTask, Goto, MayCall, Home
<1>4. ASSUME NEW t \in Threads, AddTaskAccepts(t) PROVE Frame
  <2>1. AcceptsMove(t)
    BY <1>4, AcceptsEffect
  <2> QED
    BY <1>4, <2>1, SMTT(60) DEF AddTaskAccepts, AcceptsMove, Enqueued, GrownCapacity,
       Unlock
<1>5. ASSUME NEW t \in Threads, AddTaskRefuses(t) PROVE Frame
  BY <1>5 DEF AddTaskRefuses, Unlock, Goto, Home
<1>6. ASSUME NEW w \in Workers, WorkerSleeps(w) PROVE Frame
  BY <1>6 DEF WorkerSleeps, Unlock, Goto
<1>7. ASSUME NEW w \in Workers, WorkerExits(w) PROVE Frame
  BY <1>7 DEF WorkerExits, Unlock, Goto
<1>8. ASSUME NEW w \in Workers, WorkerTakes(w) PROVE Frame
  BY <1>8 DEF WorkerTakes, Unlock, Goto
<1>9. ASSUME NEW w \in Workers, TaskReturns(w) PROVE Frame
  BY <1>9 DEF TaskReturns, Goto
<1>10. ASSUME NEW w \in Workers, WorkerBooks(w) PROVE Frame
  <2>1. BooksMove(w)
    BY <1>10, BooksEffect
  <2> QED
    BY <1>10, <2>1, SMTT(60) DEF WorkerBooks, BooksMove, Unlock
<1>11. ASSUME NEW c \in Clients, Wait(c) PROVE Frame
  BY <1>11 DEF Wait, Goto, MayCall, Home
<1>12. ASSUME NEW c \in Clients, WaitSleeps(c) PROVE Frame
  BY <1>12 DEF WaitSleeps, Unlock, Goto
<1>13. ASSUME NEW c \in Clients, WaitReturns(c) PROVE Frame
  BY <1>13 DEF WaitReturns, Unlock, Goto
<1>14. ASSUME NEW c \in Clients, PendingTasks(c) PROVE Frame
  BY <1>14 DEF PendingTasks, Goto, MayCall, Home
<1>15. ASSUME NEW c \in Clients, PendingReturns(c) PROVE Frame
  BY <1>15 DEF PendingReturns, Unlock, Goto
<1> QED
  BY <1>1, <1>2, <1>3, <1>4, <1>5, <1>6, <1>7, <1>8, <1>9, <1>10, <1>11,
     <1>12, <1>13, <1>14, <1>15 DEF CallStep, WorkerStep, AddTaskStep,
     ClientStep

\* The owner's progress determines which workers and resources exist.
LEMMA LifeStep ==
  TypeOK /\ LifeCycle /\ [Next]_vars => LifeCycle'
<1> SUFFICES ASSUME TypeOK, LifeCycle, [Next]_vars PROVE LifeCycle'
  OBVIOUS
<1>0. LabelsOK /\ PoolOK
  BY DEF TypeOK
<1> USE <1>0, LabelFacts
<1>1. CASE CallStep
  <2>1. /\ OwnerStays /\ WorkersStay /\ (capacity > 0 => capacity' > 0)
        /\ UNCHANGED <<threadCount, joined, held, open, shutdown>>
    BY <1>1, CallStepFrame
  <2>2. 1 .. joined \subseteq Workers
    BY PoolAssumption DEF PoolOK, Workers
  <2> QED
    BY <2>1, <2>2 DEF LifeCycle, OwnerStays, WorkersStay, ClientLabels
<1>2. CASE CreateInits
  BY <1>2, PoolAssumption DEF CreateInits, Goto, LifeCycle, LabelsOK,
     PoolOK, poolVars, lifeVars, Workers
<1>3. CASE CreateFails
  BY <1>3, PoolAssumption DEF CreateFails, CreateLeftovers, Goto, LifeCycle,
     LabelsOK, PoolOK, poolVars, lifeVars
<1>4. CASE SpawnWorker
  BY <1>4, PoolAssumption DEF SpawnWorker, LifeCycle, LabelsOK, PoolOK,
     poolVars, lifeVars, Workers
<1>5. CASE SpawnFails
  BY <1>5 DEF SpawnFails, Goto, LifeCycle, LabelsOK, PoolOK, poolVars,
     lifeVars
<1>6. CASE CreateReturns
  BY <1>6, PoolAssumption DEF CreateReturns, Goto, LifeCycle, LabelsOK,
     PoolOK, poolVars, lifeVars, Workers
<1>7. CASE Destroy
  BY <1>7 DEF Destroy, Goto, LifeCycle, LabelsOK, PoolOK, poolVars, lifeVars
<1>8. CASE DestroyAnnounces
  <2>1. AnnouncesMove
    BY <1>8, AnnouncesEffect
  <2> QED
    BY <1>8, <2>1, PoolAssumption DEF DestroyAnnounces, AnnouncesMove,
       Unlock, LifeCycle, LabelsOK, PoolOK, poolVars, lifeVars
<1>9. CASE DestroyJoins
  BY <1>9, PoolAssumption DEF DestroyJoins, LifeCycle, LabelsOK, PoolOK,
     poolVars, lifeVars, Workers
<1>10. CASE DestroyFrees
  BY <1>10, PoolAssumption DEF DestroyFrees, Goto, LifeCycle, LabelsOK,
     PoolOK, poolVars, lifeVars
<1>11. CASE UNCHANGED vars
  BY <1>11 DEF vars, poolVars, lifeVars, callVars, history, LifeCycle,
     LabelsOK, PoolOK, poolVars, lifeVars
<1> QED
  BY <1>1, <1>2, <1>3, <1>4, <1>5, <1>6, <1>7, <1>8, <1>9, <1>10, <1>11 DEF
     Next, CallStep, CreateStep, DestroyStep, Finished

-----------------------------------------------------------------------------
(* Mutual exclusion *)

LEMMA MutexInit == Init => MutualExclusion
BY LabelFacts DEF Init, MutualExclusion, Critical

\* A thread enters a critical section only by taking the mutex.
LEMMA MutexStep ==
  TypeOK /\ LifeCycle /\ MutualExclusion /\ [Next]_vars => MutualExclusion'
<1> SUFFICES ASSUME TypeOK, LifeCycle, MutualExclusion, [Next]_vars PROVE MutualExclusion'
  OBVIOUS
<1>0. LabelsOK /\ PoolOK
  BY DEF TypeOK
<1> USE <1>0, LabelFacts
<1>1. ASSUME NEW t \in Threads, MtxLock(t) PROVE MutualExclusion'
  <2>1. LockMove(t)
    BY <1>1, LockEffect
  <2> QED
    BY <1>1, <2>1 DEF MtxLock, LockMove, MutualExclusion, Critical, PoolOK,
       LabelsOK
<1>2. ASSUME NEW t \in Threads, SpuriousWakeup(t) PROVE MutualExclusion'
  <2>1. SpuriousMove(t)
    BY <1>2, SpuriousEffect
  <2> QED
    BY <1>2, <2>1 DEF SpuriousWakeup, SpuriousMove, MutualExclusion,
       Critical, PoolOK, LabelsOK
<1>3. ASSUME NEW t \in Threads, NEW k \in Tasks, AddTask(t, k) PROVE MutualExclusion'
  BY <1>3 DEF AddTask, Goto, MayCall, Home, MutualExclusion, Critical,
     PoolOK, LabelsOK
<1>4. ASSUME NEW t \in Threads, AddTaskAccepts(t) PROVE MutualExclusion'
  <2>1. AcceptsMove(t)
    BY <1>4, AcceptsEffect
  <2> QED
    BY <1>4, <2>1 DEF AddTaskAccepts, AcceptsMove, Enqueued, GrownCapacity,
       Unlock, MutualExclusion, Critical, PoolOK, LabelsOK
<1>5. ASSUME NEW t \in Threads, AddTaskRefuses(t) PROVE MutualExclusion'
  BY <1>5 DEF AddTaskRefuses, Unlock, Goto, Home, MutualExclusion, Critical,
     PoolOK, LabelsOK
<1>6. ASSUME NEW w \in Workers, WorkerSleeps(w) PROVE MutualExclusion'
  BY <1>6 DEF WorkerSleeps, Unlock, Goto, MutualExclusion, Critical, PoolOK,
     LabelsOK
<1>7. ASSUME NEW w \in Workers, WorkerExits(w) PROVE MutualExclusion'
  BY <1>7 DEF WorkerExits, Unlock, Goto, MutualExclusion, Critical, PoolOK,
     LabelsOK
<1>8. ASSUME NEW w \in Workers, WorkerTakes(w) PROVE MutualExclusion'
  BY <1>8 DEF WorkerTakes, Unlock, Goto, MutualExclusion, Critical, PoolOK,
     LabelsOK
<1>9. ASSUME NEW w \in Workers, TaskReturns(w) PROVE MutualExclusion'
  BY <1>9 DEF TaskReturns, Goto, MutualExclusion, Critical, PoolOK, LabelsOK
<1>10. ASSUME NEW w \in Workers, WorkerBooks(w) PROVE MutualExclusion'
  <2>1. BooksMove(w)
    BY <1>10, BooksEffect
  <2> QED
    BY <1>10, <2>1, SMTT(60) DEF WorkerBooks, BooksMove, Unlock, MutualExclusion,
       Critical, PoolOK, LabelsOK
<1>11. ASSUME NEW c \in Clients, Wait(c) PROVE MutualExclusion'
  BY <1>11 DEF Wait, Goto, MayCall, Home, MutualExclusion, Critical, PoolOK,
     LabelsOK
<1>12. ASSUME NEW c \in Clients, WaitSleeps(c) PROVE MutualExclusion'
  BY <1>12 DEF WaitSleeps, Unlock, Goto, MutualExclusion, Critical, PoolOK,
     LabelsOK
<1>13. ASSUME NEW c \in Clients, WaitReturns(c) PROVE MutualExclusion'
  BY <1>13 DEF WaitReturns, Unlock, Goto, MutualExclusion, Critical, PoolOK,
     LabelsOK
<1>14. ASSUME NEW c \in Clients, PendingTasks(c) PROVE MutualExclusion'
  BY <1>14 DEF PendingTasks, Goto, MayCall, Home, MutualExclusion, Critical,
     PoolOK, LabelsOK
<1>15. ASSUME NEW c \in Clients, PendingReturns(c) PROVE MutualExclusion'
  BY <1>15 DEF PendingReturns, Unlock, Goto, MutualExclusion, Critical,
     PoolOK, LabelsOK
<1>16. CASE CreateInits
  BY <1>16 DEF CreateInits, Goto, MutualExclusion, Critical, PoolOK,
     LabelsOK
<1>17. CASE CreateFails
  BY <1>17 DEF CreateFails, CreateLeftovers, Goto, MutualExclusion,
     Critical, PoolOK, LabelsOK
<1>18. CASE SpawnWorker
  BY <1>18, PoolAssumption DEF SpawnWorker, MutualExclusion, Critical,
     PoolOK, LabelsOK, Workers, LifeCycle
<1>19. CASE SpawnFails
  BY <1>19 DEF SpawnFails, Goto, MutualExclusion, Critical, PoolOK, LabelsOK
<1>20. CASE CreateReturns
  BY <1>20 DEF CreateReturns, Goto, MutualExclusion, Critical, PoolOK,
     LabelsOK
<1>21. CASE Destroy
  BY <1>21 DEF Destroy, Goto, MutualExclusion, Critical, PoolOK, LabelsOK
<1>22. CASE DestroyAnnounces
  <2>1. AnnouncesMove
    BY <1>22, AnnouncesEffect
  <2> QED
    BY <1>22, <2>1 DEF DestroyAnnounces, AnnouncesMove, Unlock,
       MutualExclusion, Critical, PoolOK, LabelsOK
<1>23. CASE DestroyJoins
  BY <1>23 DEF DestroyJoins, MutualExclusion, Critical, PoolOK, LabelsOK
<1>24. CASE DestroyFrees
  BY <1>24 DEF DestroyFrees, Goto, MutualExclusion, Critical, PoolOK,
     LabelsOK
<1>25. CASE UNCHANGED vars
  BY <1>25 DEF vars, poolVars, lifeVars, callVars, history, MutualExclusion,
     Critical, PoolOK, LabelsOK
<1> QED
  BY <1>1, <1>2, <1>3, <1>4, <1>5, <1>6, <1>7, <1>8, <1>9, <1>10, <1>11,
     <1>12, <1>13, <1>14, <1>15, <1>16, <1>17, <1>18, <1>19, <1>20, <1>21,
     <1>22, <1>23, <1>24, <1>25 DEF Next, WorkerStep, AddTaskStep,
     ClientStep, CreateStep, DestroyStep, Finished

-----------------------------------------------------------------------------
(* Workers leave for good, and every submission has a task of its own *)

LEMMA ExitsInit == Init => ExitsAreFinal
BY LabelFacts DEF Init, ExitsAreFinal

\* After shutdown nothing is added to an empty queue.
LEMMA ExitsStep ==
  TypeOK /\ ExitsAreFinal /\ [Next]_vars => ExitsAreFinal'
<1> SUFFICES ASSUME TypeOK, ExitsAreFinal, [Next]_vars PROVE ExitsAreFinal'
  OBVIOUS
<1>0. LabelsOK /\ PoolOK
  BY DEF TypeOK
<1> USE <1>0, LabelFacts
<1>1. ASSUME NEW t \in Threads, MtxLock(t) PROVE ExitsAreFinal'
  <2>1. LockMove(t)
    BY <1>1, LockEffect
  <2> QED
    BY <1>1, <2>1 DEF MtxLock, LockMove, ExitsAreFinal, LabelsOK, poolVars
<1>2. ASSUME NEW t \in Threads, SpuriousWakeup(t) PROVE ExitsAreFinal'
  <2>1. SpuriousMove(t)
    BY <1>2, SpuriousEffect
  <2> QED
    BY <1>2, <2>1 DEF SpuriousWakeup, SpuriousMove, ExitsAreFinal, LabelsOK,
       poolVars
<1>3. ASSUME NEW t \in Threads, NEW k \in Tasks, AddTask(t, k) PROVE ExitsAreFinal'
  BY <1>3 DEF AddTask, Goto, MayCall, Home, ExitsAreFinal, LabelsOK,
     poolVars
<1>4. ASSUME NEW t \in Threads, AddTaskAccepts(t) PROVE ExitsAreFinal'
  <2>1. AcceptsMove(t)
    BY <1>4, AcceptsEffect
  <2> QED
    BY <1>4, <2>1, SMTT(60) DEF AddTaskAccepts, AcceptsMove, Enqueued, GrownCapacity,
       Unlock, ExitsAreFinal, LabelsOK, poolVars
<1>5. ASSUME NEW t \in Threads, AddTaskRefuses(t) PROVE ExitsAreFinal'
  BY <1>5 DEF AddTaskRefuses, Unlock, Goto, Home, ExitsAreFinal, LabelsOK,
     poolVars
<1>6. ASSUME NEW w \in Workers, WorkerSleeps(w) PROVE ExitsAreFinal'
  BY <1>6 DEF WorkerSleeps, Unlock, Goto, ExitsAreFinal, LabelsOK, poolVars
<1>7. ASSUME NEW w \in Workers, WorkerExits(w) PROVE ExitsAreFinal'
  BY <1>7 DEF WorkerExits, Unlock, Goto, ExitsAreFinal, LabelsOK, poolVars
<1>8. ASSUME NEW w \in Workers, WorkerTakes(w) PROVE ExitsAreFinal'
  BY <1>8 DEF WorkerTakes, Unlock, Goto, ExitsAreFinal, LabelsOK, poolVars
<1>9. ASSUME NEW w \in Workers, TaskReturns(w) PROVE ExitsAreFinal'
  BY <1>9 DEF TaskReturns, Goto, ExitsAreFinal, LabelsOK, poolVars
<1>10. ASSUME NEW w \in Workers, WorkerBooks(w) PROVE ExitsAreFinal'
  <2>1. BooksMove(w)
    BY <1>10, BooksEffect
  <2> QED
    BY <1>10, <2>1 DEF WorkerBooks, BooksMove, Unlock, ExitsAreFinal,
       LabelsOK, poolVars
<1>11. ASSUME NEW c \in Clients, Wait(c) PROVE ExitsAreFinal'
  BY <1>11 DEF Wait, Goto, MayCall, Home, ExitsAreFinal, LabelsOK, poolVars
<1>12. ASSUME NEW c \in Clients, WaitSleeps(c) PROVE ExitsAreFinal'
  BY <1>12 DEF WaitSleeps, Unlock, Goto, ExitsAreFinal, LabelsOK, poolVars
<1>13. ASSUME NEW c \in Clients, WaitReturns(c) PROVE ExitsAreFinal'
  BY <1>13 DEF WaitReturns, Unlock, Goto, ExitsAreFinal, LabelsOK, poolVars
<1>14. ASSUME NEW c \in Clients, PendingTasks(c) PROVE ExitsAreFinal'
  BY <1>14 DEF PendingTasks, Goto, MayCall, Home, ExitsAreFinal, LabelsOK,
     poolVars
<1>15. ASSUME NEW c \in Clients, PendingReturns(c) PROVE ExitsAreFinal'
  BY <1>15 DEF PendingReturns, Unlock, Goto, ExitsAreFinal, LabelsOK,
     poolVars
<1>16. CASE CreateInits
  BY <1>16 DEF CreateInits, Goto, ExitsAreFinal, LabelsOK, poolVars
<1>17. CASE CreateFails
  BY <1>17 DEF CreateFails, CreateLeftovers, Goto, ExitsAreFinal, LabelsOK,
     poolVars
<1>18. CASE SpawnWorker
  BY <1>18 DEF SpawnWorker, ExitsAreFinal, LabelsOK, poolVars, PoolOK
<1>19. CASE SpawnFails
  BY <1>19 DEF SpawnFails, Goto, ExitsAreFinal, LabelsOK, poolVars
<1>20. CASE CreateReturns
  BY <1>20 DEF CreateReturns, Goto, ExitsAreFinal, LabelsOK, poolVars
<1>21. CASE Destroy
  BY <1>21 DEF Destroy, Goto, ExitsAreFinal, LabelsOK, poolVars
<1>22. CASE DestroyAnnounces
  <2>1. AnnouncesMove
    BY <1>22, AnnouncesEffect
  <2> QED
    BY <1>22, <2>1 DEF DestroyAnnounces, AnnouncesMove, Unlock,
       ExitsAreFinal, LabelsOK, poolVars
<1>23. CASE DestroyJoins
  BY <1>23 DEF DestroyJoins, ExitsAreFinal, LabelsOK, poolVars
<1>24. CASE DestroyFrees
  BY <1>24 DEF DestroyFrees, Goto, ExitsAreFinal, LabelsOK, poolVars
<1>25. CASE UNCHANGED vars
  BY <1>25 DEF vars, poolVars, lifeVars, callVars, history, ExitsAreFinal,
     LabelsOK, poolVars
<1> QED
  BY <1>1, <1>2, <1>3, <1>4, <1>5, <1>6, <1>7, <1>8, <1>9, <1>10, <1>11,
     <1>12, <1>13, <1>14, <1>15, <1>16, <1>17, <1>18, <1>19, <1>20, <1>21,
     <1>22, <1>23, <1>24, <1>25, SMTT(60) DEF Next, WorkerStep, AddTaskStep,
     ClientStep, CreateStep, DestroyStep, Finished

LEMMA ArgumentsInit == Init => ArgumentsFresh
BY LabelFacts DEF Init, ArgumentsFresh

\* A task is offered once, and accepted by the call that carries it.
LEMMA ArgumentsStep ==
  TypeOK /\ ArgumentsFresh /\ [Next]_vars => ArgumentsFresh'
<1> SUFFICES ASSUME TypeOK, ArgumentsFresh, [Next]_vars PROVE ArgumentsFresh'
  OBVIOUS
<1>0. LabelsOK /\ PoolOK /\ CallsOK
  BY DEF TypeOK
<1> USE <1>0, LabelFacts
<1>1. ASSUME NEW t \in Threads, MtxLock(t) PROVE ArgumentsFresh'
  <2>1. LockMove(t)
    BY <1>1, LockEffect
  <2> QED
    BY <1>1, <2>1 DEF MtxLock, LockMove, ArgumentsFresh, LabelsOK, CallsOK,
       callVars, history
<1>2. ASSUME NEW t \in Threads, SpuriousWakeup(t) PROVE ArgumentsFresh'
  <2>1. SpuriousMove(t)
    BY <1>2, SpuriousEffect
  <2> QED
    BY <1>2, <2>1 DEF SpuriousWakeup, SpuriousMove, ArgumentsFresh,
       LabelsOK, CallsOK, callVars, history
<1>3. ASSUME NEW t \in Threads, NEW k \in Tasks, AddTask(t, k) PROVE ArgumentsFresh'
  BY <1>3 DEF AddTask, Goto, MayCall, Home, ArgumentsFresh, LabelsOK,
     CallsOK, callVars, history
<1>4. ASSUME NEW t \in Threads, AddTaskAccepts(t) PROVE ArgumentsFresh'
  <2>1. AcceptsMove(t)
    BY <1>4, AcceptsEffect
  <2> QED
    BY <1>4, <2>1 DEF AddTaskAccepts, AcceptsMove, Enqueued, GrownCapacity,
       Unlock, ArgumentsFresh, LabelsOK, CallsOK, callVars, history
<1>5. ASSUME NEW t \in Threads, AddTaskRefuses(t) PROVE ArgumentsFresh'
  BY <1>5 DEF AddTaskRefuses, Unlock, Goto, Home, ArgumentsFresh, LabelsOK,
     CallsOK, callVars, history
<1>6. ASSUME NEW w \in Workers, WorkerSleeps(w) PROVE ArgumentsFresh'
  BY <1>6 DEF WorkerSleeps, Unlock, Goto, ArgumentsFresh, LabelsOK, CallsOK,
     callVars, history
<1>7. ASSUME NEW w \in Workers, WorkerExits(w) PROVE ArgumentsFresh'
  BY <1>7 DEF WorkerExits, Unlock, Goto, ArgumentsFresh, LabelsOK, CallsOK,
     callVars, history
<1>8. ASSUME NEW w \in Workers, WorkerTakes(w) PROVE ArgumentsFresh'
  BY <1>8 DEF WorkerTakes, Unlock, Goto, ArgumentsFresh, LabelsOK, CallsOK,
     callVars, history
<1>9. ASSUME NEW w \in Workers, TaskReturns(w) PROVE ArgumentsFresh'
  BY <1>9 DEF TaskReturns, Goto, ArgumentsFresh, LabelsOK, CallsOK,
     callVars, history
<1>10. ASSUME NEW w \in Workers, WorkerBooks(w) PROVE ArgumentsFresh'
  <2>1. BooksMove(w)
    BY <1>10, BooksEffect
  <2> QED
    BY <1>10, <2>1, ZenonT(60) DEF WorkerBooks, BooksMove, Unlock, ArgumentsFresh,
       LabelsOK, CallsOK, callVars, history
<1>11. ASSUME NEW c \in Clients, Wait(c) PROVE ArgumentsFresh'
  BY <1>11 DEF Wait, Goto, MayCall, Home, ArgumentsFresh, LabelsOK, CallsOK,
     callVars, history
<1>12. ASSUME NEW c \in Clients, WaitSleeps(c) PROVE ArgumentsFresh'
  BY <1>12 DEF WaitSleeps, Unlock, Goto, ArgumentsFresh, LabelsOK, CallsOK,
     callVars, history
<1>13. ASSUME NEW c \in Clients, WaitReturns(c) PROVE ArgumentsFresh'
  BY <1>13 DEF WaitReturns, Unlock, Goto, ArgumentsFresh, LabelsOK, CallsOK,
     callVars, history
<1>14. ASSUME NEW c \in Clients, PendingTasks(c) PROVE ArgumentsFresh'
  BY <1>14 DEF PendingTasks, Goto, MayCall, Home, ArgumentsFresh, LabelsOK,
     CallsOK, callVars, history
<1>15. ASSUME NEW c \in Clients, PendingReturns(c) PROVE ArgumentsFresh'
  BY <1>15 DEF PendingReturns, Unlock, Goto, ArgumentsFresh, LabelsOK,
     CallsOK, callVars, history
<1>16. CASE CreateInits
  BY <1>16 DEF CreateInits, Goto, ArgumentsFresh, LabelsOK, CallsOK,
     callVars, history
<1>17. CASE CreateFails
  BY <1>17 DEF CreateFails, CreateLeftovers, Goto, ArgumentsFresh, LabelsOK,
     CallsOK, callVars, history
<1>18. CASE SpawnWorker
  BY <1>18 DEF SpawnWorker, ArgumentsFresh, LabelsOK, CallsOK, callVars,
     history
<1>19. CASE SpawnFails
  BY <1>19 DEF SpawnFails, Goto, ArgumentsFresh, LabelsOK, CallsOK,
     callVars, history
<1>20. CASE CreateReturns
  BY <1>20 DEF CreateReturns, Goto, ArgumentsFresh, LabelsOK, CallsOK,
     callVars, history
<1>21. CASE Destroy
  BY <1>21 DEF Destroy, Goto, ArgumentsFresh, LabelsOK, CallsOK, callVars,
     history
<1>22. CASE DestroyAnnounces
  <2>1. AnnouncesMove
    BY <1>22, AnnouncesEffect
  <2> QED
    BY <1>22, <2>1 DEF DestroyAnnounces, AnnouncesMove, Unlock,
       ArgumentsFresh, LabelsOK, CallsOK, callVars, history
<1>23. CASE DestroyJoins
  BY <1>23 DEF DestroyJoins, ArgumentsFresh, LabelsOK, CallsOK, callVars,
     history
<1>24. CASE DestroyFrees
  BY <1>24 DEF DestroyFrees, Goto, ArgumentsFresh, LabelsOK, CallsOK,
     callVars, history
<1>25. CASE UNCHANGED vars
  BY <1>25 DEF vars, poolVars, lifeVars, callVars, history, ArgumentsFresh,
     LabelsOK, CallsOK, callVars, history
<1> QED
  BY <1>1, <1>2, <1>3, <1>4, <1>5, <1>6, <1>7, <1>8, <1>9, <1>10, <1>11,
     <1>12, <1>13, <1>14, <1>15, <1>16, <1>17, <1>18, <1>19, <1>20, <1>21,
     <1>22, <1>23, <1>24, <1>25, SMTT(60) DEF Next, WorkerStep, AddTaskStep,
     ClientStep, CreateStep, DestroyStep, Finished

-----------------------------------------------------------------------------
(* Conservation of tasks *)

\* Appending a task that is not in the queue.
LEMMA QueueAppend ==
  ASSUME NEW q \in Seq(Tasks), NEW k \in Tasks
  PROVE  LET r == Append(q, k) IN
         /\ r \in Seq(Tasks)
         /\ Len(r) = Len(q) + 1
         /\ \A i \in 1 .. Len(q) : r[i] = q[i]
         /\ r[Len(q) + 1] = k
OBVIOUS

\* Removing the oldest task.
LEMMA QueueTail ==
  ASSUME NEW q \in Seq(Tasks), q # <<>>
  PROVE  LET r == Tail(q) IN
         /\ r \in Seq(Tasks)
         /\ Len(q) \in Nat /\ Len(q) > 0 /\ Len(r) = Len(q) - 1
         /\ \A i \in 1 .. Len(r) : r[i] = q[i + 1]
         /\ Head(q) = q[1] /\ Head(q) \in Tasks
OBVIOUS

LEMMA ConservedInit == Init => TasksConserved
BY LabelFacts DEF Init, TasksConserved, Queued, Running, Executing

\* When the join loop is over every worker has left its loop and no accepted
\* task is waiting or running.
LEMMA JoinedFacts ==
  ASSUME TypeOK, LifeCycle, Usage, ExitsAreFinal, ArgumentsFresh,
         TasksConserved, Joined
  PROVE  /\ \A w \in Workers : pc[w] \in {"none", "exited"}
         /\ taskQueue = <<>>
         /\ accepted = finished
<1>0. LabelsOK /\ PoolOK /\ CallsOK
  BY DEF TypeOK
<1>1. \A w \in Workers : pc[w] \in {"none", "exited"}
  BY <1>0, PoolAssumption DEF Joined, LifeCycle, PoolOK, Workers
<1>2. taskQueue = <<>>
  <2>1. CASE threadCount = 0
    <3>1. accepted = {}
      BY <2>1, <1>0, PoolAssumption
         DEF Joined, LifeCycle, Usage, ArgumentsFresh
    <3> QED
      BY <3>1, <1>0, SMTT(60) DEF TasksConserved, Queued, PoolOK
  <2>2. CASE threadCount > 0
    <3>1. 1 \in Workers /\ pc[1] = "exited"
      BY <2>2, <1>0, PoolAssumption DEF Joined, LifeCycle, PoolOK, Workers
    <3> QED
      BY <3>1 DEF ExitsAreFinal
  <2> QED
    BY <2>1, <2>2, <1>0, PoolAssumption DEF PoolOK
<1>3. Queued = {} /\ Executing = {}
  BY <1>1, <1>2 DEF Queued, Executing
<1> QED
  BY <1>1, <1>2, <1>3 DEF TasksConserved, Running

\* A step that moves no task keeps the tasks where they are.
LEMMA ConservedFrame ==
  ASSUME TasksConserved, UNCHANGED <<taskQueue, accepted, finished>>,
         Executing' = Executing, \A w \in Executing : task'[w] = task[w]
  PROVE  TasksConserved'
<1>1. Running' = Running
  BY DEF Running
<1>2. Queued' = Queued
  BY DEF Queued
<1> QED
  BY <1>1, <1>2 DEF TasksConserved

\* No step loses, duplicates or repeats a task.
LEMMA ConservedStep ==
  TypeOK /\ LifeCycle /\ Usage /\ ExitsAreFinal /\ ArgumentsFresh /\ TasksConserved /\ [Next]_vars => TasksConserved'
<1> SUFFICES ASSUME TypeOK, LifeCycle, Usage, ExitsAreFinal, ArgumentsFresh, TasksConserved, [Next]_vars PROVE TasksConserved'
  OBVIOUS
<1>0. LabelsOK /\ PoolOK /\ CallsOK
  BY DEF TypeOK
<1> USE <1>0, LabelFacts
<1>1. ASSUME NEW t \in Threads, MtxLock(t) PROVE TasksConserved'
  <2>0. LockMove(t)
    BY <1>1, LockEffect
  <2>1. Executing' = Executing
    BY <1>1, <2>0 DEF MtxLock, LockMove, LabelsOK, Executing
  <2> QED
    BY <1>1, <2>1, ConservedFrame DEF MtxLock, poolVars, history
<1>2. ASSUME NEW t \in Threads, SpuriousWakeup(t) PROVE TasksConserved'
  <2>0. SpuriousMove(t)
    BY <1>2, SpuriousEffect
  <2>1. Executing' = Executing
    BY <1>2, <2>0 DEF SpuriousWakeup, SpuriousMove, LabelsOK, Executing
  <2> QED
    BY <1>2, <2>1, ConservedFrame DEF SpuriousWakeup, poolVars, history
<1>3. ASSUME NEW t \in Threads, NEW k \in Tasks, AddTask(t, k) PROVE TasksConserved'
  <2>1. Executing' = Executing
    BY <1>3 DEF AddTask, Goto, MayCall, Home, LabelsOK, Executing
  <2> QED
    BY <1>3, <2>1, ConservedFrame DEF AddTask, poolVars, history
<1>4. ASSUME NEW t \in Threads, AddTaskAccepts(t) PROVE TasksConserved'
  <2>0. AcceptsMove(t)
    BY <1>4, AcceptsEffect
  <2>1. Executing' = Executing
    BY <1>4, <2>0 DEF AcceptsMove, Executing, LabelsOK
  <2>2. Running' = Running
    BY <1>4, <2>1 DEF AddTaskAccepts, Running
  <2>3. arg[t] \in Tasks /\ arg[t] \notin accepted
    BY <1>4 DEF AddTaskAccepts, CallsOK, ArgumentsFresh
  <2>4. taskQueue' = Append(taskQueue, arg[t]) /\ taskQueue \in Seq(Tasks)
    BY <1>4 DEF AddTaskAccepts, Enqueued, PoolOK
  <2>5. Queued' = Queued \cup {arg[t]}
    <3>1. \A k : k \in Queued' <=> k \in Queued \cup {arg[t]}
      BY <2>3, <2>4, QueueAppend DEF Queued
    <3> QED
      BY <3>1
  <2>6. \A i, j \in 1 .. Len(taskQueue') :
          taskQueue'[i] = taskQueue'[j] => i = j
    <3>1. \A i \in 1 .. Len(taskQueue) : taskQueue[i] # arg[t]
      BY <2>3 DEF TasksConserved, Queued
    <3>2. \A i, j \in 1 .. Len(taskQueue) : taskQueue[i] = taskQueue[j] => i = j
      BY DEF TasksConserved
    <3> QED
      BY <2>3, <2>4, <3>1, <3>2, QueueAppend
  <2>7. accepted' = accepted \cup {arg[t]} /\ finished' = finished /\ task' = task
    BY <1>4 DEF AddTaskAccepts
  <2> QED
    BY <2>1, <2>2, <2>3, <2>5, <2>6, <2>7 DEF TasksConserved
<1>5. ASSUME NEW t \in Threads, AddTaskRefuses(t) PROVE TasksConserved'
  <2>1. Executing' = Executing
    BY <1>5 DEF AddTaskRefuses, Unlock, Goto, Home, LabelsOK, Executing
  <2> QED
    BY <1>5, <2>1, ConservedFrame DEF AddTaskRefuses, poolVars, history
<1>6. ASSUME NEW w \in Workers, WorkerSleeps(w) PROVE TasksConserved'
  <2>1. Executing' = Executing
    BY <1>6 DEF WorkerSleeps, Unlock, Goto, LabelsOK, Executing
  <2> QED
    BY <1>6, <2>1, ConservedFrame DEF WorkerSleeps, poolVars, history
<1>7. ASSUME NEW w \in Workers, WorkerExits(w) PROVE TasksConserved'
  <2>1. Executing' = Executing
    BY <1>7 DEF WorkerExits, Unlock, Goto, LabelsOK, Executing
  <2> QED
    BY <1>7, <2>1, ConservedFrame DEF WorkerExits, poolVars, history
<1>8. ASSUME NEW w \in Workers, WorkerTakes(w) PROVE TasksConserved'
  <2> DEFINE h == Head(taskQueue)
  <2>1. pc[w] = "wLoop" /\ pc'[w] = "run" /\ \A x \in Threads \ {w} : pc'[x] = pc[x]
    BY <1>8 DEF WorkerTakes, Unlock, Goto
  <2>2. Executing' = Executing \cup {w} /\ w \notin Executing
    BY <2>1 DEF Executing
  <2>3. taskQueue \in Seq(Tasks) /\ taskQueue # <<>> /\ taskQueue' = Tail(taskQueue)
    BY <1>8 DEF WorkerTakes, PoolOK
  <2>4. task'[w] = h /\ \A x \in Executing : task'[x] = task[x]
    BY <1>8, <2>2 DEF WorkerTakes, CallsOK, Executing
  <2>5. Running' = Running \cup {h}
    BY <2>2, <2>4 DEF Running
  <2>6. \A i, j \in 1 .. Len(taskQueue) : taskQueue[i] = taskQueue[j] => i = j
    BY DEF TasksConserved
  <2>7. h \in Queued
    BY <2>3, QueueTail DEF Queued
  <2>8. Queued' = Queued \ {h}
    <3>1. ASSUME NEW k \in Queued' PROVE k \in Queued \ {h}
      <4>1. PICK i \in 1 .. Len(taskQueue') : k = taskQueue'[i]
        BY <3>1 DEF Queued
      <4>2. i + 1 \in 1 .. Len(taskQueue) /\ k = taskQueue[i + 1] /\ i + 1 # 1
        BY <4>1, <2>3, QueueTail
      <4>3. 1 \in 1 .. Len(taskQueue) /\ h = taskQueue[1]
        BY <2>3, QueueTail
      <4> QED
        BY <4>2, <4>3, <2>6 DEF Queued
    <3>2. ASSUME NEW k \in Queued \ {h} PROVE k \in Queued'
      <4>1. PICK i \in 1 .. Len(taskQueue) : k = taskQueue[i]
        BY <3>2 DEF Queued
      <4>2. i # 1
        BY <3>2, <4>1, <2>3, QueueTail
      <4>3. i - 1 \in 1 .. Len(taskQueue') /\ k = taskQueue'[i - 1]
        BY <4>1, <4>2, <2>3, QueueTail
      <4> QED
        BY <4>3 DEF Queued
    <3> QED
      BY <3>1, <3>2
  <2>9. \A i, j \in 1 .. Len(taskQueue') :
          taskQueue'[i] = taskQueue'[j] => i = j
    BY <2>3, <2>6, QueueTail
  <2>10. accepted' = accepted /\ finished' = finished
    BY <1>8 DEF WorkerTakes, history
  <2>11. \A u, v \in Executing' : task'[u] = task'[v] => u = v
    <3>1. \A u \in Executing : task[u] # h
      BY <2>7 DEF TasksConserved, Running
    <3> QED
      BY <3>1, <2>2, <2>4 DEF TasksConserved
  <2> HIDE DEF h
  <2> QED
    BY <2>5, <2>7, <2>8, <2>9, <2>10, <2>11 DEF TasksConserved
<1>9. ASSUME NEW w \in Workers, TaskReturns(w) PROVE TasksConserved'
  <2>1. pc[w] = "run" /\ pc'[w] = "fLock" /\ \A x \in Threads \ {w} : pc'[x] = pc[x]
    BY <1>9 DEF TaskReturns, Goto
  <2>2. Executing' = Executing \ {w} /\ w \in Executing
    BY <2>1 DEF Executing
  <2>3. task' = task /\ taskQueue' = taskQueue /\ accepted' = accepted
        /\ finished' = finished \cup {task[w]}
    BY <1>9 DEF TaskReturns, poolVars
  <2>4. \A u, v \in Executing : task[u] = task[v] => u = v
    BY DEF TasksConserved
  <2>5. Running' = Running \ {task[w]} /\ task[w] \in Running
    BY <2>2, <2>3, <2>4 DEF Running
  <2>6. Queued' = Queued
    BY <2>3 DEF Queued
  <2> QED
    BY <2>2, <2>3, <2>4, <2>5, <2>6 DEF TasksConserved
<1>10. ASSUME NEW w \in Workers, WorkerBooks(w) PROVE TasksConserved'
  <2>0. BooksMove(w)
    BY <1>10, BooksEffect
  <2>1. Executing' = Executing
    BY <1>10, <2>0 DEF WorkerBooks, BooksMove, LabelsOK, Executing
  <2>2. \A x \in Executing : task'[x] = task[x]
    BY <1>10 DEF WorkerBooks, CallsOK, Executing
  <2> QED
    BY <1>10, <2>1, <2>2, ConservedFrame DEF WorkerBooks, history
<1>11. ASSUME NEW c \in Clients, Wait(c) PROVE TasksConserved'
  <2>1. Executing' = Executing
    BY <1>11 DEF Wait, Goto, MayCall, Home, LabelsOK, Executing
  <2> QED
    BY <1>11, <2>1, ConservedFrame DEF Wait, poolVars, history
<1>12. ASSUME NEW c \in Clients, WaitSleeps(c) PROVE TasksConserved'
  <2>1. Executing' = Executing
    BY <1>12 DEF WaitSleeps, Unlock, Goto, LabelsOK, Executing
  <2> QED
    BY <1>12, <2>1, ConservedFrame DEF WaitSleeps, poolVars, history
<1>13. ASSUME NEW c \in Clients, WaitReturns(c) PROVE TasksConserved'
  <2>1. Executing' = Executing
    BY <1>13 DEF WaitReturns, Unlock, Goto, LabelsOK, Executing
  <2> QED
    BY <1>13, <2>1, ConservedFrame DEF WaitReturns, poolVars, history
<1>14. ASSUME NEW c \in Clients, PendingTasks(c) PROVE TasksConserved'
  <2>1. Executing' = Executing
    BY <1>14 DEF PendingTasks, Goto, MayCall, Home, LabelsOK, Executing
  <2> QED
    BY <1>14, <2>1, ConservedFrame DEF PendingTasks, poolVars, history
<1>15. ASSUME NEW c \in Clients, PendingReturns(c) PROVE TasksConserved'
  <2>1. Executing' = Executing
    BY <1>15 DEF PendingReturns, Unlock, Goto, LabelsOK, Executing
  <2> QED
    BY <1>15, <2>1, ConservedFrame DEF PendingReturns, poolVars, history
<1>16. CASE CreateInits
  <2>1. Executing' = Executing
    BY <1>16 DEF CreateInits, Goto, LabelsOK, Executing
  <2> QED
    BY <1>16, <2>1, ConservedFrame DEF CreateInits, poolVars, history
<1>17. CASE CreateFails
  <2>1. Executing' = Executing
    BY <1>17 DEF CreateFails, CreateLeftovers, Goto, LabelsOK, Executing
  <2> QED
    BY <1>17, <2>1, ConservedFrame DEF CreateFails, poolVars, history
<1>18. CASE SpawnWorker
  <2>1. Executing' = Executing
    BY <1>18, PoolAssumption DEF SpawnWorker, LabelsOK, Executing, PoolOK,
       LifeCycle, Workers
  <2> QED
    BY <1>18, <2>1, ConservedFrame DEF SpawnWorker, poolVars, history
<1>19. CASE SpawnFails
  <2>1. Executing' = Executing
    BY <1>19 DEF SpawnFails, Goto, LabelsOK, Executing
  <2> QED
    BY <1>19, <2>1, ConservedFrame DEF SpawnFails, poolVars, history
<1>20. CASE CreateReturns
  <2>1. Executing' = Executing
    BY <1>20 DEF CreateReturns, Goto, LabelsOK, Executing
  <2> QED
    BY <1>20, <2>1, ConservedFrame DEF CreateReturns, poolVars, history
<1>21. CASE Destroy
  <2>1. Executing' = Executing
    BY <1>21 DEF Destroy, Goto, LabelsOK, Executing
  <2> QED
    BY <1>21, <2>1, ConservedFrame DEF Destroy, poolVars, history
<1>22. CASE DestroyAnnounces
  <2>0. AnnouncesMove
    BY <1>22, AnnouncesEffect
  <2>1. Executing' = Executing
    BY <1>22, <2>0 DEF DestroyAnnounces, AnnouncesMove, LabelsOK, Executing
  <2> QED
    BY <1>22, <2>1, ConservedFrame DEF DestroyAnnounces, poolVars, history
<1>23. CASE DestroyJoins
  <2>1. Executing' = Executing
    BY <1>23 DEF DestroyJoins, LabelsOK, Executing
  <2> QED
    BY <1>23, <2>1, ConservedFrame DEF DestroyJoins, poolVars, history
<1>24. CASE DestroyFrees
  <2>1. taskQueue = <<>> /\ taskQueue' = <<>>
    BY <1>24, JoinedFacts DEF DestroyFrees, Joined
  <2>2. Executing' = Executing
    BY <1>24 DEF DestroyFrees, Goto, LabelsOK, Executing
  <2> QED
    BY <1>24, <2>1, <2>2, ConservedFrame DEF DestroyFrees, history
<1>25. CASE UNCHANGED vars
  <2>1. Executing' = Executing
    BY <1>25 DEF Executing, vars
  <2> QED
    BY <1>25, <2>1, ConservedFrame DEF vars, poolVars, history
<1> QED
  BY <1>1, <1>2, <1>3, <1>4, <1>5, <1>6, <1>7, <1>8, <1>9, <1>10, <1>11,
     <1>12, <1>13, <1>14, <1>15, <1>16, <1>17, <1>18, <1>19, <1>20, <1>21,
     <1>22, <1>23, <1>24, <1>25 DEF Next, WorkerStep, AddTaskStep,
     ClientStep, CreateStep, DestroyStep, Finished

-----------------------------------------------------------------------------
(* Use of the pool before it is open and after it is closed *)

LEMMA UsageInit == Init => Usage
BY LabelFacts DEF Init, Usage

\* Callers respect the life of the pool.
LEMMA UsageStep ==
  TypeOK /\ LifeCycle /\ Usage /\ ExitsAreFinal /\ ArgumentsFresh /\ TasksConserved /\ [Next]_vars => Usage'
<1> SUFFICES ASSUME TypeOK, LifeCycle, Usage, ExitsAreFinal, ArgumentsFresh, TasksConserved, [Next]_vars PROVE Usage'
  OBVIOUS
<1>0. LabelsOK /\ PoolOK /\ CallsOK
  BY DEF TypeOK
<1> USE <1>0, LabelFacts
<1>1. ASSUME NEW t \in Threads, MtxLock(t) PROVE Usage'
  <2>1. LockMove(t)
    BY <1>1, LockEffect
  <2> QED
    BY <1>1, <2>1 DEF MtxLock, LockMove, Usage, LabelsOK, PoolOK, lifeVars,
       poolVars, callVars
<1>2. ASSUME NEW t \in Threads, SpuriousWakeup(t) PROVE Usage'
  <2>1. SpuriousMove(t)
    BY <1>2, SpuriousEffect
  <2> QED
    BY <1>2, <2>1 DEF SpuriousWakeup, SpuriousMove, Usage, LabelsOK, PoolOK,
       lifeVars, poolVars, callVars
<1>3. ASSUME NEW t \in Threads, NEW k \in Tasks, AddTask(t, k) PROVE Usage'
  <2>1. t \in Workers => offered # {}
    BY <1>3, SMTT(60) DEF AddTask, MayCall, Home, TasksConserved, Running, Executing,
            ArgumentsFresh
  <2> QED
    BY <1>3, <2>1 DEF AddTask, MayCall, Home, Goto, Usage, LifeCycle, LabelsOK,
            lifeVars, poolVars
<1>4. ASSUME NEW t \in Threads, AddTaskAccepts(t) PROVE Usage'
  <2>1. AcceptsMove(t)
    BY <1>4, AcceptsEffect
  <2> QED
    BY <1>4, <2>1, SMTT(60) DEF AddTaskAccepts, AcceptsMove, Enqueued, GrownCapacity,
       Unlock, Usage, LabelsOK, PoolOK, lifeVars, poolVars, callVars
<1>5. ASSUME NEW t \in Threads, AddTaskRefuses(t) PROVE Usage'
  BY <1>5 DEF AddTaskRefuses, Unlock, Goto, Home, Usage, LabelsOK, PoolOK,
     lifeVars, poolVars, callVars
<1>6. ASSUME NEW w \in Workers, WorkerSleeps(w) PROVE Usage'
  BY <1>6 DEF WorkerSleeps, Unlock, Goto, Usage, LabelsOK, PoolOK, lifeVars,
     poolVars, callVars
<1>7. ASSUME NEW w \in Workers, WorkerExits(w) PROVE Usage'
  BY <1>7 DEF WorkerExits, Unlock, Goto, Usage, LabelsOK, PoolOK, lifeVars,
     poolVars, callVars
<1>8. ASSUME NEW w \in Workers, WorkerTakes(w) PROVE Usage'
  BY <1>8 DEF WorkerTakes, Unlock, Goto, Usage, LabelsOK, PoolOK, lifeVars,
     poolVars, callVars
<1>9. ASSUME NEW w \in Workers, TaskReturns(w) PROVE Usage'
  BY <1>9 DEF TaskReturns, Goto, Usage, LabelsOK, PoolOK, lifeVars,
     poolVars, callVars
<1>10. ASSUME NEW w \in Workers, WorkerBooks(w) PROVE Usage'
  <2>1. BooksMove(w)
    BY <1>10, BooksEffect
  <2> QED
    BY <1>10, <2>1 DEF WorkerBooks, BooksMove, Unlock, Usage, LabelsOK,
       PoolOK, lifeVars, poolVars, callVars
<1>11. ASSUME NEW c \in Clients, Wait(c) PROVE Usage'
  BY <1>11 DEF Wait, Goto, MayCall, Home, Usage, LabelsOK, PoolOK, lifeVars,
     poolVars, callVars, LifeCycle
<1>12. ASSUME NEW c \in Clients, WaitSleeps(c) PROVE Usage'
  BY <1>12 DEF WaitSleeps, Unlock, Goto, Usage, LabelsOK, PoolOK, lifeVars,
     poolVars, callVars
<1>13. ASSUME NEW c \in Clients, WaitReturns(c) PROVE Usage'
  BY <1>13 DEF WaitReturns, Unlock, Goto, Usage, LabelsOK, PoolOK, lifeVars,
     poolVars, callVars
<1>14. ASSUME NEW c \in Clients, PendingTasks(c) PROVE Usage'
  BY <1>14 DEF PendingTasks, Goto, MayCall, Home, Usage, LabelsOK, PoolOK,
     lifeVars, poolVars, callVars, LifeCycle
<1>15. ASSUME NEW c \in Clients, PendingReturns(c) PROVE Usage'
  BY <1>15 DEF PendingReturns, Unlock, Goto, Usage, LabelsOK, PoolOK,
     lifeVars, poolVars, callVars
<1>16. CASE CreateInits
  BY <1>16 DEF CreateInits, Goto, Usage, LabelsOK, PoolOK, lifeVars,
     poolVars, callVars, LifeCycle
<1>17. CASE CreateFails
  BY <1>17 DEF CreateFails, CreateLeftovers, Goto, Usage, LabelsOK, PoolOK,
     lifeVars, poolVars, callVars, LifeCycle
<1>18. CASE SpawnWorker
  BY <1>18, PoolAssumption DEF SpawnWorker, Usage, LabelsOK, PoolOK,
     lifeVars, poolVars, callVars, LifeCycle, Workers
<1>19. CASE SpawnFails
  BY <1>19 DEF SpawnFails, Goto, Usage, LabelsOK, PoolOK, lifeVars,
     poolVars, callVars, LifeCycle
<1>20. CASE CreateReturns
  BY <1>20, PoolAssumption DEF CreateReturns, Goto, Usage, LabelsOK, PoolOK,
     lifeVars, poolVars, callVars, LifeCycle
<1>21. CASE Destroy
  BY <1>21 DEF Destroy, Goto, Usage, LabelsOK, PoolOK, lifeVars, poolVars,
     callVars, LifeCycle
<1>22. CASE DestroyAnnounces
  <2>1. AnnouncesMove
    BY <1>22, AnnouncesEffect
  <2> QED
    BY <1>22, <2>1 DEF DestroyAnnounces, AnnouncesMove, Unlock, Usage,
       LabelsOK, PoolOK, lifeVars, poolVars, callVars, LifeCycle
<1>23. CASE DestroyJoins
  BY <1>23 DEF DestroyJoins, Usage, LabelsOK, PoolOK, lifeVars, poolVars,
     callVars
<1>24. CASE DestroyFrees
  BY <1>24 DEF DestroyFrees, Goto, Usage, LabelsOK, PoolOK, lifeVars,
     poolVars, callVars, LifeCycle
<1>25. CASE UNCHANGED vars
  BY <1>25 DEF vars, poolVars, lifeVars, callVars, history, Usage, LabelsOK,
     PoolOK, lifeVars, poolVars, callVars
<1> QED
  BY <1>1, <1>2, <1>3, <1>4, <1>5, <1>6, <1>7, <1>8, <1>9, <1>10, <1>11,
     <1>12, <1>13, <1>14, <1>15, <1>16, <1>17, <1>18, <1>19, <1>20, <1>21,
     <1>22, <1>23, <1>24, <1>25, SMTT(60) DEF Next, WorkerStep, AddTaskStep,
     ClientStep, CreateStep, DestroyStep, Finished

LEMMA GoneInit == Init => GoneForGood
BY LabelFacts DEF Init, GoneForGood

\* Nothing happens in a pool that is gone.
LEMMA GoneStep ==
  TypeOK /\ LifeCycle /\ Usage /\ ExitsAreFinal /\ ArgumentsFresh /\ TasksConserved /\ GoneForGood /\ [Next]_vars => GoneForGood'
<1> SUFFICES ASSUME TypeOK, LifeCycle, Usage, ExitsAreFinal, ArgumentsFresh, TasksConserved, GoneForGood, [Next]_vars PROVE GoneForGood'
  OBVIOUS
<1>0. LabelsOK /\ PoolOK /\ CallsOK
  BY DEF TypeOK
<1> USE <1>0, LabelFacts
<1>1. ASSUME NEW t \in Threads, MtxLock(t) PROVE GoneForGood'
  <2>1. LockMove(t)
    BY <1>1, LockEffect
  <2> QED
    BY <1>1, <2>1 DEF MtxLock, LockMove, GoneForGood, LabelsOK, history,
       lifeVars, Usage
<1>2. ASSUME NEW t \in Threads, SpuriousWakeup(t) PROVE GoneForGood'
  <2>1. SpuriousMove(t)
    BY <1>2, SpuriousEffect
  <2> QED
    BY <1>2, <2>1 DEF SpuriousWakeup, SpuriousMove, GoneForGood, LabelsOK,
       history, lifeVars, Usage
<1>3. ASSUME NEW t \in Threads, NEW k \in Tasks, AddTask(t, k) PROVE GoneForGood'
  BY <1>3 DEF AddTask, Goto, MayCall, Home, GoneForGood, LabelsOK, history,
     lifeVars, Usage
<1>4. ASSUME NEW t \in Threads, AddTaskAccepts(t) PROVE GoneForGood'
  <2>1. pc[Owner] # "gone"
    BY <1>4 DEF AddTaskAccepts, GoneForGood, Usage, Threads
  <2>2. AcceptsMove(t)
    BY <1>4, AcceptsEffect
  <2>3. pc'[Owner] # "gone"
    BY <2>1, <2>2 DEF AcceptsMove
  <2> QED
    BY <2>3 DEF GoneForGood
<1>5. ASSUME NEW t \in Threads, AddTaskRefuses(t) PROVE GoneForGood'
  BY <1>5 DEF AddTaskRefuses, Unlock, Goto, Home, GoneForGood, LabelsOK,
     history, lifeVars, Usage
<1>6. ASSUME NEW w \in Workers, WorkerSleeps(w) PROVE GoneForGood'
  BY <1>6 DEF WorkerSleeps, Unlock, Goto, GoneForGood, LabelsOK, history,
     lifeVars, Usage
<1>7. ASSUME NEW w \in Workers, WorkerExits(w) PROVE GoneForGood'
  BY <1>7 DEF WorkerExits, Unlock, Goto, GoneForGood, LabelsOK, history,
     lifeVars, Usage
<1>8. ASSUME NEW w \in Workers, WorkerTakes(w) PROVE GoneForGood'
  BY <1>8 DEF WorkerTakes, Unlock, Goto, GoneForGood, LabelsOK, history,
     lifeVars, Usage
<1>9. ASSUME NEW w \in Workers, TaskReturns(w) PROVE GoneForGood'
  BY <1>9 DEF TaskReturns, Goto, GoneForGood, LabelsOK, history, lifeVars,
     Usage
<1>10. ASSUME NEW w \in Workers, WorkerBooks(w) PROVE GoneForGood'
  <2>1. BooksMove(w)
    BY <1>10, BooksEffect
  <2> QED
    BY <1>10, <2>1 DEF WorkerBooks, BooksMove, Unlock, GoneForGood,
       LabelsOK, history, lifeVars, Usage
<1>11. ASSUME NEW c \in Clients, Wait(c) PROVE GoneForGood'
  BY <1>11 DEF Wait, Goto, MayCall, Home, GoneForGood, LabelsOK, history,
     lifeVars, Usage
<1>12. ASSUME NEW c \in Clients, WaitSleeps(c) PROVE GoneForGood'
  BY <1>12 DEF WaitSleeps, Unlock, Goto, GoneForGood, LabelsOK, history,
     lifeVars, Usage
<1>13. ASSUME NEW c \in Clients, WaitReturns(c) PROVE GoneForGood'
  BY <1>13 DEF WaitReturns, Unlock, Goto, GoneForGood, LabelsOK, history,
     lifeVars, Usage
<1>14. ASSUME NEW c \in Clients, PendingTasks(c) PROVE GoneForGood'
  BY <1>14 DEF PendingTasks, Goto, MayCall, Home, GoneForGood, LabelsOK,
     history, lifeVars, Usage
<1>15. ASSUME NEW c \in Clients, PendingReturns(c) PROVE GoneForGood'
  BY <1>15 DEF PendingReturns, Unlock, Goto, GoneForGood, LabelsOK, history,
     lifeVars, Usage
<1>16. CASE CreateInits
  BY <1>16 DEF CreateInits, Goto, GoneForGood, LabelsOK, history, lifeVars,
     Usage
<1>17. CASE CreateFails
  <2>1. accepted = {} /\ finished = {}
    BY <1>17 DEF CreateFails, Usage, ArgumentsFresh, TasksConserved
  <2> QED
    BY <1>17, <2>1 DEF CreateFails, CreateLeftovers, Goto, GoneForGood, LifeCycle, history
<1>18. CASE SpawnWorker
  BY <1>18, PoolAssumption DEF SpawnWorker, GoneForGood, LabelsOK, history,
     lifeVars, PoolOK, Workers
<1>19. CASE SpawnFails
  BY <1>19 DEF SpawnFails, Goto, GoneForGood, LabelsOK, history, lifeVars,
     Usage
<1>20. CASE CreateReturns
  BY <1>20 DEF CreateReturns, Goto, GoneForGood, LabelsOK, history,
     lifeVars, Usage
<1>21. CASE Destroy
  BY <1>21 DEF Destroy, Goto, GoneForGood, LabelsOK, history, lifeVars,
     Usage
<1>22. CASE DestroyAnnounces
  <2>1. AnnouncesMove
    BY <1>22, AnnouncesEffect
  <2> QED
    BY <1>22, <2>1 DEF DestroyAnnounces, AnnouncesMove, Unlock, GoneForGood,
       LabelsOK, history, lifeVars, Usage
<1>23. CASE DestroyJoins
  BY <1>23 DEF DestroyJoins, GoneForGood, LabelsOK, history, lifeVars, Usage
<1>24. CASE DestroyFrees
  <2>1. Joined
    BY <1>24 DEF DestroyFrees, Joined
  <2>2. /\ \A w \in Workers : pc[w] \in {"none", "exited"}
        /\ accepted = finished
    BY <2>1, JoinedFacts
  <2> QED
    BY <1>24, <2>2 DEF DestroyFrees, Goto, GoneForGood, history
<1>25. CASE UNCHANGED vars
  BY <1>25 DEF vars, poolVars, lifeVars, callVars, history, GoneForGood,
     LabelsOK, history
<1> QED
  BY <1>1, <1>2, <1>3, <1>4, <1>5, <1>6, <1>7, <1>8, <1>9, <1>10, <1>11,
     <1>12, <1>13, <1>14, <1>15, <1>16, <1>17, <1>18, <1>19, <1>20, <1>21,
     <1>22, <1>23, <1>24, <1>25, SMTT(60) DEF Next, WorkerStep, AddTaskStep,
     ClientStep, CreateStep, DestroyStep, Finished

-----------------------------------------------------------------------------
(* Nobody sleeps through the shutdown *)

LEMMA ShutdownSleepInit == Init => NoSleepInShutdown
BY SMTT(60) DEF Init, NoSleepInShutdown

\* A worker goes to sleep only before the broadcast that shutdown makes.
LEMMA ShutdownSleepStep ==
  TypeOK /\ NoSleepInShutdown /\ [Next]_vars => NoSleepInShutdown'
<1> SUFFICES ASSUME TypeOK, NoSleepInShutdown, [Next]_vars PROVE NoSleepInShutdown'
  OBVIOUS
<1>0. LabelsOK /\ PoolOK
  BY DEF TypeOK
<1> USE <1>0, LabelFacts
<1>1. ASSUME NEW t \in Threads, MtxLock(t) PROVE NoSleepInShutdown'
  <2>1. LockMove(t)
    BY <1>1, LockEffect
  <2> QED
    BY <1>1, <2>1 DEF MtxLock, LockMove, NoSleepInShutdown, Waiters,
       LabelsOK, poolVars
<1>2. ASSUME NEW t \in Threads, SpuriousWakeup(t) PROVE NoSleepInShutdown'
  <2>1. SpuriousMove(t)
    BY <1>2, SpuriousEffect
  <2> QED
    BY <1>2, <2>1 DEF SpuriousWakeup, SpuriousMove, NoSleepInShutdown,
       Waiters, LabelsOK, poolVars
<1>3. ASSUME NEW t \in Threads, NEW k \in Tasks, AddTask(t, k) PROVE NoSleepInShutdown'
  BY <1>3 DEF AddTask, Goto, MayCall, Home, NoSleepInShutdown, Waiters,
     LabelsOK, poolVars
<1>4. ASSUME NEW t \in Threads, AddTaskAccepts(t) PROVE NoSleepInShutdown'
  <2>1. AcceptsMove(t)
    BY <1>4, AcceptsEffect
  <2> QED
    BY <1>4, <2>1 DEF AddTaskAccepts, AcceptsMove, Enqueued, GrownCapacity,
       Unlock, NoSleepInShutdown, Waiters, LabelsOK, poolVars
<1>5. ASSUME NEW t \in Threads, AddTaskRefuses(t) PROVE NoSleepInShutdown'
  BY <1>5 DEF AddTaskRefuses, Unlock, Goto, Home, NoSleepInShutdown,
     Waiters, LabelsOK, poolVars
<1>6. ASSUME NEW w \in Workers, WorkerSleeps(w) PROVE NoSleepInShutdown'
  BY <1>6 DEF WorkerSleeps, Unlock, Goto, NoSleepInShutdown, Waiters,
     LabelsOK, poolVars
<1>7. ASSUME NEW w \in Workers, WorkerExits(w) PROVE NoSleepInShutdown'
  BY <1>7 DEF WorkerExits, Unlock, Goto, NoSleepInShutdown, Waiters,
     LabelsOK, poolVars
<1>8. ASSUME NEW w \in Workers, WorkerTakes(w) PROVE NoSleepInShutdown'
  BY <1>8 DEF WorkerTakes, Unlock, Goto, NoSleepInShutdown, Waiters,
     LabelsOK, poolVars
<1>9. ASSUME NEW w \in Workers, TaskReturns(w) PROVE NoSleepInShutdown'
  BY <1>9 DEF TaskReturns, Goto, NoSleepInShutdown, Waiters, LabelsOK,
     poolVars
<1>10. ASSUME NEW w \in Workers, WorkerBooks(w) PROVE NoSleepInShutdown'
  <2>1. BooksMove(w)
    BY <1>10, BooksEffect
  <2> QED
    BY <1>10, <2>1 DEF WorkerBooks, BooksMove, Unlock, NoSleepInShutdown,
       Waiters, LabelsOK, poolVars
<1>11. ASSUME NEW c \in Clients, Wait(c) PROVE NoSleepInShutdown'
  BY <1>11 DEF Wait, Goto, MayCall, Home, NoSleepInShutdown, Waiters,
     LabelsOK, poolVars
<1>12. ASSUME NEW c \in Clients, WaitSleeps(c) PROVE NoSleepInShutdown'
  BY <1>12 DEF WaitSleeps, Unlock, Goto, NoSleepInShutdown, Waiters,
     LabelsOK, poolVars
<1>13. ASSUME NEW c \in Clients, WaitReturns(c) PROVE NoSleepInShutdown'
  BY <1>13 DEF WaitReturns, Unlock, Goto, NoSleepInShutdown, Waiters,
     LabelsOK, poolVars
<1>14. ASSUME NEW c \in Clients, PendingTasks(c) PROVE NoSleepInShutdown'
  BY <1>14 DEF PendingTasks, Goto, MayCall, Home, NoSleepInShutdown,
     Waiters, LabelsOK, poolVars
<1>15. ASSUME NEW c \in Clients, PendingReturns(c) PROVE NoSleepInShutdown'
  BY <1>15 DEF PendingReturns, Unlock, Goto, NoSleepInShutdown, Waiters,
     LabelsOK, poolVars
<1>16. CASE CreateInits
  BY <1>16 DEF CreateInits, Goto, NoSleepInShutdown, Waiters, LabelsOK,
     poolVars
<1>17. CASE CreateFails
  BY <1>17 DEF CreateFails, CreateLeftovers, Goto, NoSleepInShutdown,
     Waiters, LabelsOK, poolVars
<1>18. CASE SpawnWorker
  BY <1>18 DEF SpawnWorker, NoSleepInShutdown, Waiters, LabelsOK, poolVars,
     PoolOK
<1>19. CASE SpawnFails
  BY <1>19 DEF SpawnFails, Goto, NoSleepInShutdown, Waiters, LabelsOK,
     poolVars
<1>20. CASE CreateReturns
  BY <1>20 DEF CreateReturns, Goto, NoSleepInShutdown, Waiters, LabelsOK,
     poolVars
<1>21. CASE Destroy
  BY <1>21 DEF Destroy, Goto, NoSleepInShutdown, Waiters, LabelsOK, poolVars
<1>22. CASE DestroyAnnounces
  <2>1. AnnouncesMove
    BY <1>22, AnnouncesEffect
  <2> QED
    BY <1>22, <2>1 DEF DestroyAnnounces, AnnouncesMove, Unlock,
       NoSleepInShutdown, Waiters, LabelsOK, poolVars
<1>23. CASE DestroyJoins
  BY <1>23 DEF DestroyJoins, NoSleepInShutdown, Waiters, LabelsOK, poolVars
<1>24. CASE DestroyFrees
  BY <1>24 DEF DestroyFrees, Goto, NoSleepInShutdown, Waiters, LabelsOK,
     poolVars
<1>25. CASE UNCHANGED vars
  BY <1>25 DEF vars, poolVars, lifeVars, callVars, history,
     NoSleepInShutdown, Waiters, LabelsOK, poolVars
<1> QED
  BY <1>1, <1>2, <1>3, <1>4, <1>5, <1>6, <1>7, <1>8, <1>9, <1>10, <1>11,
     <1>12, <1>13, <1>14, <1>15, <1>16, <1>17, <1>18, <1>19, <1>20, <1>21,
     <1>22, <1>23, <1>24, <1>25 DEF Next, WorkerStep, AddTaskStep,
     ClientStep, CreateStep, DestroyStep, Finished

-----------------------------------------------------------------------------
(* activeWorkers counts the busy workers *)

LEMMA WorkersFinite ==
  ASSUME NEW S \in SUBSET Workers
  PROVE  IsFiniteSet(S) /\ Cardinality(S) \in Nat
<1>1. IsFiniteSet(Workers)
  BY PoolAssumption, FS_Interval DEF Workers
<1> QED
  BY <1>1, FS_Subset, FS_CardinalityType

LEMMA ActiveInit == Init => ActiveWorkersExact
<1> SUFFICES ASSUME Init PROVE ActiveWorkersExact
  OBVIOUS
<1>1. Busy = {}
  BY LabelFacts DEF Init, Busy
<1> QED
  BY <1>1, FS_EmptySet DEF Init, ActiveWorkersExact

\* The counter follows the workers in and out of their tasks.
LEMMA ActiveStep ==
  TypeOK /\ LifeCycle /\ ActiveWorkersExact /\ [Next]_vars => ActiveWorkersExact'
<1> SUFFICES ASSUME TypeOK, LifeCycle, ActiveWorkersExact, [Next]_vars PROVE ActiveWorkersExact'
  OBVIOUS
<1>0. LabelsOK /\ PoolOK /\ CallsOK
  BY DEF TypeOK
<1> USE <1>0, LabelFacts
<1>1. ASSUME NEW t \in Threads, MtxLock(t) PROVE ActiveWorkersExact'
  <2>0. LockMove(t)
    BY <1>1, LockEffect
  <2>1. Busy' = Busy
    BY <1>1, <2>0 DEF MtxLock, LockMove, LabelsOK, Busy
  <2> QED
    BY <1>1, <2>1 DEF MtxLock, ActiveWorkersExact, poolVars
<1>2. ASSUME NEW t \in Threads, SpuriousWakeup(t) PROVE ActiveWorkersExact'
  <2>0. SpuriousMove(t)
    BY <1>2, SpuriousEffect
  <2>1. Busy' = Busy
    BY <1>2, <2>0 DEF SpuriousWakeup, SpuriousMove, LabelsOK, Busy
  <2> QED
    BY <1>2, <2>1 DEF SpuriousWakeup, ActiveWorkersExact, poolVars
<1>3. ASSUME NEW t \in Threads, NEW k \in Tasks, AddTask(t, k) PROVE ActiveWorkersExact'
  <2>1. Busy' = Busy
    BY <1>3 DEF AddTask, Goto, MayCall, Home, LabelsOK, Busy
  <2> QED
    BY <1>3, <2>1 DEF AddTask, ActiveWorkersExact, poolVars
<1>4. ASSUME NEW t \in Threads, AddTaskAccepts(t) PROVE ActiveWorkersExact'
  <2>0. AcceptsMove(t)
    BY <1>4, AcceptsEffect
  <2>1. Busy' = Busy
    BY <1>4, <2>0 DEF AddTaskAccepts, AcceptsMove, LabelsOK, Busy
  <2> QED
    BY <1>4, <2>1 DEF AddTaskAccepts, ActiveWorkersExact, poolVars
<1>5. ASSUME NEW t \in Threads, AddTaskRefuses(t) PROVE ActiveWorkersExact'
  <2>1. Busy' = Busy
    BY <1>5 DEF AddTaskRefuses, Unlock, Goto, Home, LabelsOK, Busy
  <2> QED
    BY <1>5, <2>1 DEF AddTaskRefuses, ActiveWorkersExact, poolVars
<1>6. ASSUME NEW w \in Workers, WorkerSleeps(w) PROVE ActiveWorkersExact'
  <2>1. Busy' = Busy
    BY <1>6 DEF WorkerSleeps, Unlock, Goto, LabelsOK, Busy
  <2> QED
    BY <1>6, <2>1 DEF WorkerSleeps, ActiveWorkersExact, poolVars
<1>7. ASSUME NEW w \in Workers, WorkerExits(w) PROVE ActiveWorkersExact'
  <2>1. Busy' = Busy
    BY <1>7 DEF WorkerExits, Unlock, Goto, LabelsOK, Busy
  <2> QED
    BY <1>7, <2>1 DEF WorkerExits, ActiveWorkersExact, poolVars
<1>8. ASSUME NEW w \in Workers, WorkerTakes(w) PROVE ActiveWorkersExact'
  <2>1. Busy' = Busy \cup {w} /\ w \notin Busy
    BY <1>8 DEF WorkerTakes, Unlock, Goto, Busy, LabelsOK
  <2>2. IsFiniteSet(Busy) /\ Cardinality(Busy) \in Nat
    BY WorkersFinite DEF Busy
  <2>3. Cardinality(Busy') = Cardinality(Busy) + 1
    BY <2>1, <2>2, FS_AddElement
  <2> QED
    BY <1>8, <2>3 DEF WorkerTakes, ActiveWorkersExact
<1>9. ASSUME NEW w \in Workers, TaskReturns(w) PROVE ActiveWorkersExact'
  <2>1. Busy' = Busy
    BY <1>9 DEF TaskReturns, Goto, LabelsOK, Busy
  <2> QED
    BY <1>9, <2>1 DEF TaskReturns, ActiveWorkersExact, poolVars
<1>10. ASSUME NEW w \in Workers, WorkerBooks(w) PROVE ActiveWorkersExact'
  <2>0. BooksMove(w)
    BY <1>10, BooksEffect
  <2>1. Busy' = Busy \ {w} /\ w \in Busy
    BY <2>0 DEF BooksMove, Busy, LabelsOK
  <2>2. IsFiniteSet(Busy) /\ Cardinality(Busy) \in Nat
    BY WorkersFinite DEF Busy
  <2>3. Cardinality(Busy') = Cardinality(Busy) - 1
    BY <2>1, <2>2, FS_RemoveElement
  <2> QED
    BY <1>10, <2>3 DEF WorkerBooks, ActiveWorkersExact
<1>11. ASSUME NEW c \in Clients, Wait(c) PROVE ActiveWorkersExact'
  <2>1. Busy' = Busy
    BY <1>11 DEF Wait, Goto, MayCall, Home, LabelsOK, Busy
  <2> QED
    BY <1>11, <2>1 DEF Wait, ActiveWorkersExact, poolVars
<1>12. ASSUME NEW c \in Clients, WaitSleeps(c) PROVE ActiveWorkersExact'
  <2>1. Busy' = Busy
    BY <1>12 DEF WaitSleeps, Unlock, Goto, LabelsOK, Busy
  <2> QED
    BY <1>12, <2>1 DEF WaitSleeps, ActiveWorkersExact, poolVars
<1>13. ASSUME NEW c \in Clients, WaitReturns(c) PROVE ActiveWorkersExact'
  <2>1. Busy' = Busy
    BY <1>13 DEF WaitReturns, Unlock, Goto, LabelsOK, Busy
  <2> QED
    BY <1>13, <2>1 DEF WaitReturns, ActiveWorkersExact, poolVars
<1>14. ASSUME NEW c \in Clients, PendingTasks(c) PROVE ActiveWorkersExact'
  <2>1. Busy' = Busy
    BY <1>14 DEF PendingTasks, Goto, MayCall, Home, LabelsOK, Busy
  <2> QED
    BY <1>14, <2>1 DEF PendingTasks, ActiveWorkersExact, poolVars
<1>15. ASSUME NEW c \in Clients, PendingReturns(c) PROVE ActiveWorkersExact'
  <2>1. Busy' = Busy
    BY <1>15 DEF PendingReturns, Unlock, Goto, LabelsOK, Busy
  <2> QED
    BY <1>15, <2>1 DEF PendingReturns, ActiveWorkersExact, poolVars
<1>16. CASE CreateInits
  <2>1. Busy' = Busy
    BY <1>16 DEF CreateInits, Goto, LabelsOK, Busy
  <2> QED
    BY <1>16, <2>1 DEF CreateInits, ActiveWorkersExact, poolVars
<1>17. CASE CreateFails
  <2>1. Busy' = Busy
    BY <1>17 DEF CreateFails, CreateLeftovers, Goto, LabelsOK, Busy
  <2> QED
    BY <1>17, <2>1 DEF CreateFails, ActiveWorkersExact, poolVars
<1>18. CASE SpawnWorker
  <2>1. Busy' = Busy
    BY <1>18, PoolAssumption DEF SpawnWorker, LabelsOK, Busy, PoolOK,
       LifeCycle, Workers
  <2> QED
    BY <1>18, <2>1 DEF SpawnWorker, ActiveWorkersExact, poolVars
<1>19. CASE SpawnFails
  <2>1. Busy' = Busy
    BY <1>19 DEF SpawnFails, Goto, LabelsOK, Busy
  <2> QED
    BY <1>19, <2>1 DEF SpawnFails, ActiveWorkersExact, poolVars
<1>20. CASE CreateReturns
  <2>1. Busy' = Busy
    BY <1>20 DEF CreateReturns, Goto, LabelsOK, Busy
  <2> QED
    BY <1>20, <2>1 DEF CreateReturns, ActiveWorkersExact, poolVars
<1>21. CASE Destroy
  <2>1. Busy' = Busy
    BY <1>21 DEF Destroy, Goto, LabelsOK, Busy
  <2> QED
    BY <1>21, <2>1 DEF Destroy, ActiveWorkersExact, poolVars
<1>22. CASE DestroyAnnounces
  <2>0. AnnouncesMove
    BY <1>22, AnnouncesEffect
  <2>1. Busy' = Busy
    BY <1>22, <2>0 DEF DestroyAnnounces, AnnouncesMove, LabelsOK, Busy
  <2> QED
    BY <1>22, <2>1 DEF DestroyAnnounces, ActiveWorkersExact, poolVars
<1>23. CASE DestroyJoins
  <2>1. Busy' = Busy
    BY <1>23 DEF DestroyJoins, LabelsOK, Busy
  <2> QED
    BY <1>23, <2>1 DEF DestroyJoins, ActiveWorkersExact, poolVars
<1>24. CASE DestroyFrees
  <2>1. Busy' = Busy
    BY <1>24 DEF DestroyFrees, Goto, LabelsOK, Busy
  <2> QED
    BY <1>24, <2>1 DEF DestroyFrees, ActiveWorkersExact, poolVars
<1>25. CASE UNCHANGED vars
  BY <1>25 DEF vars, poolVars, ActiveWorkersExact, Busy
<1> QED
  BY <1>1, <1>2, <1>3, <1>4, <1>5, <1>6, <1>7, <1>8, <1>9, <1>10, <1>11,
     <1>12, <1>13, <1>14, <1>15, <1>16, <1>17, <1>18, <1>19, <1>20, <1>21,
     <1>22, <1>23, <1>24, <1>25, SMTT(60) DEF Next, WorkerStep, AddTaskStep,
     ClientStep, CreateStep, DestroyStep, Finished

-----------------------------------------------------------------------------
(* Every waiter will be woken *)

LEMMA WaiterInit == Init => NoWaiterForgotten
BY LabelFacts DEF Init, NoWaiterForgotten, Waiters

\* The step that makes the pool idle wakes everyone who waits for it.
LEMMA WaiterStep ==
  TypeOK /\ LifeCycle /\ Usage /\ ExitsAreFinal /\ ArgumentsFresh /\ TasksConserved
  /\ ActiveWorkersExact /\ NoWaiterForgotten /\ [Next]_vars => NoWaiterForgotten'
<1> SUFFICES ASSUME TypeOK, LifeCycle, Usage, ExitsAreFinal, ArgumentsFresh, TasksConserved, ActiveWorkersExact, NoWaiterForgotten, [Next]_vars PROVE NoWaiterForgotten'
  OBVIOUS
<1>0. LabelsOK /\ PoolOK /\ CallsOK
  BY DEF TypeOK
<1> USE <1>0, LabelFacts
<1>1. ASSUME NEW t \in Threads, MtxLock(t) PROVE NoWaiterForgotten'
  <2>1. LockMove(t)
    BY <1>1, LockEffect
  <2> QED
    BY <1>1, <2>1 DEF MtxLock, LockMove, NoWaiterForgotten, Idle, Waiters,
       LabelsOK, poolVars
<1>2. ASSUME NEW t \in Threads, SpuriousWakeup(t) PROVE NoWaiterForgotten'
  <2>1. SpuriousMove(t)
    BY <1>2, SpuriousEffect
  <2> QED
    BY <1>2, <2>1 DEF SpuriousWakeup, SpuriousMove, NoWaiterForgotten, Idle,
       Waiters, LabelsOK, poolVars
<1>3. ASSUME NEW t \in Threads, NEW k \in Tasks, AddTask(t, k) PROVE NoWaiterForgotten'
  BY <1>3 DEF AddTask, Goto, MayCall, Home, NoWaiterForgotten, Idle,
     Waiters, LabelsOK, poolVars
<1>4. ASSUME NEW t \in Threads, AddTaskAccepts(t) PROVE NoWaiterForgotten'
  <2>1. taskQueue' # <<>>
    BY <1>4, SMTT(60) DEF AddTaskAccepts, Enqueued, PoolOK, CallsOK
  <2> QED
    BY <2>1 DEF NoWaiterForgotten, Idle
<1>5. ASSUME NEW t \in Threads, AddTaskRefuses(t) PROVE NoWaiterForgotten'
  BY <1>5 DEF AddTaskRefuses, Unlock, Goto, Home, NoWaiterForgotten, Idle,
     Waiters, LabelsOK, poolVars
<1>6. ASSUME NEW w \in Workers, WorkerSleeps(w) PROVE NoWaiterForgotten'
  BY <1>6 DEF WorkerSleeps, Unlock, Goto, NoWaiterForgotten, Idle, Waiters,
     LabelsOK, poolVars
<1>7. ASSUME NEW w \in Workers, WorkerExits(w) PROVE NoWaiterForgotten'
  BY <1>7 DEF WorkerExits, Unlock, Goto, NoWaiterForgotten, Idle, Waiters,
     LabelsOK, poolVars
<1>8. ASSUME NEW w \in Workers, WorkerTakes(w) PROVE NoWaiterForgotten'
  <2>1. activeWorkers \in Nat
    BY WorkersFinite DEF ActiveWorkersExact, Busy
  <2> QED
    BY <1>8, <2>1 DEF WorkerTakes, NoWaiterForgotten, Idle
<1>9. ASSUME NEW w \in Workers, TaskReturns(w) PROVE NoWaiterForgotten'
  BY <1>9 DEF TaskReturns, Goto, NoWaiterForgotten, Idle, Waiters, LabelsOK,
     poolVars
<1>10. ASSUME NEW w \in Workers, WorkerBooks(w) PROVE NoWaiterForgotten'
  <2>1. BooksMove(w)
    BY <1>10, BooksEffect
  <2> QED
    BY <1>10, <2>1 DEF WorkerBooks, BooksMove, Unlock, NoWaiterForgotten,
       Idle, Waiters, LabelsOK, poolVars
<1>11. ASSUME NEW c \in Clients, Wait(c) PROVE NoWaiterForgotten'
  BY <1>11 DEF Wait, Goto, MayCall, Home, NoWaiterForgotten, Idle, Waiters,
     LabelsOK, poolVars
<1>12. ASSUME NEW c \in Clients, WaitSleeps(c) PROVE NoWaiterForgotten'
  BY <1>12 DEF WaitSleeps, Unlock, Goto, NoWaiterForgotten, Idle, Waiters,
     LabelsOK, poolVars
<1>13. ASSUME NEW c \in Clients, WaitReturns(c) PROVE NoWaiterForgotten'
  BY <1>13 DEF WaitReturns, Unlock, Goto, NoWaiterForgotten, Idle, Waiters,
     LabelsOK, poolVars
<1>14. ASSUME NEW c \in Clients, PendingTasks(c) PROVE NoWaiterForgotten'
  BY <1>14 DEF PendingTasks, Goto, MayCall, Home, NoWaiterForgotten, Idle,
     Waiters, LabelsOK, poolVars
<1>15. ASSUME NEW c \in Clients, PendingReturns(c) PROVE NoWaiterForgotten'
  BY <1>15 DEF PendingReturns, Unlock, Goto, NoWaiterForgotten, Idle,
     Waiters, LabelsOK, poolVars
<1>16. CASE CreateInits
  BY <1>16 DEF CreateInits, Goto, NoWaiterForgotten, Idle, Waiters,
     LabelsOK, poolVars
<1>17. CASE CreateFails
  BY <1>17 DEF CreateFails, CreateLeftovers, Goto, NoWaiterForgotten, Idle,
     Waiters, LabelsOK, poolVars
<1>18. CASE SpawnWorker
  BY <1>18 DEF SpawnWorker, NoWaiterForgotten, Idle, Waiters, LabelsOK,
     poolVars, PoolOK
<1>19. CASE SpawnFails
  BY <1>19 DEF SpawnFails, Goto, NoWaiterForgotten, Idle, Waiters, LabelsOK,
     poolVars
<1>20. CASE CreateReturns
  BY <1>20 DEF CreateReturns, Goto, NoWaiterForgotten, Idle, Waiters,
     LabelsOK, poolVars
<1>21. CASE Destroy
  BY <1>21 DEF Destroy, Goto, NoWaiterForgotten, Idle, Waiters, LabelsOK,
     poolVars
<1>22. CASE DestroyAnnounces
  <2>1. AnnouncesMove
    BY <1>22, AnnouncesEffect
  <2> QED
    BY <1>22, <2>1 DEF DestroyAnnounces, AnnouncesMove, Unlock,
       NoWaiterForgotten, Idle, Waiters, LabelsOK, poolVars
<1>23. CASE DestroyJoins
  BY <1>23 DEF DestroyJoins, NoWaiterForgotten, Idle, Waiters, LabelsOK,
     poolVars
<1>24. CASE DestroyFrees
  <2>1. taskQueue = <<>>
    BY <1>24, JoinedFacts DEF DestroyFrees, Joined
  <2> QED
    BY <1>24, <2>1 DEF DestroyFrees, Goto, NoWaiterForgotten, Idle, Waiters, LabelsOK
<1>25. CASE UNCHANGED vars
  BY <1>25 DEF vars, poolVars, lifeVars, callVars, history,
     NoWaiterForgotten, Idle, Waiters, LabelsOK, poolVars
<1> QED
  BY <1>1, <1>2, <1>3, <1>4, <1>5, <1>6, <1>7, <1>8, <1>9, <1>10, <1>11,
     <1>12, <1>13, <1>14, <1>15, <1>16, <1>17, <1>18, <1>19, <1>20, <1>21,
     <1>22, <1>23, <1>24, <1>25 DEF Next, WorkerStep, AddTaskStep,
     ClientStep, CreateStep, DestroyStep, Finished

-----------------------------------------------------------------------------
(* No worker is left asleep beside a task *)

LEMMA OversleptInit == Init => NoWorkerOverslept
BY LabelFacts DEF Init, NoWorkerOverslept, Waiters

\* More workers awake, or fewer asleep, for the same queue.
LEMMA AwakeFrame ==
  ASSUME NoWorkerOverslept, PoolOK, taskQueue' = taskQueue,
         IdleAwake \subseteq IdleAwake',
         Waiters("wSleep")' \subseteq Waiters("wSleep")
  PROVE  NoWorkerOverslept'
<1>1. IsFiniteSet(IdleAwake') /\ Cardinality(IdleAwake') \in Nat
  BY WorkersFinite DEF IdleAwake
<1>2. Cardinality(IdleAwake) \in Nat /\ Cardinality(IdleAwake) <= Cardinality(IdleAwake')
  BY <1>1, WorkersFinite, FS_Subset DEF IdleAwake
<1>3. Len(taskQueue) \in Nat
  BY DEF PoolOK
<1> QED
  BY <1>1, <1>2, <1>3 DEF NoWorkerOverslept

\* An empty queue needs nobody.
LEMMA AwakeEmpty ==
  ASSUME taskQueue' = <<>>
  PROVE  NoWorkerOverslept'
<1>1. Cardinality(IdleAwake') \in Nat
  BY WorkersFinite, SMTT(60) DEF IdleAwake
<1> QED
  BY <1>1 DEF NoWorkerOverslept

\* Each accepted task wakes a worker, and each worker that leaves takes a task.
LEMMA OversleptStep ==
  TypeOK /\ LifeCycle /\ NoWorkerOverslept /\ [Next]_vars => NoWorkerOverslept'
<1> SUFFICES ASSUME TypeOK, LifeCycle, NoWorkerOverslept, [Next]_vars PROVE NoWorkerOverslept'
  OBVIOUS
<1>0. LabelsOK /\ PoolOK /\ CallsOK
  BY DEF TypeOK
<1> USE <1>0, LabelFacts
<1>1. ASSUME NEW t \in Threads, MtxLock(t) PROVE NoWorkerOverslept'
  <2>0. LockMove(t)
    BY <1>1, LockEffect
  <2>1. /\ IdleAwake \subseteq IdleAwake'
        /\ Waiters("wSleep")' \subseteq Waiters("wSleep")
    BY <1>1, <2>0 DEF MtxLock, LockMove, IdleAwake, Waiters, LabelsOK
  <2> QED
    BY <1>1, <2>1, AwakeFrame DEF MtxLock, poolVars
<1>2. ASSUME NEW t \in Threads, SpuriousWakeup(t) PROVE NoWorkerOverslept'
  <2>0. SpuriousMove(t)
    BY <1>2, SpuriousEffect
  <2>1. /\ IdleAwake \subseteq IdleAwake'
        /\ Waiters("wSleep")' \subseteq Waiters("wSleep")
    BY <1>2, <2>0 DEF SpuriousWakeup, SpuriousMove, IdleAwake, Waiters,
       LabelsOK
  <2> QED
    BY <1>2, <2>1, AwakeFrame DEF SpuriousWakeup, poolVars
<1>3. ASSUME NEW t \in Threads, NEW k \in Tasks, AddTask(t, k) PROVE NoWorkerOverslept'
  <2>1. /\ IdleAwake \subseteq IdleAwake'
        /\ Waiters("wSleep")' \subseteq Waiters("wSleep")
    BY <1>3 DEF AddTask, Goto, MayCall, Home, IdleAwake, Waiters, LabelsOK
  <2> QED
    BY <1>3, <2>1, AwakeFrame DEF AddTask, poolVars
<1>4. ASSUME NEW t \in Threads, AddTaskAccepts(t) PROVE NoWorkerOverslept'
  <2>0. AcceptsMove(t)
    BY <1>4, AcceptsEffect
  <2>1. Waiters("wSleep")' \subseteq Waiters("wSleep")
    BY <2>0 DEF AcceptsMove, Waiters, LabelsOK
  <2>2. CASE Waiters("wSleep") = {}
    BY <2>1, <2>2 DEF NoWorkerOverslept
  <2>3. CASE Waiters("wSleep") # {}
    <3>1. PICK v \in Waiters("wSleep") :
                 /\ pc'[v] = "wWoken"
                 /\ \A x \in Threads \ {t, v} : pc'[x] = pc[x]
      BY <2>0, <2>3 DEF AcceptsMove
    <3>2. v \in Workers /\ v # t /\ v \notin IdleAwake
      <4>1. v \in Threads /\ pc[v] = "wSleep" /\ pc[t] = "aCrit"
        BY <2>0 DEF Waiters, AcceptsMove
      <4> QED
        BY <4>1 DEF LabelsOK, Threads, ClientLabels, OwnerLabels, IdleAwake
    <3>3. IdleAwake' = IdleAwake \cup {v}
      BY <2>0, <3>1, <3>2 DEF AcceptsMove, IdleAwake
    <3>4. IsFiniteSet(IdleAwake) /\ Cardinality(IdleAwake) \in Nat
      BY WorkersFinite DEF IdleAwake
    <3>5. Cardinality(IdleAwake') = Cardinality(IdleAwake) + 1
      BY <3>2, <3>3, <3>4, FS_AddElement
    <3>6. Len(taskQueue') = Len(taskQueue) + 1 /\ Len(taskQueue) \in Nat
      BY <1>4 DEF AddTaskAccepts, Enqueued, PoolOK, CallsOK
    <3> QED
      BY <2>3, <3>4, <3>5, <3>6 DEF NoWorkerOverslept
  <2> QED
    BY <2>2, <2>3
<1>5. ASSUME NEW t \in Threads, AddTaskRefuses(t) PROVE NoWorkerOverslept'
  <2>1. /\ IdleAwake \subseteq IdleAwake'
        /\ Waiters("wSleep")' \subseteq Waiters("wSleep")
    BY <1>5 DEF AddTaskRefuses, Unlock, Goto, Home, IdleAwake, Waiters,
       LabelsOK
  <2> QED
    BY <1>5, <2>1, AwakeFrame DEF AddTaskRefuses, poolVars
<1>6. ASSUME NEW w \in Workers, WorkerSleeps(w) PROVE NoWorkerOverslept'
  BY <1>6, AwakeEmpty DEF WorkerSleeps, poolVars
<1>7. ASSUME NEW w \in Workers, WorkerExits(w) PROVE NoWorkerOverslept'
  BY <1>7, AwakeEmpty DEF WorkerExits, poolVars
<1>8. ASSUME NEW w \in Workers, WorkerTakes(w) PROVE NoWorkerOverslept'
  <2>1. Waiters("wSleep")' = Waiters("wSleep")
    BY <1>8 DEF WorkerTakes, Unlock, Goto, Waiters, LabelsOK
  <2>2. IdleAwake' = IdleAwake \ {w} /\ w \in IdleAwake
    BY <1>8 DEF WorkerTakes, Unlock, Goto, IdleAwake, LabelsOK
  <2>3. IsFiniteSet(IdleAwake) /\ Cardinality(IdleAwake) \in Nat
    BY WorkersFinite DEF IdleAwake
  <2>4. Cardinality(IdleAwake') = Cardinality(IdleAwake) - 1
    BY <2>2, <2>3, FS_RemoveElement
  <2>5. Len(taskQueue') = Len(taskQueue) - 1 /\ Len(taskQueue) \in Nat
    BY <1>8 DEF WorkerTakes, PoolOK
  <2> QED
    BY <2>1, <2>3, <2>4, <2>5 DEF NoWorkerOverslept
<1>9. ASSUME NEW w \in Workers, TaskReturns(w) PROVE NoWorkerOverslept'
  <2>1. /\ IdleAwake \subseteq IdleAwake'
        /\ Waiters("wSleep")' \subseteq Waiters("wSleep")
    BY <1>9 DEF TaskReturns, Goto, IdleAwake, Waiters, LabelsOK
  <2> QED
    BY <1>9, <2>1, AwakeFrame DEF TaskReturns, poolVars
<1>10. ASSUME NEW w \in Workers, WorkerBooks(w) PROVE NoWorkerOverslept'
  <2>0. BooksMove(w)
    BY <1>10, BooksEffect
  <2>1. /\ IdleAwake \subseteq IdleAwake'
        /\ Waiters("wSleep")' \subseteq Waiters("wSleep")
    BY <1>10, <2>0 DEF WorkerBooks, BooksMove, IdleAwake, Waiters, LabelsOK
  <2> QED
    BY <1>10, <2>1, AwakeFrame DEF WorkerBooks, poolVars
<1>11. ASSUME NEW c \in Clients, Wait(c) PROVE NoWorkerOverslept'
  <2>1. /\ IdleAwake \subseteq IdleAwake'
        /\ Waiters("wSleep")' \subseteq Waiters("wSleep")
    BY <1>11 DEF Wait, Goto, MayCall, Home, IdleAwake, Waiters, LabelsOK
  <2> QED
    BY <1>11, <2>1, AwakeFrame DEF Wait, poolVars
<1>12. ASSUME NEW c \in Clients, WaitSleeps(c) PROVE NoWorkerOverslept'
  <2>1. /\ IdleAwake \subseteq IdleAwake'
        /\ Waiters("wSleep")' \subseteq Waiters("wSleep")
    BY <1>12 DEF WaitSleeps, Unlock, Goto, IdleAwake, Waiters, LabelsOK
  <2> QED
    BY <1>12, <2>1, AwakeFrame DEF WaitSleeps, poolVars
<1>13. ASSUME NEW c \in Clients, WaitReturns(c) PROVE NoWorkerOverslept'
  <2>1. /\ IdleAwake \subseteq IdleAwake'
        /\ Waiters("wSleep")' \subseteq Waiters("wSleep")
    BY <1>13 DEF WaitReturns, Unlock, Goto, IdleAwake, Waiters, LabelsOK
  <2> QED
    BY <1>13, <2>1, AwakeFrame DEF WaitReturns, poolVars
<1>14. ASSUME NEW c \in Clients, PendingTasks(c) PROVE NoWorkerOverslept'
  <2>1. /\ IdleAwake \subseteq IdleAwake'
        /\ Waiters("wSleep")' \subseteq Waiters("wSleep")
    BY <1>14 DEF PendingTasks, Goto, MayCall, Home, IdleAwake, Waiters,
       LabelsOK
  <2> QED
    BY <1>14, <2>1, AwakeFrame DEF PendingTasks, poolVars
<1>15. ASSUME NEW c \in Clients, PendingReturns(c) PROVE NoWorkerOverslept'
  <2>1. /\ IdleAwake \subseteq IdleAwake'
        /\ Waiters("wSleep")' \subseteq Waiters("wSleep")
    BY <1>15 DEF PendingReturns, Unlock, Goto, IdleAwake, Waiters, LabelsOK
  <2> QED
    BY <1>15, <2>1, AwakeFrame DEF PendingReturns, poolVars
<1>16. CASE CreateInits
  <2>1. /\ IdleAwake \subseteq IdleAwake'
        /\ Waiters("wSleep")' \subseteq Waiters("wSleep")
    BY <1>16 DEF CreateInits, Goto, IdleAwake, Waiters, LabelsOK
  <2> QED
    BY <1>16, <2>1, AwakeFrame DEF CreateInits, poolVars
<1>17. CASE CreateFails
  <2>1. /\ IdleAwake \subseteq IdleAwake'
        /\ Waiters("wSleep")' \subseteq Waiters("wSleep")
    BY <1>17 DEF CreateFails, CreateLeftovers, Goto, IdleAwake, Waiters,
       LabelsOK
  <2> QED
    BY <1>17, <2>1, AwakeFrame DEF CreateFails, poolVars
<1>18. CASE SpawnWorker
  <2>1. /\ IdleAwake \subseteq IdleAwake'
        /\ Waiters("wSleep")' \subseteq Waiters("wSleep")
    BY <1>18, PoolAssumption DEF SpawnWorker, IdleAwake, Waiters, LabelsOK,
       PoolOK, LifeCycle, Workers
  <2> QED
    BY <1>18, <2>1, AwakeFrame DEF SpawnWorker, poolVars
<1>19. CASE SpawnFails
  <2>1. /\ IdleAwake \subseteq IdleAwake'
        /\ Waiters("wSleep")' \subseteq Waiters("wSleep")
    BY <1>19 DEF SpawnFails, Goto, IdleAwake, Waiters, LabelsOK
  <2> QED
    BY <1>19, <2>1, AwakeFrame DEF SpawnFails, poolVars
<1>20. CASE CreateReturns
  <2>1. /\ IdleAwake \subseteq IdleAwake'
        /\ Waiters("wSleep")' \subseteq Waiters("wSleep")
    BY <1>20 DEF CreateReturns, Goto, IdleAwake, Waiters, LabelsOK
  <2> QED
    BY <1>20, <2>1, AwakeFrame DEF CreateReturns, poolVars
<1>21. CASE Destroy
  <2>1. /\ IdleAwake \subseteq IdleAwake'
        /\ Waiters("wSleep")' \subseteq Waiters("wSleep")
    BY <1>21 DEF Destroy, Goto, IdleAwake, Waiters, LabelsOK
  <2> QED
    BY <1>21, <2>1, AwakeFrame DEF Destroy, poolVars
<1>22. CASE DestroyAnnounces
  <2>0. AnnouncesMove
    BY <1>22, AnnouncesEffect
  <2>1. /\ IdleAwake \subseteq IdleAwake'
        /\ Waiters("wSleep")' \subseteq Waiters("wSleep")
    BY <1>22, <2>0 DEF DestroyAnnounces, AnnouncesMove, IdleAwake, Waiters,
       LabelsOK
  <2> QED
    BY <1>22, <2>1, AwakeFrame DEF DestroyAnnounces, poolVars
<1>23. CASE DestroyJoins
  <2>1. /\ IdleAwake \subseteq IdleAwake'
        /\ Waiters("wSleep")' \subseteq Waiters("wSleep")
    BY <1>23 DEF DestroyJoins, IdleAwake, Waiters, LabelsOK
  <2> QED
    BY <1>23, <2>1, AwakeFrame DEF DestroyJoins, poolVars
<1>24. CASE DestroyFrees
  BY <1>24, AwakeEmpty DEF DestroyFrees, poolVars
<1>25. CASE UNCHANGED vars
  BY <1>25 DEF vars, poolVars, NoWorkerOverslept, IdleAwake, Waiters
<1> QED
  BY <1>1, <1>2, <1>3, <1>4, <1>5, <1>6, <1>7, <1>8, <1>9, <1>10, <1>11,
     <1>12, <1>13, <1>14, <1>15, <1>16, <1>17, <1>18, <1>19, <1>20, <1>21,
     <1>22, <1>23, <1>24, <1>25 DEF Next, WorkerStep, AddTaskStep,
     ClientStep, CreateStep, DestroyStep, Finished

-----------------------------------------------------------------------------
(* What a waiter waits for *)

LEMMA WaitsInit == Init => WaitsForAccepted
BY SMTT(60) DEF Init, WaitsForAccepted

\* The snapshot taken by Wait is of accepted tasks, which stay accepted.
LEMMA WaitsStep ==
  TypeOK /\ WaitsForAccepted /\ [Next]_vars => WaitsForAccepted'
<1> SUFFICES ASSUME TypeOK, WaitsForAccepted, [Next]_vars PROVE WaitsForAccepted'
  OBVIOUS
<1>0. LabelsOK /\ PoolOK /\ CallsOK
  BY DEF TypeOK
<1> USE <1>0, LabelFacts
<1>1. ASSUME NEW t \in Threads, MtxLock(t) PROVE WaitsForAccepted'
  <2>1. LockMove(t)
    BY <1>1, LockEffect
  <2> QED
    BY <1>1, <2>1 DEF MtxLock, LockMove, WaitsForAccepted, callVars, history
<1>2. ASSUME NEW t \in Threads, SpuriousWakeup(t) PROVE WaitsForAccepted'
  <2>1. SpuriousMove(t)
    BY <1>2, SpuriousEffect
  <2> QED
    BY <1>2, <2>1 DEF SpuriousWakeup, SpuriousMove, WaitsForAccepted,
       callVars, history
<1>3. ASSUME NEW t \in Threads, NEW k \in Tasks, AddTask(t, k) PROVE WaitsForAccepted'
  BY <1>3 DEF AddTask, Goto, MayCall, Home, WaitsForAccepted, callVars,
     history
<1>4. ASSUME NEW t \in Threads, AddTaskAccepts(t) PROVE WaitsForAccepted'
  <2>1. AcceptsMove(t)
    BY <1>4, AcceptsEffect
  <2> QED
    BY <1>4, <2>1 DEF AddTaskAccepts, AcceptsMove, Enqueued, GrownCapacity,
       Unlock, WaitsForAccepted, callVars, history
<1>5. ASSUME NEW t \in Threads, AddTaskRefuses(t) PROVE WaitsForAccepted'
  BY <1>5 DEF AddTaskRefuses, Unlock, Goto, Home, WaitsForAccepted,
     callVars, history
<1>6. ASSUME NEW w \in Workers, WorkerSleeps(w) PROVE WaitsForAccepted'
  BY <1>6 DEF WorkerSleeps, Unlock, Goto, WaitsForAccepted, callVars,
     history
<1>7. ASSUME NEW w \in Workers, WorkerExits(w) PROVE WaitsForAccepted'
  BY <1>7 DEF WorkerExits, Unlock, Goto, WaitsForAccepted, callVars, history
<1>8. ASSUME NEW w \in Workers, WorkerTakes(w) PROVE WaitsForAccepted'
  BY <1>8 DEF WorkerTakes, Unlock, Goto, WaitsForAccepted, callVars, history
<1>9. ASSUME NEW w \in Workers, TaskReturns(w) PROVE WaitsForAccepted'
  BY <1>9 DEF TaskReturns, Goto, WaitsForAccepted, callVars, history
<1>10. ASSUME NEW w \in Workers, WorkerBooks(w) PROVE WaitsForAccepted'
  <2>1. BooksMove(w)
    BY <1>10, BooksEffect
  <2> QED
    BY <1>10, <2>1 DEF WorkerBooks, BooksMove, Unlock, WaitsForAccepted,
       callVars, history
<1>11. ASSUME NEW c \in Clients, Wait(c) PROVE WaitsForAccepted'
  BY <1>11 DEF Wait, Goto, MayCall, Home, WaitsForAccepted, callVars,
     history, CallsOK
<1>12. ASSUME NEW c \in Clients, WaitSleeps(c) PROVE WaitsForAccepted'
  BY <1>12 DEF WaitSleeps, Unlock, Goto, WaitsForAccepted, callVars, history
<1>13. ASSUME NEW c \in Clients, WaitReturns(c) PROVE WaitsForAccepted'
  BY <1>13 DEF WaitReturns, Unlock, Goto, WaitsForAccepted, callVars,
     history
<1>14. ASSUME NEW c \in Clients, PendingTasks(c) PROVE WaitsForAccepted'
  BY <1>14 DEF PendingTasks, Goto, MayCall, Home, WaitsForAccepted,
     callVars, history
<1>15. ASSUME NEW c \in Clients, PendingReturns(c) PROVE WaitsForAccepted'
  BY <1>15 DEF PendingReturns, Unlock, Goto, WaitsForAccepted, callVars,
     history
<1>16. CASE CreateInits
  BY <1>16 DEF CreateInits, Goto, WaitsForAccepted, callVars, history
<1>17. CASE CreateFails
  BY <1>17 DEF CreateFails, CreateLeftovers, Goto, WaitsForAccepted,
     callVars, history
<1>18. CASE SpawnWorker
  BY <1>18 DEF SpawnWorker, WaitsForAccepted, callVars, history
<1>19. CASE SpawnFails
  BY <1>19 DEF SpawnFails, Goto, WaitsForAccepted, callVars, history
<1>20. CASE CreateReturns
  BY <1>20 DEF CreateReturns, Goto, WaitsForAccepted, callVars, history
<1>21. CASE Destroy
  BY <1>21 DEF Destroy, Goto, WaitsForAccepted, callVars, history
<1>22. CASE DestroyAnnounces
  <2>1. AnnouncesMove
    BY <1>22, AnnouncesEffect
  <2> QED
    BY <1>22, <2>1 DEF DestroyAnnounces, AnnouncesMove, Unlock,
       WaitsForAccepted, callVars, history
<1>23. CASE DestroyJoins
  BY <1>23 DEF DestroyJoins, WaitsForAccepted, callVars, history
<1>24. CASE DestroyFrees
  BY <1>24 DEF DestroyFrees, Goto, WaitsForAccepted, callVars, history
<1>25. CASE UNCHANGED vars
  BY <1>25 DEF vars, poolVars, lifeVars, callVars, history,
     WaitsForAccepted, callVars, history
<1> QED
  BY <1>1, <1>2, <1>3, <1>4, <1>5, <1>6, <1>7, <1>8, <1>9, <1>10, <1>11,
     <1>12, <1>13, <1>14, <1>15, <1>16, <1>17, <1>18, <1>19, <1>20, <1>21,
     <1>22, <1>23, <1>24, <1>25 DEF Next, WorkerStep, AddTaskStep,
     ClientStep, CreateStep, DestroyStep, Finished

-----------------------------------------------------------------------------
(* The theorems *)

\* The inductive invariant holds in every state of every behaviour of the
\* pool, whatever the number of workers, clients and tasks.
THEOREM PoolInvariant == Spec => []PoolInv
<1>1. Init => PoolInv
  BY TypeInit, LifeInit, UsageInit, GoneInit, ExitsInit, ArgumentsInit,
     WaitsInit, MutexInit, ConservedInit, ActiveInit, WaiterInit,
     ShutdownSleepInit, OversleptInit
     DEF PoolInv
<1>2. PoolInv /\ [Next]_vars => PoolInv'
  BY TypeStep, LifeStep, UsageStep, GoneStep, ExitsStep, ArgumentsStep,
     WaitsStep, MutexStep, ConservedStep, ActiveStep, WaiterStep,
     ShutdownSleepStep, OversleptStep
     DEF PoolInv
<1> QED
  BY <1>1, <1>2, PTL DEF Spec

\* Only the holder of POOL->lock is in a critical section.
THEOREM PoolMutualExclusion == Spec => []MutualExclusion
<1>1. PoolInv => MutualExclusion
  BY DEF PoolInv
<1> QED
  BY <1>1, PoolInvariant, PTL

\* No accepted task is lost, duplicated or run twice.
THEOREM PoolTasksConserved == Spec => []TasksConserved
<1>1. PoolInv => TasksConserved
  BY DEF PoolInv
<1> QED
  BY <1>1, PoolInvariant, PTL

\* activeWorkers is the number of workers that have taken a task and not
\* booked its end.
THEOREM PoolActiveWorkersExact == Spec => []ActiveWorkersExact
<1>1. PoolInv => ActiveWorkersExact
  BY DEF PoolInv
<1> QED
  BY <1>1, PoolInvariant, PTL

\* One cnd_signal for each task never leaves a worker asleep beside a task
\* no worker is coming for.
THEOREM PoolNoWorkerOverslept == Spec => []NoWorkerOverslept
<1>1. PoolInv => NoWorkerOverslept
  BY DEF PoolInv
<1> QED
  BY <1>1, PoolInvariant, PTL

\* A thread asleep in Wait is always owed a broadcast, and no worker sleeps
\* once the shutdown has been announced.
THEOREM PoolNobodyForgotten == Spec => [](NoWaiterForgotten /\ NoSleepInShutdown)
<1>1. PoolInv => NoWaiterForgotten /\ NoSleepInShutdown
  BY DEF PoolInv
<1> QED
  BY <1>1, PoolInvariant, PTL

\* Destroy frees the pool only when all its workers have left and every
\* accepted task has run.
THEOREM PoolGracefulShutdown == Spec => []GracefulShutdown
<1>1. PoolInv => GracefulShutdown
  <2> SUFFICES ASSUME PoolInv PROVE GracefulShutdown
    OBVIOUS
  <2>1. CASE Joined
    BY <2>1, JoinedFacts DEF PoolInv, GracefulShutdown
  <2>2. CASE pc[Owner] = "gone"
    BY <2>2 DEF PoolInv, GoneForGood, GracefulShutdown
  <2> QED
    BY <2>1, <2>2 DEF GracefulShutdown
<1> QED
  BY <1>1, PoolInvariant, PTL

\* Create and Destroy give back the memory they acquired.
THEOREM PoolNoMemoryLeak == Spec => []NoMemoryLeak
<1>1. PoolInv => NoMemoryLeak
  BY DEF PoolInv, GoneForGood, NoMemoryLeak
<1> QED
  BY <1>1, PoolInvariant, PTL

\* If the owner destroys the pool only when no other client is in a call,
\* no thread is inside a pool function once its mutex is destroyed: workers
\* and the tasks they run, which may themselves be submitting, included.
THEOREM PoolNoUseAfterDestroy ==
  ASSUME ~RaceDestroy
  PROVE  Spec => []NoUseAfterDestroy
<1>1. PoolInv => NoUseAfterDestroy
  <2> SUFFICES ASSUME PoolInv, "lock" \notin held, NEW t \in Threads
               PROVE  pc[t] \notin Locking \cup Critical \cup Asleep
    BY DEF NoUseAfterDestroy
  <2>1. pc[Owner] \in {"new", "gone"}
    BY DEF PoolInv, LifeCycle, Primitives
  <2>2. \A c \in Clients \ {Owner} : pc[c] = "idle"
    BY <2>1 DEF PoolInv, LifeCycle, Usage
  <2>3. \A w \in Workers : pc[w] \in {"none", "exited"}
    BY <2>1 DEF PoolInv, LifeCycle, GoneForGood
  <2> QED
    BY <2>1, <2>2, <2>3, LabelFacts DEF Threads, Critical
<1> QED
  BY <1>1, PoolInvariant, PTL

\* An idle pool has finished every task it accepted.
LEMMA IdleMeansDone ==
  ASSUME PoolInv, Idle
  PROVE  accepted = finished
<1>1. Busy = {}
  <2>1. IsFiniteSet(Busy) /\ Cardinality(Busy) = 0
    BY WorkersFinite DEF PoolInv, ActiveWorkersExact, Idle, Busy
  <2> QED
    BY <2>1, FS_EmptySet
<1>2. Running = {}
  BY <1>1 DEF Busy, Running, Executing
<1>3. Queued = {}
  BY DEF Idle, Queued
<1> QED
  BY <1>2, <1>3 DEF PoolInv, TasksConserved

\* Wait returns only when every task accepted before it was called has
\* returned.
THEOREM PoolWaitCoversCall == Spec => WaitCoversCall
<1> DEFINE Covers ==
      \A c \in Clients :
        pc[c] = "bCrit" /\ pc'[c] = "idle" => waitFor[c] \subseteq finished
<1>1. PoolInv /\ [Next]_vars => [Covers]_vars
  <2> SUFFICES ASSUME PoolInv, [Next]_vars, NEW d \in Clients,
                      pc[d] = "bCrit", pc'[d] = "idle"
               PROVE  waitFor[d] \subseteq finished
    BY DEF Covers
  <2>1. Idle
    <3>0. TypeOK /\ LabelsOK
      BY DEF PoolInv, TypeOK
    <3> USE <3>0, LabelFacts DEF LabelsOK
    <3>1. ASSUME NEW t \in Threads, MtxLock(t) PROVE Idle
      <4>1. LockMove(t)
        BY <3>1, LockEffect
      <4> QED
        BY <4>1 DEF LockMove
    <3>2. ASSUME NEW t \in Threads, SpuriousWakeup(t) PROVE Idle
      <4>1. SpuriousMove(t)
        BY <3>2, SpuriousEffect
      <4> QED
        BY <4>1 DEF SpuriousMove
    <3>3. ASSUME NEW t \in Threads, NEW k \in Tasks, AddTask(t, k) PROVE Idle
      BY <3>3 DEF AddTask, Goto, MayCall, Home
    <3>4. ASSUME NEW t \in Threads, AddTaskAccepts(t) PROVE Idle
      <4>1. AcceptsMove(t)
        BY <3>4, AcceptsEffect
      <4> QED
        BY <4>1 DEF AcceptsMove
    <3>5. ASSUME NEW t \in Threads, AddTaskRefuses(t) PROVE Idle
      BY <3>5 DEF AddTaskRefuses, Unlock, Goto, Home
    <3>6. ASSUME NEW w \in Workers, WorkerSleeps(w) PROVE Idle
      BY <3>6 DEF WorkerSleeps, Unlock, Goto
    <3>7. ASSUME NEW w \in Workers, WorkerExits(w) PROVE Idle
      BY <3>7 DEF WorkerExits, Unlock, Goto
    <3>8. ASSUME NEW w \in Workers, WorkerTakes(w) PROVE Idle
      BY <3>8 DEF WorkerTakes, Unlock, Goto
    <3>9. ASSUME NEW w \in Workers, TaskReturns(w) PROVE Idle
      BY <3>9 DEF TaskReturns, Goto
    <3>10. ASSUME NEW w \in Workers, WorkerBooks(w) PROVE Idle
      <4>1. BooksMove(w)
        BY <3>10, BooksEffect
      <4> QED
        BY <4>1 DEF BooksMove
    <3>11. ASSUME NEW c \in Clients, Wait(c) PROVE Idle
      BY <3>11 DEF Wait, Goto, MayCall, Home
    <3>12. ASSUME NEW c \in Clients, WaitSleeps(c) PROVE Idle
      BY <3>12 DEF WaitSleeps, Unlock, Goto
    <3>13. ASSUME NEW c \in Clients, WaitReturns(c) PROVE Idle
      BY <3>13 DEF WaitReturns, Unlock, Goto
    <3>14. ASSUME NEW c \in Clients, PendingTasks(c) PROVE Idle
      BY <3>14 DEF PendingTasks, Goto, MayCall, Home
    <3>15. ASSUME NEW c \in Clients, PendingReturns(c) PROVE Idle
      BY <3>15 DEF PendingReturns, Unlock, Goto
    <3>16. CASE CreateInits
      BY <3>16 DEF CreateInits, Goto
    <3>17. CASE CreateFails
      BY <3>17 DEF CreateFails, CreateLeftovers, Goto
    <3>18. CASE SpawnWorker
      BY <3>18 DEF SpawnWorker
    <3>19. CASE SpawnFails
      BY <3>19 DEF SpawnFails, Goto
    <3>20. CASE CreateReturns
      BY <3>20 DEF CreateReturns, Goto
    <3>21. CASE Destroy
      BY <3>21 DEF Destroy, Goto
    <3>22. CASE DestroyAnnounces
      <4>1. AnnouncesMove
        BY <3>22, AnnouncesEffect
      <4> QED
        BY <4>1 DEF AnnouncesMove
    <3>23. CASE DestroyJoins
      BY <3>23 DEF DestroyJoins
    <3>24. CASE DestroyFrees
      BY <3>24 DEF DestroyFrees, Goto
    <3>25. CASE UNCHANGED vars
      BY <3>25 DEF vars
    <3> QED
      BY <3>1, <3>2, <3>3, <3>4, <3>5, <3>6, <3>7, <3>8, <3>9, <3>10, <3>11,
         <3>12, <3>13, <3>14, <3>15, <3>16, <3>17, <3>18, <3>19, <3>20,
         <3>21, <3>22, <3>23, <3>24, <3>25, SMTT(60) DEF Next, WorkerStep,
         AddTaskStep, ClientStep, CreateStep, DestroyStep, Finished
  <2> QED
    BY <2>1, IdleMeansDone DEF PoolInv, WaitsForAccepted
<1> QED
  BY <1>1, PoolInvariant, PTL DEF Spec, WaitCoversCall

\* PendingTasks returns zero only when every accepted task has returned.
THEOREM PoolZeroPendingMeansDone == Spec => ZeroPendingMeansDone
<1> DEFINE Done ==
      \A c \in Clients :
        pc[c] = "pCrit" /\ pc'[c] = "idle" /\ PendingCount = 0
          => accepted \subseteq finished
<1>1. PoolInv => Done
  <2> SUFFICES ASSUME PoolInv, PendingCount = 0 PROVE accepted = finished
    BY DEF Done
  <2>1. activeWorkers \in Nat
    BY WorkersFinite DEF PoolInv, ActiveWorkersExact, Busy
  <2>2. Len(taskQueue) \in Nat /\ taskQueue \in Seq(Tasks)
    BY DEF PoolInv, TypeOK, PoolOK
  <2>3. Len(taskQueue) = 0 /\ activeWorkers = 0
    BY <2>1, <2>2 DEF PendingCount
  <2>4. Idle
    BY <2>2, <2>3 DEF Idle
  <2> QED
    BY <2>4, IdleMeansDone
<1>2. PoolInv /\ [Next]_vars => [Done]_vars
  BY <1>1
<1> QED
  BY <1>2, PoolInvariant, PTL DEF Spec, ZeroPendingMeansDone

-----------------------------------------------------------------------------
(* The abstract service: every step of the threads, the mutex and the        *)
(* condition variables is a step of TaskService or leaves it unchanged.      *)

LEMMA ServiceInit == Init => Service!Init
BY LabelFacts, PoolAssumption
   DEF Init, Service!Init, Phase, Execution, Executing

\* A step that moves no task and does not change the phase.
LEMMA ServiceStutter ==
  ASSUME Executing' = Executing, \A w \in Executing : task'[w] = task[w],
         UNCHANGED <<taskQueue, finished, Phase>>
  PROVE  UNCHANGED Service!vars
BY DEF Service!vars, Execution

\* Every step of the pool is a step of the service or a stutter.
LEMMA ServiceStep ==
  PoolInv /\ [Next]_vars => [Service!Next]_(Service!vars)
<1> SUFFICES ASSUME PoolInv, [Next]_vars
             PROVE  Service!Next \/ UNCHANGED Service!vars
  OBVIOUS
<1>0. TypeOK /\ LabelsOK /\ PoolOK /\ CallsOK
  BY DEF PoolInv, TypeOK
<1> USE <1>0, LabelFacts
<1>1. ASSUME NEW t \in Threads, MtxLock(t)
      PROVE  Service!Next \/ UNCHANGED Service!vars
  <2>0. LockMove(t)
    BY <1>1, LockEffect
  <2>1. Executing' = Executing
    BY <1>1, <2>0 DEF MtxLock, LockMove, LabelsOK, Executing
  <2>2. Phase' = Phase
    BY <1>1, <2>0 DEF MtxLock, LockMove, Phase, LabelsOK, poolVars, lifeVars
  <2> QED
    BY <1>1, <2>1, <2>2, ServiceStutter DEF MtxLock, poolVars, history
<1>2. ASSUME NEW t \in Threads, SpuriousWakeup(t)
      PROVE  Service!Next \/ UNCHANGED Service!vars
  <2>0. SpuriousMove(t)
    BY <1>2, SpuriousEffect
  <2>1. Executing' = Executing
    BY <1>2, <2>0 DEF SpuriousWakeup, SpuriousMove, LabelsOK, Executing
  <2>2. Phase' = Phase
    BY <1>2, <2>0 DEF SpuriousWakeup, SpuriousMove, Phase, LabelsOK,
       poolVars, lifeVars
  <2> QED
    BY <1>2, <2>1, <2>2, ServiceStutter DEF SpuriousWakeup, poolVars,
       history
<1>3. ASSUME NEW t \in Threads, NEW k \in Tasks, AddTask(t, k)
      PROVE  Service!Next \/ UNCHANGED Service!vars
  <2>1. Executing' = Executing
    BY <1>3 DEF AddTask, Goto, MayCall, Home, LabelsOK, Executing
  <2>2. Phase' = Phase
    BY <1>3 DEF AddTask, Goto, MayCall, Home, Phase, LabelsOK, poolVars,
       lifeVars
  <2> QED
    BY <1>3, <2>1, <2>2, ServiceStutter DEF AddTask, poolVars, history
<1>4. ASSUME NEW t \in Threads, AddTaskAccepts(t)
      PROVE  Service!Next \/ UNCHANGED Service!vars
  <2>0. AcceptsMove(t)
    BY <1>4, AcceptsEffect
  <2>1. Executing' = Executing /\ task' = task /\ finished' = finished
    BY <1>4, <2>0 DEF AddTaskAccepts, AcceptsMove, Executing, LabelsOK
  <2>2. Execution' = Execution
    BY <2>1 DEF Execution
  <2>3. arg[t] \in Tasks /\ arg[t] \in offered /\ arg[t] \notin accepted
    BY <1>4 DEF AddTaskAccepts, CallsOK, PoolInv, ArgumentsFresh
  <2>4. pc[Owner] # "gone"
    BY <1>4, <2>3 DEF AddTaskAccepts, PoolInv, Usage
  <2>5. Phase = "open" /\ Phase' = "open"
    BY <1>4, <2>0, <2>3, <2>4 DEF AddTaskAccepts, AcceptsMove, Phase, PoolInv,
            Usage, PoolOK, lifeVars
  <2>6. /\ arg[t] \notin finished
        /\ \A i \in 1 .. Len(taskQueue) : taskQueue[i] # arg[t]
        /\ \A w \in Executing : task[w] # arg[t]
    BY <2>3 DEF PoolInv, TasksConserved, Queued, Running
  <2>9. \A w \in Workers : Execution[w] # arg[t]
    BY <2>3, <2>6, PoolAssumption DEF Execution
  <2>7. taskQueue' = Append(taskQueue, arg[t])
    BY <1>4 DEF AddTaskAccepts, Enqueued
  <2>8. Service!Submit(arg[t])
    BY <2>1, <2>2, <2>5, <2>6, <2>9, <2>7 DEF Service!Submit
  <2> QED
    BY <2>3, <2>8 DEF Service!Next
<1>5. ASSUME NEW t \in Threads, AddTaskRefuses(t)
      PROVE  Service!Next \/ UNCHANGED Service!vars
  <2>1. Executing' = Executing
    BY <1>5 DEF AddTaskRefuses, Unlock, Goto, Home, LabelsOK, Executing
  <2>2. Phase' = Phase
    BY <1>5 DEF AddTaskRefuses, Unlock, Goto, Home, Phase, LabelsOK,
       poolVars, lifeVars
  <2> QED
    BY <1>5, <2>1, <2>2, ServiceStutter DEF AddTaskRefuses, poolVars,
       history
<1>6. ASSUME NEW w \in Workers, WorkerSleeps(w)
      PROVE  Service!Next \/ UNCHANGED Service!vars
  <2>1. Executing' = Executing
    BY <1>6 DEF WorkerSleeps, Unlock, Goto, LabelsOK, Executing
  <2>2. Phase' = Phase
    BY <1>6 DEF WorkerSleeps, Unlock, Goto, Phase, LabelsOK, poolVars,
       lifeVars
  <2> QED
    BY <1>6, <2>1, <2>2, ServiceStutter DEF WorkerSleeps, poolVars, history
<1>7. ASSUME NEW w \in Workers, WorkerExits(w)
      PROVE  Service!Next \/ UNCHANGED Service!vars
  <2>1. Executing' = Executing
    BY <1>7 DEF WorkerExits, Unlock, Goto, LabelsOK, Executing
  <2>2. Phase' = Phase
    BY <1>7 DEF WorkerExits, Unlock, Goto, Phase, LabelsOK, poolVars,
       lifeVars
  <2> QED
    BY <1>7, <2>1, <2>2, ServiceStutter DEF WorkerExits, poolVars, history
<1>8. ASSUME NEW w \in Workers, WorkerTakes(w)
      PROVE  Service!Next \/ UNCHANGED Service!vars
  <2>1. pc[w] = "wLoop" /\ pc'[w] = "run" /\ \A x \in Threads \ {w} : pc'[x] = pc[x]
    BY <1>8 DEF WorkerTakes, Unlock, Goto
  <2>2. Executing' = Executing \cup {w} /\ w \notin Executing
    BY <2>1 DEF Executing
  <2>3. task'[w] = Head(taskQueue) /\ \A x \in Executing : task'[x] = task[x]
    BY <1>8, <2>2 DEF WorkerTakes, CallsOK, Executing
  <2>4. /\ Execution[w] = NoTask
        /\ Execution' = [Execution EXCEPT ![w] = Head(taskQueue)]
    BY <2>2, <2>3 DEF Execution
  <2>5. Phase' = Phase
    BY <1>8, <2>1 DEF WorkerTakes, Phase, lifeVars
  <2>6. taskQueue # <<>> /\ taskQueue' = Tail(taskQueue) /\ finished' = finished
    BY <1>8 DEF WorkerTakes, history
  <2>7. Service!Start(w)
    BY <2>4, <2>5, <2>6 DEF Service!Start
  <2> QED
    BY <2>7 DEF Service!Next
<1>9. ASSUME NEW w \in Workers, TaskReturns(w)
      PROVE  Service!Next \/ UNCHANGED Service!vars
  <2>1. pc[w] = "run" /\ pc'[w] = "fLock" /\ \A x \in Threads \ {w} : pc'[x] = pc[x]
    BY <1>9 DEF TaskReturns, Goto
  <2>2. Executing' = Executing \ {w} /\ w \in Executing
    BY <2>1 DEF Executing
  <2>3. task' = task /\ taskQueue' = taskQueue
        /\ finished' = finished \cup {task[w]}
    BY <1>9 DEF TaskReturns, poolVars
  <2>4. task[w] \in Tasks /\ task[w] \notin finished
    BY <2>1, <2>2 DEF CallsOK, PoolInv, TasksConserved, Running
  <2>5. /\ Execution[w] = task[w] /\ Execution[w] # NoTask
        /\ Execution' = [Execution EXCEPT ![w] = NoTask]
    BY <2>2, <2>3, <2>4, PoolAssumption DEF Execution
  <2>6. Phase' = Phase
    BY <1>9, <2>1 DEF TaskReturns, Phase, poolVars, lifeVars
  <2>7. Service!Finish(w)
    BY <2>3, <2>4, <2>5, <2>6 DEF Service!Finish
  <2> QED
    BY <2>7 DEF Service!Next
<1>10. ASSUME NEW w \in Workers, WorkerBooks(w)
      PROVE  Service!Next \/ UNCHANGED Service!vars
  <2>0. BooksMove(w)
    BY <1>10, BooksEffect
  <2>1. Executing' = Executing
    BY <1>10, <2>0 DEF WorkerBooks, BooksMove, LabelsOK, Executing
  <2>2. Phase' = Phase
    BY <1>10, <2>0 DEF WorkerBooks, BooksMove, Phase, LabelsOK, poolVars,
       lifeVars
  <2>3. \A x \in Executing : task'[x] = task[x]
    BY <1>10 DEF WorkerBooks, CallsOK, Executing
  <2> QED
    BY <1>10, <2>1, <2>2, <2>3, ServiceStutter DEF WorkerBooks, history
<1>11. ASSUME NEW c \in Clients, Wait(c)
      PROVE  Service!Next \/ UNCHANGED Service!vars
  <2>1. Executing' = Executing
    BY <1>11 DEF Wait, Goto, MayCall, Home, LabelsOK, Executing
  <2>2. Phase' = Phase
    BY <1>11 DEF Wait, Goto, MayCall, Home, Phase, LabelsOK, poolVars,
       lifeVars
  <2> QED
    BY <1>11, <2>1, <2>2, ServiceStutter DEF Wait, poolVars, history
<1>12. ASSUME NEW c \in Clients, WaitSleeps(c)
      PROVE  Service!Next \/ UNCHANGED Service!vars
  <2>1. Executing' = Executing
    BY <1>12 DEF WaitSleeps, Unlock, Goto, LabelsOK, Executing
  <2>2. Phase' = Phase
    BY <1>12 DEF WaitSleeps, Unlock, Goto, Phase, LabelsOK, poolVars,
       lifeVars
  <2> QED
    BY <1>12, <2>1, <2>2, ServiceStutter DEF WaitSleeps, poolVars, history
<1>13. ASSUME NEW c \in Clients, WaitReturns(c)
      PROVE  Service!Next \/ UNCHANGED Service!vars
  <2>1. Executing' = Executing
    BY <1>13 DEF WaitReturns, Unlock, Goto, LabelsOK, Executing
  <2>2. Phase' = Phase
    BY <1>13 DEF WaitReturns, Unlock, Goto, Phase, LabelsOK, poolVars,
       lifeVars
  <2> QED
    BY <1>13, <2>1, <2>2, ServiceStutter DEF WaitReturns, poolVars, history
<1>14. ASSUME NEW c \in Clients, PendingTasks(c)
      PROVE  Service!Next \/ UNCHANGED Service!vars
  <2>1. Executing' = Executing
    BY <1>14 DEF PendingTasks, Goto, MayCall, Home, LabelsOK, Executing
  <2>2. Phase' = Phase
    BY <1>14 DEF PendingTasks, Goto, MayCall, Home, Phase, LabelsOK,
       poolVars, lifeVars
  <2> QED
    BY <1>14, <2>1, <2>2, ServiceStutter DEF PendingTasks, poolVars, history
<1>15. ASSUME NEW c \in Clients, PendingReturns(c)
      PROVE  Service!Next \/ UNCHANGED Service!vars
  <2>1. Executing' = Executing
    BY <1>15 DEF PendingReturns, Unlock, Goto, LabelsOK, Executing
  <2>2. Phase' = Phase
    BY <1>15 DEF PendingReturns, Unlock, Goto, Phase, LabelsOK, poolVars,
       lifeVars
  <2> QED
    BY <1>15, <2>1, <2>2, ServiceStutter DEF PendingReturns, poolVars,
       history
<1>16. CASE CreateInits
  <2>1. Executing' = Executing
    BY <1>16 DEF CreateInits, Goto, LabelsOK, Executing
  <2>2. Phase' = Phase
    BY <1>16 DEF CreateInits, Goto, Phase, LabelsOK, poolVars, lifeVars
  <2> QED
    BY <1>16, <2>1, <2>2, ServiceStutter DEF CreateInits, poolVars, history
<1>17. CASE CreateFails
  <2>1. Executing' = {} /\ Executing = {}
    BY <1>17 DEF CreateFails, Goto, Executing, PoolInv, LifeCycle
  <2>2. Execution' = Execution /\ \A w \in Workers : Execution[w] = NoTask
    BY <2>1 DEF Execution
  <2>3. accepted = {}
    BY <1>17 DEF CreateFails, PoolInv, Usage, ArgumentsFresh
  <2>4. taskQueue = <<>>
    <3>1. Queued = {} /\ taskQueue \in Seq(Tasks)
      BY <2>3 DEF PoolInv, TasksConserved, PoolOK
    <3>2. ASSUME taskQueue # <<>> PROVE FALSE
      <4>1. 1 \in 1 .. Len(taskQueue)
        BY <3>1, <3>2
      <4>2. taskQueue[1] \in Queued
        BY <4>1 DEF Queued
      <4> QED
        BY <3>1, <4>2
    <3> QED
      BY <3>2
  <2>5. Phase = "absent" /\ Phase' = "gone"
    BY <1>17 DEF CreateFails, Goto, Phase, PoolInv, LifeCycle
  <2>6. Service!Vanish
    BY <1>17, <2>2, <2>4, <2>5 DEF CreateFails, Service!Vanish, poolVars, history
  <2> QED
    BY <2>6 DEF Service!Next
<1>18. CASE SpawnWorker
  <2>1. Executing' = Executing
    BY <1>18, PoolAssumption DEF SpawnWorker, LabelsOK, Executing, PoolOK,
       PoolInv, LifeCycle, Workers
  <2>2. Phase' = Phase
    BY <1>18, PoolAssumption DEF SpawnWorker, Phase, PoolOK, LabelsOK,
       Workers, LabelsOK, poolVars, lifeVars
  <2> QED
    BY <1>18, <2>1, <2>2, ServiceStutter DEF SpawnWorker, poolVars, history
<1>19. CASE SpawnFails
  <2>1. Executing' = Executing
    BY <1>19 DEF SpawnFails, Goto, LabelsOK, Executing
  <2>2. Phase' = Phase
    BY <1>19 DEF SpawnFails, Goto, Phase, LabelsOK, poolVars, lifeVars
  <2> QED
    BY <1>19, <2>1, <2>2, ServiceStutter DEF SpawnFails, poolVars, history
<1>20. CASE CreateReturns
  <2>1. Executing' = Executing
    BY <1>20 DEF CreateReturns, Goto, Executing, LabelsOK
  <2>2. Execution' = Execution
    BY <1>20, <2>1 DEF CreateReturns, Execution
  <2>3. Phase = "absent" /\ Phase' = "open"
    BY <1>20, PoolAssumption DEF CreateReturns, Goto, Phase, PoolInv, LifeCycle,
            poolVars
  <2>4. Service!Open
    BY <1>20, <2>2, <2>3 DEF CreateReturns, Service!Open, poolVars, history
  <2> QED
    BY <2>4 DEF Service!Next
<1>21. CASE Destroy
  <2>1. Executing' = Executing
    BY <1>21 DEF Destroy, Goto, LabelsOK, Executing
  <2>2. Phase' = Phase
    BY <1>21 DEF Destroy, Goto, Phase, LabelsOK, poolVars, lifeVars
  <2> QED
    BY <1>21, <2>1, <2>2, ServiceStutter DEF Destroy, poolVars, history
<1>22. CASE DestroyAnnounces
  <2>0. AnnouncesMove
    BY <1>22, AnnouncesEffect
  <2>1. Executing' = Executing
    BY <2>0 DEF AnnouncesMove, Executing, LabelsOK
  <2>2. Execution' = Execution
    BY <1>22, <2>1 DEF DestroyAnnounces, Execution
  <2>3. Phase \in {"absent", "open"} /\ Phase' = "closing"
    BY <1>22, <2>0 DEF DestroyAnnounces, AnnouncesMove, Phase, PoolInv, LifeCycle
  <2>4. Service!Close
    BY <1>22, <2>2, <2>3 DEF DestroyAnnounces, Service!Close, history
  <2> QED
    BY <2>4 DEF Service!Next
<1>23. CASE DestroyJoins
  <2>1. Executing' = Executing
    BY <1>23 DEF DestroyJoins, LabelsOK, Executing
  <2>2. Phase' = Phase
    BY <1>23 DEF DestroyJoins, Phase, LabelsOK, poolVars, lifeVars
  <2> QED
    BY <1>23, <2>1, <2>2, ServiceStutter DEF DestroyJoins, poolVars, history
<1>24. CASE DestroyFrees
  <2>1. Joined
    BY <1>24 DEF DestroyFrees, Joined
  <2>2. taskQueue = <<>> /\ \A w \in Workers : pc[w] \in {"none", "exited"}
    BY <2>1, JoinedFacts DEF PoolInv
  <2>3. Executing = {} /\ Executing' = {}
    BY <1>24, <2>2 DEF DestroyFrees, Goto, Executing
  <2>4. Execution' = Execution /\ \A w \in Workers : Execution[w] = NoTask
    BY <2>3 DEF Execution
  <2>5. Phase = "closing" /\ Phase' = "gone"
    BY <1>24 DEF DestroyFrees, Goto, Phase, PoolInv, LifeCycle
  <2>6. Service!Vanish
    BY <1>24, <2>2, <2>4, <2>5 DEF DestroyFrees, Service!Vanish, history
  <2> QED
    BY <2>6 DEF Service!Next
<1>25. CASE UNCHANGED vars
  BY <1>25 DEF vars, poolVars, lifeVars, history, Service!vars, Execution,
     Executing, Phase
<1> QED
  BY <1>1, <1>2, <1>3, <1>4, <1>5, <1>6, <1>7, <1>8, <1>9, <1>10, <1>11,
     <1>12, <1>13, <1>14, <1>15, <1>16, <1>17, <1>18, <1>19, <1>20, <1>21,
     <1>22, <1>23, <1>24, <1>25, SMTT(60) DEF Next, WorkerStep, AddTaskStep,
     ClientStep, CreateStep, DestroyStep, Finished

\* The thread pool implements the abstract task service, for every number of
\* workers, clients and tasks.
THEOREM PoolImplementsService == Spec => ImplementsService
<1>1. PoolInv /\ [Next]_vars => [Service!Next]_(Service!vars)
  BY ServiceStep
<1> QED
  BY <1>1, ServiceInit, PoolInvariant, PTL
     DEF Spec, ImplementsService, Service!Spec
=============================================================================
