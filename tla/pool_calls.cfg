SPECIFICATION FairSpec
CONSTANTS
  alice = alice
  bob = bob
  t1 = t1
  t2 = t2
  NoThread = NoThread
  NoTask = NoTask
  ThreadCount = 2
  InitialCapacity = 1
  UsesArena = TRUE
  Clients <- TwoClients
  Owner = alice
  Tasks <- TwoTasks
  RaceDestroy = FALSE
  MaxCalls = 1
  MaxSpurious = 1
INVARIANTS
  TasksConserved
  NoWorkerOverslept
  NoWaiterForgotten
  GracefulShutdown
  NoUseAfterDestroy
PROPERTIES
  ImplementsService
  WaitCoversCall
  ZeroPendingMeansDone
  AcceptedTasksFinish
  CallsReturn
