---------------------------- MODULE TaskService ----------------------------
(***************************************************************************)
(* What justThreadPool promises, without threads, locks or condition       *)
(* variables: tasks are accepted while the service is open, they start in  *)
(* the order they were accepted, one on each free slot, none is run twice, *)
(* and the service disappears only when nothing is pending or running.     *)
(* ThreadPool implements this specification.                               *)
(***************************************************************************)
EXTENDS Naturals, Sequences

CONSTANTS Tasks,   \* the tasks callers may submit
          Slots,   \* as many tasks run at a time as there are slots
          Free     \* the content of a slot that runs nothing

VARIABLES phase,     \* "absent", "open", "closing" or "gone"
          pending,   \* accepted tasks that have not started, oldest first
          running,   \* the task whose function each slot is executing
          finished   \* tasks whose function has returned

vars == <<phase, pending, running, finished>>

Init ==
  /\ phase = "absent"
  /\ pending = <<>>
  /\ running = [s \in Slots |-> Free]
  /\ finished = {}

\* The creator hands the service to its users.
Open ==
  /\ phase = "absent"
  /\ phase' = "open"
  /\ UNCHANGED <<pending, running, finished>>

\* A task is accepted; only an open service accepts one.
Submit(k) ==
  /\ phase = "open"
  /\ k \notin finished
  /\ \A s \in Slots : running[s] # k
  /\ \A i \in 1 .. Len(pending) : pending[i] # k
  /\ pending' = Append(pending, k)
  /\ UNCHANGED <<phase, running, finished>>

\* The oldest accepted task starts on a free slot.
Start(s) ==
  /\ pending # <<>>
  /\ running[s] = Free
  /\ running' = [running EXCEPT ![s] = Head(pending)]
  /\ pending' = Tail(pending)
  /\ UNCHANGED <<phase, finished>>

\* The task of a slot finishes, for the first time.
Finish(s) ==
  /\ running[s] # Free
  /\ running[s] \notin finished
  /\ finished' = finished \cup {running[s]}
  /\ running' = [running EXCEPT ![s] = Free]
  /\ UNCHANGED <<phase, pending>>

\* Shutdown begins, or creation is abandoned half way.
Close ==
  /\ phase \in {"absent", "open"}
  /\ phase' = "closing"
  /\ UNCHANGED <<pending, running, finished>>

\* The service disappears, with nothing left undone.
Vanish ==
  /\ phase \in {"absent", "closing"}
  /\ pending = <<>>
  /\ \A s \in Slots : running[s] = Free
  /\ phase' = "gone"
  /\ UNCHANGED <<pending, running, finished>>

Next ==
  \/ Open \/ Close \/ Vanish
  \/ \E k \in Tasks : Submit(k)
  \/ \E s \in Slots : Start(s) \/ Finish(s)

Spec == Init /\ [][Next]_vars
=============================================================================
