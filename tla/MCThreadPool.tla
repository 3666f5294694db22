---------------------------- MODULE MCThreadPool ----------------------------
(* ThreadPool with two workers and two tasks, which the ring of one has to   *)
(* grow for.                                                                *)
EXTENDS ThreadPool

CONSTANTS alice, bob, t1, t2

TwoClients == {alice, bob}
TwoTasks   == {t1, t2}
=============================================================================
