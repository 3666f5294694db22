---------------------------- MODULE MCOrderedSet ----------------------------
(* OrderedSet with trees of up to seven nodes.                                 *)
EXTENDS OrderedSet

SomeElements == 1 .. 7
OneWatched   == {4}
=============================================================================
