------------------------------- MODULE MCFiles -------------------------------
(* Two processes, two names, two inodes and two levels.                      *)
EXTENDS Files

CONSTANTS proc1, proc2, ino1, ino2

TwoProcs == {proc1, proc2}
TwoInodes == {ino1, ino2}
TwoNames == {"a", "b"}

SomeParts ==
  {<<"a">>, <<"b", "/">>, <<"..">>, <<".">>, <<"/", "a">>, <<"..", "/", "b">>, <<>>}
DeepCwd == <<"a", "b">>

SomeFiles == {<<"/", "a">>, <<"/", "b", "/", "a">>}
SomeDirs == {<<"/", "b", "/", "/", "a">>, <<"/", "b", "/", "..", "/", "b", "/">>}
SomeMoves == {<<<<"/", "a">>, <<"/", "b">>>>, <<<<"/", "b", "/", "a">>, <<"/", "a">>>>}

ASSUME MCFilesAssumption == DirsFit /\ ListsFit

Swap == Permutations(TwoProcs)
=============================================================================
