---------------------------- MODULE SystemProofs ----------------------------
(***************************************************************************)
(* The components that talk to the operating system.  The test manager     *)
(* counts every test once, under a verdict that is about its own end, and  *)
(* loses no line of output, for every number of groups and tests and every *)
(* size of the pipe.  The file calls close every descriptor and lose no    *)
(* appended byte, processes that make directories do not disturb one       *)
(* another, and a read, a write or a listing that nobody disturbs does     *)
(* exactly what it says, for any number of processes, files, names and     *)
(* bytes, and wherever a process is interrupted or dies.                   *)
(***************************************************************************)
EXTENDS TestManager, Files, NumberLemmas, FiniteSetTheorems, SequenceTheorems, TLAPS

-----------------------------------------------------------------------------
(* justTestManager *)

Busy   == {"pipe", "forked", "read", "wait"}
Forked == {"forked", "read", "wait"}
Labels == Busy \cup {"idle", "next", "returned", "aborted"}
Kinds  == {"passed", "skipped", "failed", "crashed"}

-----------------------------------------------------------------------------
(* The inductive invariants *)

\* The groups: no test is in two places, and the groups behind the last one
\* that is used are empty.
GroupsOK ==
  /\ testGroups \in [Groups -> Seq(Tests)]
  /\ \A g, h \in Groups :
       \A i \in DOMAIN testGroups[g], j \in DOMAIN testGroups[h] :
         testGroups[g][i] = testGroups[h][j] => g = h /\ i = j
  /\ maxGroupID \in Groups
  /\ \A g \in Groups : g > maxGroupID => testGroups[g] = <<>>

\* The loops of RunAll.
LoopsOK ==
  /\ pc \in Labels
  /\ group \in Groups /\ group <= maxGroupID
  /\ index \in Nat /\ index >= 1 /\ index <= Len(testGroups[group]) + 1
  /\ pc \in {"idle", "aborted"} => group = 0 /\ index = 1
  /\ pc \in Busy => index <= Len(testGroups[group])
  /\ pc = "returned" => group = maxGroupID /\ index > Len(testGroups[group])

\* The test was before the current one.
Before(t) ==
  \E g \in Groups : \E i \in DOMAIN testGroups[g] :
    testGroups[g][i] = t /\ (g < group \/ (g = group /\ i < index))

\* The counters and the verdicts.
CountsOK ==
  /\ passed \in Nat /\ skipped \in Nat /\ failed \in Nat /\ crashed \in Nat
  /\ verdicts \in Seq(Tests \X Kinds)
  /\ passed + skipped + failed + crashed = Len(verdicts)
  /\ total = Len(verdicts) + (IF pc \in Busy THEN 1 ELSE 0)
  /\ \A i, j \in DOMAIN verdicts : verdicts[i][1] = verdicts[j][1] => i = j
  /\ \A t \in Tests : (\E i \in DOMAIN verdicts : verdicts[i][1] = t) <=> Before(t)

CountInv == GroupsOK /\ LoopsOK /\ CountsOK

\* The child, and who holds the pipe's write end.
ChildOK ==
  /\ DOMAIN child = {"state", "status", "stdout", "buffered", "lines"}
  /\ child.state \in {"none", "running", "exiting", "zombie"}
  /\ child.state # "none" => pc \in Forked
  /\ child.state = "none" => child = NoChild
  /\ child.state \in {"running", "exiting"} => "child" \in writers
  /\ child.state = "exiting" => child.status \in Codes
  /\ child.state = "zombie" => child.status \in Codes \cup {SIGNALED}

\* The fates go with the verdicts, and the test being run has one as soon as
\* its end is decided.
Decided == pc \in Forked /\ child.state \notin {"running", "exiting"}
FatesOK ==
  /\ fates \in Seq(Tests \X (Codes \cup {SIGNALED, NOT_RUN}))
  /\ Len(fates) = Len(verdicts) + (IF Decided THEN 1 ELSE 0)
  /\ Decided => fates[Len(fates)] =
                  <<Test, IF child.state = "none" THEN NOT_RUN ELSE child.status>>

FateInv == CountInv /\ ChildOK /\ FatesOK /\ VerdictsTruthful

Lines ==
  {<<"banner">>, <<"summary">>, <<"failures">>}
    \cup ({"group"} \X Groups) \cup (Kinds \X Tests)
    \cup ({"stdout", "stderr"} \X Tests \X Nat)

\* The streams.  Nothing is in the pipe while the parent does not read.
StreamsOK ==
  /\ debug \in BOOLEAN /\ toFile \in BOOLEAN /\ used \in BOOLEAN
  /\ child.lines \in Nat /\ child.buffered \in BOOLEAN
  /\ console \in Seq(Lines) /\ buffer \in Seq(Lines) /\ pipe \in Seq(Lines)
  /\ written \in Seq(Lines) /\ child.stdout \in Seq(Lines)
  /\ pc \notin {"forked", "read"} => pipe = <<>>
  /\ pc = "wait" => writers = {}
  /\ child.state \in {"none", "zombie"} => child.stdout = <<>>

\* On a terminal the parent buffers nothing, and in the debug build, which
\* writes to stdout before it forks, neither does a child.
TerminalOK ==
  /\ ~toFile => buffer = <<>>
  /\ debug /\ ~toFile =>
       /\ pc \notin {"idle", "aborted"} => used
       /\ child.stdout = <<>> /\ child.buffered = FALSE
       /\ console \o pipe = written

\* The lines that are not in a child's hands.
Safe == Range(console) \cup Range(buffer) \cup Range(pipe)

\* What a child has in its buffer is its own, or is still in the parent's.
CopiesOK ==
  \A line \in Range(child.stdout) :
    line \in Safe \/ (line[1] = "stdout" /\ line[2] = Test)

\* No line is lost, but a killed test's own.
Kept(line) ==
  \/ line \in Safe \cup Range(child.stdout)
  \/ line[1] = "stdout" /\ Killed(line[2])
LinesOK == \A line \in Range(written) : Kept(line)

OutputInv == FateInv /\ StreamsOK /\ TerminalOK /\ CopiesOK /\ LinesOK

-----------------------------------------------------------------------------
(* Every test is counted once *)

LEMMA GroupRange ==
  /\ 0 \in Groups
  /\ \A g \in Groups : g \in Nat
  /\ \A g \in Groups : \A h \in Nat : h <= g => h \in Groups
<1>1. Groups = 0 .. Cardinality(Groups) - 1 /\ Groups # {} /\ Cardinality(Groups) \in Nat
  BY TestAssumption, FS_CardinalityType
<1>2. PICK n \in Nat : n = Cardinality(Groups)
  BY <1>1
<1>3. Groups = 0 .. n - 1 /\ n > 0
  BY <1>1, <1>2
<1> QED
  BY <1>3

\* The test being run.
LEMMA TestFacts ==
  ASSUME CountInv, pc \in Busy
  PROVE  /\ group \in Groups /\ index \in DOMAIN testGroups[group] /\ Test \in Tests
         /\ Test = testGroups[group][index] /\ ~Before(Test)
<1>1. /\ testGroups \in [Groups -> Seq(Tests)] /\ group \in Groups
      /\ index \in Nat /\ index >= 1 /\ index <= Len(testGroups[group])
  BY DEF CountInv, GroupsOK, LoopsOK
<1>2. testGroups[group] \in Seq(Tests)
  BY <1>1
<1>3. index \in DOMAIN testGroups[group] /\ testGroups[group][index] \in Tests
  <2>1. index \in 1 .. Len(testGroups[group])
    BY <1>1, <1>2
  <2> QED
    BY <1>2, <2>1, ElementOfSeq, LenProperties
<1>4. ~Before(testGroups[group][index])
  <2> SUFFICES ASSUME NEW g \in Groups, NEW i \in DOMAIN testGroups[g],
                      testGroups[g][i] = testGroups[group][index],
                      g < group \/ (g = group /\ i < index)
               PROVE  FALSE
    BY DEF Before
  <2>1. g = group /\ i = index
    BY <1>1, <1>3 DEF CountInv, GroupsOK
  <2> QED
    BY <1>1, <2>1, GroupRange
<1> QED
  BY <1>1, <1>3, <1>4 DEF Test

\* Steps that leave the loops and the counters alone.
LEMMA CountStay ==
  ASSUME CountInv, UNCHANGED <<testGroups, maxGroupID, group, index, total, counts>>,
         pc' = pc \/ (pc \in Busy /\ pc' \in Busy)
  PROVE  CountInv'
<1>1. /\ pc' \in Labels /\ (pc' \in Busy <=> pc \in Busy)
      /\ pc' \in {"idle", "aborted"} => pc' = pc
      /\ pc' = "returned" => pc' = pc
  BY DEF CountInv, LoopsOK, Labels, Busy
<1>2. GroupsOK'
  BY DEF CountInv, GroupsOK
<1>3. LoopsOK'
  BY <1>1 DEF CountInv, LoopsOK
<1>4. \A t : Before(t)' <=> Before(t)
  BY DEF Before
<1>5. CountsOK'
  BY <1>1, <1>4 DEF CountInv, CountsOK, counts
<1> QED
  BY <1>2, <1>3, <1>5 DEF CountInv

LEMMA KindIs ==
  ASSUME NEW safe, NEW result
  PROVE  Kind(safe, result) \in Kinds
  BY DEF Kind, Kinds

LEMMA BookedCounts ==
  ASSUME CountInv, pc \in Busy, NEW safe, NEW result, Booked(safe, result)
  PROVE  CountInv'
<1> DEFINE kind == Kind(safe, result)
<1>1. kind \in {"passed", "skipped", "failed", "crashed"}
  BY KindIs DEF Kinds
<1>2. /\ passed'  = passed  + IF kind = "passed"  THEN 1 ELSE 0
      /\ skipped' = skipped + IF kind = "skipped" THEN 1 ELSE 0
      /\ failed'  = failed  + IF kind = "failed"  THEN 1 ELSE 0
      /\ crashed' = crashed + IF kind = "crashed" THEN 1 ELSE 0
      /\ verdicts' = Append(verdicts, <<Test, kind>>)
      /\ pc' = "next" /\ index' = index + 1
      /\ UNCHANGED <<testGroups, maxGroupID, group, total>>
  BY DEF Booked
<1> HIDE DEF kind
<1>3. /\ group \in Groups /\ index \in DOMAIN testGroups[group] /\ Test \in Tests
      /\ Test = testGroups[group][index] /\ ~Before(Test)
  BY TestFacts
<1>4. /\ index \in Nat /\ index >= 1 /\ index <= Len(testGroups[group])
      /\ group <= maxGroupID
  BY DEF CountInv, LoopsOK
<1>5. GroupsOK'
  BY <1>2 DEF CountInv, GroupsOK
<1>6. Len(testGroups[group]) \in Nat
  BY <1>3, LenProperties DEF CountInv, GroupsOK
<1>7. LoopsOK'
  BY <1>2, <1>3, <1>4, <1>6 DEF LoopsOK, Labels, Busy
<1>8. /\ passed \in Nat /\ skipped \in Nat /\ failed \in Nat /\ crashed \in Nat
      /\ verdicts \in Seq(Tests \X Kinds)
      /\ passed + skipped + failed + crashed = Len(verdicts)
      /\ total = Len(verdicts) + 1
  BY DEF CountInv, CountsOK
<1>9. <<Test, kind>> \in Tests \X Kinds
  BY <1>1, <1>3 DEF Kinds
<1> DEFINE x == <<Test, kind>>
<1>10. x[1] = Test
  OBVIOUS
<1> HIDE DEF x
<1>11. /\ verdicts' \in Seq(Tests \X Kinds) /\ Len(verdicts') = Len(verdicts) + 1
       /\ DOMAIN verdicts = 1 .. Len(verdicts) /\ DOMAIN verdicts' = 1 .. Len(verdicts) + 1
       /\ \A i \in 1 .. Len(verdicts) : verdicts'[i] = verdicts[i]
       /\ verdicts'[Len(verdicts) + 1] = x /\ Len(verdicts) \in Nat
  <2>1. x \in Tests \X Kinds /\ verdicts' = Append(verdicts, x)
    BY <1>2, <1>9 DEF x
  <2> QED
    BY <1>8, <2>1, AppendProperties, LenProperties
<1>12. /\ passed' \in Nat /\ skipped' \in Nat /\ failed' \in Nat /\ crashed' \in Nat
       /\ passed' + skipped' + failed' + crashed' = Len(verdicts')
  BY <1>1, <1>2, <1>8, <1>11
<1>13. total' = Len(verdicts') + (IF pc' \in Busy THEN 1 ELSE 0)
  BY <1>2, <1>8, <1>11 DEF Busy
<1>14. ASSUME NEW t \in Tests
       PROVE  (\E i \in DOMAIN verdicts : verdicts[i][1] = t) <=> Before(t)
  BY DEF CountInv, CountsOK
<1>15. \A i \in 1 .. Len(verdicts) : verdicts[i][1] # Test
  BY <1>3, <1>11, <1>14
<1>16. ASSUME NEW i \in DOMAIN verdicts', NEW j \in DOMAIN verdicts',
              verdicts'[i][1] = verdicts'[j][1]
       PROVE  i = j
  <2>1. i \in 1 .. Len(verdicts) \/ i = Len(verdicts) + 1
    BY <1>11
  <2>2. j \in 1 .. Len(verdicts) \/ j = Len(verdicts) + 1
    BY <1>11
  <2>3. \A k, l \in 1 .. Len(verdicts) : verdicts[k][1] = verdicts[l][1] => k = l
    BY <1>11, ZenonT(60) DEF CountInv, CountsOK
  <2> QED
    BY <1>10, <1>11, <1>15, <1>16, <2>1, <2>2, <2>3
<1>17. ASSUME NEW t PROVE Before(t)' <=> Before(t) \/ t = Test
  <2>1. ASSUME NEW g \in Groups, NEW i \in DOMAIN testGroups[g]
        PROVE  (g < group \/ (g = group /\ i < index + 1))
                 <=> (g < group \/ (g = group /\ i < index)) \/ (g = group /\ i = index)
    <3>1. CASE g = group
      <4>1. i \in Nat
        BY <3>1, LenProperties DEF CountInv, GroupsOK
      <4> QED
        BY <1>4, <4>1
    <3>2. CASE g # group
      BY <3>2
    <3> QED
      BY <3>1, <3>2
  <2> QED
    BY <1>2, <1>3, <2>1, SMTT(60) DEF Before
<1>18. ASSUME NEW t \in Tests
       PROVE  (\E i \in DOMAIN verdicts' : verdicts'[i][1] = t) <=> Before(t)'
  <2>1. (\E i \in DOMAIN verdicts' : verdicts'[i][1] = t)
          <=> (\E i \in DOMAIN verdicts : verdicts[i][1] = t) \/ t = Test
    <3>1. \A i \in DOMAIN verdicts' : i \in DOMAIN verdicts \/ i = Len(verdicts) + 1
      BY <1>11
    <3>2. \A i \in DOMAIN verdicts : i \in DOMAIN verdicts'
      BY <1>11
    <3>3. Len(verdicts) + 1 \in DOMAIN verdicts'
      BY <1>11
    <3> QED
      BY <1>10, <1>11, <3>1, <3>2, <3>3, SMTT(60)
  <2> QED
    BY <1>14, <1>17, <2>1
<1>19. CountsOK'
  BY <1>11, <1>12, <1>13, <1>16, <1>18 DEF CountsOK
<1> QED
  BY <1>5, <1>7, <1>19 DEF CountInv

LEMMA RegisterCounts ==
  ASSUME CountInv, NEW t \in Tests, NEW g \in Groups, Register(t, g)
  PROVE  CountInv'
<1>1. /\ pc = "idle" /\ \A h \in Groups : t \notin Range(testGroups[h])
      /\ maxGroupID' = IF g > maxGroupID THEN g ELSE maxGroupID
      /\ UNCHANGED <<group, index, total, passed, skipped, failed, crashed, verdicts>>
  BY DEF Register, counts
<1>2. /\ testGroups \in [Groups -> Seq(Tests)] /\ maxGroupID \in Groups
      /\ group = 0 /\ index = 1 /\ group <= maxGroupID
  BY <1>1 DEF CountInv, GroupsOK, LoopsOK
<1>3. \A h \in Groups : h \in Nat
  BY GroupRange
<1>4. maxGroupID' \in Groups /\ maxGroupID' >= maxGroupID /\ maxGroupID' >= g
  BY <1>1, <1>2, <1>3
<1>5. pc' \in {"idle", "aborted"}
  BY <1>1 DEF Register
<1>6. \/ testGroups' = testGroups
      \/ testGroups' = [testGroups EXCEPT ![g] = Append(testGroups[g], t)]
  BY DEF Register
<1>7. ASSUME NEW h \in Groups
      PROVE  /\ testGroups'[h] \in Seq(Tests)
             /\ \A i \in DOMAIN testGroups'[h] :
                  \/ i \in DOMAIN testGroups[h] /\ testGroups'[h][i] = testGroups[h][i]
                  \/ h = g /\ i = Len(testGroups[g]) + 1 /\ testGroups'[h][i] = t
             /\ h # g => testGroups'[h] = testGroups[h]
  <2>1. CASE testGroups' = testGroups
    BY <1>2, <2>1
  <2>2. CASE testGroups' = [testGroups EXCEPT ![g] = Append(testGroups[g], t)]
    <3>1. CASE h # g
      BY <1>2, <2>2, <3>1
    <3>2. CASE h = g
      <4>1. testGroups[g] \in Seq(Tests) /\ testGroups'[h] = Append(testGroups[g], t)
        BY <1>2, <2>2, <3>2
      <4>2. /\ Append(testGroups[g], t) \in Seq(Tests)
            /\ DOMAIN Append(testGroups[g], t) = 1 .. Len(testGroups[g]) + 1
            /\ DOMAIN testGroups[g] = 1 .. Len(testGroups[g]) /\ Len(testGroups[g]) \in Nat
            /\ \A i \in 1 .. Len(testGroups[g]) :
                 Append(testGroups[g], t)[i] = testGroups[g][i]
            /\ Append(testGroups[g], t)[Len(testGroups[g]) + 1] = t
        BY <4>1, AppendProperties, LenProperties
      <4> QED
        BY <3>2, <4>1, <4>2
    <3> QED
      BY <3>1, <3>2
  <2> QED
    BY <1>6, <2>1, <2>2
<1>8. testGroups' \in [Groups -> Seq(Tests)]
  BY <1>2, <1>6, <1>7
<1>9. ASSUME NEW h \in Groups, NEW k \in Groups,
             NEW i \in DOMAIN testGroups'[h], NEW j \in DOMAIN testGroups'[k],
             testGroups'[h][i] = testGroups'[k][j]
      PROVE  h = k /\ i = j
  <2>1. \A l \in Groups : \A m \in DOMAIN testGroups[l] : testGroups[l][m] # t
    BY <1>1 DEF Range
  <2>2. \A l, m \in Groups :
          \A p \in DOMAIN testGroups[l], q \in DOMAIN testGroups[m] :
            testGroups[l][p] = testGroups[m][q] => l = m /\ p = q
    BY DEF CountInv, GroupsOK
  <2> QED
    BY <1>7, <1>9, <2>1, <2>2, SMTT(60)
<1>10. ASSUME NEW h \in Groups, h > maxGroupID' PROVE testGroups'[h] = <<>>
  <2>1. h # g /\ h > maxGroupID
    BY <1>2, <1>3, <1>4, <1>10
  <2> QED
    BY <1>7, <2>1 DEF CountInv, GroupsOK
<1>11. GroupsOK'
  BY <1>4, <1>8, <1>9, <1>10 DEF GroupsOK
<1>12. 0 \in Groups /\ Len(testGroups'[0]) \in Nat
  BY <1>8, GroupRange, LenProperties
<1>13. LoopsOK'
  BY <1>1, <1>2, <1>3, <1>4, <1>5, <1>12 DEF LoopsOK, Labels, Busy
<1>14. \A x : ~Before(x) /\ ~Before(x)'
  <2>1. \A h \in Groups : \A i \in DOMAIN testGroups[h] : i \in Nat /\ i >= 1
    BY <1>2, LenProperties
  <2>2. \A h \in Groups : \A i \in DOMAIN testGroups'[h] : i \in Nat /\ i >= 1
    BY <1>8, LenProperties
  <2> QED
    BY <1>1, <1>2, <1>3, <2>1, <2>2, SMTT(60) DEF Before
<1>15. CountsOK'
  BY <1>1, <1>5, <1>14 DEF CountInv, CountsOK, Busy
<1> QED
  BY <1>11, <1>13, <1>15 DEF CountInv

LEMMA RunAllCounts ==
  ASSUME CountInv, RunAll
  PROVE  CountInv'
<1>1. /\ pc = "idle" /\ pc' = "next" /\ group' = 0 /\ index' = 1
      /\ UNCHANGED <<testGroups, maxGroupID, total, counts>>
  BY DEF RunAll
<1>2. group = 0 /\ index = 1
  BY <1>1 DEF CountInv, LoopsOK
<1>3. GroupsOK'
  BY <1>1 DEF CountInv, GroupsOK
<1>4. LoopsOK'
  BY <1>1, <1>2 DEF CountInv, LoopsOK, Labels, Busy
<1>5. \A t : Before(t)' <=> Before(t)
  BY <1>1, <1>2 DEF Before
<1>6. CountsOK'
  BY <1>1, <1>5 DEF CountInv, CountsOK, counts, Busy
<1> QED
  BY <1>3, <1>4, <1>6 DEF CountInv

LEMMA StartTestCounts ==
  ASSUME CountInv, StartTest
  PROVE  CountInv'
<1>1. /\ pc = "next" /\ pc' = "pipe" /\ index <= Len(testGroups[group])
      /\ total' = total + 1
      /\ UNCHANGED <<testGroups, maxGroupID, group, index, counts>>
  BY DEF StartTest
<1>2. GroupsOK'
  BY <1>1 DEF CountInv, GroupsOK
<1>3. LoopsOK'
  BY <1>1 DEF CountInv, LoopsOK, Labels, Busy
<1>4. \A t : Before(t)' <=> Before(t)
  BY <1>1 DEF Before
<1>5. Len(verdicts) \in Nat
  BY LenProperties DEF CountInv, CountsOK
<1>6. CountsOK'
  BY <1>1, <1>4, <1>5 DEF CountInv, CountsOK, counts, Busy
<1> QED
  BY <1>2, <1>3, <1>6 DEF CountInv

\* When the group is done, what was before its end is before the next group.
LEMMA NextGroupCounts ==
  ASSUME CountInv, NextGroup
  PROVE  CountInv'
<1>1. /\ pc = "next" /\ pc' = pc /\ index > Len(testGroups[group])
      /\ group + 1 <= maxGroupID /\ group' = group + 1 /\ index' = 1
      /\ UNCHANGED <<testGroups, maxGroupID, total, counts>>
  BY DEF NextGroup, GroupsLeft
<1>2. GroupsOK'
  BY <1>1 DEF CountInv, GroupsOK
<1>3. /\ testGroups \in [Groups -> Seq(Tests)] /\ maxGroupID \in Groups
      /\ group \in Groups /\ index \in Nat /\ \A g \in Groups : g \in Nat
  BY GroupRange DEF CountInv, GroupsOK, LoopsOK
<1>4. group + 1 \in Groups
  BY <1>1, <1>3, GroupRange
<1>5. \A g \in Groups : \A i \in DOMAIN testGroups[g] :
        i \in Nat /\ i >= 1 /\ i <= Len(testGroups[g]) /\ Len(testGroups[g]) \in Nat
  BY <1>3, LenProperties
<1>6. Len(testGroups[group + 1]) \in Nat
  BY <1>3, <1>4, LenProperties
<1>7. LoopsOK'
  BY <1>1, <1>4, <1>6 DEF LoopsOK, Labels, Busy
<1>8. \A t : Before(t)' <=> Before(t)
  <2>1. ASSUME NEW g \in Groups, NEW i \in DOMAIN testGroups[g]
        PROVE  (g < group + 1 \/ (g = group + 1 /\ i < 1))
                 <=> (g < group \/ (g = group /\ i < index))
    <3>1. i \in Nat /\ i >= 1 /\ i <= Len(testGroups[g]) /\ Len(testGroups[g]) \in Nat
      BY <1>5
    <3>2. g = group => i < index
      BY <1>1, <1>3, <3>1
    <3> QED
      BY <1>3, <3>1, <3>2
  <2> QED
    BY <1>1, <2>1 DEF Before
<1>9. CountsOK'
  BY <1>1, <1>8 DEF CountInv, CountsOK, counts, Busy
<1> QED
  BY <1>2, <1>7, <1>9 DEF CountInv

LEMMA SummaryCounts ==
  ASSUME CountInv, Summary
  PROVE  CountInv'
<1>1. /\ pc = "next" /\ pc' = "returned" /\ index > Len(testGroups[group])
      /\ ~(group + 1 <= maxGroupID)
      /\ UNCHANGED <<testGroups, maxGroupID, group, index, total, counts>>
  BY DEF Summary, GroupsLeft, loops
<1>2. GroupsOK'
  BY <1>1 DEF CountInv, GroupsOK
<1>3. group = maxGroupID
  BY <1>1, GroupRange DEF CountInv, GroupsOK, LoopsOK
<1>4. LoopsOK'
  BY <1>1, <1>3 DEF CountInv, LoopsOK, Labels, Busy
<1>5. \A t : Before(t)' <=> Before(t)
  BY <1>1 DEF Before
<1>6. CountsOK'
  BY <1>1, <1>5 DEF CountInv, CountsOK, counts, Busy
<1> QED
  BY <1>2, <1>4, <1>6 DEF CountInv

LEMMA CountInvInit == Init => CountInv
<1> SUFFICES ASSUME Init PROVE CountInv
  OBVIOUS
<1>1. /\ pc = "idle" /\ testGroups = [g \in Groups |-> <<>>] /\ maxGroupID = 0
      /\ group = 0 /\ index = 1 /\ total = 0
      /\ passed = 0 /\ skipped = 0 /\ failed = 0 /\ crashed = 0 /\ verdicts = <<>>
  BY DEF Init
<1>2. GroupsOK
  BY <1>1, GroupRange DEF GroupsOK
<1>3. LoopsOK
  BY <1>1, GroupRange DEF LoopsOK, Labels, Busy
<1>4. \A t : ~Before(t)
  BY <1>1 DEF Before
<1>5. CountsOK
  BY <1>1, <1>4 DEF CountsOK, Busy
<1> QED
  BY <1>2, <1>3, <1>5 DEF CountInv

LEMMA CountInvNext == CountInv /\ [Next]_vars => CountInv'
<1> SUFFICES ASSUME CountInv, [Next]_vars PROVE CountInv'
  OBVIOUS
<1>1. ASSUME RunAll \/ StartTest \/ NextGroup \/ Summary PROVE CountInv'
  BY <1>1, RunAllCounts, StartTestCounts, NextGroupCounts, SummaryCounts
<1>2. ASSUME PipeFails PROVE CountInv'
  BY <1>2, BookedCounts DEF PipeFails, Busy
<1>3. ASSUME ParentWaits PROVE CountInv'
  BY <1>3, BookedCounts DEF ParentWaits, Busy
<1>4. ASSUME Fork \/ ForkFails \/ ParentCloses \/ ParentReachesEnd PROVE CountInv'
  BY <1>4, CountStay DEF Fork, ForkFails, ParentCloses, ParentReachesEnd, loops, Busy
<1>5. ASSUME ParentReads PROVE CountInv'
  BY <1>5, CountStay DEF ParentReads, loops
<1>6. ASSUME ChildEnds \/ ChildDies PROVE CountInv'
  BY <1>6, CountStay DEF ChildEnds, ChildFlushes, ChildExits, ChildDies, ChildReturns, loops
<1>7. ASSUME ChildSpawns \/ OtherEnds PROVE CountInv'
  BY <1>7, CountStay DEF ChildSpawns, OtherEnds, loops
<1>8. ASSUME NEW t \in Tests, NEW g \in Groups, Register(t, g) PROVE CountInv'
  BY <1>8, RegisterCounts
<1>9. ASSUME NEW stream, ChildWrites(stream) PROVE CountInv'
  BY <1>9, CountStay DEF ChildWrites, loops
<1>10. ASSUME UNCHANGED vars PROVE CountInv'
  BY <1>10, CountStay DEF vars, counts
<1> QED
  BY <1>1, <1>2, <1>3, <1>4, <1>5, <1>6, <1>7, <1>8, <1>9, <1>10 DEF Next, ParentStep

LEMMA CountInvMeans == CountInv => EveryTestCountedOnce
<1> SUFFICES ASSUME CountInv PROVE EveryTestCountedOnce
  OBVIOUS
<1> DEFINE S == {verdicts[i][1] : i \in DOMAIN verdicts}
           n == Len(verdicts)
           f == [i \in 1 .. n |-> verdicts[i][1]]
<1>1. /\ verdicts \in Seq(Tests \X Kinds) /\ n \in Nat /\ DOMAIN verdicts = 1 .. n
      /\ \A i, j \in DOMAIN verdicts : verdicts[i][1] = verdicts[j][1] => i = j
      /\ \A t \in Tests : (\E i \in DOMAIN verdicts : verdicts[i][1] = t) <=> Before(t)
  BY LenProperties DEF CountInv, CountsOK
<1>2. Cardinality(S) = n
  <2>1. f \in Bijection(1 .. n, S)
    <3>1. f \in [1 .. n -> S] /\ \A i, j \in 1 .. n : f[i] = f[j] => i = j
      BY <1>1
    <3>2. \A x \in S : \E i \in 1 .. n : f[i] = x
      BY <1>1
    <3> HIDE DEF f, S
    <3> QED
      BY <3>1, <3>2 DEF Bijection, Injection, Surjection, IsInjective
  <2>2. IsFiniteSet(1 .. n) /\ Cardinality(1 .. n) = n
    <3>1. n \in Nat
      BY <1>1
    <3> HIDE DEF n
    <3>2. 1 \in Int /\ n \in Int
      BY <3>1
    <3>3. /\ IsFiniteSet(1 .. n)
          /\ Cardinality(1 .. n) = IF 1 > n THEN 0 ELSE n - 1 + 1
      BY <3>2, FS_Interval, Zenon
    <3> QED
      BY <3>1, <3>3
  <2>3. ExistsBijection(1 .. n, S)
    BY <2>1 DEF ExistsBijection
  <2> HIDE DEF S, n
  <2> QED
    BY <2>2, <2>3, FS_Bijection
<1>3. ASSUME pc = "returned" PROVE S = Registered
  <2>1. /\ group = maxGroupID /\ group \in Groups /\ index > Len(testGroups[group])
        /\ testGroups \in [Groups -> Seq(Tests)] /\ index \in Nat
        /\ \A g \in Groups : g > maxGroupID => testGroups[g] = <<>>
    BY <1>3 DEF CountInv, LoopsOK, GroupsOK
  <2>2. \A g \in Groups : g \in Nat
    BY GroupRange
  <2>3. ASSUME NEW g \in Groups, NEW i \in DOMAIN testGroups[g]
        PROVE  g < group \/ (g = group /\ i < index)
    <3>1. testGroups[g] \in Seq(Tests)
      BY <2>1
    <3>2. i \in Nat /\ i <= Len(testGroups[g]) /\ Len(testGroups[g]) \in Nat
      BY <3>1, LenProperties
    <3>3. ~(g > maxGroupID)
      <4>1. g > maxGroupID => testGroups[g] = <<>>
        BY <2>1
      <4> QED
        BY <4>1
    <3> QED
      BY <2>1, <2>2, <3>2, <3>3
  <2>4. \A t \in Tests : Before(t) <=> t \in Registered
    BY <2>3 DEF Before, Registered, Range
  <2>5. \A i \in DOMAIN verdicts : verdicts[i][1] \in Tests
    BY <1>1
  <2>6. Registered \in SUBSET Tests
    BY DEF Registered
  <2> QED
    BY <1>1, <2>4, <2>5, <2>6
<1>4. /\ passed + skipped + failed + crashed = Len(verdicts)
      /\ total = Len(verdicts) + IF pc \in {"pipe", "forked", "read", "wait"} THEN 1 ELSE 0
  BY DEF CountInv, CountsOK, Busy
<1> QED
  BY <1>2, <1>3, <1>4 DEF EveryTestCountedOnce

\* Whatever pipes, forks and children fail and however tests end: every test
\* is run and counted once, under one of the four counters.
THEOREM TestsAlwaysCountedOnce == Spec => []EveryTestCountedOnce
  BY CountInvInit, CountInvNext, CountInvMeans, PTL DEF Spec

-----------------------------------------------------------------------------
(* The verdicts are about the tests' own ends *)

LEMMA NoChildIs ==
  /\ NoChild.state = "none" /\ NoChild.status = 0 /\ NoChild.stdout = <<>>
  /\ NoChild.buffered = FALSE /\ NoChild.lines = 0
  BY DEF NoChild

\* A step in which neither the child's end nor a verdict changes.
LEMMA FatesStay ==
  ASSUME CountInv, FatesOK, VerdictsTruthful,
         UNCHANGED <<testGroups, group, index, verdicts, fates>>,
         \/ child'.state = child.state /\ child'.status = child.status
         \/ {child.state, child'.state} \subseteq {"running", "exiting"},
         pc' \in Forked <=> pc \in Forked
  PROVE  FatesOK' /\ VerdictsTruthful'
<1>1. Decided' <=> Decided
  BY DEF Decided
<1>2. Test' = Test
  BY DEF Test
<1>3. Decided => child'.state = child.state /\ child'.status = child.status
  BY DEF Decided
<1>4. FatesOK'
  BY <1>1, <1>2, <1>3 DEF FatesOK
<1>5. VerdictsTruthful'
  BY DEF VerdictsTruthful
<1> QED
  BY <1>4, <1>5

LEMMA FatesIdle ==
  ASSUME FatesOK, VerdictsTruthful, UNCHANGED <<verdicts, fates>>,
         pc \notin Forked, pc' \notin Forked
  PROVE  FatesOK' /\ VerdictsTruthful'
<1>1. ~Decided /\ ~Decided'
  BY DEF Decided
<1>2. FatesOK'
  BY <1>1 DEF FatesOK
<1>3. VerdictsTruthful'
  BY DEF VerdictsTruthful
<1> QED
  BY <1>2, <1>3

\* The end of the test being run is decided.
LEMMA FatesDecided ==
  ASSUME CountInv, FatesOK, VerdictsTruthful, pc \in Busy, ~Decided, Decided',
         UNCHANGED <<testGroups, group, index, verdicts>>,
         NEW x \in Codes \cup {SIGNALED, NOT_RUN}, fates' = Append(fates, <<Test, x>>),
         x = IF child'.state = "none" THEN NOT_RUN ELSE child'.status
  PROVE  FatesOK' /\ VerdictsTruthful'
<1> DEFINE F == Tests \X (Codes \cup {SIGNALED, NOT_RUN})
           e == <<Test, x>>
<1>1. e \in F
  BY TestFacts
<1>2. fates \in Seq(F) /\ Len(fates) = Len(verdicts)
  BY LenProperties DEF FatesOK, CountInv, CountsOK
<1>3. Test' = Test
  BY DEF Test
<1> HIDE DEF F, e
<1>4. /\ fates' \in Seq(F) /\ Len(fates') = Len(fates) + 1 /\ fates'[Len(fates) + 1] = e
      /\ \A i \in 1 .. Len(fates) : fates'[i] = fates[i]
  <2>1. fates' = Append(fates, e)
    BY DEF e
  <2>2. fates \in Seq(F) /\ e \in F
    BY <1>1, <1>2
  <2>3. /\ Append(fates, e) \in Seq(F) /\ Len(Append(fates, e)) = Len(fates) + 1
        /\ Append(fates, e)[Len(fates) + 1] = e
        /\ \A i \in 1 .. Len(fates) : Append(fates, e)[i] = fates[i]
    BY <2>2, AppendProperties
  <2> QED
    BY <2>1, <2>3
<1>5. FatesOK'
  BY <1>2, <1>3, <1>4 DEF FatesOK, F, e
<1>6. DOMAIN verdicts = 1 .. Len(fates)
  BY <1>2, LenProperties DEF CountInv, CountsOK
<1>7. VerdictsTruthful'
  BY <1>4, <1>6 DEF VerdictsTruthful
<1> QED
  BY <1>5, <1>7

\* The verdicts that go with an end.
Fitting(x) ==
  CASE x = NOT_RUN  -> {"failed", "crashed"}
    [] x = SIGNALED -> {"crashed"}
    [] x = PASS     -> {"passed"}
    [] x = SKIP     -> {"skipped"}
    [] OTHER        -> {"failed"}

\* The verdict is booked.
LEMMA FatesBooked ==
  ASSUME CountInv, VerdictsTruthful, pc \in Busy, NEW safe, NEW result,
         Booked(safe, result), NEW x, Kind(safe, result) \in Fitting(x),
         fates' \in Seq(Tests \X (Codes \cup {SIGNALED, NOT_RUN})),
         Len(fates') = Len(verdicts) + 1, fates'[Len(verdicts) + 1] = <<Test, x>>,
         \A i \in 1 .. Len(verdicts) : fates'[i] = fates[i]
  PROVE  FatesOK' /\ VerdictsTruthful'
<1> DEFINE v == <<Test, Kind(safe, result)>>
<1>1. /\ verdicts' = Append(verdicts, v) /\ pc' = "next"
      /\ verdicts \in Seq(Tests \X Kinds) /\ v \in Tests \X Kinds
  BY TestFacts, KindIs DEF Booked, CountInv, CountsOK
<1>2. v[1] = Test /\ v[2] = Kind(safe, result)
  OBVIOUS
<1> HIDE DEF v
<1>3. /\ Len(verdicts') = Len(verdicts) + 1 /\ verdicts'[Len(verdicts) + 1] = v
      /\ \A i \in 1 .. Len(verdicts) : verdicts'[i] = verdicts[i]
      /\ DOMAIN verdicts = 1 .. Len(verdicts) /\ Len(verdicts) \in Nat
      /\ DOMAIN verdicts' = 1 .. Len(verdicts) + 1
  BY <1>1, AppendProperties, LenProperties
<1>4. FatesOK'
  BY <1>1, <1>3 DEF FatesOK, Decided, Forked
<1>5. ASSUME NEW i \in DOMAIN verdicts'
      PROVE  fates'[i][1] = verdicts'[i][1] /\ verdicts'[i][2] \in Fitting(fates'[i][2])
  <2>1. CASE i = Len(verdicts) + 1
    <3>1. fates'[i] = <<Test, x>> /\ verdicts'[i] = v
      BY <1>3, <2>1
    <3> QED
      BY <1>2, <3>1
  <2>2. CASE i # Len(verdicts) + 1
    <3>1. i \in 1 .. Len(verdicts)
      BY <1>3, <2>2
    <3>2. fates'[i] = fates[i] /\ verdicts'[i] = verdicts[i]
      BY <1>3, <3>1
    <3>3. fates[i][1] = verdicts[i][1] /\ verdicts[i][2] \in Fitting(fates[i][2])
      BY <1>3, <3>1 DEF VerdictsTruthful, Fitting
    <3> QED
      BY <3>2, <3>3
  <2> QED
    BY <2>1, <2>2
<1>6. VerdictsTruthful'
  BY <1>5 DEF VerdictsTruthful, Fitting
<1> QED
  BY <1>4, <1>6

FatePart == ChildOK /\ FatesOK /\ VerdictsTruthful

LEMMA PipeFailsFates ==
  ASSUME FateInv, PipeFails PROVE FatePart'
<1> DEFINE e == <<Test, NOT_RUN>>
           F == Tests \X (Codes \cup {SIGNALED, NOT_RUN})
<1>1. /\ pc = "pipe" /\ pc' = "next" /\ child' = child /\ writers' = writers
      /\ fates' = Append(fates, e) /\ Booked(FALSE, FAIL)
  BY DEF PipeFails, Booked
<1>2. CountInv /\ ChildOK /\ FatesOK /\ VerdictsTruthful /\ pc \in Busy
  BY <1>1 DEF FateInv, Busy
<1>3. child.state = "none" /\ ~Decided
  BY <1>1, <1>2 DEF ChildOK, Forked, Decided
<1>4. ChildOK'
  BY <1>1, <1>2, <1>3 DEF ChildOK
<1>5. fates \in Seq(F) /\ e \in F /\ Len(fates) = Len(verdicts)
  BY <1>2, <1>3, TestFacts, LenProperties DEF FatesOK, CountInv, CountsOK
<1> HIDE DEF e, F
<1>6. /\ fates' \in Seq(F) /\ Len(fates') = Len(verdicts) + 1
      /\ fates'[Len(verdicts) + 1] = e
      /\ \A i \in 1 .. Len(verdicts) : fates'[i] = fates[i]
  BY <1>1, <1>5, AppendProperties
<1>7. Kind(FALSE, FAIL) \in Fitting(NOT_RUN)
  <2>1. Kind(FALSE, FAIL) = "crashed"
    BY DEF Kind
  <2>2. Fitting(NOT_RUN) = {"failed", "crashed"}
    BY DEF Fitting, NOT_RUN, SIGNALED, PASS, SKIP
  <2> QED
    BY <2>1, <2>2
<1>8. FatesOK' /\ VerdictsTruthful'
  BY <1>1, <1>2, <1>6, <1>7, FatesBooked DEF e, F
<1> QED
  BY <1>4, <1>8 DEF FatePart

LEMMA ParentWaitsFates ==
  ASSUME FateInv, ParentWaits PROVE FatePart'
<1> DEFINE x == IF child.state = "none" THEN NOT_RUN ELSE child.status
<1>1. /\ pc = "wait" /\ pc' = "next" /\ child' = NoChild /\ writers' = writers
      /\ child.state \in {"zombie", "none"} /\ fates' = fates
      /\ Booked(child.status # SIGNALED, child.status)
  BY DEF ParentWaits, Booked
<1>2. CountInv /\ ChildOK /\ FatesOK /\ VerdictsTruthful /\ pc \in Busy
  BY <1>1 DEF FateInv, Busy
<1>3. Decided
  BY <1>1 DEF Decided, Forked
<1>4. ChildOK'
  BY <1>1 DEF ChildOK, NoChild
<1>5. Len(verdicts) \in Nat
  BY <1>2, LenProperties DEF CountInv, CountsOK
<1>6. /\ fates' \in Seq(Tests \X (Codes \cup {SIGNALED, NOT_RUN}))
      /\ Len(fates') = Len(verdicts) + 1 /\ fates'[Len(verdicts) + 1] = <<Test, x>>
      /\ \A i \in 1 .. Len(verdicts) : fates'[i] = fates[i]
  BY <1>1, <1>2, <1>3 DEF FatesOK
<1>7. Kind(child.status # SIGNALED, child.status) \in Fitting(x)
  <2>1. CASE child.state = "none"
    <3>1. child.status = 0
      BY <1>2, <2>1, NoChildIs DEF ChildOK
    <3>2. Kind(child.status # SIGNALED, child.status) = "failed"
      BY <3>1 DEF Kind, SIGNALED, PASS, SKIP
    <3>3. Fitting(NOT_RUN) = {"failed", "crashed"}
      BY DEF Fitting, NOT_RUN, SIGNALED, PASS, SKIP
    <3> QED
      BY <2>1, <3>2, <3>3
  <2>2. CASE child.state = "zombie"
    <3>1. child.status \in Codes \cup {SIGNALED} /\ Codes \subseteq 0 .. 255
      BY <1>2, <2>2, TestAssumption DEF ChildOK
    <3>2. x = child.status /\ x # NOT_RUN
      BY <2>2, <3>1 DEF NOT_RUN, SIGNALED
    <3> HIDE DEF x
    <3> QED
      BY <3>1, <3>2 DEF Kind, Fitting, SIGNALED, PASS, SKIP, FAIL
  <2> QED
    BY <1>1, <2>1, <2>2
<1> HIDE DEF x
<1>8. FatesOK' /\ VerdictsTruthful'
  BY <1>1, <1>2, <1>6, <1>7, FatesBooked
<1> QED
  BY <1>4, <1>8 DEF FatePart

LEMMA ForkFates ==
  ASSUME FateInv, Fork PROVE FatePart'
<1>1. /\ pc = "pipe" /\ pc' = "forked" /\ writers' = {"parent", "child"}
      /\ child' = [NoChild EXCEPT !.state = "running", !.stdout = buffer,
                                  !.buffered = (toFile \/ ~used)]
      /\ UNCHANGED <<verdicts, fates>>
  BY DEF Fork, counts
<1>2. child'.state = "running"
      /\ DOMAIN child' = {"state", "status", "stdout", "buffered", "lines"}
  BY <1>1 DEF NoChild
<1>3. ChildOK'
  BY <1>1, <1>2 DEF ChildOK, Forked
<1>4. ~Decided /\ ~Decided'
  BY <1>1, <1>2 DEF Decided, Forked
<1>5. FatesOK'
  BY <1>1, <1>4 DEF FateInv, FatesOK
<1>6. VerdictsTruthful'
  BY <1>1 DEF FateInv, VerdictsTruthful
<1> QED
  BY <1>3, <1>5, <1>6 DEF FatePart

LEMMA ForkFailsFates ==
  ASSUME FateInv, ForkFails PROVE FatePart'
<1>1. /\ pc = "pipe" /\ pc' = "forked" /\ writers' = {"parent"} /\ child' = child
      /\ fates' = Append(fates, <<Test, NOT_RUN>>)
      /\ UNCHANGED <<testGroups, group, index, verdicts>>
  BY DEF ForkFails, counts, loops
<1>2. CountInv /\ ChildOK /\ FatesOK /\ VerdictsTruthful /\ pc \in Busy
  BY <1>1 DEF FateInv, Busy
<1>3. child.state = "none" /\ ~Decided /\ Decided'
  BY <1>1, <1>2 DEF ChildOK, Forked, Decided
<1>4. ChildOK'
  BY <1>1, <1>2, <1>3 DEF ChildOK
<1>5. FatesOK' /\ VerdictsTruthful'
  BY <1>1, <1>2, <1>3, FatesDecided
<1> QED
  BY <1>4, <1>5 DEF FatePart

\* The child is dead, with this status.
LEMMA ChildEndsFates ==
  ASSUME FateInv, child.state \in {"running", "exiting"}, child'.state = "zombie",
         DOMAIN child' = DOMAIN child, child'.status \in Codes \cup {SIGNALED},
         fates' = Append(fates, <<Test, child'.status>>),
         pc' = pc, UNCHANGED <<testGroups, group, index, verdicts>>
  PROVE  FatePart'
<1>1. CountInv /\ ChildOK /\ FatesOK /\ VerdictsTruthful
  BY DEF FateInv
<1>2. pc \in Forked /\ pc \in Busy
  BY <1>1 DEF ChildOK, Forked, Busy
<1>3. ~Decided /\ Decided'
  BY <1>2 DEF Decided
<1>4. ChildOK'
  BY <1>1, <1>2 DEF ChildOK
<1>5. child'.status = IF child'.state = "none" THEN NOT_RUN ELSE child'.status
  OBVIOUS
<1>6. FatesOK' /\ VerdictsTruthful'
  BY <1>1, <1>2, <1>3, <1>5, FatesDecided
<1> QED
  BY <1>4, <1>6 DEF FatePart

LEMMA ChildExitsFates ==
  ASSUME FateInv, ChildExits PROVE FatePart'
<1>1. /\ child.state = "exiting" /\ child' = [child EXCEPT !.state = "zombie"]
      /\ fates' = Append(fates, <<Test, child.status>>)
      /\ pc' = pc /\ UNCHANGED <<testGroups, group, index, verdicts>>
  BY DEF ChildExits, counts, loops
<1>2. /\ child'.state = "zombie" /\ child'.status = child.status
      /\ DOMAIN child' = DOMAIN child /\ child.status \in Codes
  BY <1>1 DEF FateInv, ChildOK
<1> QED
  BY <1>1, <1>2, ChildEndsFates

LEMMA ChildDiesFates ==
  ASSUME FateInv, ChildDies PROVE FatePart'
<1>1. /\ child.state \in {"running", "exiting"}
      /\ child' = [child EXCEPT !.state = "zombie", !.status = SIGNALED, !.stdout = <<>>]
      /\ fates' = Append(fates, <<Test, SIGNALED>>)
      /\ pc' = pc /\ UNCHANGED <<testGroups, group, index, verdicts>>
  BY DEF ChildDies, counts, loops
<1>2. /\ child'.state = "zombie" /\ child'.status = SIGNALED
      /\ DOMAIN child' = DOMAIN child
  BY <1>1 DEF FateInv, ChildOK
<1> QED
  BY <1>1, <1>2, ChildEndsFates

\* The child goes on, maybe from the test to exit.
LEMMA ChildGoesOnFates ==
  ASSUME FateInv, {child.state, child'.state} \subseteq {"running", "exiting"},
         child'.state = "exiting" => child'.status \in Codes, DOMAIN child' = DOMAIN child,
         writers' = writers, pc' = pc, UNCHANGED <<testGroups, group, index, verdicts, fates>>
  PROVE  FatePart'
<1>1. CountInv /\ ChildOK /\ FatesOK /\ VerdictsTruthful
  BY DEF FateInv
<1>2. ChildOK'
  BY <1>1 DEF ChildOK
<1>3. FatesOK' /\ VerdictsTruthful'
  BY <1>1, FatesStay
<1> QED
  BY <1>2, <1>3 DEF FatePart

\* Steps of the parent while a child may run.
LEMMA ParentFates ==
  ASSUME FateInv, child' = child, pc \in Forked, pc' \in Forked,
         "child" \in writers => "child" \in writers',
         UNCHANGED <<testGroups, group, index, verdicts, fates>>
  PROVE  FatePart'
<1>1. CountInv /\ ChildOK /\ FatesOK /\ VerdictsTruthful
  BY DEF FateInv
<1>2. ChildOK'
  BY <1>1 DEF ChildOK
<1>3. FatesOK' /\ VerdictsTruthful'
  BY <1>1, FatesStay
<1> QED
  BY <1>2, <1>3 DEF FatePart

\* Steps while there is none.
LEMMA IdleFates ==
  ASSUME FateInv, child' = child, pc \notin Forked, pc' \notin Forked,
         UNCHANGED <<verdicts, fates>>
  PROVE  FatePart'
<1>1. CountInv /\ ChildOK /\ FatesOK /\ VerdictsTruthful
  BY DEF FateInv
<1>2. ChildOK'
  BY <1>1 DEF ChildOK
<1>3. FatesOK' /\ VerdictsTruthful'
  BY <1>1, FatesIdle
<1> QED
  BY <1>2, <1>3 DEF FatePart

LEMMA FateInvInit == Init => FateInv
<1> SUFFICES ASSUME Init PROVE FateInv
  OBVIOUS
<1>1. CountInv
  BY CountInvInit
<1>2. child = NoChild /\ fates = <<>> /\ verdicts = <<>> /\ pc = "idle"
  BY DEF Init
<1>3. ChildOK
  BY <1>2 DEF ChildOK, NoChild
<1>4. FatesOK
  BY <1>2 DEF FatesOK, Decided, Forked
<1>5. VerdictsTruthful
  BY <1>2 DEF VerdictsTruthful
<1> QED
  BY <1>1, <1>3, <1>4, <1>5 DEF FateInv

LEMMA FatePartNext ==
  ASSUME FateInv, [Next]_vars PROVE FatePart'
<1>1. ASSUME RunAll \/ StartTest \/ NextGroup \/ Summary PROVE FatePart'
  BY <1>1, IdleFates DEF RunAll, StartTest, NextGroup, Summary, counts, Forked
<1>2. ASSUME PipeFails \/ Fork \/ ForkFails \/ ParentWaits PROVE FatePart'
  BY <1>2, PipeFailsFates, ForkFates, ForkFailsFates, ParentWaitsFates
<1>3. ASSUME ParentCloses \/ ParentReachesEnd PROVE FatePart'
  BY <1>3, ParentFates DEF ParentCloses, ParentReachesEnd, counts, loops, Forked
<1>4. ASSUME ParentReads PROVE FatePart'
  BY <1>4, ParentFates DEF ParentReads, counts, loops, Forked
<1>5. ASSUME ChildFlushes PROVE FatePart'
  <2>1. /\ child.state = "exiting" /\ child' = [child EXCEPT !.stdout = Tail(child.stdout)]
        /\ pc' = pc /\ writers' = writers
        /\ UNCHANGED <<testGroups, group, index, verdicts, fates>>
    BY <1>5 DEF ChildFlushes, counts, loops
  <2>2. /\ child'.state = child.state /\ child'.status = child.status
        /\ DOMAIN child' = DOMAIN child
        /\ child.state = "exiting" => child.status \in Codes
    BY <2>1 DEF FateInv, ChildOK
  <2> QED
    BY <2>1, <2>2, ChildGoesOnFates
<1>6. ASSUME ChildExits PROVE FatePart'
  BY <1>6, ChildExitsFates
<1>7. ASSUME ChildDies PROVE FatePart'
  BY <1>7, ChildDiesFates
<1>8. ASSUME NEW c \in Codes, ChildReturns(c) PROVE FatePart'
  <2>1. /\ child.state = "running" /\ pc' = pc /\ writers' = writers
        /\ child' = [child EXCEPT !.state = "exiting", !.status = c]
        /\ UNCHANGED <<testGroups, group, index, verdicts, fates>>
    BY <1>8 DEF ChildReturns, counts, loops
  <2>2. /\ child'.state = "exiting" /\ child'.status = c
        /\ DOMAIN child' = DOMAIN child
    BY <2>1 DEF FateInv, ChildOK
  <2> QED
    BY <2>1, <2>2, ChildGoesOnFates
<1>9. ASSUME NEW stream \in {"stdout", "stderr"}, ChildWrites(stream) PROVE FatePart'
  <2> DEFINE line == <<stream, Test, child.lines>>
  <2>1. /\ child.state = "running" /\ pc' = pc /\ writers' = writers
        /\ \/ child' = [child EXCEPT !.lines = @ + 1, !.stdout = Append(@, line)]
           \/ child' = [child EXCEPT !.lines = @ + 1]
        /\ UNCHANGED <<testGroups, group, index, verdicts, fates>>
    BY <1>9 DEF ChildWrites, counts, loops
  <2>2. /\ child'.state = child.state /\ child'.status = child.status
        /\ DOMAIN child' = DOMAIN child
        /\ child.state = "exiting" => child.status \in Codes
    BY <2>1 DEF FateInv, ChildOK
  <2> QED
    BY <2>1, <2>2, ChildGoesOnFates
<1>10. ASSUME ChildSpawns \/ OtherEnds PROVE FatePart'
  <2>1. /\ child' = child /\ pc' = pc
        /\ "child" \in writers => "child" \in writers'
        /\ UNCHANGED <<testGroups, group, index, verdicts, fates>>
    BY <1>10 DEF ChildSpawns, OtherEnds, counts, loops
  <2> QED
    BY <2>1, ParentFates, IdleFates
<1>11. ASSUME NEW t \in Tests, NEW g \in Groups, Register(t, g) PROVE FatePart'
  BY <1>11, IdleFates DEF Register, counts, Forked
<1>12. ASSUME UNCHANGED vars PROVE FatePart'
  <2>1. /\ child' = child /\ pc' = pc /\ writers' = writers
        /\ UNCHANGED <<testGroups, group, index, verdicts, fates>>
    BY <1>12 DEF vars
  <2> QED
    BY <2>1, ParentFates, IdleFates
<1> QED
  BY <1>1, <1>2, <1>3, <1>4, <1>5, <1>6, <1>7, <1>8, <1>9, <1>10, <1>11, <1>12, SMTT(60)
     DEF Next, ParentStep, ChildEnds

LEMMA FateInvNext == FateInv /\ [Next]_vars => FateInv'
<1> SUFFICES ASSUME FateInv, [Next]_vars PROVE FateInv'
  OBVIOUS
<1>1. FatePart'
  BY FatePartNext
<1>2. CountInv'
  BY CountInvNext DEF FateInv
<1> QED
  BY <1>1, <1>2 DEF FateInv, FatePart

\* Whatever was forked, read and waited for in between, the verdict on a test
\* is about that test's own end: its exit status, the signal that killed it,
\* or that it could not be started.
THEOREM VerdictsAlwaysTruthful == Spec => []VerdictsTruthful
<1>1. FateInv => VerdictsTruthful
  BY DEF FateInv
<1> QED
  BY <1>1, FateInvInit, FateInvNext, PTL DEF Spec
-----------------------------------------------------------------------------
(* The transcript *)

OutputPart == StreamsOK /\ TerminalOK /\ CopiesOK /\ LinesOK

LEMMA RangeOfAppend ==
  ASSUME NEW S, NEW s \in Seq(S), NEW e \in S
  PROVE  Append(s, e) \in Seq(S) /\ Range(Append(s, e)) = Range(s) \cup {e}
<1>1. Append(s, e) \in Seq(S) /\ Append(s, e) = s \o <<e>> /\ <<e>> \in Seq(S)
  BY AppendProperties, AppendIsConcat
<1>2. Range(<<e>>) = {e}
  BY DEF Range
<1>3. ASSUME NEW t \in Seq(S), NEW u \in Seq(S) PROVE Range(t \o u) = Range(t) \cup Range(u)
  BY RangeConcatenation
<1>4. Range(s \o <<e>>) = Range(s) \cup Range(<<e>>)
  BY <1>1, <1>3, ZenonT(60)
<1> QED
  BY <1>1, <1>2, <1>4

LEMMA RangeOfNothing == Range(<<>>) = {}
  BY DEF Range

Associate(s, t, u) == (s \o t) \o u = s \o (t \o u)

LEMMA LinesAssociate == \A s, t, u \in Seq(Lines) : Associate(s, t, u)
<1> TAKE s, t, u \in Seq(Lines)
<1>1. (s \o t) \o u = s \o (t \o u)
  BY ConcatAssociative, SMTT(60)
<1> QED
  BY <1>1 DEF Associate

\* Splitting a sequence after its first n elements.
LEMMA SplitSeq ==
  ASSUME NEW S, NEW s \in Seq(S), NEW n \in 1 .. Len(s)
  PROVE  /\ SubSeq(s, 1, n) \in Seq(S) /\ SubSeq(s, n + 1, Len(s)) \in Seq(S)
         /\ SubSeq(s, 1, n) \o SubSeq(s, n + 1, Len(s)) = s
<1>1. Len(s) \in Nat /\ \A i \in 1 .. Len(s) : s[i] \in S
  BY ElementOfSeq, LenProperties
<1>2. SubSeq(s, 1, n) \in Seq(S)
  BY <1>1, SubSeqProperties
<1>3. SubSeq(s, n + 1, Len(s)) \in Seq(S)
  BY <1>1, SubSeqProperties
<1>4. SubSeq(s, 1, n) \o SubSeq(s, n + 1, Len(s)) = SubSeq(s, 1, Len(s))
  BY <1>1, ConcatAdjacentSubSeq
<1>5. SubSeq(s, 1, Len(s)) = s
  BY SubSeqFull
<1> QED
  BY <1>2, <1>3, <1>4, <1>5, ZenonT(60)

LEMMA RangeOfTail ==
  ASSUME NEW S, NEW s \in Seq(S), s # <<>>
  PROVE  /\ Head(s) \in S /\ Tail(s) \in Seq(S)
         /\ Range(s) = {Head(s)} \cup Range(Tail(s))
<1>1. /\ Head(s) \in S /\ Tail(s) \in Seq(S) /\ Len(Tail(s)) = Len(s) - 1
      /\ \A i \in 1 .. Len(Tail(s)) : Tail(s)[i] = s[i + 1]
  BY HeadTailProperties
<1>2. Len(s) \in Nat /\ Len(s) >= 1 /\ Head(s) = s[1]
  BY EmptySeq, LenProperties
<1>3. Range(s) = {s[i] : i \in 1 .. Len(s)}
  BY RangeEquality
<1>4. Range(Tail(s)) = {Tail(s)[i] : i \in 1 .. Len(Tail(s))}
  BY <1>1, RangeEquality
<1>5. ASSUME NEW x \in Range(s) PROVE x \in {Head(s)} \cup Range(Tail(s))
  <2>1. PICK i \in 1 .. Len(s) : x = s[i]
    BY <1>3
  <2>2. CASE i = 1
    BY <1>2, <2>1, <2>2
  <2>3. CASE i # 1
    <3>1. i - 1 \in 1 .. Len(Tail(s)) /\ (i - 1) + 1 = i
      BY <1>1, <1>2, <2>3
    <3>2. Tail(s)[i - 1] = s[i]
      BY <1>1, <3>1
    <3> QED
      BY <1>4, <2>1, <3>1, <3>2
  <2> QED
    BY <2>2, <2>3
<1>6. Head(s) \in Range(s)
  BY <1>2, <1>3
<1>7. ASSUME NEW x \in Range(Tail(s)) PROVE x \in Range(s)
  <2>1. PICK i \in 1 .. Len(Tail(s)) : x = Tail(s)[i]
    BY <1>4
  <2>2. i + 1 \in 1 .. Len(s) /\ x = s[i + 1]
    BY <1>1, <1>2, <2>1
  <2> QED
    BY <1>3, <2>2
<1> QED
  BY <1>1, <1>5, <1>6, <1>7

\* A test that was killed stays killed.
LEMMA KilledStays ==
  ASSUME FatesOK, FatesOK', NEW e, fates' = fates \/ fates' = Append(fates, e)
  PROVE  \A t : Killed(t) => Killed(t)'
<1> DEFINE F == Tests \X (Codes \cup {SIGNALED, NOT_RUN})
<1>1. fates \in Seq(F) /\ fates' \in Seq(F)
  BY DEF FatesOK
<1>2. CASE fates' = fates
  BY <1>2 DEF Killed
<1>3. CASE fates' = Append(fates, e)
  <2> HIDE DEF F
  <2>1. DOMAIN fates = 1 .. Len(fates) /\ Len(fates) \in Nat
    BY <1>1, LenProperties
  <2>2. DOMAIN fates' = 1 .. Len(fates) + 1 /\ \A i \in 1 .. Len(fates) : fates'[i] = fates[i]
    BY <1>1, <1>3, <2>1
  <2>3. \A i \in DOMAIN fates : i \in DOMAIN fates' /\ fates'[i] = fates[i]
    BY <2>1, <2>2
  <2> QED
    BY <2>3 DEF Killed
<1> QED
  BY <1>2, <1>3

\* Lines move, and are never dropped but by a child that is killed.
LEMMA LinesMove ==
  ASSUME LinesOK, \A t : Killed(t) => Killed(t)', Safe \subseteq Safe',
         \A line \in Range(written') :
           line \in Range(written) \/ line \in Safe' \cup Range(child'.stdout),
         \A line \in Range(child.stdout) :
           \/ line \in Safe' \cup Range(child'.stdout)
           \/ line[1] = "stdout" /\ Killed(line[2])'
  PROVE  LinesOK'
<1> SUFFICES ASSUME NEW line \in Range(written') PROVE Kept(line)'
  BY DEF LinesOK
<1>1. CASE line \in Range(written)
  <2>1. Kept(line)
    BY <1>1 DEF LinesOK
  <2> QED
    BY <2>1 DEF Kept
<1>2. CASE line \in Safe' \cup Range(child'.stdout)
  BY <1>2 DEF Kept
<1> QED
  BY <1>1, <1>2

\* Steps without output.
LEMMA OutputStays ==
  ASSUME OutputInv, UNCHANGED <<output, fixed>>,
         child'.stdout = child.stdout, child'.buffered = child.buffered,
         child'.lines = child.lines, \A t : Killed(t) => Killed(t)',
         Test' = Test \/ child.stdout = <<>>,
         pc' \notin {"forked", "read"} => pipe = <<>>,
         pc' = "wait" => writers' = {},
         child'.state \in {"none", "zombie"} => child.stdout = <<>>,
         pc \in {"idle", "aborted"} => pc' \in {"idle", "aborted"}
  PROVE  OutputPart'
<1>1. /\ debug' = debug /\ toFile' = toFile /\ used' = used /\ pipe' = pipe
      /\ buffer' = buffer /\ console' = console /\ written' = written
  BY DEF output, fixed
<1>2. StreamsOK /\ TerminalOK /\ CopiesOK /\ LinesOK
  BY DEF OutputInv
<1>3. StreamsOK'
  BY <1>1, <1>2, Zenon DEF StreamsOK
<1>4. TerminalOK'
  BY <1>1, <1>2, Zenon DEF TerminalOK
<1>5. Safe' = Safe
  BY <1>1 DEF Safe
<1>6. CopiesOK'
  BY <1>2, <1>5, RangeOfNothing DEF CopiesOK
<1>7. LinesOK'
  BY <1>1, <1>2, <1>5, LinesMove
<1> QED
  BY <1>3, <1>4, <1>6, <1>7 DEF OutputPart
\* Lines the parent puts in a stream.
LEMMA PutMoves ==
  ASSUME StreamsOK, NEW stream, NEW lines \in Seq(Lines), Put(stream, lines)
  PROVE  /\ console' \in Seq(Lines) /\ buffer' \in Seq(Lines) /\ used' \in BOOLEAN
         /\ used => used'
         /\ stream = "stdout" => used'
         /\ Range(console') \cup Range(buffer')
              = Range(console) \cup Range(buffer) \cup Range(lines)
         /\ ~toFile => buffer' = buffer /\ console' = console \o lines
<1>1. console \in Seq(Lines) /\ buffer \in Seq(Lines)
  BY DEF StreamsOK
<1>2. used' \in BOOLEAN
  BY Zenon DEF Put
<1>3. (used => used') /\ (stream = "stdout" => used')
  BY Zenon DEF Put
<1>4. \/ buffer' = buffer \o lines /\ console' = console /\ toFile
      \/ console' = console \o lines /\ buffer' = buffer
  BY Zenon DEF Put
<1>5. ~toFile => buffer' = buffer /\ console' = console \o lines
  BY Zenon DEF Put
<1>6. /\ buffer \o lines \in Seq(Lines) /\ console \o lines \in Seq(Lines)
      /\ Range(buffer \o lines) = Range(buffer) \cup Range(lines)
      /\ Range(console \o lines) = Range(console) \cup Range(lines)
  BY <1>1, ConcatProperties, RangeConcatenation
<1>7. /\ console' \in Seq(Lines) /\ buffer' \in Seq(Lines)
      /\ Range(console') \cup Range(buffer')
           = Range(console) \cup Range(buffer) \cup Range(lines)
  BY <1>1, <1>4, <1>6
<1> QED
  BY <1>2, <1>3, <1>5, <1>7, Zenon

\* A line the parent logs while no child runs.
LEMMA OutputLogged ==
  ASSUME OutputInv, NEW level, NEW line \in Lines, LogOutput(level, line),
         UNCHANGED fixed, pc \notin Forked \/ pc = "wait", pc' \notin Forked,
         child.stdout = <<>>, child' = NoChild, \A t : Killed(t) => Killed(t)',
         level \notin {"FATAL", "ERROR"} \/ pc \notin {"idle", "aborted"}
  PROVE  OutputPart'
<1>1. StreamsOK /\ TerminalOK /\ CopiesOK /\ LinesOK
  BY DEF OutputInv
<1>2. debug' = debug /\ toFile' = toFile /\ pipe = <<>>
  BY <1>1 DEF fixed, StreamsOK, Forked
<1>3. /\ child'.stdout = <<>> /\ child'.lines \in Nat /\ child'.buffered = FALSE
      /\ child'.state = "none" /\ pc' # "wait"
  BY NoChildIs DEF Forked
<1>4. /\ console \in Seq(Lines) /\ buffer \in Seq(Lines) /\ written \in Seq(Lines)
      /\ <<>> \in Seq(Lines) /\ <<line>> \in Seq(Lines)
  BY <1>1, EmptySeq DEF StreamsOK
<1>5. pipe' = <<>>
  BY <1>2, Zenon DEF LogOutput, output
<1>6. CASE Enabled(level)
  <2>1. Put(Stream(level), <<line>>) /\ written' = Append(written, line)
    BY <1>6, Zenon DEF LogOutput
  <2>2. /\ console' \in Seq(Lines) /\ buffer' \in Seq(Lines) /\ used' \in BOOLEAN
        /\ used => used'
        /\ Stream(level) = "stdout" => used'
        /\ Range(console') \cup Range(buffer')
             = Range(console) \cup Range(buffer) \cup Range(<<line>>)
        /\ ~toFile => buffer' = buffer /\ console' = console \o <<line>>
    BY <1>1, <1>4, <2>1, PutMoves
  <2>3. Range(<<line>>) = {line}
    BY DEF Range
  <2>4. /\ written' \in Seq(Lines) /\ Range(written') = Range(written) \cup {line}
        /\ Append(written, line) = written \o <<line>>
    BY <1>4, <2>1, RangeOfAppend, AppendIsConcat
  <2>5. StreamsOK'
    BY <1>1, <1>2, <1>3, <1>4, <1>5, <2>2, <2>4, Zenon DEF StreamsOK
  <2>6. debug /\ ~toFile => used'
    <3>1. level \notin {"FATAL", "ERROR"} => Stream(level) = "stdout"
      BY DEF Stream
    <3> QED
      BY <1>1, <2>2, <3>1, Zenon DEF TerminalOK
  <2>7. debug /\ ~toFile => console' \o pipe' = written'
    <3>1. debug /\ ~toFile => console \o <<>> = written /\ console' = console \o <<line>>
      BY <1>1, <1>2, <2>2, Zenon DEF TerminalOK
    <3>2. console \o <<>> = console /\ console' \o <<>> = console'
      BY <1>4, <2>2, ConcatEmptySeq
    <3> QED
      BY <1>5, <2>1, <2>4, <3>1, <3>2
  <2>8. TerminalOK'
    BY <1>1, <1>2, <1>3, <2>2, <2>6, <2>7, Zenon DEF TerminalOK
  <2>9. CopiesOK'
    BY <1>3, RangeOfNothing DEF CopiesOK
  <2>10. Safe' = Safe \cup {line}
    BY <1>2, <1>5, <2>2, <2>3 DEF Safe
  <2>11. LinesOK'
    BY <1>1, <2>4, <2>10, LinesMove, RangeOfNothing
  <2> QED
    BY <2>5, <2>8, <2>9, <2>11 DEF OutputPart
<1>7. CASE ~Enabled(level)
  <2>1. /\ buffer' = buffer /\ console' = console /\ written' = written /\ used' = used
        /\ ~debug
    BY <1>7, Zenon DEF LogOutput, output, Enabled
  <2>2. StreamsOK'
    BY <1>1, <1>2, <1>3, <1>4, <1>5, <2>1, Zenon DEF StreamsOK
  <2>3. TerminalOK'
    BY <1>1, <1>2, <2>1, Zenon DEF TerminalOK
  <2>4. CopiesOK'
    BY <1>3, RangeOfNothing DEF CopiesOK
  <2>5. Safe' = Safe
    BY <1>2, <1>5, <2>1 DEF Safe
  <2>6. LinesOK'
    BY <1>1, <2>1, <2>5, LinesMove, RangeOfNothing
  <2> QED
    BY <2>2, <2>3, <2>4, <2>6 DEF OutputPart
<1> QED
  BY <1>6, <1>7
LEMMA LinesAre ==
  /\ <<"banner">> \in Lines /\ <<"summary">> \in Lines /\ <<"failures">> \in Lines
  /\ \A g \in Groups : <<"group", g>> \in Lines
  /\ \A k \in Kinds, t \in Tests : <<k, t>> \in Lines
  /\ \A s \in {"stdout", "stderr"}, t \in Tests, n \in Nat : <<s, t, n>> \in Lines
  BY DEF Lines

\* While no child was forked there is none, and it has written nothing.
LEMMA NoChildYet ==
  ASSUME OutputInv, pc \notin Forked
  PROVE  child = NoChild /\ child.state = "none" /\ child.stdout = <<>>
  BY NoChildIs DEF OutputInv, FateInv, ChildOK

LEMMA RunAllOutput ==
  ASSUME OutputInv, RunAll PROVE OutputPart'
<1>1. /\ pc = "idle" /\ pc' = "next" /\ child' = child /\ fates' = fates /\ UNCHANGED fixed
      /\ LogOutput("INFO", <<"banner">>)
  BY DEF RunAll
<1>2. child = NoChild /\ child.stdout = <<>>
  BY <1>1, NoChildYet DEF Forked
<1>3. \A t : Killed(t) => Killed(t)'
  BY <1>1 DEF Killed
<1>4. pc \notin Forked /\ pc' \notin Forked
  BY <1>1 DEF Forked
<1> QED
  BY <1>1, <1>2, <1>3, <1>4, LinesAre, OutputLogged

LEMMA StartTestOutput ==
  ASSUME OutputInv, StartTest PROVE OutputPart'
<1>1. /\ pc = "next" /\ pc' = "pipe" /\ child' = child /\ fates' = fates /\ UNCHANGED fixed
      /\ LogOutput("INFO", <<"group", group>>) \/ UNCHANGED output
  BY DEF StartTest
<1>2. child = NoChild /\ child.stdout = <<>>
  BY <1>1, NoChildYet DEF Forked
<1>3. \A t : Killed(t) => Killed(t)'
  BY <1>1 DEF Killed
<1>4. pc \notin Forked /\ pc' \notin Forked
  BY <1>1 DEF Forked
<1>5. <<"group", group>> \in Lines
  BY LinesAre DEF OutputInv, FateInv, CountInv, LoopsOK
<1>6. ASSUME LogOutput("INFO", <<"group", group>>) PROVE OutputPart'
  BY <1>1, <1>2, <1>3, <1>4, <1>5, <1>6, OutputLogged
<1>7. ASSUME UNCHANGED output PROVE OutputPart'
  <2>1. pipe = <<>>
    BY <1>1 DEF OutputInv, StreamsOK
  <2> QED
    BY <1>1, <1>2, <1>3, <1>7, <2>1, OutputStays
<1> QED
  BY <1>1, <1>6, <1>7

\* A verdict is logged.
LEMMA BookedOutput ==
  ASSUME OutputInv, pc \in {"pipe", "wait"}, child.stdout = <<>>, child' = NoChild,
         NEW safe, NEW result, Booked(safe, result), \A t : Killed(t) => Killed(t)'
  PROVE  OutputPart'
<1> DEFINE kind  == Kind(safe, result)
           level == CASE kind = "passed" -> "INFO" [] kind = "skipped" -> "WARNING"
                      [] OTHER -> "ERROR"
<1>1. LogOutput(level, <<kind, Test>>) /\ pc' = "next" /\ UNCHANGED fixed
  BY DEF Booked
<1>2. Test \in Tests
  BY TestFacts DEF OutputInv, FateInv, Busy
<1>3. <<kind, Test>> \in Lines
  BY <1>2, KindIs, LinesAre
<1>4. pc \notin Forked \/ pc = "wait"
  BY DEF Forked
<1>5. pc' \notin Forked /\ pc \notin {"idle", "aborted"}
  BY <1>1 DEF Forked
<1> DEFINE line == <<kind, Test>>
<1>6. LogOutput(level, line) /\ line \in Lines
  BY <1>1, <1>3
<1> HIDE DEF kind, level, line
<1> QED
  BY <1>1, <1>4, <1>5, <1>6, OutputLogged

LEMMA PipeFailsOutput ==
  ASSUME OutputInv, FateInv', PipeFails PROVE OutputPart'
<1>1. /\ pc = "pipe" /\ child' = child /\ fates' = Append(fates, <<Test, NOT_RUN>>)
      /\ Booked(FALSE, FAIL)
  BY DEF PipeFails
<1>2. child = NoChild /\ child.stdout = <<>>
  BY <1>1, NoChildYet DEF Forked
<1>3. \A t : Killed(t) => Killed(t)'
  BY <1>1, KilledStays DEF OutputInv, FateInv
<1> QED
  BY <1>1, <1>2, <1>3, BookedOutput

LEMMA ParentWaitsOutput ==
  ASSUME OutputInv, ParentWaits PROVE OutputPart'
<1>1. /\ pc = "wait" /\ child' = NoChild /\ fates' = fates
      /\ child.state \in {"zombie", "none"}
      /\ Booked(child.status # SIGNALED, child.status)
  BY DEF ParentWaits
<1>2. child.stdout = <<>>
  BY <1>1 DEF OutputInv, StreamsOK
<1>3. \A t : Killed(t) => Killed(t)'
  BY <1>1 DEF Killed
<1> QED
  BY <1>1, <1>2, <1>3, BookedOutput

\* The child's copy of the parent's buffer.
LEMMA ForkOutput ==
  ASSUME OutputInv, Fork PROVE OutputPart'
<1>1. /\ pc = "pipe" /\ pc' = "forked" /\ fates' = fates /\ UNCHANGED <<fixed, output>>
      /\ child' = [NoChild EXCEPT !.state = "running", !.stdout = buffer,
                                  !.buffered = (toFile \/ ~used)]
  BY DEF Fork, loops
<1>2. /\ debug' = debug /\ toFile' = toFile /\ used' = used /\ pipe' = pipe
      /\ buffer' = buffer /\ console' = console /\ written' = written
  BY <1>1 DEF output, fixed
<1>3. /\ child'.state = "running" /\ child'.stdout = buffer
      /\ child'.lines \in Nat
  BY <1>1 DEF NoChild
<1>4. child'.buffered = (toFile \/ ~used)
  BY <1>1 DEF NoChild
<1>5. StreamsOK /\ TerminalOK /\ CopiesOK /\ LinesOK
  BY DEF OutputInv
<1>6. child'.buffered \in BOOLEAN
  BY <1>4, Zenon
<1>7. pc' \in {"forked", "read"} /\ pc' # "wait" /\ child'.state \notin {"none", "zombie"}
  BY <1>1, <1>3
<1>8. StreamsOK'
  BY <1>2, <1>3, <1>5, <1>6, <1>7, Zenon DEF StreamsOK
<1>9. debug /\ ~toFile => child'.buffered = FALSE
  <2>1. debug /\ ~toFile => used
    BY <1>1, <1>5, Zenon DEF TerminalOK
  <2>2. toFile \in BOOLEAN /\ used \in BOOLEAN
    BY <1>5 DEF StreamsOK
  <2> QED
    BY <1>4, <2>1, <2>2, Zenon
<1>10. pc \notin {"idle", "aborted"}
  BY <1>1
<1>11. TerminalOK'
  BY <1>2, <1>3, <1>5, <1>9, <1>10, Zenon DEF TerminalOK
<1>12. Safe' = Safe
  BY <1>2 DEF Safe
<1>13. CopiesOK'
  BY <1>3, <1>12 DEF CopiesOK, Safe
<1>14. LinesOK'
  <2>1. child.stdout = <<>>
    BY <1>1, NoChildYet DEF Forked
  <2>2. \A t : Killed(t) => Killed(t)'
    BY <1>1 DEF Killed
  <2> QED
    BY <1>2, <1>5, <1>12, <2>1, <2>2, LinesMove, RangeOfNothing
<1> QED
  BY <1>8, <1>11, <1>13, <1>14 DEF OutputPart
LEMMA SummaryOutput ==
  ASSUME OutputInv, Summary PROVE OutputPart'
<1> DEFINE summary  == IF Enabled("INFO") THEN <<<<"summary">>>> ELSE <<>>
           failures == IF failed + crashed > 0 THEN <<<<"failures">>>> ELSE <<>>
<1>1. /\ pc = "next" /\ pc' = "returned" /\ child' = child /\ fates' = fates
      /\ UNCHANGED fixed /\ pipe' = pipe /\ used' = used /\ buffer' = <<>>
      /\ console' = IF toFile THEN console \o failures \o buffer \o summary
                    ELSE console \o summary \o failures
      /\ written' = written \o summary \o failures
  BY DEF Summary, loops
<1>2. summary \in Seq(Lines) /\ failures \in Seq(Lines)
  BY LinesAre
<1> HIDE DEF summary, failures
<1>3. StreamsOK /\ TerminalOK /\ CopiesOK /\ LinesOK
  BY DEF OutputInv
<1>4. /\ console \in Seq(Lines) /\ buffer \in Seq(Lines) /\ written \in Seq(Lines)
      /\ pipe = <<>> /\ <<>> \in Seq(Lines)
  BY <1>1, <1>3, EmptySeq DEF StreamsOK
<1>5. ASSUME NEW s \in Seq(Lines), NEW t \in Seq(Lines)
      PROVE  s \o t \in Seq(Lines) /\ Range(s \o t) = Range(s) \cup Range(t)
  BY ConcatProperties, RangeConcatenation
<1>6. /\ written' \in Seq(Lines)
      /\ Range(written') = Range(written) \cup Range(summary) \cup Range(failures)
  <2>1. /\ written \o summary \in Seq(Lines)
        /\ Range(written \o summary) = Range(written) \cup Range(summary)
    BY <1>2, <1>4, <1>5
  <2> QED
    BY <1>1, <1>2, <1>5, <2>1, ZenonT(60)
<1>7. /\ console \o summary \o failures \in Seq(Lines)
      /\ Range(console \o summary \o failures)
           = Range(console) \cup Range(summary) \cup Range(failures)
  <2>1. /\ console \o summary \in Seq(Lines)
        /\ Range(console \o summary) = Range(console) \cup Range(summary)
    BY <1>2, <1>4, <1>5
  <2> QED
    BY <1>2, <1>5, <2>1
<1>8. /\ console \o failures \o buffer \o summary \in Seq(Lines)
      /\ Range(console \o failures \o buffer \o summary)
           = Range(console) \cup Range(failures) \cup Range(buffer) \cup Range(summary)
  <2>1. /\ console \o failures \in Seq(Lines)
        /\ Range(console \o failures) = Range(console) \cup Range(failures)
    BY <1>2, <1>4, <1>5
  <2>2. /\ console \o failures \o buffer \in Seq(Lines)
        /\ Range(console \o failures \o buffer)
             = Range(console) \cup Range(failures) \cup Range(buffer)
    BY <1>4, <1>5, <2>1, ZenonT(60)
  <2> QED
    BY <1>2, <1>5, <2>2, ZenonT(60)
<1>9. child = NoChild /\ child.state = "none" /\ child.stdout = <<>>
  BY <1>1, NoChildYet DEF Forked
<1>10. debug' = debug /\ toFile' = toFile
  BY <1>1 DEF fixed
<1>11. ~toFile => console' = console \o summary \o failures
  BY <1>1, Zenon
<1>12. \/ console' = console \o failures \o buffer \o summary /\ toFile
       \/ console' = console \o summary \o failures /\ ~toFile
  BY <1>1, Zenon
<1>13. console' \in Seq(Lines)
  BY <1>7, <1>8, <1>12
<1>14. pc' # "wait"
  BY <1>1
<1>15. StreamsOK'
  BY <1>1, <1>3, <1>4, <1>6, <1>9, <1>10, <1>13, <1>14, Zenon DEF StreamsOK
<1>16. debug /\ ~toFile =>
         /\ used /\ child.stdout = <<>> /\ child.buffered = FALSE
         /\ console \o pipe = written
  BY <1>1, <1>3, Zenon DEF TerminalOK
<1>17. debug /\ ~toFile => console' \o pipe' = written'
  <2>1. console \o <<>> = console /\ console' \o <<>> = console'
    BY <1>4, <1>13, ConcatEmptySeq
  <2> QED
    BY <1>1, <1>4, <1>11, <1>16, <2>1, Zenon
<1>18. TerminalOK'
  BY <1>1, <1>10, <1>16, <1>17, Zenon DEF TerminalOK
<1>19. CopiesOK'
  BY <1>1, <1>9, RangeOfNothing DEF CopiesOK
<1>20. Safe' = Safe \cup Range(summary) \cup Range(failures)
  <2>1. Range(pipe) = {} /\ Range(pipe') = {} /\ Range(buffer') = {}
    BY <1>1, <1>4, RangeOfNothing
  <2>2. CASE toFile
    <3>1. console' = console \o failures \o buffer \o summary
      BY <1>12, <2>2
    <3> QED
      BY <1>8, <2>1, <3>1 DEF Safe
  <2>3. CASE ~toFile
    <3>1. console' = console \o summary \o failures
      BY <1>12, <2>3
    <3>2. Range(buffer) = {}
      BY <1>3, <2>3, RangeOfNothing DEF TerminalOK
    <3> QED
      BY <1>7, <2>1, <3>1, <3>2 DEF Safe
  <2> QED
    BY <2>2, <2>3
<1>21. LinesOK'
  <2>1. \A t : Killed(t) => Killed(t)'
    BY <1>1 DEF Killed
  <2> QED
    BY <1>1, <1>3, <1>6, <1>9, <1>20, <2>1, LinesMove, RangeOfNothing
<1> QED
  BY <1>15, <1>18, <1>19, <1>21 DEF OutputPart
\* Lines go from the pipe to the parent's stdout.
LEMMA ParentReadsOutput ==
  ASSUME OutputInv, ParentReads PROVE OutputPart'
<1>1. /\ pc = "read" /\ pc' = pc /\ child' = child /\ fates' = fates /\ written' = written
      /\ writers' = writers /\ UNCHANGED <<fixed, testGroups, group, index>>
  BY DEF ParentReads, loops
<1>2. PICK n \in 1 .. Len(pipe) : /\ Put("stdout", SubSeq(pipe, 1, n))
                                  /\ pipe' = SubSeq(pipe, n + 1, Len(pipe))
  BY DEF ParentReads
<1>3. StreamsOK /\ TerminalOK /\ CopiesOK /\ LinesOK
  BY DEF OutputInv
<1>4. PICK first \in Seq(Lines) : first = SubSeq(pipe, 1, n) /\ first \o pipe' = pipe
  BY <1>2, <1>3, SplitSeq, ZenonT(60) DEF StreamsOK
<1>5. /\ pipe' \in Seq(Lines) /\ console \in Seq(Lines) /\ pipe \in Seq(Lines)
  BY <1>2, <1>3, SplitSeq DEF StreamsOK
<1>6. /\ console' \in Seq(Lines) /\ buffer' \in Seq(Lines) /\ used' \in BOOLEAN
      /\ used'
      /\ Range(console') \cup Range(buffer')
           = Range(console) \cup Range(buffer) \cup Range(first)
      /\ ~toFile => buffer' = buffer /\ console' = console \o first
  BY <1>2, <1>3, <1>4, PutMoves
<1>7. debug' = debug /\ toFile' = toFile
  BY <1>1 DEF fixed
<1>8. pc' \in {"forked", "read"} /\ pc' # "wait"
  BY <1>1
<1>9. StreamsOK'
  BY <1>1, <1>3, <1>5, <1>6, <1>7, <1>8, Zenon DEF StreamsOK
<1>10. debug /\ ~toFile => console' \o pipe' = written'
  <2>1. (console \o first) \o pipe' = console \o (first \o pipe')
    <3>1. Associate(console, first, pipe')
      BY <1>5, LinesAssociate
    <3> QED
      BY <3>1 DEF Associate
  <2> QED
    BY <1>1, <1>3, <1>4, <1>6, <2>1, Zenon DEF TerminalOK
<1>11. TerminalOK'
  BY <1>1, <1>3, <1>6, <1>7, <1>10, Zenon DEF TerminalOK
<1>12. Safe' = Safe
  <2>1. Range(first \o pipe') = Range(first) \cup Range(pipe')
    BY <1>5, RangeConcatenation
  <2>2. Range(pipe) = Range(first) \cup Range(pipe')
    BY <1>4, <2>1
  <2> QED
    BY <1>6, <2>2 DEF Safe
<1>13. Test' = Test
  BY <1>1 DEF Test
<1>14. CopiesOK'
  BY <1>1, <1>3, <1>12, <1>13 DEF CopiesOK
<1>15. LinesOK'
  <2>1. \A t : Killed(t) => Killed(t)'
    BY <1>1 DEF Killed
  <2> QED
    BY <1>1, <1>3, <1>12, <2>1, LinesMove
<1> QED
  BY <1>9, <1>11, <1>14, <1>15 DEF OutputPart

\* While a child can write, the parent has not come to the end of the pipe.
LEMMA ChildHasPipe ==
  ASSUME OutputInv, child.state \in {"running", "exiting"}
  PROVE  pc \in {"forked", "read"} /\ "child" \in writers
<1>1. pc \in Forked /\ "child" \in writers
  BY DEF OutputInv, FateInv, ChildOK
<1>2. pc = "wait" => writers = {}
  BY DEF OutputInv, StreamsOK
<1> QED
  BY <1>1, <1>2 DEF Forked

LEMMA ChildWritesOutput ==
  ASSUME OutputInv, NEW stream \in {"stdout", "stderr"}, ChildWrites(stream)
  PROVE  OutputPart'
<1> DEFINE line == <<stream, Test, child.lines>>
<1>1. /\ child.state = "running" /\ pc' = pc /\ writers' = writers /\ fates' = fates
      /\ written' = Append(written, line)
      /\ UNCHANGED <<fixed, testGroups, group, index, buffer, console, used>>
  BY DEF ChildWrites, loops
<1>2. \/ /\ stream = "stdout" /\ child.buffered /\ pipe' = pipe
         /\ child' = [child EXCEPT !.lines = @ + 1, !.stdout = Append(@, line)]
      \/ /\ pipe' = Append(pipe, line)
         /\ child' = [child EXCEPT !.lines = @ + 1]
  BY Zenon DEF ChildWrites
<1>3. StreamsOK /\ TerminalOK /\ CopiesOK /\ LinesOK /\ ChildOK
  BY DEF OutputInv, FateInv
<1>4. pc \in {"forked", "read"}
  BY <1>1, ChildHasPipe
<1>5. Test \in Tests /\ child.lines \in Nat
  BY <1>3, <1>4, TestFacts DEF OutputInv, FateInv, Busy, StreamsOK
<1>6. line \in Lines
  BY <1>5, LinesAre
<1>7. line[1] = stream /\ line[2] = Test
  OBVIOUS
<1> HIDE DEF line
<1>8. /\ console \in Seq(Lines) /\ buffer \in Seq(Lines) /\ pipe \in Seq(Lines)
      /\ written \in Seq(Lines) /\ child.stdout \in Seq(Lines)
  BY <1>3 DEF StreamsOK
<1>9. /\ written' \in Seq(Lines) /\ Range(written') = Range(written) \cup {line}
      /\ Append(pipe, line) \in Seq(Lines)
      /\ Range(Append(pipe, line)) = Range(pipe) \cup {line}
      /\ Append(child.stdout, line) \in Seq(Lines)
      /\ Range(Append(child.stdout, line)) = Range(child.stdout) \cup {line}
  BY <1>1, <1>6, <1>8, RangeOfAppend
<1>10. /\ debug' = debug /\ toFile' = toFile /\ buffer' = buffer /\ console' = console
       /\ used' = used
  BY <1>1 DEF fixed
<1>11. Test' = Test
  BY <1>1 DEF Test
<1>12. \A t : Killed(t) => Killed(t)'
  BY <1>1 DEF Killed
<1>13. /\ child'.state = "running" /\ child'.buffered = child.buffered
       /\ child'.lines = child.lines + 1
  BY <1>1, <1>2, <1>3 DEF ChildOK
<1>14. child'.lines \in Nat /\ child'.state \notin {"none", "zombie"} /\ pc' # "wait"
       /\ pc' \in {"forked", "read"} /\ pc' \notin {"idle", "aborted"}
  BY <1>1, <1>4, <1>5, <1>13
<1>15. ASSUME stream = "stdout", child.buffered, pipe' = pipe,
              child' = [child EXCEPT !.lines = @ + 1, !.stdout = Append(@, line)]
       PROVE  OutputPart'
  <2>1. child'.stdout = Append(child.stdout, line)
    BY <1>3, <1>15 DEF ChildOK
  <2>2. StreamsOK'
    BY <1>3, <1>8, <1>9, <1>10, <1>13, <1>14, <1>15, <2>1, Zenon DEF StreamsOK
  <2>3. ~(debug /\ ~toFile)
    BY <1>3, <1>15, Zenon DEF TerminalOK
  <2>4. TerminalOK'
    BY <1>3, <1>10, <2>3, Zenon DEF TerminalOK
  <2>5. Safe' = Safe
    BY <1>10, <1>15 DEF Safe
  <2>6. CopiesOK'
    BY <1>3, <1>7, <1>9, <1>11, <1>15, <2>1, <2>5 DEF CopiesOK
  <2>7. LinesOK'
    BY <1>3, <1>9, <1>12, <2>1, <2>5, LinesMove
  <2> QED
    BY <2>2, <2>4, <2>6, <2>7 DEF OutputPart
<1>16. ASSUME pipe' = Append(pipe, line), child' = [child EXCEPT !.lines = @ + 1]
       PROVE  OutputPart'
  <2>1. child'.stdout = child.stdout
    BY <1>3, <1>16 DEF ChildOK
  <2>2. StreamsOK'
    BY <1>3, <1>8, <1>9, <1>10, <1>13, <1>14, <1>16, <2>1, Zenon DEF StreamsOK
  <2>3. debug /\ ~toFile => console' \o pipe' = written'
    <3>1. Append(pipe, line) = pipe \o <<line>> /\ Append(written, line) = written \o <<line>>
      BY <1>6, <1>8, AppendIsConcat, SMTT(60)
    <3>2. <<line>> \in Seq(Lines)
      BY <1>6
    <3>3. (console \o pipe) \o <<line>> = console \o (pipe \o <<line>>)
      <4>1. Associate(console, pipe, <<line>>)
        BY <1>8, <3>2, LinesAssociate
      <4> QED
        BY <4>1, SMTT(60) DEF Associate
    <3>4. debug /\ ~toFile => console \o pipe = written
      BY <1>3, Zenon DEF TerminalOK
    <3> QED
      BY <1>1, <1>10, <1>16, <3>1, <3>3, <3>4, Zenon
  <2>4. TerminalOK'
    <3>1. child'.buffered = child.buffered /\ pc \notin {"idle", "aborted"}
      BY <1>4, <1>13
    <3>2. debug /\ ~toFile => used /\ child.stdout = <<>> /\ child.buffered = FALSE
      BY <1>3, <3>1, Zenon DEF TerminalOK
    <3>3. ~toFile => buffer = <<>>
      BY <1>3, Zenon DEF TerminalOK
    <3> QED
      BY <1>10, <2>1, <2>3, <3>1, <3>2, <3>3, Zenon DEF TerminalOK
  <2>5. Safe' = Safe \cup {line}
    BY <1>9, <1>10, <1>16 DEF Safe
  <2>6. CopiesOK'
    BY <1>3, <1>11, <2>1, <2>5 DEF CopiesOK
  <2>7. LinesOK'
    BY <1>3, <1>9, <1>12, <2>1, <2>5, LinesMove
  <2> QED
    BY <2>2, <2>4, <2>6, <2>7 DEF OutputPart
<1> QED
  BY <1>2, <1>15, <1>16, Zenon

LEMMA ChildFlushesOutput ==
  ASSUME OutputInv, ChildFlushes PROVE OutputPart'
<1>1. /\ child.state = "exiting" /\ child.stdout # <<>>
      /\ pipe' = Append(pipe, Head(child.stdout))
      /\ child' = [child EXCEPT !.stdout = Tail(child.stdout)]
      /\ pc' = pc /\ fates' = fates /\ written' = written /\ writers' = writers
      /\ UNCHANGED <<fixed, testGroups, group, index, buffer, console, used>>
  BY DEF ChildFlushes, loops
<1>2. StreamsOK /\ TerminalOK /\ CopiesOK /\ LinesOK /\ ChildOK
  BY DEF OutputInv, FateInv
<1>3. pc \in {"forked", "read"}
  BY <1>1, ChildHasPipe
<1>4. /\ child'.state = child.state /\ child'.buffered = child.buffered
      /\ child'.lines = child.lines /\ child'.stdout = Tail(child.stdout)
  BY <1>1, <1>2 DEF ChildOK
<1>5. /\ console \in Seq(Lines) /\ buffer \in Seq(Lines) /\ pipe \in Seq(Lines)
      /\ written \in Seq(Lines) /\ child.stdout \in Seq(Lines)
  BY <1>2 DEF StreamsOK
<1>6. /\ Head(child.stdout) \in Lines /\ Tail(child.stdout) \in Seq(Lines)
      /\ Range(child.stdout) = {Head(child.stdout)} \cup Range(Tail(child.stdout))
  BY <1>1, <1>5, RangeOfTail
<1>7. pipe' \in Seq(Lines) /\ Range(pipe') = Range(pipe) \cup {Head(child.stdout)}
  BY <1>1, <1>5, <1>6, RangeOfAppend
<1>8. /\ debug' = debug /\ toFile' = toFile /\ buffer' = buffer /\ console' = console
      /\ used' = used
  BY <1>1 DEF fixed
<1>9. Test' = Test
  BY <1>1 DEF Test
<1>10. child'.state \notin {"none", "zombie"} /\ pc' # "wait" /\ pc' \in {"forked", "read"}
  BY <1>1, <1>3, <1>4
<1>11. StreamsOK'
  BY <1>1, <1>2, <1>4, <1>5, <1>6, <1>7, <1>8, <1>10, Zenon DEF StreamsOK
<1>12. ~(debug /\ ~toFile)
  BY <1>1, <1>2, Zenon DEF TerminalOK
<1>13. TerminalOK'
  BY <1>2, <1>8, <1>12, Zenon DEF TerminalOK
<1>14. Safe' = Safe \cup {Head(child.stdout)}
  BY <1>7, <1>8 DEF Safe
<1>15. CopiesOK'
  BY <1>2, <1>4, <1>6, <1>9, <1>14 DEF CopiesOK
<1>16. LinesOK'
  <2>1. \A t : Killed(t) => Killed(t)'
    BY <1>1 DEF Killed
  <2> QED
    BY <1>1, <1>2, <1>4, <1>6, <1>14, <2>1, LinesMove
<1> QED
  BY <1>11, <1>13, <1>15, <1>16 DEF OutputPart

\* What a killed child had in its buffer is its own, or a copy.
LEMMA ChildDiesOutput ==
  ASSUME OutputInv, FateInv', ChildDies PROVE OutputPart'
<1>1. /\ child.state \in {"running", "exiting"} /\ pc' = pc /\ writers' = writers \ {"child"}
      /\ child' = [child EXCEPT !.state = "zombie", !.status = SIGNALED, !.stdout = <<>>]
      /\ fates' = Append(fates, <<Test, SIGNALED>>)
      /\ UNCHANGED <<fixed, output, testGroups, group, index>>
  BY DEF ChildDies, loops
<1>2. StreamsOK /\ TerminalOK /\ CopiesOK /\ LinesOK /\ ChildOK /\ FatesOK /\ FatesOK'
  BY DEF OutputInv, FateInv
<1>3. pc \in {"forked", "read"}
  BY <1>1, ChildHasPipe
<1>4. /\ child'.state = "zombie" /\ child'.buffered = child.buffered
      /\ child'.lines = child.lines /\ child'.stdout = <<>>
  BY <1>1, <1>2 DEF ChildOK
<1>5. /\ debug' = debug /\ toFile' = toFile /\ used' = used /\ pipe' = pipe
      /\ buffer' = buffer /\ console' = console /\ written' = written
  BY <1>1 DEF output, fixed
<1>6. pc' \in {"forked", "read"} /\ pc' # "wait" /\ <<>> \in Seq(Lines)
  BY <1>1, <1>3, EmptySeq
<1>7. StreamsOK'
  BY <1>2, <1>4, <1>5, <1>6, Zenon DEF StreamsOK
<1>8. TerminalOK'
  BY <1>1, <1>2, <1>4, <1>5, Zenon DEF TerminalOK
<1>9. Safe' = Safe
  BY <1>5 DEF Safe
<1>10. CopiesOK'
  BY <1>4, RangeOfNothing DEF CopiesOK
<1>11. \A t : Killed(t) => Killed(t)'
  BY <1>1, <1>2, KilledStays
<1>12. Killed(Test)'
  <2> DEFINE F == Tests \X (Codes \cup {SIGNALED, NOT_RUN})
             e == <<Test, SIGNALED>>
  <2>1. fates \in Seq(F) /\ e \in F
    <3>1. Test \in Tests
      BY <1>3, TestFacts DEF OutputInv, FateInv, Busy
    <3> QED
      BY <1>2, <3>1 DEF FatesOK
  <2> HIDE DEF F, e
  <2>2. Range(Append(fates, e)) = Range(fates) \cup {e}
    BY <2>1, RangeOfAppend
  <2>3. fates' = Append(fates, e)
    BY <1>1 DEF e
  <2>4. \E i \in DOMAIN fates' : fates'[i] = e
    BY <2>2, <2>3 DEF Range
  <2>5. Test' = Test
    BY <1>1 DEF Test
  <2> QED
    BY <2>4, <2>5 DEF Killed, e
<1>13. ASSUME NEW line \in Range(child.stdout)
       PROVE  line \in Safe' \/ (line[1] = "stdout" /\ Killed(line[2])')
  <2>1. Test' = Test
    BY <1>1 DEF Test
  <2>2. line \in Safe \/ (line[1] = "stdout" /\ line[2] = Test)
    BY <1>2 DEF CopiesOK
  <2> QED
    BY <1>9, <1>12, <2>1, <2>2 DEF Killed
<1>14. LinesOK'
  BY <1>2, <1>5, <1>9, <1>11, <1>13, LinesMove
<1> QED
  BY <1>7, <1>8, <1>10, <1>14 DEF OutputPart
\* The steps before and between the tests that write nothing.
LEMMA QuietOutput ==
  ASSUME OutputInv, UNCHANGED <<output, fixed, writers, child, fates>>,
         \/ pc = "next" /\ pc' = "next"
         \/ pc = "idle" /\ pc' \in {"idle", "aborted"}
  PROVE  OutputPart'
<1>1. pipe = <<>> /\ child.stdout = <<>>
  BY NoChildYet DEF OutputInv, StreamsOK, Forked
<1>2. \A t : Killed(t) => Killed(t)'
  BY DEF Killed
<1> QED
  BY <1>1, <1>2, OutputStays

LEMMA OutputPartNext ==
  ASSUME OutputInv, FateInv', [Next]_vars PROVE OutputPart'
<1>1. ASSUME RunAll \/ StartTest \/ Summary \/ PipeFails PROVE OutputPart'
  BY <1>1, RunAllOutput, StartTestOutput, SummaryOutput, PipeFailsOutput
<1>2. ASSUME Fork \/ ParentReads \/ ParentWaits PROVE OutputPart'
  BY <1>2, ForkOutput, ParentReadsOutput, ParentWaitsOutput
<1>3. ASSUME NextGroup PROVE OutputPart'
  <2>1. /\ UNCHANGED <<output, fixed, writers, child, fates, pc>> /\ pc = "next"
    BY <1>3 DEF NextGroup
  <2> QED
    BY <2>1, QuietOutput
<1>4. ASSUME ForkFails PROVE OutputPart'
  <2>1. /\ pc = "pipe" /\ pc' = "forked" /\ fates' = Append(fates, <<Test, NOT_RUN>>)
        /\ UNCHANGED <<output, fixed, child, testGroups, group, index>>
    BY <1>4 DEF ForkFails, loops
  <2>2. child.stdout = <<>>
    BY <2>1, NoChildYet DEF Forked
  <2>3. \A t : Killed(t) => Killed(t)'
    BY <2>1, KilledStays DEF OutputInv, FateInv
  <2> QED
    BY <2>1, <2>2, <2>3, OutputStays
<1>5. ASSUME ParentCloses PROVE OutputPart'
  <2>1. /\ pc = "forked" /\ pc' = "read"
        /\ UNCHANGED <<output, fixed, child, fates, testGroups, group, index>>
    BY <1>5 DEF ParentCloses, loops
  <2>2. Test' = Test /\ \A t : Killed(t) => Killed(t)'
    BY <2>1 DEF Test, Killed
  <2>3. child'.state \in {"none", "zombie"} => child.stdout = <<>>
    BY <2>1 DEF OutputInv, StreamsOK
  <2> QED
    BY <2>1, <2>2, <2>3, OutputStays
<1>6. ASSUME ParentReachesEnd PROVE OutputPart'
  <2>1. /\ pc = "read" /\ pc' = "wait" /\ pipe = <<>> /\ writers' = {}
        /\ UNCHANGED <<output, fixed, child, fates, testGroups, group, index>>
    BY <1>6 DEF ParentReachesEnd, AtEnd, loops
  <2>2. Test' = Test /\ \A t : Killed(t) => Killed(t)'
    BY <2>1 DEF Test, Killed
  <2>3. child'.state \in {"none", "zombie"} => child.stdout = <<>>
    BY <2>1 DEF OutputInv, StreamsOK
  <2> QED
    BY <2>1, <2>2, <2>3, OutputStays
<1>7. ASSUME ChildFlushes \/ ChildDies PROVE OutputPart'
  BY <1>7, ChildFlushesOutput, ChildDiesOutput
<1>8. ASSUME NEW stream \in {"stdout", "stderr"}, ChildWrites(stream) PROVE OutputPart'
  BY <1>8, ChildWritesOutput
<1>9. ASSUME ChildExits PROVE OutputPart'
  <2>1. /\ child.state = "exiting" /\ child.stdout = <<>> /\ pc' = pc
        /\ child' = [child EXCEPT !.state = "zombie"]
        /\ fates' = Append(fates, <<Test, child.status>>)
        /\ UNCHANGED <<output, fixed>>
    BY <1>9 DEF ChildExits, loops
  <2>2. /\ child'.stdout = child.stdout /\ child'.buffered = child.buffered
        /\ child'.lines = child.lines
    BY <2>1 DEF OutputInv, FateInv, ChildOK
  <2>3. \A t : Killed(t) => Killed(t)'
    BY <2>1, KilledStays DEF OutputInv, FateInv
  <2>4. pc' \in {"forked", "read"} /\ pc' # "wait"
    BY <2>1, ChildHasPipe
  <2> QED
    BY <2>1, <2>2, <2>3, <2>4, OutputStays
<1>10. ASSUME NEW c \in Codes, ChildReturns(c) PROVE OutputPart'
  <2>1. /\ child.state = "running" /\ pc' = pc /\ fates' = fates
        /\ child' = [child EXCEPT !.state = "exiting", !.status = c]
        /\ UNCHANGED <<output, fixed, testGroups, group, index>>
    BY <1>10 DEF ChildReturns, loops
  <2>2. /\ child'.stdout = child.stdout /\ child'.buffered = child.buffered
        /\ child'.lines = child.lines /\ child'.state = "exiting"
    BY <2>1 DEF OutputInv, FateInv, ChildOK
  <2>3. Test' = Test /\ \A t : Killed(t) => Killed(t)'
    BY <2>1 DEF Test, Killed
  <2>4. pc' \in {"forked", "read"} /\ pc' # "wait"
    BY <2>1, ChildHasPipe
  <2> QED
    BY <2>1, <2>2, <2>3, <2>4, OutputStays
<1>11. ASSUME ChildSpawns \/ OtherEnds PROVE OutputPart'
  <2>1. /\ pc' = pc /\ UNCHANGED <<output, fixed, child, fates, testGroups, group, index>>
        /\ child.state = "running" \/ "other" \in writers
    BY <1>11 DEF ChildSpawns, OtherEnds, loops
  <2>2. Test' = Test /\ \A t : Killed(t) => Killed(t)'
    BY <2>1 DEF Test, Killed
  <2>3. pc' # "wait"
    BY <2>1, ChildHasPipe DEF OutputInv, StreamsOK
  <2>4. pc' \notin {"forked", "read"} => pipe = <<>>
    BY <2>1 DEF OutputInv, StreamsOK
  <2>5. child'.state \in {"none", "zombie"} => child.stdout = <<>>
    BY <2>1 DEF OutputInv, StreamsOK
  <2> QED
    BY <2>1, <2>2, <2>3, <2>4, <2>5, OutputStays
<1>12. ASSUME NEW t \in Tests, NEW g \in Groups, Register(t, g) PROVE OutputPart'
  <2>1. /\ pc = "idle" /\ pc' \in {"idle", "aborted"}
        /\ UNCHANGED <<output, fixed, writers, child, fates>>
    BY <1>12 DEF Register
  <2> QED
    BY <2>1, QuietOutput
<1>13. ASSUME UNCHANGED vars PROVE OutputPart'
  <2>1. UNCHANGED <<output, fixed, writers, child, fates, pc, testGroups, group, index>>
    BY <1>13 DEF vars, output, fixed
  <2>2. Test' = Test
    BY <2>1 DEF Test
  <2>3. StreamsOK /\ \A t : Killed(t) => Killed(t)'
    BY <2>1 DEF OutputInv, Killed
  <2>4. /\ pc' \notin {"forked", "read"} => pipe = <<>>
        /\ pc' = "wait" => writers' = {}
        /\ child'.state \in {"none", "zombie"} => child.stdout = <<>>
    BY <2>1, <2>3 DEF StreamsOK
  <2> QED
    BY <2>1, <2>2, <2>3, <2>4, OutputStays
<1> QED
  BY <1>1, <1>2, <1>3, <1>4, <1>5, <1>6, <1>7, <1>8, <1>9, <1>10, <1>11, <1>12, <1>13
     DEF Next, ParentStep, ChildEnds

LEMMA OutputInvNext == OutputInv /\ [Next]_vars => OutputInv'
<1> SUFFICES ASSUME OutputInv, [Next]_vars PROVE OutputInv'
  OBVIOUS
<1>1. FateInv'
  BY FateInvNext DEF OutputInv
<1>2. OutputPart'
  BY <1>1, OutputPartNext
<1> QED
  BY <1>1, <1>2 DEF OutputInv, OutputPart

LEMMA OutputInvInit == Init => OutputInv
<1> SUFFICES ASSUME Init PROVE OutputInv
  OBVIOUS
<1>1. FateInv
  BY FateInvInit
<1>2. /\ debug \in BOOLEAN /\ toFile \in BOOLEAN /\ used = FALSE /\ pc = "idle"
      /\ child = NoChild /\ pipe = <<>> /\ buffer = <<>> /\ console = <<>>
      /\ written = <<>>
  BY DEF Init
<1>3. <<>> \in Seq(Lines) /\ <<>> \o <<>> = <<>> /\ NoChild.lines \in Nat /\ pc # "wait"
  BY <1>2, EmptySeq, ConcatEmptySeq, NoChildIs
<1>4. used \in BOOLEAN /\ NoChild.buffered \in BOOLEAN
  BY <1>2, NoChildIs
<1>5. StreamsOK
  BY <1>2, <1>3, <1>4, NoChildIs, Zenon DEF StreamsOK
<1>6. TerminalOK
  BY <1>2, <1>3, NoChildIs, Zenon DEF TerminalOK
<1>7. CopiesOK
  BY <1>2, NoChildIs, RangeOfNothing DEF CopiesOK
<1>8. LinesOK
  BY <1>2, RangeOfNothing DEF LinesOK
<1> QED
  BY <1>1, <1>5, <1>6, <1>7, <1>8 DEF OutputInv

LEMMA OutputInvMeans == OutputInv => TranscriptComplete
<1> SUFFICES ASSUME OutputInv PROVE TranscriptComplete
  OBVIOUS
<1>1. StreamsOK /\ TerminalOK /\ LinesOK
  BY DEF OutputInv
<1>2. debug /\ ~toFile => console \o pipe = written
  BY <1>1, Zenon DEF TerminalOK
<1>3. ASSUME NEW i \in DOMAIN written
      PROVE  \/ written[i] \in Range(console \o buffer \o pipe \o child.stdout)
             \/ written[i][1] = "stdout" /\ Killed(written[i][2])
  <2>1. /\ console \in Seq(Lines) /\ buffer \in Seq(Lines) /\ pipe \in Seq(Lines)
        /\ child.stdout \in Seq(Lines)
    BY <1>1 DEF StreamsOK
  <2>2. ASSUME NEW s \in Seq(Lines), NEW t \in Seq(Lines)
        PROVE  s \o t \in Seq(Lines) /\ Range(s \o t) = Range(s) \cup Range(t)
    BY ConcatProperties, RangeConcatenation
  <2>3. /\ console \o buffer \in Seq(Lines)
        /\ Range(console \o buffer) = Range(console) \cup Range(buffer)
    BY <2>1, <2>2
  <2>4. /\ console \o buffer \o pipe \in Seq(Lines)
        /\ Range(console \o buffer \o pipe) = Safe
    BY <2>1, <2>2, <2>3, ZenonT(60) DEF Safe
  <2>5. Range(console \o buffer \o pipe \o child.stdout) = Safe \cup Range(child.stdout)
    BY <2>1, <2>2, <2>4
  <2>6. written[i] \in Range(written)
    BY DEF Range
  <2>7. Kept(written[i])
    BY <1>1, <2>6 DEF LinesOK
  <2> QED
    BY <2>5, <2>7 DEF Kept
<1> QED
  BY <1>2, <1>3, Zenon DEF TranscriptComplete

\* The debug build's transcript on a terminal is exact, and otherwise no line
\* of output is lost but those that a killed test had not flushed, whatever
\* the size of the pipe and the order of the processes' steps.
THEOREM TranscriptAlwaysComplete == Spec => []TranscriptComplete
  BY OutputInvInit, OutputInvNext, OutputInvMeans, PTL DEF Spec

-----------------------------------------------------------------------------
(* justFile: the inductive invariant *)

\* What a place and a byte can be.
Objects == Inodes \cup {"none", "dir"}
Byte == (Procs \cup {Nowhere}) \X Nat

\* A record with the fields of a call.
Fields == {"op", "path", "done", "ok", "size", "n", "got", "before", "entry", "err",
           "hits"}
IsCall(c) == c = [f \in Fields |-> c[f]]

Handles ==
  [isOpen : BOOLEAN, ino : Objects \cup {Nowhere}, pos : Nat, mode : Modes]

FileTypes ==
  /\ tree \in [Places -> Objects]
  /\ data \in [Inodes -> Seq(Byte)]
  /\ file \in [Procs -> Handles]
  /\ openFds \in [Procs -> Int]
  /\ call = [p \in Procs |-> call[p]]
  /\ \A p \in Procs : IsCall(call[p]) /\ call[p].done \in BOOLEAN

InCall(p, op) == call[p].op = op /\ ~call[p].done

\* A call on a whole file has the file open until it returns.
HasFile(p) ==
  InCall(p, "read") \/ InCall(p, "write") \/ InCall(p, "append") =>
    file[p].isOpen /\ call[p].n \in Nat /\ call[p].size \in Int

\* A write goes to a file, an append through a descriptor opened with
\* O_APPEND, and neither writes more than its buffer.
Writing(p) ==
  InCall(p, "write") \/ InCall(p, "append") =>
    /\ file[p].ino \in Inodes /\ file[p].mode = call[p].op
    /\ call[p].before \in Seq(Byte)
    /\ call[p].n <= call[p].size /\ call[p].size <= BufferBytes

\* DescriptorsClosed and AppendsKept, of one process.
FdsOf(p) ==
  openFds[p] = (IF file[p].isOpen THEN 1 ELSE 0) + (IF InCall(p, "list") THEN 1 ELSE 0)

\* The bytes of p after the first m bytes of s are its first n, in order.
BytesKept(p, before, s, n) ==
  LET mine == {j \in Len(before) + 1 .. Len(s) : s[j][1] = p}
  IN  /\ IsPrefix(before, s)
      /\ {s[j] : j \in mine} = {Buffer(p)[i] : i \in 1 .. n}
      /\ \A j, k \in mine : j < k => s[j][2] < s[k][2]

KeptOf(p) ==
  InCall(p, "append") /\ "cut" \notin call[p].hits =>
    BytesKept(p, call[p].before, data[file[p].ino], call[p].n)

Sound(p) == HasFile(p) /\ Writing(p) /\ FdsOf(p) /\ KeptOf(p)

FilesInv == FileTypes /\ \A p \in Procs : Sound(p)

LEMMA SoundMeans ==
  ASSUME FilesInv
  PROVE  DescriptorsClosed /\ AppendsKept
<1>1. DescriptorsClosed
  BY DEF FilesInv, Sound, FdsOf, InCall, DescriptorsClosed
<1>2. AppendsKept
  BY DEF FilesInv, Sound, KeptOf, BytesKept, InCall, AppendsKept
<1> QED
  BY <1>1, <1>2

-----------------------------------------------------------------------------
(* What a step of one process leaves of the others *)

\* A call of a process is now c; the others' calls only note what happened.
LEMMA BecomesCall ==
  ASSUME FileTypes, NEW p \in Procs, NEW c, IsCall(c), c.done \in BOOLEAN, Becomes(p, c)
  PROVE  /\ call' = [q \in Procs |-> call'[q]]
         /\ call'[p] = c
         /\ \A q \in Procs : IsCall(call'[q]) /\ call'[q].done \in BOOLEAN
<1>1. call' = [q \in Procs |-> call'[q]]
  BY DEF Becomes
<1>2. call'[p] = c
  BY DEF Becomes
<1>3. ASSUME NEW q \in Procs
      PROVE  IsCall(call'[q]) /\ call'[q].done \in BOOLEAN
  <2>1. CASE q = p
    BY <2>1, <1>2
  <2>2. CASE q # p /\ call[q] = NoCall
    <3>1. call'[q] = NoCall
      BY <2>2 DEF Becomes
    <3>2. IsCall(NoCall)
      BY DEF IsCall, Fields, NoCall
    <3>3. NoCall.done = TRUE
      BY DEF NoCall
    <3> QED
      BY <3>1, <3>2, <3>3
  <2>3. CASE q # p /\ call[q] # NoCall
    <3>1. call'[q] = [call[q] EXCEPT !.hits = @ \cup Events]
      BY <2>3 DEF Becomes
    <3>2. IsCall(call[q]) /\ call[q].done \in BOOLEAN
      BY DEF FileTypes
    <3> DEFINE d == call[q]
               e == Events
    <3> HIDE DEF d, e
    <3>3. IsCall(d) => /\ IsCall([d EXCEPT !.hits = @ \cup e])
                       /\ [d EXCEPT !.hits = @ \cup e].done = d.done
      BY DEF IsCall, Fields
    <3> QED
      BY <3>1, <3>2, <3>3 DEF d, e
  <2> QED
    BY <2>1, <2>2, <2>3
<1> QED
  BY <1>1, <1>2, <1>3

\* What a step of p leaves of the call of q.
Noted(q) ==
  /\ call'[q].op = call[q].op /\ call'[q].done = call[q].done
  /\ call'[q].n = call[q].n /\ call'[q].size = call[q].size
  /\ call'[q].before = call[q].before
  /\ call[q].op # "none" => call'[q].hits = call[q].hits \cup Events

LEMMA BecomesNoted ==
  ASSUME FileTypes, NEW p \in Procs, NEW q \in Procs, p # q, NEW c, Becomes(p, c)
  PROVE  Noted(q)
<1>1. CASE call[q] = NoCall
  <2>1. call'[q] = NoCall
    BY <1>1 DEF Becomes
  <2>2. call[q].op = "none"
    BY <1>1 DEF NoCall
  <2> QED
    BY <1>1, <2>1, <2>2 DEF Noted
<1>2. CASE call[q] # NoCall
  <2>1. call'[q] = [call[q] EXCEPT !.hits = @ \cup Events]
    BY <1>2 DEF Becomes
  <2> DEFINE d == call[q]
             e == Events
  <2>2. IsCall(d)
    BY DEF FileTypes
  <2> HIDE DEF d, e
  <2>3. LET f == [d EXCEPT !.hits = @ \cup e]
        IN  /\ f.op = d.op /\ f.done = d.done /\ f.n = d.n /\ f.size = d.size
            /\ f.before = d.before /\ f.hits = d.hits \cup e
    BY <2>2 DEF IsCall, Fields
  <2> QED
    BY <2>1, <2>3 DEF Noted, d, e
<1> QED
  BY <1>1, <1>2

\* A step that takes bytes away, or changes them, cuts.
LEMMA CutNoted ==
  ASSUME NEW i \in Inodes, ~IsPrefix(data[i], data'[i])
  PROVE  "cut" \in Events
  BY DEF Events

-----------------------------------------------------------------------------
(* Bytes behind the end of a file *)

\* No byte of q is behind the end of s.
NoneOf(q, s, t) == \A j \in Len(s) + 1 .. Len(t) : t[j][1] # q

LEMMA PrefixElements ==
  ASSUME NEW s \in Seq(Byte), NEW t \in Seq(Byte)
  PROVE  IsPrefix(s, t) <=> /\ Len(s) <= Len(t)
                            /\ \A j \in 1 .. Len(s) : s[j] = t[j]
<1>1. CASE Len(s) <= Len(t)
  <2>1. SubSeq(s, 1, Len(s)) = s
    BY SubSeqFull
  <2>2. /\ Len(SubSeq(t, 1, Len(s))) = Len(s)
        /\ SubSeq(t, 1, Len(s)) \in Seq(Byte)
        /\ \A j \in 1 .. Len(s) : SubSeq(t, 1, Len(s))[j] = t[j]
    BY <1>1, SubSeqProperties
  <2> DEFINE u == SubSeq(t, 1, Len(s))
  <2> HIDE DEF u
  <2>3. s = u <=> \A j \in 1 .. Len(s) : s[j] = u[j]
    BY <2>2, SeqEqual DEF u
  <2> QED
    BY <1>1, <2>1, <2>2, <2>3 DEF IsPrefix, u
<1>2. CASE ~(Len(s) <= Len(t))
  BY <1>2 DEF IsPrefix
<1> QED
  BY <1>1, <1>2

\* What others write behind the end leaves the bytes of q as they were.
LEMMA KeptGrown ==
  ASSUME NEW q \in Procs, NEW b \in Seq(Byte), NEW s \in Seq(Byte), NEW t \in Seq(Byte),
         NEW n \in Nat, BytesKept(q, b, s, n), IsPrefix(s, t), NoneOf(q, s, t)
  PROVE  BytesKept(q, b, t, n)
<1> DEFINE mine(u) == {j \in Len(b) + 1 .. Len(u) : u[j][1] = q}
<1>1. /\ Len(b) <= Len(s) /\ Len(s) <= Len(t)
      /\ \A j \in 1 .. Len(b) : b[j] = s[j]
      /\ \A j \in 1 .. Len(s) : s[j] = t[j]
      /\ Len(b) \in Nat /\ Len(s) \in Nat /\ Len(t) \in Nat
  BY PrefixElements, LenProperties DEF BytesKept
<1>2. IsPrefix(b, t)
  BY <1>1, PrefixElements
<1>3. mine(t) = mine(s)
  BY <1>1 DEF NoneOf
<1>4. \A j \in mine(s) : s[j] = t[j]
  BY <1>1
<1>5. /\ {s[j] : j \in mine(s)} = {Buffer(q)[i] : i \in 1 .. n}
      /\ \A j, k \in mine(s) : j < k => s[j][2] < s[k][2]
  BY DEF BytesKept
<1> HIDE DEF mine
<1>6. {t[j] : j \in mine(t)} = {Buffer(q)[i] : i \in 1 .. n}
  BY <1>3, <1>4, <1>5
<1>7. \A j, k \in mine(t) : j < k => t[j][2] < t[k][2]
  BY <1>3, <1>4, <1>5
<1> QED
  BY <1>2, <1>6, <1>7 DEF BytesKept, mine

\* A step of p leaves q sound if it leaves alone what is q's own and writes
\* no byte of q behind the end of a file.
LEMMA OthersSound ==
  ASSUME FileTypes, NEW p \in Procs, NEW q \in Procs, p # q, Sound(q),
         data' \in [Inodes -> Seq(Byte)], Noted(q),
         file'[q] = file[q], openFds'[q] = openFds[q],
         \A i \in Inodes : i # file[q].ino \/ NoneOf(q, data[i], data'[i])
  PROVE  Sound(q)'
<1>1. \A op \in {"read", "write", "append", "list"} : InCall(q, op)' <=> InCall(q, op)
  BY DEF InCall, Noted
<1>2. HasFile(q)'
  BY <1>1 DEF Sound, HasFile, Noted
<1>3. Writing(q)'
  BY <1>1 DEF Sound, Writing, Noted
<1>4. FdsOf(q)'
  BY <1>1 DEF Sound, FdsOf
<1>5. KeptOf(q)'
  <2> SUFFICES ASSUME InCall(q, "append"), "cut" \notin call'[q].hits
               PROVE  BytesKept(q, call'[q].before, data'[file'[q].ino], call'[q].n)
    BY <1>1 DEF KeptOf
  <2> DEFINE i == file[q].ino
  <2>1. i \in Inodes /\ call[q].before \in Seq(Byte) /\ call[q].n \in Nat
    BY DEF Sound, Writing, HasFile
  <2>2. call'[q].hits = call[q].hits \cup Events
    BY DEF InCall, Noted
  <2>3. "cut" \notin call[q].hits /\ "cut" \notin Events
    BY <2>2
  <2>4. IsPrefix(data[i], data'[i])
    BY <2>1, <2>3, CutNoted
  <2>5. BytesKept(q, call[q].before, data[i], call[q].n)
    BY <2>3 DEF Sound, KeptOf
  <2>6. data[i] \in Seq(Byte) /\ data'[i] \in Seq(Byte)
    BY <2>1 DEF FileTypes
  <2>7. NoneOf(q, data[i], data'[i])
    BY <2>1
  <2> HIDE DEF i
  <2>8. BytesKept(q, call[q].before, data'[i], call[q].n)
    BY <2>1, <2>4, <2>5, <2>6, <2>7, KeptGrown
  <2> QED
    BY <2>8 DEF i, Noted
<1> QED
  BY <1>2, <1>3, <1>4, <1>5 DEF Sound

\* A step of p keeps the invariant if it leaves p sound, leaves alone what is
\* the others' own, and writes no byte of theirs behind the end of a file.
LEMMA StepSound ==
  ASSUME FilesInv, NEW p \in Procs, NEW c, IsCall(c), c.done \in BOOLEAN, Becomes(p, c),
         tree' \in [Places -> Objects], data' \in [Inodes -> Seq(Byte)],
         file' \in [Procs -> Handles], openFds' \in [Procs -> Int],
         \A q \in Procs \ {p} :
           /\ file'[q] = file[q] /\ openFds'[q] = openFds[q]
           /\ \A i \in Inodes : NoneOf(q, data[i], data'[i]),
         Sound(p)'
  PROVE  FilesInv'
<1>1. FileTypes /\ \A q \in Procs : Sound(q)
  BY DEF FilesInv
<1>2. /\ call' = [q \in Procs |-> call'[q]]
      /\ \A q \in Procs : IsCall(call'[q]) /\ call'[q].done \in BOOLEAN
  BY <1>1, BecomesCall
<1>3. FileTypes'
  BY <1>2 DEF FileTypes
<1>4. ASSUME NEW q \in Procs, q # p
      PROVE  Sound(q)'
  <2>1. Noted(q)
    BY <1>1, <1>4, BecomesNoted
  <2>2. /\ file'[q] = file[q] /\ openFds'[q] = openFds[q]
        /\ \A i \in Inodes : i # file[q].ino \/ NoneOf(q, data[i], data'[i])
    BY <1>4
  <2> QED
    BY <1>1, <1>4, <2>1, <2>2, OthersSound
<1> QED
  BY <1>3, <1>4 DEF FilesInv

\* A process in no call, or in one on names and directories, is sound if it
\* has the descriptors that it should have.
LEMMA IdleSound ==
  ASSUME NEW p \in Procs, FdsOf(p)',
         call'[p].done \/ call'[p].op \notin {"read", "write", "append"}
  PROVE  Sound(p)'
<1>1. \A op \in {"read", "write", "append"} : ~InCall(p, op)'
  BY DEF InCall
<1> QED
  BY <1>1 DEF Sound, HasFile, Writing, KeptOf

\* A step that neither writes nor touches a descriptor.
LEMMA NamesStep ==
  ASSUME FilesInv, NEW p \in Procs, NEW c, IsCall(c), c.done \in BOOLEAN, Becomes(p, c),
         tree' \in [Places -> Objects], UNCHANGED <<data, file, openFds>>,
         c.done \/ c.op \notin {"read", "write", "append"},
         (c.op = "list" /\ ~c.done) <=> InCall(p, "list")
  PROVE  FilesInv'
<1>1. FileTypes /\ Sound(p)
  BY DEF FilesInv
<1>2. call'[p] = c
  BY <1>1, BecomesCall
<1>3. InCall(p, "list")' <=> InCall(p, "list")
  BY <1>2 DEF InCall
<1>4. FdsOf(p)'
  BY <1>1, <1>3 DEF Sound, FdsOf
<1>5. Sound(p)'
  BY <1>2, <1>4, IdleSound
<1>6. \A q \in Procs, i \in Inodes : NoneOf(q, data[i], data'[i])
  <2>1. \A i \in Inodes : Len(data[i]) \in Nat
    BY <1>1 DEF FileTypes
  <2> QED
    BY <2>1 DEF NoneOf
<1>7. /\ data' \in [Inodes -> Seq(Byte)]
      /\ file' \in [Procs -> Handles] /\ openFds' \in [Procs -> Int]
  BY <1>1 DEF FileTypes
<1> QED
  BY <1>5, <1>6, <1>7, StepSound

LEMMA CallShapes ==
  /\ IsCall(NoCall) /\ NoCall.done /\ NoCall.done \in BOOLEAN
  /\ NoCall.op # "list"
  BY DEF IsCall, Fields, NoCall

-----------------------------------------------------------------------------
(* Steps that only read the tree or change names *)

LEMMA AppendNothingStep ==
  ASSUME FilesInv, NEW p \in Procs, AppendNothing(p)
  PROVE  FilesInv'
<1> DEFINE c == [NoCall EXCEPT !.ok = TRUE]
<1>1. IsCall(c) /\ c.done = TRUE
  BY DEF IsCall, Fields, NoCall
<1>2. ~InCall(p, "list")
  BY DEF AppendNothing, Begins, InCall
<1>3. Becomes(p, c) /\ UNCHANGED <<tree, data, file, openFds>>
  BY DEF AppendNothing
<1> HIDE DEF c
<1>4. tree' \in [Places -> Objects]
  BY <1>3 DEF FilesInv, FileTypes
<1> QED
  BY <1>1, <1>2, <1>3, <1>4, NamesStep

LEMMA MkdirBeginsStep ==
  ASSUME FilesInv, NEW p \in Procs, MkdirBegins(p)
  PROVE  FilesInv'
<1>1. PICK path_ \in DirArgs :
        /\ Begins(p)
        /\ UNCHANGED <<data, file, openFds>>
        /\ \/ /\ CanMake(path_) /\ tree' = Made(path_)
              /\ Becomes(p, [New("mkdir", path_) EXCEPT !.done = TRUE, !.ok = TRUE])
           \/ /\ justFileExists(path_) /\ UNCHANGED tree
              /\ Becomes(p, New("mkdir", path_))
           \/ /\ UNCHANGED tree
              /\ Becomes(p, [New("mkdir", path_) EXCEPT !.done = TRUE,
                                                       !.err = Locate(path_) # Nowhere])
  BY DEF MkdirBegins
<1>2. PICK c : /\ IsCall(c) /\ c.done \in BOOLEAN /\ c.op = "mkdir" /\ Becomes(p, c)
  <2> DEFINE e == Locate(path_) # Nowhere
  <2> HIDE DEF e
  <2>1. LET c == [New("mkdir", path_) EXCEPT !.done = TRUE, !.ok = TRUE]
        IN  IsCall(c) /\ c.done = TRUE /\ c.op = "mkdir"
    BY DEF New, NoCall, IsCall, Fields
  <2>2. LET c == New("mkdir", path_)
        IN  IsCall(c) /\ c.done = FALSE /\ c.op = "mkdir"
    BY DEF New, NoCall, IsCall, Fields
  <2>3. LET c == [New("mkdir", path_) EXCEPT !.done = TRUE, !.err = e]
        IN  IsCall(c) /\ c.done = TRUE /\ c.op = "mkdir"
    BY DEF New, NoCall, IsCall, Fields
  <2> QED
    BY <1>1, <2>1, <2>2, <2>3 DEF e
<1>3. tree' \in [Places -> Objects]
  BY <1>1 DEF Made, Objects, FilesInv, FileTypes
<1>4. ~InCall(p, "list")
  BY <1>1 DEF Begins, InCall
<1> QED
  BY <1>1, <1>2, <1>3, <1>4, NamesStep

\* What a call returns with.
LEMMA ReturnsCall ==
  ASSUME FilesInv, NEW p \in Procs, NEW ok, Returns(p, ok)
  PROVE  \E c : /\ IsCall(c) /\ c.done = TRUE /\ c.op = call[p].op /\ Becomes(p, c)
<1> DEFINE d == call[p]
           c == [d EXCEPT !.done = TRUE, !.ok = ok]
<1>1. IsCall(d)
  BY DEF FilesInv, FileTypes
<1>2. Becomes(p, c)
  BY DEF Returns
<1> HIDE DEF d
<1>3. IsCall(c) /\ c.done = TRUE /\ c.op = d.op
  BY <1>1 DEF IsCall, Fields
<1> HIDE DEF c
<1> QED
  BY <1>2, <1>3 DEF d

LEMMA MkdirChecksStep ==
  ASSUME FilesInv, NEW p \in Procs, MkdirChecks(p)
  PROVE  FilesInv'
<1>1. /\ Running(p, "mkdir") /\ UNCHANGED <<tree, data, file, openFds>>
      /\ \E ok : Returns(p, ok)
  BY DEF MkdirChecks
<1>2. PICK c : /\ IsCall(c) /\ c.done = TRUE /\ c.op = call[p].op /\ Becomes(p, c)
  BY <1>1, ReturnsCall
<1>3. ~InCall(p, "list") /\ c.op = "mkdir"
  BY <1>1, <1>2 DEF Running, InCall
<1>4. tree' \in [Places -> Objects]
  BY <1>1 DEF FilesInv, FileTypes
<1> QED
  BY <1>1, <1>2, <1>3, <1>4, NamesStep

LEMMA MkdirsBeginsStep ==
  ASSUME FilesInv, NEW p \in Procs, MkdirsBegins(p)
  PROVE  FilesInv'
<1>1. PICK path_ \in DirArgs :
        /\ Begins(p) /\ UNCHANGED <<tree, data, file, openFds>>
        /\ Becomes(p, New("mkdirs", path_))
  BY DEF MkdirsBegins
<1> DEFINE c == New("mkdirs", path_)
<1>2. IsCall(c) /\ c.done = FALSE /\ c.op = "mkdirs"
  BY DEF New, NoCall, IsCall, Fields
<1>3. Becomes(p, c)
  BY <1>1
<1> HIDE DEF c
<1>4. ~InCall(p, "list")
  BY <1>1 DEF Begins, InCall
<1>5. tree' \in [Places -> Objects]
  BY <1>1 DEF FilesInv, FileTypes
<1> QED
  BY <1>1, <1>2, <1>3, <1>4, <1>5, NamesStep

LEMMA MkdirsStepStep ==
  ASSUME FilesInv, NEW p \in Procs, MkdirsStep(p)
  PROVE  FilesInv'
<1> DEFINE prefix == Prefix(call[p].path, call[p].n)
           d == call[p]
           len == Len(prefix) + 1
           e == Locate(prefix) # Nowhere
<1>1. /\ Running(p, "mkdirs") /\ UNCHANGED <<data, file, openFds>>
      /\ \/ CanMake(prefix) /\ tree' = Made(prefix) /\ Advances(p, prefix)
         \/ justFileExists(prefix) /\ UNCHANGED tree /\ Advances(p, prefix)
         \/ UNCHANGED tree /\ Becomes(p, [d EXCEPT !.done = TRUE, !.err = e])
  BY DEF MkdirsStep
<1>2. \/ Becomes(p, [d EXCEPT !.done = TRUE, !.ok = TRUE])
      \/ Becomes(p, [d EXCEPT !.n = len])
      \/ Becomes(p, [d EXCEPT !.done = TRUE, !.err = e])
  BY <1>1 DEF Advances
<1>3. IsCall(d) /\ d.done \in BOOLEAN /\ d.op = "mkdirs"
  BY <1>1 DEF FilesInv, FileTypes, Running
<1> HIDE DEF d, len, e
<1>4. LET c == [d EXCEPT !.done = TRUE, !.ok = TRUE]
      IN  IsCall(c) /\ c.done = TRUE /\ c.op = "mkdirs"
  BY <1>3 DEF IsCall, Fields
<1>5. LET c == [d EXCEPT !.n = len]
      IN  IsCall(c) /\ c.done = d.done /\ c.op = "mkdirs"
  BY <1>3 DEF IsCall, Fields
<1>6. LET c == [d EXCEPT !.done = TRUE, !.err = e]
      IN  IsCall(c) /\ c.done = TRUE /\ c.op = "mkdirs"
  BY <1>3 DEF IsCall, Fields
<1>7. PICK c : IsCall(c) /\ c.done \in BOOLEAN /\ c.op = "mkdirs" /\ Becomes(p, c)
  BY <1>2, <1>3, <1>4, <1>5, <1>6
<1>8. ~InCall(p, "list")
  BY <1>3 DEF InCall, d
<1>9. tree' \in [Places -> Objects]
  BY <1>1 DEF Made, Objects, FilesInv, FileTypes
<1> QED
  BY <1>1, <1>7, <1>8, <1>9, NamesStep

LEMMA FileRemoveStep ==
  ASSUME FilesInv, NEW p \in Procs, FileRemove(p)
  PROVE  FilesInv'
<1>1. PICK path_ \in FileArgs :
        /\ Begins(p) /\ UNCHANGED <<data, file, openFds>>
        /\ tree' = [tree EXCEPT ![Locate(path_)] = "none"]
        /\ Becomes(p, NoCall)
  BY DEF FileRemove
<1>2. ~InCall(p, "list")
  BY <1>1 DEF Begins, InCall
<1>3. tree' \in [Places -> Objects]
  BY <1>1 DEF Objects, FilesInv, FileTypes
<1> QED
  BY <1>1, <1>2, <1>3, CallShapes, NamesStep

LEMMA FileRenameStep ==
  ASSUME FilesInv, NEW p \in Procs, FileRename(p)
  PROVE  FilesInv'
<1>1. PICK from, to :
        /\ Begins(p) /\ UNCHANGED <<data, file, openFds>>
        /\ tree' = [x \in Places |->
                      IF IsPrefix(to, x)
                        THEN LET was == Moved(x, to, from)
                             IN  IF was \in Places THEN tree[was] ELSE "none"
                        ELSE IF IsPrefix(from, x) THEN "none" ELSE tree[x]]
        /\ Becomes(p, NoCall)
  BY DEF FileRename
<1>2. ~InCall(p, "list")
  BY <1>1 DEF Begins, InCall
<1>3. tree' \in [Places -> Objects]
  BY <1>1 DEF Objects, FilesInv, FileTypes
<1> QED
  BY <1>1, <1>2, <1>3, CallShapes, NamesStep

\* The steps of a listing that touch neither its descriptor nor the tree.
LEMMA ListGoesOn ==
  ASSUME FilesInv, NEW p \in Procs, Running(p, "list"),
         UNCHANGED <<tree, data, file, openFds>>,
         NEW c, IsCall(c), c.done = call[p].done, c.op = call[p].op, Becomes(p, c)
  PROVE  FilesInv'
<1>1. c.done = FALSE /\ c.op = "list" /\ InCall(p, "list")
  BY DEF FilesInv, FileTypes, Running, InCall
<1>2. tree' \in [Places -> Objects]
  BY DEF FilesInv, FileTypes
<1> QED
  BY <1>1, <1>2, NamesStep

LEMMA ListEntryStep ==
  ASSUME FilesInv, NEW p \in Procs, ListEntry(p)
  PROVE  FilesInv'
<1> DEFINE d == call[p]
<1>1. PICK name : Becomes(p, [d EXCEPT !.entry = name])
  BY DEF ListEntry
<1> DEFINE c == [d EXCEPT !.entry = name]
<1>2. IsCall(d) /\ Becomes(p, c)
  BY <1>1 DEF FilesInv, FileTypes
<1> HIDE DEF d
<1>3. IsCall(c) /\ c.done = d.done /\ c.op = d.op
  BY <1>2 DEF IsCall, Fields
<1> HIDE DEF c
<1> QED
  BY <1>2, <1>3, ListGoesOn DEF ListEntry, d

LEMMA ListKindStep ==
  ASSUME FilesInv, NEW p \in Procs, ListKind(p)
  PROVE  FilesInv'
<1> DEFINE d == call[p]
<1>1. PICK g, h : \/ Becomes(p, [d EXCEPT !.entry = Nowhere, !.got = g])
                  \/ Becomes(p, [d EXCEPT !.entry = Nowhere, !.got = h, !.err = TRUE])
  BY DEF ListKind
<1> DEFINE b == [d EXCEPT !.entry = Nowhere, !.got = g]
           c == [d EXCEPT !.entry = Nowhere, !.got = h, !.err = TRUE]
<1>2. IsCall(d) /\ (Becomes(p, b) \/ Becomes(p, c))
  BY <1>1 DEF FilesInv, FileTypes
<1> HIDE DEF d
<1>3. /\ IsCall(b) /\ b.done = d.done /\ b.op = d.op
      /\ IsCall(c) /\ c.done = d.done /\ c.op = d.op
  BY <1>2 DEF IsCall, Fields
<1> HIDE DEF b, c
<1> QED
  BY <1>2, <1>3, ListGoesOn DEF ListKind, d

-----------------------------------------------------------------------------
(* Steps that read or close a descriptor *)

\* No byte is behind the end of a file that is left as it is.
LEMMA NothingBehind ==
  ASSUME FilesInv, UNCHANGED data
  PROVE  \A q \in Procs, i \in Inodes : NoneOf(q, data[i], data'[i])
<1>1. \A i \in Inodes : Len(data[i]) \in Nat
  BY DEF FilesInv, FileTypes
<1> QED
  BY <1>1 DEF NoneOf

\* A call that closes its descriptor and returns.
LEMMA CloseStep ==
  ASSUME FilesInv, NEW p \in Procs, NEW c, IsCall(c), c.done = TRUE, Becomes(p, c),
         Close(p), UNCHANGED <<tree, data>>, file[p].isOpen, ~InCall(p, "list")
  PROVE  FilesInv'
<1>1. FileTypes /\ FdsOf(p)
  BY DEF FilesInv, Sound
<1>2. Closed \in Handles /\ Closed.isOpen = FALSE
  BY DEF Closed, Handles, Modes
<1>3. openFds[p] = 1
  BY <1>1 DEF FdsOf
<1>4. /\ file' \in [Procs -> Handles] /\ file'[p] = Closed
      /\ openFds' \in [Procs -> Int] /\ openFds'[p] = 0
      /\ \A q \in Procs \ {p} : file'[q] = file[q] /\ openFds'[q] = openFds[q]
  BY <1>1, <1>2, <1>3 DEF FileTypes, Close
<1>5. call'[p] = c
  BY <1>1, BecomesCall
<1>6. ~InCall(p, "list")'
  BY <1>5 DEF InCall
<1>7. FdsOf(p)'
  BY <1>2, <1>4, <1>6 DEF FdsOf
<1>8. Sound(p)'
  BY <1>5, <1>7, IdleSound
<1>9. tree' \in [Places -> Objects] /\ data' \in [Inodes -> Seq(Byte)]
  BY <1>1 DEF FileTypes
<1> QED
  BY <1>4, <1>8, <1>9, NothingBehind, StepSound

\* A call that has its file open is not a listing.
LEMMA NotListing ==
  ASSUME FilesInv, NEW p \in Procs, NEW op \in {"read", "write", "append"}, Running(p, op)
  PROVE  /\ IsCall(call[p]) /\ call[p].op = op /\ call[p].done = FALSE
         /\ file[p].isOpen /\ call[p].n \in Nat /\ call[p].size \in Int
         /\ ~InCall(p, "list") /\ FdsOf(p)
<1>1. IsCall(call[p]) /\ call[p].done \in BOOLEAN /\ HasFile(p) /\ FdsOf(p)
  BY DEF FilesInv, FileTypes, Sound
<1>2. InCall(p, op) /\ ~InCall(p, "list")
  BY DEF Running, InCall
<1> QED
  BY <1>1, <1>2 DEF HasFile, InCall

LEMMA ReturnCloses ==
  ASSUME FilesInv, NEW p \in Procs, NEW op \in {"read", "write", "append"}, Running(p, op),
         NEW ok, Returns(p, ok), Close(p), UNCHANGED <<tree, data>>
  PROVE  FilesInv'
<1>1. PICK c : IsCall(c) /\ c.done = TRUE /\ Becomes(p, c)
  BY ReturnsCall
<1>2. file[p].isOpen /\ ~InCall(p, "list")
  BY NotListing
<1> QED
  BY <1>1, <1>2, CloseStep

LEMMA HandleCloseStep ==
  ASSUME FilesInv, NEW p \in Procs, HandleClose(p)
  PROVE  FilesInv'
<1>1. /\ file[p].isOpen /\ ~InCall(p, "list")
      /\ Close(p) /\ Becomes(p, NoCall) /\ UNCHANGED <<tree, data>>
  BY DEF HandleClose, InCall
<1>2. NoCall.done = TRUE /\ IsCall(NoCall)
  BY CallShapes
<1> QED
  BY <1>1, <1>2, CloseStep

LEMMA ReadNoMemoryStep ==
  ASSUME FilesInv, NEW p \in Procs, ReadNoMemory(p)
  PROVE  FilesInv'
<1>1. Running(p, "read") /\ Returns(p, FALSE) /\ Close(p) /\ UNCHANGED <<tree, data>>
  BY DEF ReadNoMemory
<1> QED
  BY <1>1, ReturnCloses

LEMMA ReadReturnsStep ==
  ASSUME FilesInv, NEW p \in Procs, ReadReturns(p)
  PROVE  FilesInv'
<1> DEFINE d == call[p]
           e == d.err \/ /\ d.n < d.size
                         /\ Chunk(p, 1) # <<>> \/ file[p].ino \notin Inodes
           c == [d EXCEPT !.done = TRUE, !.ok = TRUE, !.err = e]
<1>1. Running(p, "read") /\ Close(p) /\ UNCHANGED <<tree, data>> /\ Becomes(p, c)
  BY DEF ReadReturns
<1>2. IsCall(d) /\ file[p].isOpen /\ ~InCall(p, "list")
  BY <1>1, NotListing
<1> HIDE DEF d, e
<1>3. IsCall(c) /\ c.done = TRUE
  BY <1>2 DEF IsCall, Fields
<1> HIDE DEF c
<1> QED
  BY <1>1, <1>2, <1>3, CloseStep

LEMMA WriteFailsStep ==
  ASSUME FilesInv, NEW p \in Procs, WriteFails(p)
  PROVE  FilesInv'
<1>1. PICK op \in WriteOps :
        Running(p, op) /\ Returns(p, FALSE) /\ Close(p) /\ UNCHANGED <<tree, data>>
  BY DEF WriteFails
<1>2. op \in {"read", "write", "append"}
  BY DEF WriteOps
<1> QED
  BY <1>1, <1>2, ReturnCloses

LEMMA WriteReturnsStep ==
  ASSUME FilesInv, NEW p \in Procs, WriteReturns(p)
  PROVE  FilesInv'
<1>1. PICK op \in WriteOps :
        Running(p, op) /\ Returns(p, TRUE) /\ Close(p) /\ UNCHANGED <<tree, data>>
  BY DEF WriteReturns
<1>2. op \in {"read", "write", "append"}
  BY DEF WriteOps
<1> QED
  BY <1>1, <1>2, ReturnCloses

\* The offset moves, and nothing else.
LEMMA AdvancedHandle ==
  ASSUME FilesInv, NEW p \in Procs, NEW pos \in Nat, Advanced(p, pos)
  PROVE  /\ file' \in [Procs -> Handles] /\ file'[p].isOpen = file[p].isOpen
         /\ file'[p].ino = file[p].ino /\ file'[p].mode = file[p].mode
         /\ \A q \in Procs \ {p} : file'[q] = file[q]
<1>1. file \in [Procs -> Handles]
  BY DEF FilesInv, FileTypes
<1> QED
  BY <1>1 DEF Advanced, Handles

\* A handle is read or moved between calls.
LEMMA MoveStep ==
  ASSUME FilesInv, NEW p \in Procs, NEW pos \in Nat, Advanced(p, pos), call[p].done,
         UNCHANGED <<tree, data, openFds>>, Becomes(p, NoCall)
  PROVE  FilesInv'
<1>1. FileTypes /\ FdsOf(p) /\ ~InCall(p, "list")
  BY DEF FilesInv, Sound, InCall
<1>2. call'[p] = NoCall
  BY <1>1, CallShapes, BecomesCall
<1>3. ~InCall(p, "list")'
  BY <1>2, CallShapes DEF InCall
<1>4. FdsOf(p)'
  BY <1>1, <1>3, AdvancedHandle DEF FdsOf
<1>5. Sound(p)'
  BY <1>2, <1>4, CallShapes, IdleSound
<1>6. /\ tree' \in [Places -> Objects] /\ data' \in [Inodes -> Seq(Byte)]
      /\ openFds' \in [Procs -> Int]
  BY <1>1 DEF FileTypes
<1>7. file' \in [Procs -> Handles] /\ \A q \in Procs \ {p} : file'[q] = file[q]
  BY AdvancedHandle
<1> QED
  BY <1>5, <1>6, <1>7, CallShapes, NothingBehind, StepSound

LEMMA HandleReadStep ==
  ASSUME FilesInv, NEW p \in Procs, HandleRead(p)
  PROVE  FilesInv'
<1>1. file[p].pos + 1 \in Nat
  BY DEF FilesInv, FileTypes, Handles
<1> QED
  BY <1>1, MoveStep DEF HandleRead

LEMMA HandleSeekStep ==
  ASSUME FilesInv, NEW p \in Procs, HandleSeek(p)
  PROVE  FilesInv'
<1>1. PICK base, offset :
        /\ call[p].done /\ base + offset \in 0 .. MaxBytes
        /\ Advanced(p, base + offset)
        /\ UNCHANGED <<tree, data, openFds>> /\ Becomes(p, NoCall)
  BY DEF HandleSeek
<1>2. base + offset \in Nat
  BY <1>1, FilesAssumption
<1> QED
  BY <1>1, <1>2, MoveStep

\* A read that goes on.
LEMMA ReadGoesOn ==
  ASSUME FilesInv, NEW p \in Procs, Running(p, "read"), UNCHANGED <<tree, data, openFds>>,
         file' \in [Procs -> Handles], file'[p].isOpen = file[p].isOpen,
         \A q \in Procs \ {p} : file'[q] = file[q],
         NEW c, IsCall(c), c.done = FALSE, c.op = "read", c.n \in Nat, c.size \in Int,
         Becomes(p, c)
  PROVE  FilesInv'
<1>1. /\ file[p].isOpen /\ ~InCall(p, "list") /\ FdsOf(p)
  BY NotListing
<1>2. call'[p] = c
  BY BecomesCall DEF FilesInv
<1>3. /\ ~InCall(p, "list")' /\ ~InCall(p, "write")' /\ ~InCall(p, "append")'
  BY <1>2 DEF InCall
<1>4. FdsOf(p)'
  BY <1>1, <1>3 DEF FdsOf
<1>5. HasFile(p)'
  BY <1>1, <1>2 DEF HasFile
<1>6. Sound(p)'
  BY <1>3, <1>4, <1>5 DEF Sound, Writing, KeptOf
<1>7. /\ tree' \in [Places -> Objects] /\ data' \in [Inodes -> Seq(Byte)]
      /\ openFds' \in [Procs -> Int]
  BY DEF FilesInv, FileTypes
<1> QED
  BY <1>6, <1>7, NothingBehind, StepSound

LEMMA ReadSizeStep ==
  ASSUME FilesInv, NEW p \in Procs, ReadSize(p)
  PROVE  FilesInv'
<1> DEFINE d == call[p]
           z == SizeNow(file[p].ino)
<1>1. /\ Running(p, "read") /\ UNCHANGED <<tree, data, file, openFds>>
      /\ \/ Becomes(p, [d EXCEPT !.size = z])
         \/ Becomes(p, [d EXCEPT !.size = 0, !.err = TRUE])
  BY DEF ReadSize
<1>2. IsCall(d) /\ d.op = "read" /\ d.done = FALSE /\ d.n \in Nat
  BY <1>1, NotListing
<1>3. z \in Int
  <2>1. \A i \in Inodes : Len(data[i]) \in Nat
    BY DEF FilesInv, FileTypes
  <2> QED
    BY <2>1 DEF SizeNow
<1> HIDE DEF d, z
<1>4. LET c == [d EXCEPT !.size = z]
      IN  IsCall(c) /\ c.done = FALSE /\ c.op = "read" /\ c.n = d.n /\ c.size = z
  BY <1>2 DEF IsCall, Fields
<1>5. LET c == [d EXCEPT !.size = 0, !.err = TRUE]
      IN  IsCall(c) /\ c.done = FALSE /\ c.op = "read" /\ c.n = d.n /\ c.size = 0
  BY <1>2 DEF IsCall, Fields
<1>6. PICK c : /\ IsCall(c) /\ c.done = FALSE /\ c.op = "read" /\ Becomes(p, c)
               /\ c.n = d.n /\ (c.size = z \/ c.size = 0)
  BY <1>1, <1>4, <1>5
<1>7. c.n \in Nat /\ c.size \in Int
  BY <1>2, <1>3, <1>6
<1>8. file' \in [Procs -> Handles]
  BY <1>1 DEF FilesInv, FileTypes
<1> QED
  BY <1>1, <1>6, <1>7, <1>8, ReadGoesOn

LEMMA ChunkBytes ==
  ASSUME FilesInv, NEW p \in Procs, NEW k \in Nat
  PROVE  Len(Chunk(p, k)) \in Nat
<1>1. Bytes(p) \in Seq(Byte) /\ file[p].pos \in Nat
  BY DEF Bytes, FilesInv, FileTypes, Handles
<1>2. Len(Bytes(p)) \in Nat
  BY <1>1
<1> DEFINE m == IF file[p].pos + k < Len(Bytes(p)) THEN file[p].pos + k ELSE Len(Bytes(p))
           s == Bytes(p)
<1>3. m \in Nat /\ m <= Len(s)
  BY <1>1, <1>2
<1> HIDE DEF m, s
<1>4. SubSeq(s, file[p].pos + 1, m) \in Seq(Byte)
  BY <1>1, <1>3 DEF s
<1>5. Chunk(p, k) \in Seq(Byte)
  BY <1>4 DEF Chunk, m, s
<1> QED
  BY <1>5

LEMMA ReadChunkStep ==
  ASSUME FilesInv, NEW p \in Procs, ReadChunk(p)
  PROVE  FilesInv'
<1> DEFINE d == call[p]
<1>1. PICK k \in 1 .. d.size - d.n :
        /\ Running(p, "read") /\ UNCHANGED <<tree, data, openFds>>
        /\ Advanced(p, file[p].pos + Len(Chunk(p, k)))
        /\ Becomes(p, [d EXCEPT !.n = @ + Len(Chunk(p, k)), !.got = @ \o Chunk(p, k)])
  BY DEF ReadChunk
<1>2. IsCall(d) /\ d.op = "read" /\ d.done = FALSE /\ d.n \in Nat /\ d.size \in Int
  BY <1>1, NotListing
<1> DEFINE b == Chunk(p, k)
           len == Len(b)
<1>3. len \in Nat
  BY <1>2, ChunkBytes
<1>4. file[p].pos + len \in Nat
  BY <1>3 DEF FilesInv, FileTypes, Handles
<1>5. /\ file' \in [Procs -> Handles] /\ file'[p].isOpen = file[p].isOpen
      /\ \A q \in Procs \ {p} : file'[q] = file[q]
  BY <1>1, <1>4, AdvancedHandle
<1> DEFINE c == [d EXCEPT !.n = @ + len, !.got = @ \o b]
<1>6. Becomes(p, c)
  BY <1>1
<1> HIDE DEF d, len, b
<1>7. IsCall(c) /\ c.done = FALSE /\ c.op = "read" /\ c.n = d.n + len /\ c.size = d.size
  BY <1>2 DEF IsCall, Fields
<1> HIDE DEF c
<1>8. c.n \in Nat /\ c.size \in Int
  BY <1>2, <1>3, <1>7
<1> QED
  BY <1>1, <1>5, <1>6, <1>7, <1>8, ReadGoesOn

-----------------------------------------------------------------------------
(* Steps that open a descriptor *)

\* An opened file has its descriptor, and no file has got bytes; one that may
\* be written to is no directory.
LEMMA OpenEffect ==
  ASSUME FilesInv, NEW p \in Procs, NEW path_, NEW mode \in Modes, Open(p, path_, mode)
  PROVE  /\ tree' \in [Places -> Objects] /\ data' \in [Inodes -> Seq(Byte)]
         /\ file' \in [Procs -> Handles] /\ openFds' \in [Procs -> Int]
         /\ file'[p].isOpen /\ file'[p].mode = mode /\ openFds'[p] = openFds[p] + 1
         /\ mode # "read" => file'[p].ino \in Inodes
         /\ \A q \in Procs \ {p} : file'[q] = file[q] /\ openFds'[q] = openFds[q]
         /\ \A q \in Procs, i \in Inodes : NoneOf(q, data[i], data'[i])
<1> DEFINE at == Locate(path_)
           new == CHOOSE i \in Spare : TRUE
<1>1. FileTypes
  BY DEF FilesInv
<1>2. /\ at \in Places
      /\ \/ /\ tree[at] \in Inodes
            /\ data' = IF mode = "write" THEN [data EXCEPT ![tree[at]] = <<>>] ELSE data
            /\ UNCHANGED tree
         \/ /\ mode # "read" /\ new \in Inodes
            /\ tree' = [tree EXCEPT ![at] = new] /\ data' = [data EXCEPT ![new] = <<>>]
         \/ tree[at] = "dir" /\ mode = "read" /\ UNCHANGED <<tree, data>>
      /\ file' = [file EXCEPT ![p] = Handle(tree'[at], mode)]
      /\ openFds' = [openFds EXCEPT ![p] = @ + 1]
  BY DEF Open, Spare
<1> HIDE DEF at, new
<1>3. /\ tree' \in [Places -> Objects] /\ tree'[at] \in Objects
      /\ mode # "read" => tree'[at] \in Inodes
  BY <1>1, <1>2 DEF FileTypes, Objects
<1>4. /\ data' \in [Inodes -> Seq(Byte)]
      /\ \A i \in Inodes : data'[i] = data[i] \/ data'[i] = <<>>
  <2>1. <<>> \in Seq(Byte) /\ data \in [Inodes -> Seq(Byte)]
    BY <1>1 DEF FileTypes
  <2> DEFINE none == <<>>
             all == Seq(Byte)
  <2>2. \/ data' = data
        \/ \E i \in Inodes : data' = [data EXCEPT ![i] = none]
    BY <1>2
  <2> HIDE DEF none, all
  <2>3. data' \in [Inodes -> all] /\ \A i \in Inodes : data'[i] = data[i] \/ data'[i] = none
    BY <2>1, <2>2 DEF none, all
  <2> QED
    BY <2>3 DEF none, all
<1>5. \A i \in Inodes : Len(data[i]) \in Nat
  BY <1>1 DEF FileTypes
<1>6. \A q \in Procs, i \in Inodes : NoneOf(q, data[i], data'[i])
  BY <1>4, <1>5 DEF NoneOf
<1>7. /\ Handle(tree'[at], mode) \in Handles
      /\ Handle(tree'[at], mode).isOpen /\ Handle(tree'[at], mode).mode = mode
      /\ Handle(tree'[at], mode).ino = tree'[at]
  BY <1>3 DEF Handle, Handles
<1>8. /\ file' \in [Procs -> Handles] /\ file'[p] = Handle(tree'[at], mode)
      /\ openFds' \in [Procs -> Int] /\ openFds'[p] = openFds[p] + 1
      /\ \A q \in Procs \ {p} : file'[q] = file[q] /\ openFds'[q] = openFds[q]
  BY <1>1, <1>2, <1>7 DEF FileTypes
<1> QED
  BY <1>3, <1>4, <1>6, <1>7, <1>8

\* A process that opens a file between its calls then has one descriptor.
LEMMA OpenFds ==
  ASSUME FilesInv, NEW p \in Procs, NEW path_, NEW mode \in Modes, Open(p, path_, mode),
         ~file[p].isOpen, call[p].done, ~InCall(p, "list")'
  PROVE  FdsOf(p)'
<1>1. openFds[p] = 0
  BY DEF FilesInv, Sound, FdsOf, InCall
<1>2. file'[p].isOpen /\ openFds'[p] = 1
  BY <1>1, OpenEffect
<1> QED
  BY <1>2 DEF FdsOf

LEMMA HandleOpenStep ==
  ASSUME FilesInv, NEW p \in Procs, HandleOpen(p)
  PROVE  FilesInv'
<1>1. PICK path_ \in FileArgs, mode \in Modes :
        ~file[p].isOpen /\ Begins(p) /\ Open(p, path_, mode) /\ Becomes(p, NoCall)
  BY DEF HandleOpen
<1>2. call'[p] = NoCall
  BY <1>1, CallShapes, BecomesCall DEF FilesInv
<1>3. ~InCall(p, "list")' /\ call[p].done
  BY <1>1, <1>2, CallShapes DEF InCall, Begins
<1>4. FdsOf(p)'
  BY <1>1, <1>3, OpenFds
<1>5. Sound(p)'
  BY <1>2, <1>4, CallShapes, IdleSound
<1>6. /\ tree' \in [Places -> Objects] /\ data' \in [Inodes -> Seq(Byte)]
      /\ file' \in [Procs -> Handles] /\ openFds' \in [Procs -> Int]
      /\ \A q \in Procs \ {p} : file'[q] = file[q] /\ openFds'[q] = openFds[q]
      /\ \A q \in Procs, i \in Inodes : NoneOf(q, data[i], data'[i])
  BY <1>1, OpenEffect
<1> QED
  BY <1>1, <1>5, <1>6, CallShapes, StepSound

LEMMA ReadBeginsStep ==
  ASSUME FilesInv, NEW p \in Procs, ReadBegins(p)
  PROVE  FilesInv'
<1>1. PICK path_ \in FileArgs :
        /\ ~file[p].isOpen /\ Begins(p) /\ Open(p, path_, "read")
        /\ Becomes(p, [New("read", path_) EXCEPT !.size = Unasked])
  BY DEF ReadBegins
<1> DEFINE c == [New("read", path_) EXCEPT !.size = Unasked]
<1>2. IsCall(c) /\ c.done = FALSE /\ c.op = "read" /\ c.n = 0 /\ c.size = Unasked
  BY DEF New, NoCall, IsCall, Fields
<1>3. Becomes(p, c)
  BY <1>1
<1> HIDE DEF c
<1>4. call'[p] = c
  BY <1>2, <1>3, BecomesCall DEF FilesInv
<1>5. /\ ~InCall(p, "list")' /\ ~InCall(p, "write")' /\ ~InCall(p, "append")'
      /\ call[p].done
  BY <1>1, <1>2, <1>4 DEF InCall, Begins
<1>6. "read" \in Modes
  BY DEF Modes
<1>7. FdsOf(p)'
  BY <1>1, <1>5, <1>6, OpenFds
<1>8. /\ tree' \in [Places -> Objects] /\ data' \in [Inodes -> Seq(Byte)]
      /\ file' \in [Procs -> Handles] /\ openFds' \in [Procs -> Int]
      /\ file'[p].isOpen
      /\ \A q \in Procs \ {p} : file'[q] = file[q] /\ openFds'[q] = openFds[q]
      /\ \A q \in Procs, i \in Inodes : NoneOf(q, data[i], data'[i])
  BY <1>1, <1>6, OpenEffect
<1>9. c.n \in Nat /\ c.size \in Int
  BY <1>2 DEF Unasked
<1>10. HasFile(p)'
  BY <1>4, <1>8, <1>9 DEF HasFile
<1>11. Sound(p)'
  BY <1>5, <1>7, <1>10 DEF Sound, Writing, KeptOf
<1> QED
  BY <1>2, <1>3, <1>8, <1>11, StepSound

\* An append that has written nothing yet.
LEMMA KeptAtFirst ==
  ASSUME NEW p \in Procs, NEW s \in Seq(Byte)
  PROVE  BytesKept(p, s, s, 0)
<1>1. Len(s) \in Nat
  OBVIOUS
<1>2. IsPrefix(s, s)
  BY PrefixElements
<1>3. {j \in Len(s) + 1 .. Len(s) : s[j][1] = p} = {}
  BY <1>1
<1>4. {Buffer(p)[i] : i \in 1 .. 0} = {}
  OBVIOUS
<1> QED
  BY <1>2, <1>3, <1>4 DEF BytesKept

LEMMA WriteBeginsStep ==
  ASSUME FilesInv, NEW p \in Procs, WriteBegins(p)
  PROVE  FilesInv'
<1>1. PICK op \in WriteOps, path_ \in FileArgs, size \in {0, BufferBytes} :
        /\ ~file[p].isOpen /\ Begins(p) /\ Open(p, path_, op)
        /\ Becomes(p, [New(op, path_) EXCEPT !.size = size, !.before = data'[file'[p].ino]])
  BY DEF WriteBegins
<1>2. op \in {"write", "append"} /\ op \in Modes /\ op # "read"
  BY DEF WriteOps, Modes
<1>3. /\ tree' \in [Places -> Objects] /\ data' \in [Inodes -> Seq(Byte)]
      /\ file' \in [Procs -> Handles] /\ openFds' \in [Procs -> Int]
      /\ file'[p].isOpen /\ file'[p].mode = op /\ file'[p].ino \in Inodes
      /\ \A q \in Procs \ {p} : file'[q] = file[q] /\ openFds'[q] = openFds[q]
      /\ \A q \in Procs, i \in Inodes : NoneOf(q, data[i], data'[i])
  BY <1>1, <1>2, OpenEffect
<1> DEFINE s == data'[file'[p].ino]
           c == [New(op, path_) EXCEPT !.size = size, !.before = s]
<1>4. s \in Seq(Byte)
  BY <1>3
<1>5. Becomes(p, c)
  BY <1>1
<1>6. size \in Nat /\ size <= BufferBytes
  BY FilesAssumption
<1> HIDE DEF s
<1>7. IsCall(c) /\ c.done = FALSE /\ c.op = op /\ c.n = 0 /\ c.size = size /\ c.before = s
  BY DEF New, NoCall, IsCall, Fields
<1> HIDE DEF c
<1>8. call'[p] = c
  BY <1>5, <1>7, BecomesCall DEF FilesInv
<1>9. ~InCall(p, "list")' /\ call[p].done
  BY <1>1, <1>2, <1>7, <1>8 DEF InCall, Begins
<1>10. FdsOf(p)'
  BY <1>1, <1>2, <1>9, OpenFds
<1>11. HasFile(p)'
  BY <1>3, <1>6, <1>7, <1>8 DEF HasFile
<1>12. Writing(p)'
  BY <1>3, <1>4, <1>6, <1>7, <1>8 DEF Writing
<1>13. KeptOf(p)'
  <2>1. BytesKept(p, s, s, 0)
    BY <1>4, KeptAtFirst
  <2> QED
    BY <1>7, <1>8, <2>1 DEF KeptOf, s
<1>14. Sound(p)'
  BY <1>10, <1>11, <1>12, <1>13 DEF Sound
<1> QED
  BY <1>3, <1>5, <1>7, <1>14, StepSound

-----------------------------------------------------------------------------
(* Steps that write *)

\* b is written over s at pos.
LEMMA OverElements ==
  ASSUME NEW s \in Seq(Byte), NEW b \in Seq(Byte), NEW pos \in Nat
  PROVE  LET t == Over(s, pos, b)
         IN  /\ t \in Seq(Byte)
             /\ Len(t) = IF Len(s) > pos + Len(b) THEN Len(s) ELSE pos + Len(b)
             /\ \A i \in 1 .. Len(t) :
                  t[i] = IF pos < i /\ i <= pos + Len(b) THEN b[i - pos]
                         ELSE IF i <= Len(s) THEN s[i] ELSE <<Nowhere, 0>>
<1> DEFINE m == IF Len(s) > pos + Len(b) THEN Len(s) ELSE pos + Len(b)
           at(i) == IF pos < i /\ i <= pos + Len(b) THEN b[i - pos]
                    ELSE IF i <= Len(s) THEN s[i] ELSE <<Nowhere, 0>>
           t == [i \in 1 .. m |-> at(i)]
<1>1. Len(s) \in Nat /\ Len(b) \in Nat /\ m \in Nat
  OBVIOUS
<1>2. \A i \in 1 .. m : at(i) \in Byte
  <2>1. <<Nowhere, 0>> \in Byte
    BY DEF Byte
  <2>2. \A i \in 1 .. Len(s) : s[i] \in Byte
    BY ElementOfSeq
  <2>3. \A i \in 1 .. Len(b) : b[i] \in Byte
    BY ElementOfSeq
  <2> QED
    BY <1>1, <2>1, <2>2, <2>3
<1> HIDE DEF m, at
<1>3. t \in Seq(Byte) /\ Len(t) = m /\ \A i \in 1 .. m : t[i] = at(i)
  BY <1>1, <1>2
<1>4. Over(s, pos, b) = t
  BY DEF Over, m, at
<1> QED
  BY <1>3, <1>4 DEF m, at

\* Only bytes of the writer, and zeros, come behind the end.
LEMMA OverOthers ==
  ASSUME NEW s \in Seq(Byte), NEW b \in Seq(Byte), NEW pos \in Nat,
         NEW p \in Procs, \A x \in 1 .. Len(b) : b[x][1] = p,
         NEW q \in Procs, q # p
  PROVE  NoneOf(q, s, Over(s, pos, b))
<1> DEFINE t == Over(s, pos, b)
<1>1. /\ Len(t) = IF Len(s) > pos + Len(b) THEN Len(s) ELSE pos + Len(b)
      /\ \A i \in 1 .. Len(t) :
           t[i] = IF pos < i /\ i <= pos + Len(b) THEN b[i - pos]
                  ELSE IF i <= Len(s) THEN s[i] ELSE <<Nowhere, 0>>
  BY OverElements
<1> HIDE DEF t
<1>2. ASSUME NEW j \in Len(s) + 1 .. Len(t)
      PROVE  t[j][1] # q
  <2>1. Len(s) \in Nat /\ Len(b) \in Nat /\ Len(t) \in Nat /\ j \in 1 .. Len(t) /\ j > Len(s)
    BY <1>1
  <2>2. CASE pos < j /\ j <= pos + Len(b)
    <3>1. j - pos \in 1 .. Len(b) /\ t[j] = b[j - pos]
      BY <1>1, <2>1, <2>2
    <3> QED
      BY <3>1
  <2>3. CASE ~(pos < j /\ j <= pos + Len(b))
    <3>1. t[j] = <<Nowhere, 0>>
      BY <1>1, <2>1, <2>3
    <3>2. <<Nowhere, 0>>[1] = Nowhere /\ Nowhere # q
      BY FilesAssumption
    <3> QED
      BY <3>1, <3>2
  <2> QED
    BY <2>2, <2>3
<1> QED
  BY <1>2 DEF NoneOf, t

\* What a write of p does to the files and to its own descriptor.
LEMMA WritesEffect ==
  ASSUME FilesInv, NEW p \in Procs, NEW b \in Seq(Byte),
         \A x \in 1 .. Len(b) : b[x][1] = p, Writes(p, b)
  PROVE  /\ tree' \in [Places -> Objects] /\ data' \in [Inodes -> Seq(Byte)]
         /\ file' \in [Procs -> Handles] /\ openFds' \in [Procs -> Int]
         /\ file'[p].isOpen = file[p].isOpen
         /\ file'[p].ino = file[p].ino /\ file'[p].mode = file[p].mode
         /\ \A q \in Procs \ {p} :
              /\ file'[q] = file[q] /\ openFds'[q] = openFds[q]
              /\ \A i \in Inodes : NoneOf(q, data[i], data'[i])
         /\ openFds'[p] = openFds[p]
<1> DEFINE pos == WritePos(p)
           new(s) == Over(s, pos, b)
           all == Seq(Byte)
<1>1. data \in [Inodes -> Seq(Byte)] /\ file[p].pos \in Nat
  BY DEF FilesInv, FileTypes, Handles
<1>2. Bytes(p) \in Seq(Byte)
  BY <1>1 DEF Bytes
<1>3. pos \in Nat
  BY <1>1, <1>2 DEF WritePos
<1>4. data' = [data EXCEPT ![file[p].ino] = new(@)]
  BY DEF Writes
<1>5. Advanced(p, pos + Len(b)) /\ UNCHANGED <<tree, openFds>>
  BY DEF Writes
<1>6. pos + Len(b) \in Nat
  BY <1>3
<1> HIDE DEF pos
<1>7. \A s \in all : new(s) \in all
  BY <1>3, OverElements
<1>8. \A s \in all, q \in Procs \ {p} : NoneOf(q, s, new(s))
  BY <1>3, OverOthers
<1>9. \A i \in Inodes : Len(data[i]) \in Nat
  BY <1>1
<1> HIDE DEF new, all
<1>10. /\ data' \in [Inodes -> all]
       /\ \A i \in Inodes : data'[i] = data[i] \/ data'[i] = new(data[i])
  BY <1>1, <1>4, <1>7 DEF all
<1>11. \A q \in Procs \ {p} : \A i \in Inodes : NoneOf(q, data[i], data'[i])
  <2>1. ASSUME NEW q \in Procs \ {p}, NEW i \in Inodes
        PROVE  NoneOf(q, data[i], data'[i])
    <3>1. CASE data'[i] = data[i]
      BY <3>1, <1>9 DEF NoneOf
    <3>2. CASE data'[i] = new(data[i])
      <4>1. data[i] \in all
        BY <1>1 DEF all
      <4> QED
        BY <3>2, <4>1, <1>8
    <3> QED
      BY <3>1, <3>2, <1>10
  <2> QED
    BY <2>1
<1>12. /\ file' \in [Procs -> Handles]
       /\ file'[p].isOpen = file[p].isOpen
       /\ file'[p].ino = file[p].ino /\ file'[p].mode = file[p].mode
       /\ \A q \in Procs \ {p} : file'[q] = file[q]
  BY <1>5, <1>6, AdvancedHandle
<1>13. tree' \in [Places -> Objects] /\ openFds' \in [Procs -> Int] /\ openFds' = openFds
  BY <1>5 DEF FilesInv, FileTypes
<1> QED
  BY <1>10, <1>11, <1>12, <1>13 DEF all

\* The k bytes of p's buffer after the first n.
IsPart(b, p, n, k) ==
  /\ b \in Seq(Byte) /\ Len(b) = k
  /\ \A x \in 1 .. k : b[x] = <<p, n + x>>
  /\ \A x \in 1 .. Len(b) : b[x][1] = p

LEMMA BufferPart ==
  ASSUME NEW p \in Procs, NEW n \in Nat, NEW k \in Nat, n + k <= BufferBytes,
         NEW b, b = SubSeq(Buffer(p), n + 1, n + k)
  PROVE  IsPart(b, p, n, k)
<1> DEFINE w == Buffer(p)
<1>0. b = SubSeq(w, n + 1, n + k)
  OBVIOUS
<1>1. BufferBytes \in Nat
  BY FilesAssumption
<1>2. w \in Seq(Byte) /\ Len(w) = BufferBytes /\ \A i \in 1 .. BufferBytes : w[i] = <<p, i>>
  BY <1>1 DEF Buffer, Byte
<1> HIDE DEF w
<1>3. b \in Seq(Byte) /\ Len(b) = k /\ \A x \in 1 .. k : b[x] = w[n + x]
  <2> DEFINE m == n + 1
             l == n + k
  <2>1. m \in Int /\ l \in Int /\ \A i \in m .. l : w[i] \in Byte
    BY <1>1, <1>2
  <2>2. /\ l - m + 1 = k /\ (IF m <= l THEN l - m + 1 ELSE 0) = k
        /\ \A x \in 1 .. k : m + x - 1 = n + x
    OBVIOUS
  <2> HIDE DEF m, l
  <2>3. /\ SubSeq(w, m, l) \in Seq(Byte)
        /\ Len(SubSeq(w, m, l)) = IF m <= l THEN l - m + 1 ELSE 0
        /\ \A i \in 1 .. l - m + 1 : SubSeq(w, m, l)[i] = w[m + i - 1]
    BY <2>1, SubSeqProperties
  <2>4. b = SubSeq(w, m, l)
    BY <1>0 DEF m, l
  <2> QED
    BY <2>2, <2>3, <2>4
<1>4. \A x \in 1 .. k : b[x] = <<p, n + x>>
  <2> TAKE x \in 1 .. k
  <2> DEFINE y == n + x
  <2>1. y \in 1 .. BufferBytes /\ b[x] = w[y]
    BY <1>1, <1>3
  <2> HIDE DEF y
  <2>2. b[x] = <<p, y>>
    BY <1>2, <2>1
  <2> QED
    BY <2>2 DEF y
<1>5. ASSUME NEW x \in 1 .. Len(b)
      PROVE  b[x][1] = p
  <2> DEFINE y == n + x
  <2>1. b[x] = <<p, y>>
    BY <1>3, <1>4
  <2> HIDE DEF y
  <2> QED
    BY <2>1
<1> QED
  BY <1>3, <1>4, <1>5 DEF IsPart

LEMMA HandleWriteStep ==
  ASSUME FilesInv, NEW p \in Procs, HandleWrite(p)
  PROVE  FilesInv'
<1> DEFINE b == SubSeq(Buffer(p), 1, 1)
<1>1. call[p].done /\ Writes(p, b) /\ Becomes(p, NoCall)
  BY DEF HandleWrite
<1>2. b \in Seq(Byte) /\ \A x \in 1 .. Len(b) : b[x][1] = p
  <2> DEFINE n == 0
             k == 1
  <2>1. n \in Nat /\ k \in Nat /\ n + k <= BufferBytes /\ n + 1 = 1 /\ n + k = 1
    BY FilesAssumption
  <2> HIDE DEF n, k
  <2>2. b = SubSeq(Buffer(p), n + 1, n + k)
    BY <2>1
  <2> HIDE DEF b
  <2> QED
    <3>1. IsPart(b, p, n, k)
      BY <2>1, <2>2, BufferPart
    <3> QED
      BY <3>1 DEF IsPart
<1> HIDE DEF b
<1>3. /\ tree' \in [Places -> Objects] /\ data' \in [Inodes -> Seq(Byte)]
      /\ file' \in [Procs -> Handles] /\ openFds' \in [Procs -> Int]
      /\ file'[p].isOpen = file[p].isOpen /\ openFds'[p] = openFds[p]
      /\ \A q \in Procs \ {p} :
           /\ file'[q] = file[q] /\ openFds'[q] = openFds[q]
           /\ \A i \in Inodes : NoneOf(q, data[i], data'[i])
  BY <1>1, <1>2, WritesEffect
<1>4. call'[p] = NoCall
  BY <1>1, CallShapes, BecomesCall DEF FilesInv
<1>5. ~InCall(p, "list")' /\ ~InCall(p, "list") /\ FdsOf(p)
  BY <1>1, <1>4, CallShapes DEF InCall, FilesInv, Sound
<1>6. FdsOf(p)'
  BY <1>3, <1>5 DEF FdsOf
<1>7. Sound(p)'
  BY <1>4, <1>6, CallShapes, IdleSound
<1> QED
  BY <1>1, <1>3, <1>7, CallShapes, StepSound

\* An append that writes its next k bytes behind the end has its first n + k
\* bytes in the file.
LEMMA KeptAppended ==
  ASSUME NEW p \in Procs, NEW a \in Seq(Byte), NEW s \in Seq(Byte),
         NEW n \in Nat, NEW k \in Nat, n + k <= BufferBytes, BytesKept(p, a, s, n)
  PROVE  BytesKept(p, a, Over(s, Len(s), SubSeq(Buffer(p), n + 1, n + k)), n + k)
<1> DEFINE b == SubSeq(Buffer(p), n + 1, n + k)
           t == Over(s, Len(s), b)
           mine(u) == {j \in Len(a) + 1 .. Len(u) : u[j][1] = p}
<1>0. b = SubSeq(Buffer(p), n + 1, n + k)
  OBVIOUS
<1> HIDE DEF b
<1>1. /\ b \in Seq(Byte) /\ Len(b) = k
      /\ \A x \in 1 .. k : b[x] = <<p, n + x>>
  <2>1. IsPart(b, p, n, k)
    BY <1>0, BufferPart
  <2> QED
    BY <2>1 DEF IsPart
<1>2. Len(s) \in Nat /\ Len(a) \in Nat
  OBVIOUS
<1>3. /\ t \in Seq(Byte)
      /\ Len(t) = IF Len(s) > Len(s) + Len(b) THEN Len(s) ELSE Len(s) + Len(b)
      /\ \A i \in 1 .. Len(t) :
           t[i] = IF Len(s) < i /\ i <= Len(s) + Len(b) THEN b[i - Len(s)]
                  ELSE IF i <= Len(s) THEN s[i] ELSE <<Nowhere, 0>>
  BY <1>1, <1>2, OverElements
<1> HIDE DEF t
<1>4. /\ Len(t) = Len(s) + k
      /\ \A i \in 1 .. Len(s) : t[i] = s[i]
      /\ \A x \in 1 .. k : t[Len(s) + x] = <<p, n + x>>
  <2>1. Len(t) = Len(s) + k
    BY <1>1, <1>2, <1>3
  <2>2. ASSUME NEW i \in 1 .. Len(s)
        PROVE  t[i] = s[i]
    <3>1. i \in 1 .. Len(t) /\ ~(Len(s) < i) /\ i <= Len(s)
      BY <1>2, <2>1
    <3> QED
      BY <1>3, <3>1
  <2>3. ASSUME NEW x \in 1 .. k
        PROVE  t[Len(s) + x] = <<p, n + x>>
    <3> DEFINE i == Len(s) + x
    <3>1. i \in 1 .. Len(t) /\ Len(s) < i /\ i <= Len(s) + Len(b) /\ i - Len(s) = x
      BY <1>1, <1>2, <2>1
    <3> HIDE DEF i
    <3>2. t[i] = b[x]
      BY <1>3, <3>1
    <3> QED
      BY <1>1, <3>2 DEF i
  <2> QED
    BY <2>1, <2>2, <2>3
<1>5. /\ Len(a) <= Len(s) /\ \A i \in 1 .. Len(a) : a[i] = s[i]
      /\ {s[j] : j \in mine(s)} = {Buffer(p)[i] : i \in 1 .. n}
      /\ \A i, j \in mine(s) : i < j => s[i][2] < s[j][2]
  BY PrefixElements DEF BytesKept
<1>6. IsPrefix(a, t)
  <2>1. Len(a) <= Len(s) /\ \A i \in 1 .. Len(a) : a[i] = s[i]
    BY <1>5
  <2>2. Len(t) = Len(s) + k /\ \A i \in 1 .. Len(s) : t[i] = s[i]
    BY <1>4
  <2>3. Len(a) <= Len(t) /\ \A i \in 1 .. Len(a) : i \in 1 .. Len(s)
    BY <1>2, <2>1, <2>2
  <2>4. Len(a) <= Len(t) /\ \A i \in 1 .. Len(a) : a[i] = t[i]
    BY <2>1, <2>2, <2>3
  <2> QED
    BY <1>3, <2>4, PrefixElements
<1>7. \A i \in 1 .. n + k : Buffer(p)[i] = <<p, i>>
  BY <1>1, FilesAssumption DEF Buffer
<1>8. \A j \in mine(s) : \E i \in 1 .. n : s[j] = <<p, i>>
  <2> HIDE DEF mine
  <2>1. \A j \in mine(s) : \E i \in 1 .. n : s[j] = Buffer(p)[i]
    BY <1>5
  <2>2. \A i \in 1 .. n : Buffer(p)[i] = <<p, i>>
    BY <1>7
  <2> QED
    BY <2>1, <2>2, Zenon
<1>9. \A i \in 1 .. n : \E j \in mine(s) : s[j] = <<p, i>>
  <2> HIDE DEF mine
  <2>1. \A i \in 1 .. n : \E j \in mine(s) : s[j] = Buffer(p)[i]
    BY <1>5
  <2>2. \A i \in 1 .. n : Buffer(p)[i] = <<p, i>>
    BY <1>7
  <2> QED
    BY <2>1, <2>2, Zenon
<1>10. \A j : j \in mine(t) <=> j \in mine(s) \/ j \in Len(s) + 1 .. Len(s) + k
  <2>1. ASSUME NEW j \in mine(t)
        PROVE  j \in mine(s) \/ j \in Len(s) + 1 .. Len(s) + k
    BY <1>2, <1>4, <1>5
  <2>2. ASSUME NEW j \in mine(s)
        PROVE  j \in mine(t)
    BY <1>2, <1>4, <1>5
  <2>3. ASSUME NEW j \in Len(s) + 1 .. Len(s) + k
        PROVE  j \in mine(t)
    <3>1. j - Len(s) \in 1 .. k /\ Len(s) + (j - Len(s)) = j
      BY <1>2
    <3>2. t[j] = <<p, n + (j - Len(s))>>
      BY <1>4, <3>1
    <3>3. j \in Len(a) + 1 .. Len(t)
      BY <1>2, <1>4, <1>5
    <3> QED
      BY <3>2, <3>3
  <2> QED
    BY <2>1, <2>2, <2>3
<1>11. \A j \in mine(s) : j \in 1 .. Len(s) /\ t[j] = s[j]
  BY <1>2, <1>4
<1> HIDE DEF mine
\* Every byte of p is one of the buffer, and its number tells where it is.
<1>12. \A j \in mine(t) :
         \/ j \in mine(s) /\ j <= Len(s) /\ \E i \in 1 .. n : t[j] = <<p, i>>
         \/ j \notin mine(s) /\ j > Len(s) /\ j - Len(s) \in 1 .. k
            /\ t[j] = <<p, n + (j - Len(s))>>
  <2>1. ASSUME NEW j \in mine(s)
        PROVE  j <= Len(s) /\ \E i \in 1 .. n : t[j] = <<p, i>>
    BY <1>2, <1>8, <1>11
  <2>2. ASSUME NEW j \in Len(s) + 1 .. Len(s) + k
        PROVE  /\ j \notin mine(s) /\ j > Len(s) /\ j - Len(s) \in 1 .. k
               /\ t[j] = <<p, n + (j - Len(s))>>
    <3>1. j \notin mine(s)
      BY <1>2, <1>11
    <3>2. j > Len(s) /\ j - Len(s) \in 1 .. k /\ Len(s) + (j - Len(s)) = j
      BY <1>2
    <3> QED
      BY <1>4, <3>1, <3>2
  <2> QED
    BY <1>10, <2>1, <2>2
<1>13. {t[j] : j \in mine(t)} = {Buffer(p)[i] : i \in 1 .. n + k}
  <2>1. ASSUME NEW j \in mine(t)
        PROVE  \E i \in 1 .. n + k : t[j] = Buffer(p)[i]
    <3>1. PICK i \in 1 .. n + k : t[j] = <<p, i>>
      BY <1>12
    <3> QED
      BY <3>1, <1>7
  <2>2. ASSUME NEW i \in 1 .. n + k
        PROVE  \E j \in mine(t) : t[j] = Buffer(p)[i]
    <3>1. CASE i <= n
      <4>1. i \in 1 .. n
        BY <3>1
      <4>2. PICK j \in mine(s) : s[j] = <<p, i>>
        BY <1>9, <4>1
      <4> QED
        BY <4>2, <1>7, <1>10, <1>11
    <3>2. CASE i > n
      <4>1. /\ i - n \in 1 .. k /\ n + (i - n) = i
            /\ Len(s) + (i - n) \in Len(s) + 1 .. Len(s) + k
        BY <3>2, <1>2
      <4>2. t[Len(s) + (i - n)] = <<p, i>> /\ Len(s) + (i - n) \in mine(t)
        BY <4>1, <1>4, <1>10
      <4> QED
        BY <4>2, <1>7
    <3> QED
      BY <3>1, <3>2
  <2> QED
    BY <2>1, <2>2
<1>14. ASSUME NEW i \in mine(t), NEW j \in mine(t), i < j
       PROVE  t[i][2] < t[j][2]
  <2>1. i \in Nat /\ j \in Nat
    BY <1>2, <1>10, <1>11
  <2>2. CASE i \in mine(s) /\ j \in mine(s)
    BY <2>2, <1>5, <1>11, <1>14
  <2>3. CASE i \in mine(s) /\ j \notin mine(s)
    <3>1. PICK x \in 1 .. n : t[i] = <<p, x>>
      BY <2>3, <1>12
    <3>2. j - Len(s) \in 1 .. k /\ t[j] = <<p, n + (j - Len(s))>>
      BY <2>3, <1>12
    <3> DEFINE y == n + (j - Len(s))
    <3>3. x < y
      BY <1>2, <2>1, <3>2
    <3>4. t[j] = <<p, y>>
      BY <3>2
    <3> HIDE DEF y
    <3> QED
      BY <3>1, <3>3, <3>4
  <2>4. CASE i \notin mine(s)
    <3>1. i > Len(s) /\ i - Len(s) \in 1 .. k /\ t[i] = <<p, n + (i - Len(s))>>
      BY <2>4, <1>12
    <3>2. j \notin mine(s)
      BY <1>2, <1>11, <1>14, <2>1, <3>1
    <3>3. j - Len(s) \in 1 .. k /\ t[j] = <<p, n + (j - Len(s))>>
      BY <3>2, <1>12
    <3> DEFINE x == n + (i - Len(s))
               y == n + (j - Len(s))
    <3>4. x < y
      BY <1>2, <1>14, <2>1
    <3>5. t[i] = <<p, x>> /\ t[j] = <<p, y>>
      BY <3>1, <3>3
    <3> HIDE DEF x, y
    <3> QED
      BY <3>4, <3>5
  <2> QED
    BY <2>2, <2>3, <2>4
<1>15. BytesKept(p, a, t, n + k)
  BY <1>6, <1>13, <1>14 DEF BytesKept, mine
<1> QED
  BY <1>15 DEF t, b

LEMMA WriteChunkStep ==
  ASSUME FilesInv, NEW p \in Procs, WriteChunk(p)
  PROVE  FilesInv'
<1> DEFINE d == call[p]
<1>1. PICK op \in WriteOps : \E k \in 1 .. d.size - d.n :
        /\ Running(p, op)
        /\ Writes(p, SubSeq(Buffer(p), d.n + 1, d.n + k))
        /\ Becomes(p, [d EXCEPT !.n = @ + k])
  BY DEF WriteChunk
<1>2. PICK k \in 1 .. d.size - d.n :
        /\ Running(p, op)
        /\ Writes(p, SubSeq(Buffer(p), d.n + 1, d.n + k))
        /\ Becomes(p, [d EXCEPT !.n = @ + k])
  BY <1>1
<1>3. op \in {"write", "append"} /\ op \in {"read", "write", "append"}
  BY DEF WriteOps
<1>4. /\ IsCall(d) /\ d.op = op /\ d.done = FALSE /\ file[p].isOpen
      /\ d.n \in Nat /\ d.size \in Int /\ ~InCall(p, "list") /\ FdsOf(p)
  BY <1>2, <1>3, NotListing
<1>5. /\ file[p].ino \in Inodes /\ file[p].mode = op /\ d.before \in Seq(Byte)
      /\ d.n <= d.size /\ d.size <= BufferBytes
  BY <1>3, <1>4 DEF FilesInv, Sound, Writing, InCall
<1>6. k \in Nat /\ d.n + k <= d.size /\ d.n + k <= BufferBytes /\ d.n + k \in Nat
  BY <1>4, <1>5, FilesAssumption
<1> DEFINE b == SubSeq(Buffer(p), d.n + 1, d.n + k)
           c == [d EXCEPT !.n = @ + k]
<1>7. b = SubSeq(Buffer(p), d.n + 1, d.n + k) /\ Writes(p, b) /\ Becomes(p, c)
  BY <1>2
<1> HIDE DEF b
<1>8. IsPart(b, p, d.n, k)
  BY <1>4, <1>6, <1>7, BufferPart
<1>9. b \in Seq(Byte) /\ \A x \in 1 .. Len(b) : b[x][1] = p
  BY <1>8 DEF IsPart
<1>10. /\ tree' \in [Places -> Objects] /\ data' \in [Inodes -> Seq(Byte)]
       /\ file' \in [Procs -> Handles] /\ openFds' \in [Procs -> Int]
       /\ file'[p].isOpen = file[p].isOpen
       /\ file'[p].ino = file[p].ino /\ file'[p].mode = file[p].mode
       /\ \A q \in Procs \ {p} :
            /\ file'[q] = file[q] /\ openFds'[q] = openFds[q]
            /\ \A i \in Inodes : NoneOf(q, data[i], data'[i])
       /\ openFds'[p] = openFds[p]
  BY <1>7, <1>9, WritesEffect
<1>11. /\ IsCall(c) /\ c.op = op /\ c.done = FALSE /\ c.n = d.n + k /\ c.size = d.size
       /\ c.before = d.before /\ c.hits = d.hits
  <2> HIDE DEF d
  <2> QED
    BY <1>4 DEF IsCall, Fields
<1> HIDE DEF c
<1>12. call'[p] = c
  BY <1>7, <1>11, BecomesCall DEF FilesInv
<1>13. ~InCall(p, "list")'
  BY <1>3, <1>11, <1>12 DEF InCall
<1>14. FdsOf(p)'
  BY <1>4, <1>10, <1>13 DEF FdsOf
<1>15. HasFile(p)'
  BY <1>4, <1>6, <1>10, <1>11, <1>12 DEF HasFile
<1>16. Writing(p)'
  BY <1>5, <1>6, <1>10, <1>11, <1>12 DEF Writing
<1>17. KeptOf(p)'
  <2> SUFFICES ASSUME op = "append", "cut" \notin d.hits
               PROVE  BytesKept(p, d.before, data'[file[p].ino], d.n + k)
    BY <1>10, <1>11, <1>12 DEF KeptOf, InCall
  <2> DEFINE s == data[file[p].ino]
  <2>1. s \in Seq(Byte)
    BY <1>5 DEF FilesInv, FileTypes
  <2>2. BytesKept(p, d.before, s, d.n)
    BY <1>4 DEF FilesInv, Sound, KeptOf, InCall
  <2>3. WritePos(p) = Len(s)
    BY <1>5 DEF WritePos, Bytes
  <2>4. data' = [data EXCEPT ![file[p].ino] = Over(@, WritePos(p), b)]
    BY <1>7 DEF Writes
  <2>5. data'[file[p].ino] = Over(s, Len(s), b)
    BY <1>5, <2>3, <2>4 DEF FilesInv, FileTypes
  <2> HIDE DEF s, d
  <2>6. BytesKept(p, d.before, Over(s, Len(s), SubSeq(Buffer(p), d.n + 1, d.n + k)), d.n + k)
    BY <1>4, <1>5, <1>6, <2>1, <2>2, KeptAppended
  <2> QED
    BY <1>7, <2>5, <2>6
<1>18. Sound(p)'
  BY <1>14, <1>15, <1>16, <1>17 DEF Sound
<1> QED
  BY <1>7, <1>10, <1>11, <1>18, StepSound

-----------------------------------------------------------------------------
(* Listings, and processes that die *)

LEMMA ListBeginsStep ==
  ASSUME FilesInv, NEW p \in Procs, ListBegins(p)
  PROVE  FilesInv'
<1>1. PICK path_ \in DirArgs :
        /\ Begins(p) /\ UNCHANGED <<tree, data, file>>
        /\ openFds' = [openFds EXCEPT ![p] = @ + 1]
        /\ Becomes(p, [New("list", path_) EXCEPT !.got = {}, !.before = Entries(path_)])
  BY DEF ListBegins
<1> DEFINE e == Entries(path_)
           c == [New("list", path_) EXCEPT !.got = {}, !.before = e]
<1>2. Becomes(p, c)
  BY <1>1
<1> HIDE DEF e
<1>3. IsCall(c) /\ c.done = FALSE /\ c.op = "list"
  BY DEF New, NoCall, IsCall, Fields
<1> HIDE DEF c
<1>4. FileTypes /\ FdsOf(p) /\ ~InCall(p, "list")
  BY <1>1 DEF FilesInv, Sound, Begins, InCall
<1>5. call'[p] = c
  BY <1>2, <1>3, <1>4, BecomesCall
<1>6. InCall(p, "list")'
  BY <1>3, <1>5 DEF InCall
<1>7. /\ openFds' \in [Procs -> Int] /\ openFds'[p] = openFds[p] + 1
      /\ \A q \in Procs \ {p} : openFds'[q] = openFds[q]
  BY <1>1, <1>4 DEF FileTypes
<1>8. FdsOf(p)'
  BY <1>1, <1>4, <1>6, <1>7 DEF FdsOf
<1>9. Sound(p)'
  BY <1>3, <1>5, <1>8, IdleSound
<1>10. /\ tree' \in [Places -> Objects] /\ data' \in [Inodes -> Seq(Byte)]
       /\ file' \in [Procs -> Handles]
  BY <1>1, <1>4 DEF FileTypes
<1> QED
  BY <1>1, <1>2, <1>3, <1>7, <1>9, <1>10, NothingBehind, StepSound

LEMMA ListReturnsCall ==
  ASSUME FilesInv, NEW p \in Procs, ListReturns(p)
  PROVE  \E c : IsCall(c) /\ c.done = TRUE /\ c.op = "list" /\ Becomes(p, c)
<1> DEFINE d == call[p]
<1>1. PICK e : d.op = "list" /\ Becomes(p, [d EXCEPT !.done = TRUE, !.ok = TRUE, !.err = e])
  BY DEF ListReturns, Running
<1> DEFINE c == [d EXCEPT !.done = TRUE, !.ok = TRUE, !.err = e]
<1>2. IsCall(d) /\ Becomes(p, c)
  BY <1>1 DEF FilesInv, FileTypes
<1> HIDE DEF d
<1>3. IsCall(c) /\ c.done = TRUE /\ c.op = d.op
  BY <1>2 DEF IsCall, Fields
<1> HIDE DEF c
<1> QED
  BY <1>1, <1>2, <1>3

LEMMA ListReturnsStep ==
  ASSUME FilesInv, NEW p \in Procs, ListReturns(p)
  PROVE  FilesInv'
<1>1. /\ Running(p, "list") /\ UNCHANGED <<tree, data, file>>
      /\ openFds' = [openFds EXCEPT ![p] = @ - 1]
  BY DEF ListReturns
<1>2. PICK c : IsCall(c) /\ c.done = TRUE /\ Becomes(p, c)
  BY ListReturnsCall
<1>3. FileTypes /\ FdsOf(p) /\ InCall(p, "list")
  BY <1>1 DEF FilesInv, Sound, Running, InCall
<1>4. call'[p] = c
  BY <1>2, <1>3, BecomesCall
<1>5. ~InCall(p, "list")'
  BY <1>2, <1>4 DEF InCall
<1>6. /\ openFds' \in [Procs -> Int] /\ openFds'[p] = openFds[p] - 1
      /\ \A q \in Procs \ {p} : openFds'[q] = openFds[q]
  BY <1>1, <1>3 DEF FileTypes
<1>7. FdsOf(p)'
  BY <1>1, <1>3, <1>5, <1>6 DEF FdsOf
<1>8. Sound(p)'
  BY <1>2, <1>4, <1>7, IdleSound
<1>9. /\ tree' \in [Places -> Objects] /\ data' \in [Inodes -> Seq(Byte)]
      /\ file' \in [Procs -> Handles]
  BY <1>1, <1>3 DEF FileTypes
<1> QED
  BY <1>1, <1>2, <1>6, <1>8, <1>9, NothingBehind, StepSound

LEMMA CrashStep ==
  ASSUME FilesInv, NEW p \in Procs, Crash(p)
  PROVE  FilesInv'
<1>1. /\ file' = [file EXCEPT ![p] = Closed] /\ openFds' = [openFds EXCEPT ![p] = 0]
      /\ call' = [call EXCEPT ![p] = NoCall] /\ UNCHANGED <<tree, data>>
  BY DEF Crash
<1>2. FileTypes
  BY DEF FilesInv
<1>3. Closed \in Handles /\ Closed.isOpen = FALSE
  BY DEF Closed, Handles, Modes
<1>4. /\ call' = [q \in Procs |-> call'[q]] /\ call'[p] = NoCall
      /\ file' \in [Procs -> Handles] /\ file'[p] = Closed
      /\ openFds' \in [Procs -> Int] /\ openFds'[p] = 0
      /\ \A q \in Procs \ {p} :
           file'[q] = file[q] /\ openFds'[q] = openFds[q] /\ call'[q] = call[q]
  BY <1>1, <1>2, <1>3 DEF FileTypes
<1>5. FileTypes'
  <2>1. \A q \in Procs : IsCall(call'[q]) /\ call'[q].done \in BOOLEAN
    BY <1>2, <1>4, CallShapes DEF FileTypes
  <2> QED
    BY <1>1, <1>2, <1>4, <2>1 DEF FileTypes
<1>6. Sound(p)'
  <2>1. ~InCall(p, "list")'
    BY <1>4, CallShapes DEF InCall
  <2>2. FdsOf(p)'
    BY <1>3, <1>4, <2>1 DEF FdsOf
  <2> QED
    BY <1>4, <2>2, CallShapes, IdleSound
<1>7. ASSUME NEW q \in Procs, q # p
      PROVE  Sound(q)'
  <2>1. file'[q] = file[q] /\ openFds'[q] = openFds[q] /\ call'[q] = call[q] /\ data' = data
    BY <1>1, <1>4, <1>7
  <2>2. Sound(q)
    BY DEF FilesInv
  <2> QED
    BY <2>1, <2>2 DEF Sound, HasFile, Writing, FdsOf, KeptOf, InCall
<1> QED
  BY <1>5, <1>6, <1>7 DEF FilesInv

-----------------------------------------------------------------------------
(* The theorems *)

LEMMA FilesInitially ==
  ASSUME FilesInit
  PROVE  FilesInv
<1>1. FileTypes
  <2>1. <<>> \in Seq(Byte)
    OBVIOUS
  <2>2. Closed \in Handles
    BY DEF Closed, Handles, Modes
  <2>3. tree \in [Places -> Objects] /\ openFds \in [Procs -> Int]
    BY DEF FilesInit, Objects
  <2>4. data \in [Inodes -> Seq(Byte)]
    BY <2>1 DEF FilesInit
  <2>5. file \in [Procs -> Handles]
    BY <2>2 DEF FilesInit
  <2>6. call = [p \in Procs |-> call[p]] /\ \A p \in Procs : call[p] = NoCall
    BY DEF FilesInit
  <2> QED
    BY <2>3, <2>4, <2>5, <2>6, CallShapes DEF FileTypes
<1>2. ASSUME NEW p \in Procs
      PROVE  Sound(p)
  <2>1. call[p] = NoCall /\ file[p] = Closed /\ openFds[p] = 0
    BY DEF FilesInit
  <2>2. \A op : ~InCall(p, op)
    BY <2>1, CallShapes DEF InCall
  <2>3. FdsOf(p)
    BY <2>1, <2>2 DEF FdsOf, Closed
  <2> QED
    BY <2>2, <2>3 DEF Sound, HasFile, Writing, KeptOf
<1> QED
  BY <1>1, <1>2 DEF FilesInv

LEMMA FilesUnchanged ==
  ASSUME FilesInv, UNCHANGED fileVars
  PROVE  FilesInv'
<1>1. UNCHANGED <<tree, data, file, openFds, call>>
  BY DEF fileVars
<1>2. FileTypes'
  BY <1>1 DEF FilesInv, FileTypes
<1>3. ASSUME NEW p \in Procs
      PROVE  Sound(p)'
  BY <1>1 DEF FilesInv, Sound, HasFile, Writing, FdsOf, KeptOf, InCall
<1> QED
  BY <1>2, <1>3 DEF FilesInv

LEMMA FilesStep ==
  ASSUME FilesInv, [FilesystemNext]_<<pathVars, fileVars>>
  PROVE  FilesInv'
<1>1. CASE UNCHANGED fileVars
  BY <1>1, FilesUnchanged
<1>2. ASSUME NEW p \in Procs,
             \/ HandleOpen(p) \/ HandleClose(p) \/ HandleRead(p) \/ HandleWrite(p)
             \/ HandleSeek(p)
      PROVE  FilesInv'
  BY <1>2, HandleOpenStep, HandleCloseStep, HandleReadStep, HandleWriteStep, HandleSeekStep
<1>3. ASSUME NEW p \in Procs,
             \/ ReadBegins(p) \/ ReadSize(p) \/ ReadNoMemory(p) \/ ReadChunk(p)
             \/ ReadReturns(p)
      PROVE  FilesInv'
  BY <1>3, ReadBeginsStep, ReadSizeStep, ReadNoMemoryStep, ReadChunkStep, ReadReturnsStep
<1>4. ASSUME NEW p \in Procs,
             \/ WriteBegins(p) \/ AppendNothing(p) \/ WriteChunk(p) \/ WriteFails(p)
             \/ WriteReturns(p)
      PROVE  FilesInv'
  BY <1>4, WriteBeginsStep, AppendNothingStep, WriteChunkStep, WriteFailsStep,
     WriteReturnsStep
<1>5. ASSUME NEW p \in Procs,
             \/ MkdirBegins(p) \/ MkdirChecks(p) \/ MkdirsBegins(p) \/ MkdirsStep(p)
             \/ FileRemove(p) \/ FileRename(p)
      PROVE  FilesInv'
  BY <1>5, MkdirBeginsStep, MkdirChecksStep, MkdirsBeginsStep, MkdirsStepStep,
     FileRemoveStep, FileRenameStep
<1>6. ASSUME NEW p \in Procs,
             ListBegins(p) \/ ListEntry(p) \/ ListKind(p) \/ ListReturns(p) \/ Crash(p)
      PROVE  FilesInv'
  BY <1>6, ListBeginsStep, ListEntryStep, ListKindStep, ListReturnsStep, CrashStep
<1>7. CASE FilesNext
  BY <1>2, <1>3, <1>4, <1>5, <1>6, <1>7 DEF FilesNext
<1> QED
  BY <1>1, <1>7 DEF FilesystemNext

\* The inductive invariant of the file calls.
THEOREM FilesInvariant == FilesystemSpec => []FilesInv
<1>1. FilesystemInit => FilesInv
  BY FilesInitially DEF FilesystemInit
<1>2. FilesInv /\ [FilesystemNext]_<<pathVars, fileVars>> => FilesInv'
  BY FilesStep
<1> QED
  BY <1>1, <1>2, PTL DEF FilesystemSpec

\* Every way out of justFileReadEntire, justFileWriteEntire,
\* justFileAppendEntire and justListDir closes what the call opened, whatever
\* system call fails and whatever other processes do.
THEOREM FilesDescriptorsClosed == FilesystemSpec => []DescriptorsClosed
<1>1. FilesInv => DescriptorsClosed
  BY SoundMeans
<1> QED
  BY <1>1, FilesInvariant, PTL

\* justFileAppendEntire loses no byte to another writer, however the chunks
\* of any number of processes interleave, as long as nobody truncates or
\* overwrites the file.
THEOREM FilesAppendsKept == FilesystemSpec => []AppendsKept
<1>1. FilesInv => AppendsKept
  BY SoundMeans
<1> QED
  BY <1>1, FilesInvariant, PTL

-----------------------------------------------------------------------------
(* What a path names *)

\* Where a path starts, and the walk along it.
Start(p) == IF IsAbsolute(p) THEN <<>> ELSE Cwd

IsWalk(w, tr, p) ==
  /\ w \in [0 .. Len(p) -> Places \cup {Nowhere}]
  /\ w[0] = Start(p)
  /\ \A i \in 1 .. Len(p) : w[i] = Passed(tr, w[i - 1], p[i])

\* The places that a walk can start from.
LEMMA RootPlace == <<>> \in Places /\ Cwd \in Places /\ Nowhere \notin Places
<1>1. MaxDepth \in Nat /\ Cwd \in Places /\ Nowhere \notin Places
  BY FilesAssumption
<1>2. 0 \in 0 .. MaxDepth /\ <<>> \in [1 .. 0 -> Names]
  BY <1>1
<1> QED
  BY <1>1, <1>2 DEF Places, BoundedSeq, SeqOf

\* A token leads to a place or nowhere.
LEMMA PassedPlace ==
  ASSUME NEW tr, NEW at \in Places \cup {Nowhere}, NEW t
  PROVE  Passed(tr, at, t) \in Places \cup {Nowhere}
  BY DEF Passed

\* The recursive definition of Walk has a solution, and Walk is it.
LEMMA WalkIs ==
  ASSUME NEW tr, NEW p \in Seq(Tokens)
  PROVE  IsWalk(Walk(tr, p), tr, p)
<1> DEFINE N == Len(p)
           S == Places \cup {Nowhere}
           Unrolled(f) == [i \in 0 .. N |->
                             IF i = 0 THEN Start(p) ELSE Passed(tr, f[i - 1], p[i])]
           w == CHOOSE f : f = Unrolled(f)
           g == [i \in 1 .. N |-> [at \in S |-> Passed(tr, at, p[i])]]
<1>1. N \in Nat
  OBVIOUS
<1>2. g \in Steps(N, S) /\ Start(p) \in S
  <2>1. \A i \in 1 .. N : \A at \in S : Passed(tr, at, p[i]) \in S
    BY PassedPlace
  <2>2. Start(p) \in S
    BY RootPlace DEF Start
  <2> HIDE DEF S, N
  <2> QED
    BY <2>1, <2>2 DEF Steps
<1>3. PICK f : Follows(f, N, S, Start(p), g)
  <2> HIDE DEF N, S, g
  <2> QED
    BY <1>1, <1>2, StepwiseFunction
<1>4. /\ f \in [0 .. N -> S] /\ f[0] = Start(p)
      /\ \A i \in 1 .. N : f[i] = g[i][f[i - 1]]
  BY <1>3 DEF Follows
<1>5. \A i \in 1 .. N : f[i] = Passed(tr, f[i - 1], p[i])
  <2> TAKE i \in 1 .. N
  <2>1. i - 1 \in 0 .. N
    BY <1>1
  <2>2. f[i - 1] \in S
    BY <1>4, <2>1
  <2>3. g[i][f[i - 1]] = Passed(tr, f[i - 1], p[i])
    BY <2>2
  <2> QED
    BY <1>4, <2>3
<1>6. f = Unrolled(f)
  <2>1. \A i \in 0 .. N : f[i] = IF i = 0 THEN Start(p) ELSE Passed(tr, f[i - 1], p[i])
    BY <1>1, <1>4, <1>5
  <2>2. f = [i \in 0 .. N |-> f[i]]
    BY <1>4
  <2> QED
    BY <2>1, <2>2
<1>7. w = Unrolled(w)
  <2> HIDE DEF Unrolled
  <2> QED
    BY <1>6
<1>8. Walk(tr, p) = w
  BY DEF Walk, Start
<1> HIDE DEF w
<1>9. /\ w[0] = Start(p)
      /\ \A i \in 1 .. N : w[i] = Passed(tr, w[i - 1], p[i])
  BY <1>1, <1>7
<1>10. w = [i \in 0 .. N |-> w[i]]
  BY <1>7
<1>11. \A i \in 0 .. N : w[i] \in S
  <2> DEFINE T == {i \in Nat : i <= N => w[i] \in S}
  <2>1. 0 \in T
    BY <1>2, <1>9
  <2>2. ASSUME NEW i \in T PROVE i + 1 \in T
    <3> SUFFICES ASSUME i + 1 <= N PROVE w[i + 1] \in S
      OBVIOUS
    <3>1. i + 1 \in 1 .. N /\ (i + 1) - 1 = i /\ w[i] \in S
      BY <1>1
    <3>2. w[i + 1] = Passed(tr, w[i], p[i + 1])
      BY <1>9, <3>1
    <3> QED
      BY <3>1, <3>2, PassedPlace
  <2>3. T = Nat
    <3> HIDE DEF T
    <3>1. T \subseteq Nat
      BY DEF T
    <3> QED
      BY <2>1, <2>2, <3>1, SetInduction
  <2> QED
    BY <1>1, <2>3
<1> QED
  BY <1>8, <1>9, <1>10, <1>11 DEF IsWalk

\* A path that leads somewhere still leads there when there are more
\* directories, and what it passes is the same.
LEMMA WalkFollows ==
  ASSUME NEW p \in Seq(Tokens), NEW tr, NEW tr2, NEW w, NEW v,
         IsWalk(w, tr, p), IsWalk(v, tr2, p),
         \A at \in Places : tr[at] = "dir" => tr2[at] = "dir"
  PROVE  \A i \in 0 .. Len(p) : w[i] # Nowhere => v[i] = w[i]
<1> DEFINE N == Len(p)
           T == {i \in Nat : i <= N => (w[i] # Nowhere => v[i] = w[i])}
<1>1. N \in Nat
  OBVIOUS
<1>2. 0 \in T
  BY DEF IsWalk
<1>3. ASSUME NEW i \in T PROVE i + 1 \in T
  <2> SUFFICES ASSUME i + 1 <= N, w[i + 1] # Nowhere PROVE v[i + 1] = w[i + 1]
    OBVIOUS
  <2>1. /\ i + 1 \in 1 .. N /\ (i + 1) - 1 = i /\ i \in 0 .. N
        /\ w[i] # Nowhere => v[i] = w[i]
    BY <1>1
  <2>2. /\ w[i + 1] = Passed(tr, w[i], p[i + 1])
        /\ v[i + 1] = Passed(tr2, v[i], p[i + 1])
        /\ w[i] \in Places \cup {Nowhere}
    BY <2>1 DEF IsWalk
  <2>3. w[i] # Nowhere
    BY <2>2 DEF Passed
  <2> QED
    BY <2>1, <2>2, <2>3 DEF Passed
<1>4. T = Nat
  <2> HIDE DEF T
  <2>1. T \subseteq Nat
    BY DEF T
  <2> QED
    BY <1>2, <1>3, <2>1, SetInduction
<1> QED
  BY <1>1, <1>4

\* Beyond a place that is not there nothing is.
LEMMA WalkLost ==
  ASSUME NEW p \in Seq(Tokens), NEW tr, NEW w, IsWalk(w, tr, p),
         NEW j \in 0 .. Len(p), w[j] # Nowhere
  PROVE  \A i \in 0 .. j : w[i] # Nowhere
<1> DEFINE T == {k \in Nat : k <= j => w[j - k] # Nowhere}
<1>1. j \in Nat /\ j <= Len(p) /\ Len(p) \in Nat
  OBVIOUS
<1>2. 0 \in T
  BY <1>1
<1>3. ASSUME NEW k \in T PROVE k + 1 \in T
  <2> SUFFICES ASSUME k + 1 <= j PROVE w[j - (k + 1)] # Nowhere
    OBVIOUS
  <2> DEFINE i == j - k
  <2>1. /\ i \in 1 .. Len(p) /\ j - (k + 1) = i - 1 /\ w[i] # Nowhere
    BY <1>1
  <2> HIDE DEF i
  <2>2. w[i] = Passed(tr, w[i - 1], p[i])
    BY <2>1 DEF IsWalk
  <2> QED
    BY <2>1, <2>2 DEF Passed
<1>4. T = Nat
  <2> HIDE DEF T
  <2>1. T \subseteq Nat
    BY DEF T
  <2> QED
    BY <1>2, <1>3, <2>1, SetInduction
<1>5. ASSUME NEW i \in 0 .. j PROVE w[i] # Nowhere
  <2>1. j - i \in Nat /\ j - i <= j /\ j - (j - i) = i
    BY <1>1
  <2> HIDE DEF T
  <2>2. j - i \in T
    BY <1>4, <2>1
  <2>3. w[j - (j - i)] # Nowhere
    BY <2>1, <2>2 DEF T
  <2> QED
    BY <2>1, <2>3
<1> QED
  BY <1>5

\* The walk along a path that starts like another is the start of its walk.
LEMMA WalkStarts ==
  ASSUME NEW p \in Seq(Tokens), NEW q \in Seq(Tokens), NEW tr, NEW w, NEW v,
         IsWalk(w, tr, p), IsWalk(v, tr, q),
         Len(q) <= Len(p), \A i \in 1 .. Len(q) : q[i] = p[i], Start(q) = Start(p)
  PROVE  \A i \in 0 .. Len(q) : v[i] = w[i]
<1> DEFINE N == Len(q)
           T == {i \in Nat : i <= N => v[i] = w[i]}
<1>1. N \in Nat /\ Len(p) \in Nat /\ N <= Len(p)
  OBVIOUS
<1>2. 0 \in T
  BY DEF IsWalk
<1>3. ASSUME NEW i \in T PROVE i + 1 \in T
  <2> SUFFICES ASSUME i + 1 <= N PROVE v[i + 1] = w[i + 1]
    OBVIOUS
  <2>1. /\ i + 1 \in 1 .. N /\ i + 1 \in 1 .. Len(p) /\ (i + 1) - 1 = i /\ v[i] = w[i]
    BY <1>1
  <2>2. /\ w[i + 1] = Passed(tr, w[i], p[i + 1])
        /\ v[i + 1] = Passed(tr, v[i], q[i + 1])
    BY <2>1 DEF IsWalk
  <2> QED
    BY <2>1, <2>2
<1>4. T = Nat
  <2> HIDE DEF T
  <2>1. T \subseteq Nat
    BY DEF T
  <2> QED
    BY <1>2, <1>3, <2>1, SetInduction
<1> QED
  BY <1>1, <1>4

\* Separators lead nowhere.
LEMMA WalkStays ==
  ASSUME NEW p \in Seq(Tokens), NEW tr, NEW w, IsWalk(w, tr, p),
         NEW i \in 1 .. Len(p), NEW j \in 1 .. Len(p), i <= j,
         \A k \in i .. j - 1 : Slash(p[k])
  PROVE  w[j - 1] = w[i - 1]
<1> DEFINE T == {k \in Nat : i + k <= j => w[i + k - 1] = w[i - 1]}
<1>1. i \in Nat /\ j \in Nat /\ Len(p) \in Nat /\ i >= 1 /\ j <= Len(p)
  OBVIOUS
<1>2. 0 \in T
  BY <1>1
<1>3. ASSUME NEW k \in T PROVE k + 1 \in T
  <2> SUFFICES ASSUME i + (k + 1) <= j PROVE w[i + (k + 1) - 1] = w[i - 1]
    OBVIOUS
  <2> DEFINE m == i + k
  <2>1. /\ m \in 1 .. Len(p) /\ i + (k + 1) - 1 = m /\ w[m - 1] = w[i - 1]
        /\ m \in i .. j - 1
    BY <1>1
  <2> HIDE DEF m
  <2>2. w[m] = Passed(tr, w[m - 1], p[m])
    BY <2>1 DEF IsWalk
  <2> QED
    BY <2>1, <2>2 DEF Passed
<1>4. T = Nat
  <2> HIDE DEF T
  <2>1. T \subseteq Nat
    BY DEF T
  <2> QED
    BY <1>2, <1>3, <2>1, SetInduction
<1> DEFINE k == j - i
<1>5. k \in Nat /\ i + k = j
  BY <1>1
<1> HIDE DEF T, k
<1>6. k \in T
  BY <1>4, <1>5
<1>7. w[i + k - 1] = w[i - 1]
  BY <1>5, <1>6 DEF T
<1> QED
  BY <1>5, <1>7

-----------------------------------------------------------------------------
(* Paths in a tree that grows *)

\* What a path names in the tree tr.
Named(tr, p) ==
  LET at == Walk(tr, p)[Len(p)] IN IF at = Nowhere THEN "none" ELSE tr[at]

\* No name is taken away or given to something else.
Grows(tr, tr2) == \A at \in Places : tr[at] # "none" => tr2[at] = tr[at]

Trees == [Places -> Objects]

\* What At finds, now and after a step.
LEMMA NamedAt ==
  ASSUME NEW p
  PROVE  At(p) = Named(tree, p) /\ At(p)' = Named(tree', p)
  BY DEF At, Named, Locate

\* A path that names something names it still when the tree grows.
LEMMA NamedStill ==
  ASSUME NEW tr \in Trees, NEW tr2 \in Trees, Grows(tr, tr2), NEW p \in Seq(Tokens)
  PROVE  /\ Walk(tr, p)[Len(p)] # Nowhere => Walk(tr2, p)[Len(p)] = Walk(tr, p)[Len(p)]
         /\ Named(tr, p) # "none" => Named(tr2, p) = Named(tr, p)
<1>1. \A at \in Places : tr[at] = "dir" => tr2[at] = "dir"
  BY DEF Grows
<1>2. IsWalk(Walk(tr, p), tr, p) /\ IsWalk(Walk(tr2, p), tr2, p)
  BY WalkIs
<1>3. \A i \in 0 .. Len(p) : Walk(tr, p)[i] # Nowhere => Walk(tr2, p)[i] = Walk(tr, p)[i]
  BY <1>1, <1>2, WalkFollows
<1>4. Len(p) \in 0 .. Len(p)
  OBVIOUS
<1>5. Walk(tr, p)[Len(p)] \in Places \cup {Nowhere}
  BY <1>2, <1>4 DEF IsWalk
<1> QED
  BY <1>3, <1>4, <1>5 DEF Named, Grows

\* The first k tokens of a path.
LEMMA CutPath ==
  ASSUME NEW tr, NEW p \in Seq(Tokens), NEW k \in 1 .. Len(p)
  PROVE  LET q == SubSeq(p, 1, k)
         IN  /\ q \in Seq(Tokens) /\ Len(q) = k /\ Walk(tr, q)[Len(q)] = Walk(tr, p)[k]
<1> DEFINE q == SubSeq(p, 1, k)
<1>1. Len(p) \in Nat /\ k \in Nat /\ 1 <= k /\ k <= Len(p)
  OBVIOUS
<1>2. \A i \in 1 .. k : p[i] \in Tokens
  BY <1>1
<1>3. q \in Seq(Tokens) /\ Len(q) = k /\ \A i \in 1 .. k : q[i] = p[i]
  BY <1>1, <1>2, SubSeqProperties
<1> HIDE DEF q
<1>4. p # <<>> /\ q # <<>> /\ q[1] = p[1]
  BY <1>1, <1>3
<1>5. Start(q) = Start(p)
  BY <1>4 DEF Start, IsAbsolute
<1>6. IsWalk(Walk(tr, p), tr, p) /\ IsWalk(Walk(tr, q), tr, q)
  BY <1>3, WalkIs
<1>7. \A i \in 0 .. Len(q) : Walk(tr, q)[i] = Walk(tr, p)[i]
  BY <1>1, <1>3, <1>5, <1>6, WalkStarts
<1>8. Walk(tr, q)[k] = Walk(tr, p)[k]
  BY <1>1, <1>3, <1>7
<1> QED
  BY <1>3, <1>8 DEF q

\* What is on the way to something that exists is a directory.
LEMMA WayToIt ==
  ASSUME NEW tr \in Trees, NEW p \in Seq(Tokens), Named(tr, p) # "none",
         NEW i \in Cuts(p), \E j \in i .. Len(p) : ~Slash(p[j])
  PROVE  Named(tr, SubSeq(p, 1, i - 1)) = "dir"
<1> DEFINE w == Walk(tr, p)
           F == {j \in i .. Len(p) : ~Slash(p[j])}
<1>1. IsWalk(w, tr, p)
  BY WalkIs
<1>2. /\ Len(p) \in Nat /\ i \in Nat /\ 2 <= i /\ i <= Len(p) /\ i \in 1 .. Len(p)
      /\ i - 1 \in 1 .. Len(p)
  BY DEF Cuts
<1>3. w[Len(p)] # Nowhere
  BY DEF Named
<1>4. PICK j \in F : \A k \in F : j <= k
  <2>1. F \in SUBSET Nat /\ F # {}
    BY <1>2
  <2> HIDE DEF F
  <2> QED
    BY <2>1, LeastElement
<1>5. j \in 1 .. Len(p) /\ i <= j /\ j - 1 \in 0 .. Len(p) /\ Len(p) \in 0 .. Len(p)
  BY <1>2
<1>6. \A k \in i .. j - 1 : Slash(p[k])
  BY <1>2, <1>4
<1> HIDE DEF w
<1>7. w[j - 1] = w[i - 1]
  BY <1>1, <1>2, <1>5, <1>6, WalkStays
<1>8. w[j] # Nowhere
  <2>1. j \in 0 .. Len(p)
    BY <1>5
  <2> QED
    BY <1>1, <1>3, <1>5, <2>1, WalkLost
<1>9. w[j] = Passed(tr, w[j - 1], p[j]) /\ w[j - 1] \in Places \cup {Nowhere}
  BY <1>1, <1>5 DEF IsWalk
<1>10. w[j - 1] # Nowhere /\ tr[w[j - 1]] = "dir"
  BY <1>4, <1>8, <1>9 DEF Passed
<1>11. LET q == SubSeq(p, 1, i - 1) IN Walk(tr, q)[Len(q)] = w[i - 1]
  BY <1>2, CutPath DEF w
<1> QED
  BY <1>7, <1>10, <1>11 DEF Named

\* The prefix whose turn it is: the whole path, or up to the next cut.
LEMMA PrefixIs ==
  ASSUME NEW p \in Seq(Tokens), NEW n \in Nat
  PROVE  \/ Prefix(p, n) = p /\ \A i \in Cuts(p) : i <= n
         \/ \E m \in Cuts(p) : /\ m > n /\ \A i \in Cuts(p) : i > n => m <= i
                               /\ Prefix(p, n) = SubSeq(p, 1, m - 1)
<1> DEFINE rest == {i \in Cuts(p) : i > n}
<1>1. Cuts(p) \subseteq Nat
  BY DEF Cuts
<1>2. Prefix(p, n) = IF rest = {} THEN p ELSE SubSeq(p, 1, Min(rest) - 1)
  BY DEF Prefix
<1>3. CASE rest = {}
  BY <1>1, <1>2, <1>3
<1>4. CASE rest # {}
  <2>1. rest \in SUBSET Nat
    BY <1>1
  <2>2. \E m \in rest : \A i \in rest : m <= i
    <3> HIDE DEF rest
    <3> QED
      BY <1>4, <2>1, LeastElement
  <2>3. Min(rest) \in rest /\ \A i \in rest : Min(rest) <= i
    BY <2>2 DEF Min
  <2>4. Prefix(p, n) = SubSeq(p, 1, Min(rest) - 1)
    BY <1>2, <1>4
  <2> HIDE DEF rest
  <2> DEFINE m == Min(rest)
  <2> HIDE DEF m
  <2>5. m \in rest /\ (\A i \in rest : m <= i) /\ Prefix(p, n) = SubSeq(p, 1, m - 1)
    BY <2>3, <2>4 DEF m
  <2> QED
    BY <2>5 DEF rest
<1> QED
  BY <1>3, <1>4

\* A prefix that cannot be found, though all before it are there, has a file
\* on its way.
LEMMA MetFile ==
  ASSUME NEW tr \in Trees, NEW p \in DirArgs, DirsFit,
         tr[Start(p)] = "dir", NEW n \in Nat,
         \A i \in Cuts(p) : i <= n => Named(tr, SubSeq(p, 1, i - 1)) # "none",
         NEW q, q = Prefix(p, n), Walk(tr, q)[Len(q)] = Nowhere
  PROVE  \E i \in Cuts(p) : Named(tr, SubSeq(p, 1, i - 1)) \in Inodes
<1> DEFINE w == Walk(tr, p)
           all == [at \in Places |-> "dir"]
           a == Walk(all, p)
<1>1. /\ p \in Seq(Tokens) /\ Len(p) \in Nat
      /\ \A i \in 2 .. Len(p) : Slash(p[i - 1]) \/ Slash(p[i])
      /\ a[Len(p)] # Nowhere
  BY FilesAssumption DEF DirsFit
<1>2. IsWalk(w, tr, p) /\ IsWalk(a, all, p)
  BY <1>1, WalkIs
\* The number of tokens of the prefix.
<1>3. PICK k \in 0 .. Len(p) : w[k] = Nowhere /\ \A i \in Cuts(p) : i <= k => i <= n
  <2>1. CASE q = p /\ \A i \in Cuts(p) : i <= n
    BY <1>1, <2>1
  <2>2. CASE \E m \in Cuts(p) : /\ m > n /\ \A i \in Cuts(p) : i > n => m <= i
                                /\ q = SubSeq(p, 1, m - 1)
    <3>1. PICK m \in Cuts(p) : /\ m > n /\ \A i \in Cuts(p) : i > n => m <= i
                               /\ q = SubSeq(p, 1, m - 1)
      BY <2>2
    <3>2. Cuts(p) \subseteq Nat /\ m - 1 \in 1 .. Len(p) /\ m - 1 \in 0 .. Len(p)
      BY <1>1 DEF Cuts
    <3>3. Walk(tr, q)[Len(q)] = w[m - 1]
      BY <1>1, <3>1, <3>2, CutPath
    <3>4. \A i \in Cuts(p) : i <= m - 1 => i <= n
      <4> SUFFICES ASSUME NEW i \in Cuts(p), i <= m - 1 PROVE i <= n
        OBVIOUS
      <4>1. i \in Nat /\ m \in Nat /\ ~(m <= i)
        BY <3>2
      <4>2. ~(i > n)
        BY <3>1, <4>1
      <4> QED
        BY <4>1, <4>2
    <3> QED
      BY <3>2, <3>3, <3>4
  <2> QED
    BY <1>1, <2>1, <2>2, PrefixIs
<1> HIDE DEF w, a
\* The first token that does not go on.
<1> DEFINE L == {j \in 0 .. Len(p) : w[j] = Nowhere}
<1>4. PICK j \in L : \A i \in L : j <= i
  <2>1. L \in SUBSET Nat /\ L # {}
    BY <1>1, <1>3
  <2> HIDE DEF L
  <2> QED
    BY <2>1, LeastElement
<1>5. w[0] = Start(p) /\ w[0] # Nowhere
  BY <1>2, RootPlace DEF IsWalk, Start
<1>6. /\ j \in 1 .. Len(p) /\ j <= k /\ w[j] = Nowhere /\ j - 1 \in 0 .. Len(p)
      /\ w[j - 1] # Nowhere
  <2>1. j \in 0 .. Len(p) /\ w[j] = Nowhere /\ j <= k
    BY <1>3, <1>4
  <2>2. j # 0
    BY <1>5, <2>1
  <2>3. j \in 1 .. Len(p) /\ j - 1 \in 0 .. Len(p) /\ j - 1 < j
    BY <1>1, <2>1, <2>2
  <2>4. w[j - 1] # Nowhere
    BY <1>1, <1>4, <2>1, <2>3
  <2> QED
    BY <2>1, <2>3, <2>4
<1>7. /\ w[j] = Passed(tr, w[j - 1], p[j]) /\ w[j - 1] \in Places
  BY <1>2, <1>6 DEF IsWalk
<1>8. ~Slash(p[j]) /\ (tr[w[j - 1]] # "dir" \/ Step(w[j - 1], p[j]) \notin Places)
  BY <1>6, <1>7, RootPlace DEF Passed
<1>9. a[j - 1] = w[j - 1] /\ a[j] # Nowhere /\ a[j] = Passed(all, a[j - 1], p[j])
  <2>1. \A at \in Places : tr[at] = "dir" => all[at] = "dir"
    OBVIOUS
  <2> HIDE DEF all
  <2>2. a[j - 1] = w[j - 1]
    BY <1>1, <1>2, <1>6, <2>1, WalkFollows
  <2>3. j \in 0 .. Len(p) /\ Len(p) \in 0 .. Len(p) /\ j \in 0 .. Len(p)
    BY <1>1, <1>6
  <2>4. a[j] # Nowhere
    BY <1>1, <1>2, <2>3, WalkLost
  <2> QED
    BY <1>2, <1>6, <2>2, <2>4 DEF IsWalk
<1>10. tr[w[j - 1]] # "dir"
  BY <1>6, <1>8, <1>9 DEF Passed
\* A separator is before it, which is a cut: nothing else starts there.
<1>11. j # 1
  BY <1>5, <1>10
<1>12. j \in 2 .. Len(p) /\ j - 1 \in 1 .. Len(p) /\ (j - 1) - 1 \in 0 .. Len(p)
  BY <1>1, <1>6, <1>11
<1>13. Slash(p[j - 1])
  BY <1>1, <1>8, <1>12
<1>14. w[j - 1] = w[(j - 1) - 1]
  BY <1>2, <1>12, <1>13 DEF IsWalk, Passed
<1>15. j - 1 # 1
  BY <1>5, <1>10, <1>14
<1> DEFINE i == j - 1
<1>16. i \in Cuts(p) /\ i <= n /\ i - 1 \in 1 .. Len(p)
  <2>1. i \in 2 .. Len(p) /\ i - 1 \in 1 .. Len(p) /\ i <= k
    BY <1>1, <1>3, <1>6, <1>12, <1>15
  <2>2. i \in Cuts(p)
    BY <1>13, <2>1 DEF Cuts
  <2> QED
    BY <1>3, <2>1, <2>2
<1> HIDE DEF i
<1>17. Named(tr, SubSeq(p, 1, i - 1)) = tr[w[i]]
  <2>1. LET r == SubSeq(p, 1, i - 1) IN Walk(tr, r)[Len(r)] = w[i - 1]
    BY <1>1, <1>16, CutPath DEF w
  <2>2. w[i - 1] = w[i] /\ w[i] # Nowhere
    BY <1>6, <1>14 DEF i
  <2> QED
    BY <2>1, <2>2 DEF Named
<1>18. tr[w[i]] # "none" /\ tr[w[i]] # "dir" /\ tr[w[i]] \in Objects
  <2>1. Named(tr, SubSeq(p, 1, i - 1)) # "none"
    BY <1>16
  <2>2. tr[w[i]] \in Objects /\ tr[w[i]] # "dir"
    BY <1>7, <1>10 DEF Trees, i
  <2> QED
    BY <1>17, <2>1, <2>2
<1> QED
  BY <1>16, <1>17, <1>18 DEF Objects

-----------------------------------------------------------------------------
(* Directories made by several processes *)

\* What a call that makes directories can rely on in the tree tr: what it has
\* made or found is there, and when it gave up a file was in its way.
DirResult(tr, c) ==
  /\ c.op = "mkdir" /\ c.done /\ c.ok => Named(tr, c.path) = "dir"
  /\ c.op = "mkdirs" /\ c.done /\ c.ok => Named(tr, c.path) # "none"
  /\ c.op = "mkdirs" /\ ~c.done =>
       \A i \in Cuts(c.path) : i <= c.n => Named(tr, SubSeq(c.path, 1, i - 1)) # "none"
  /\ c.op = "mkdirs" /\ c.done /\ ~c.ok /\ ~c.err =>
       \E i \in Cuts(c.path) : Named(tr, SubSeq(c.path, 1, i - 1)) \in Inodes

DirOps == {"mkdir", "mkdirs"}

DirCall(tr, c) ==
  c.op \in DirOps =>
    /\ c.path \in DirArgs /\ c.n \in Nat
    /\ c.op = "mkdirs" /\ ~c.done => ~c.ok
    /\ "move" \notin c.hits => DirResult(tr, c)

DirsInv == tree[<<>>] = "dir" /\ \A p \in Procs : DirCall(tree, call[p])

\* What a call relies on survives the growth of the tree.
LEMMA DirCallStill ==
  ASSUME NEW tr \in Trees, NEW tr2 \in Trees, Grows(tr, tr2), NEW c, NEW d,
         DirCall(tr, c),
         d.op = c.op, d.path = c.path, d.done = c.done, d.ok = c.ok, d.err = c.err,
         d.n = c.n, "move" \in c.hits => "move" \in d.hits
  PROVE  DirCall(tr2, d)
<1> SUFFICES ASSUME c.op \in DirOps, "move" \notin c.hits
             PROVE  DirResult(tr2, d)
  BY Zenon DEF DirCall
<1>1. c.path \in DirArgs /\ DirResult(tr, c)
  BY DEF DirCall
<1>2. c.path \in Seq(Tokens)
  BY <1>1, FilesAssumption
<1>3. Named(tr, c.path) # "none" => Named(tr2, c.path) = Named(tr, c.path)
  BY <1>2, NamedStill
<1>4. ASSUME NEW i \in Cuts(c.path)
      PROVE  LET q == SubSeq(c.path, 1, i - 1)
             IN  Named(tr, q) # "none" => Named(tr2, q) = Named(tr, q)
  <2>1. Len(c.path) \in Nat /\ i - 1 \in 1 .. Len(c.path)
    BY <1>2 DEF Cuts
  <2>2. SubSeq(c.path, 1, i - 1) \in Seq(Tokens)
    BY <1>2, <2>1, CutPath
  <2> QED
    BY <2>2, NamedStill
<1>5. "dir" # "none" /\ "none" \notin Inodes
  BY FilesAssumption
<1>6. c.op = "mkdir" /\ c.done /\ c.ok => Named(tr2, c.path) = "dir"
  BY <1>1, <1>3, <1>5, Zenon DEF DirResult
<1>7. c.op = "mkdirs" /\ c.done /\ c.ok => Named(tr2, c.path) # "none"
  BY <1>1, <1>3, Zenon DEF DirResult
<1>8. c.op = "mkdirs" /\ ~c.done =>
        \A i \in Cuts(c.path) : i <= c.n => Named(tr2, SubSeq(c.path, 1, i - 1)) # "none"
  BY <1>1, <1>4, Zenon DEF DirResult
<1>9. c.op = "mkdirs" /\ c.done /\ ~c.ok /\ ~c.err =>
        \E i \in Cuts(c.path) : Named(tr2, SubSeq(c.path, 1, i - 1)) \in Inodes
  BY <1>1, <1>4, <1>5, Zenon DEF DirResult
<1> QED
  BY <1>6, <1>7, <1>8, <1>9, Zenon DEF DirResult

\* A step that takes names away, or gives them to something else, is noted.
LEMMA MoveNoted ==
  ASSUME ~Grows(tree, tree')
  PROVE  "move" \in Events
<1>1. \E at \in Places : tree[at] \notin {"none", tree'[at]}
  BY DEF Grows
<1> QED
  BY <1>1 DEF Events

\* A step of one process leaves what the calls of others rely on.
LEMMA OthersDirs ==
  ASSUME FileTypes, tree' \in Trees, NEW p \in Procs, NEW q \in Procs, p # q,
         NEW c, Becomes(p, c), DirCall(tree, call[q])
  PROVE  DirCall(tree', call'[q])
<1>1. CASE call[q] = NoCall
  <2>1. call'[q] = NoCall
    BY <1>1 DEF Becomes
  <2> QED
    BY <2>1 DEF DirCall, DirOps, NoCall
<1>2. CASE call[q] # NoCall
  <2>1. call'[q] = [call[q] EXCEPT !.hits = @ \cup Events]
    BY <1>2 DEF Becomes
  <2> DEFINE b == call[q]
             d == call'[q]
             e == Events
  <2>2. IsCall(b) /\ tree \in Trees /\ DirCall(tree, b) /\ d = [b EXCEPT !.hits = @ \cup e]
    BY <2>1 DEF FileTypes, Trees
  <2>3. ~Grows(tree, tree') => "move" \in e
    BY MoveNoted
  <2> HIDE DEF b, d, e
  <2>4. /\ d.op = b.op /\ d.path = b.path /\ d.done = b.done /\ d.ok = b.ok
        /\ d.err = b.err /\ d.n = b.n /\ d.hits = b.hits \cup e
    BY <2>2 DEF IsCall, Fields
  <2>5. "move" \in b.hits => "move" \in d.hits
    BY <2>4
  <2>6. CASE Grows(tree, tree')
    BY <2>2, <2>4, <2>5, <2>6, DirCallStill DEF d
  <2>7. CASE ~Grows(tree, tree')
    <3>1. "move" \in d.hits
      BY <2>3, <2>4, <2>7
    <3> QED
      BY <2>2, <2>4, <3>1, Zenon DEF DirCall, d
  <2> QED
    BY <2>6, <2>7
<1> QED
  BY <1>1, <1>2

\* A step is sound when its own call is; the others are left to OthersDirs.
LEMMA StepDirs ==
  ASSUME FileTypes, FileTypes', DirsInv, NEW p \in Procs, NEW c, IsCall(c),
         c.done \in BOOLEAN, Becomes(p, c), DirCall(tree', c), tree'[<<>>] = "dir"
  PROVE  DirsInv'
<1>1. tree' \in Trees
  BY DEF FileTypes, Trees
<1>2. call'[p] = c
  BY BecomesCall
<1>3. ASSUME NEW q \in Procs PROVE DirCall(tree', call'[q])
  <2>1. CASE q = p
    BY <1>2, <2>1
  <2>2. CASE q # p
    <3>1. DirCall(tree, call[q])
      BY DEF DirsInv
    <3> QED
      BY <1>1, <2>2, <3>1, OthersDirs
  <2> QED
    BY <2>1, <2>2
<1> QED
  BY <1>3 DEF DirsInv

-----------------------------------------------------------------------------
(* The root stays a directory *)

\* Places are sequences of names.
LEMMA PlacesAreSequences == Places \subseteq Seq(Names)
<1> SUFFICES ASSUME NEW m \in 0 .. MaxDepth, NEW x \in [1 .. m -> Names]
             PROVE  x \in Seq(Names)
  BY DEF Places, BoundedSeq, SeqOf
<1> QED
  BY FilesAssumption

\* A path leads to a place or nowhere.
LEMMA LocatePlace ==
  ASSUME NEW p \in Seq(Tokens)
  PROVE  Locate(p) \in Places \cup {Nowhere}
<1>1. IsWalk(Walk(tree, p), tree, p) /\ Len(p) \in 0 .. Len(p)
  BY WalkIs
<1> QED
  BY <1>1 DEF Locate, IsWalk

\* The root survives growth.
LEMMA GrownRoot ==
  ASSUME tree[<<>>] = "dir", Grows(tree, tree')
  PROVE  tree'[<<>>] = "dir"
  BY RootPlace DEF Grows

\* Opening a file takes no name away.
LEMMA OpenGrows ==
  ASSUME FileTypes, NEW p, NEW path_, NEW mode, Open(p, path_, mode)
  PROVE  Grows(tree, tree')
<1>1. PICK at \in Places :
        UNCHANGED tree \/ (tree[at] = "none" /\ \E i : tree' = [tree EXCEPT ![at] = i])
  BY DEF Open
<1> QED
  BY <1>1 DEF Grows, FileTypes

\* justFileRemove removes files only.
LEMMA RemoveRoot ==
  ASSUME FileTypes, tree[<<>>] = "dir", NEW p \in Procs, FileRemove(p)
  PROVE  tree'[<<>>] = "dir"
<1>1. PICK path_ \in FileArgs :
        justIsFile(path_) /\ tree' = [tree EXCEPT ![Locate(path_)] = "none"]
  BY DEF FileRemove
<1>2. tree[Locate(path_)] \in Inodes
  BY <1>1, FilesAssumption DEF justIsFile, At
<1>3. Locate(path_) # <<>>
  BY <1>2, FilesAssumption
<1> QED
  BY <1>1, <1>3, RootPlace DEF FileTypes

\* justFileRename neither moves the root nor replaces it.
LEMMA RenameRoot ==
  ASSUME FileTypes, tree[<<>>] = "dir", NEW p \in Procs, FileRename(p)
  PROVE  tree'[<<>>] = "dir"
<1>1. PICK move \in Moves :
        LET from == Locate(move[1])
            to   == Locate(move[2])
        IN  /\ from # Nowhere /\ to # Nowhere /\ from # <<>>
            /\ \/ tree[from] \in Inodes /\ tree[to] # "dir"
               \/ tree[from] = "dir" /\ tree[to] \in {"none", "dir"} /\ Below(to) = {}
            /\ tree' = [x \in Places |->
                          IF IsPrefix(to, x)
                            THEN LET was == Moved(x, to, from)
                                 IN  IF was \in Places THEN tree[was] ELSE "none"
                            ELSE IF IsPrefix(from, x) THEN "none" ELSE tree[x]]
  BY DEF FileRename
<1> DEFINE from == Locate(move[1])
           to   == Locate(move[2])
<1>2. from \in Places /\ to \in Places
  <2>1. move[1] \in Seq(Tokens) /\ move[2] \in Seq(Tokens)
    BY FilesAssumption
  <2> QED
    BY <1>1, <2>1, LocatePlace
<1>3. /\ from # <<>>
      /\ \/ tree[from] \in Inodes /\ tree[to] # "dir"
         \/ tree[from] = "dir" /\ tree[to] \in {"none", "dir"} /\ Below(to) = {}
      /\ ~IsPrefix(to, <<>>) /\ ~IsPrefix(from, <<>>) => tree'[<<>>] = tree[<<>>]
  BY <1>1, RootPlace
<1> HIDE DEF from, to
<1>4. to # <<>>
  <2> SUFFICES ASSUME to = <<>> PROVE FALSE
    OBVIOUS
  <2>1. tree[from] = "dir" /\ Below(<<>>) = {}
    BY <1>3
  <2>2. IsPrefix(<<>>, from)
    <3>1. from \in Seq(Names) /\ Len(<<>>) = 0 /\ Len(from) >= 0
      BY <1>2, PlacesAreSequences
    <3>2. SubSeq(<<>>, 1, 0) = <<>> /\ SubSeq(from, 1, 0) = <<>>
      BY SubSeqEmpty
    <3> QED
      BY <3>1, <3>2 DEF IsPrefix
  <2>3. from \in Below(<<>>)
    BY <1>2, <1>3, <2>1, <2>2 DEF Below
  <2> QED
    BY <2>1, <2>3
<1>5. ASSUME NEW x \in Places, x # <<>> PROVE ~IsPrefix(x, <<>>)
  <2>1. x \in Seq(Names) /\ <<>> \in Seq(Names)
    BY PlacesAreSequences
  <2>2. Len(x) > 0
    BY <1>5, <2>1
  <2> QED
    BY <2>1, <2>2 DEF IsPrefix
<1> QED
  BY <1>2, <1>3, <1>4, <1>5

-----------------------------------------------------------------------------
(* The calls that make directories, and the others *)

\* A call of its caller that makes no directory.
Plain(p) ==
  \E c : IsCall(c) /\ c.done \in BOOLEAN /\ c.op \notin DirOps /\ Becomes(p, c)

\* Such a call keeps what the directory calls rely on.
LEMMA PlainDirs ==
  ASSUME FileTypes, FileTypes', DirsInv, NEW p \in Procs, Plain(p), tree'[<<>>] = "dir"
  PROVE  DirsInv'
<1>1. PICK c : IsCall(c) /\ c.done \in BOOLEAN /\ c.op \notin DirOps /\ Becomes(p, c)
  BY DEF Plain
<1>2. DirCall(tree', c)
  BY <1>1 DEF DirCall
<1> QED
  BY <1>1, <1>2, StepDirs

\* A step of a handle is one.
LEMMA PlainNone ==
  ASSUME NEW p \in Procs, Becomes(p, NoCall)
  PROVE  Plain(p)
<1>1. NoCall.op \notin DirOps
  BY DEF NoCall, DirOps
<1> QED
  BY <1>1, CallShapes DEF Plain

\* So is the return of a file call or a listing,
LEMMA PlainReturns ==
  ASSUME FilesInv, NEW p \in Procs, NEW ok, Returns(p, ok), call[p].op \notin DirOps
  PROVE  Plain(p)
  BY ReturnsCall DEF Plain

\* every step of justFileReadEntire,
LEMMA PlainReads ==
  ASSUME FilesInv, NEW p \in Procs,
         \/ ReadBegins(p) \/ ReadSize(p) \/ ReadNoMemory(p) \/ ReadChunk(p) \/ ReadReturns(p)
  PROVE  Plain(p)
<1> DEFINE d == call[p]
<1>1. IsCall(d) /\ d.done \in BOOLEAN
  BY DEF FilesInv, FileTypes
<1>2. CASE ReadBegins(p)
  <2>1. PICK path_ \in FileArgs : Becomes(p, [New("read", path_) EXCEPT !.size = Unasked])
    BY <1>2 DEF ReadBegins
  <2> DEFINE c == [New("read", path_) EXCEPT !.size = Unasked]
  <2>2. IsCall(c) /\ c.done = FALSE /\ c.op = "read"
    BY DEF New, NoCall, IsCall, Fields
  <2> HIDE DEF c
  <2> QED
    BY <2>1, <2>2 DEF Plain, DirOps, c
<1>3. CASE ReadSize(p)
  <2> DEFINE s == SizeNow(file[p].ino)
             c == [d EXCEPT !.size = s]
             e == [d EXCEPT !.size = 0, !.err = TRUE]
  <2>1. d.op = "read" /\ (Becomes(p, c) \/ Becomes(p, e))
    BY <1>3 DEF ReadSize, Running
  <2> HIDE DEF d, s
  <2>2. /\ IsCall(c) /\ c.done = d.done /\ c.op = d.op
        /\ IsCall(e) /\ e.done = d.done /\ e.op = d.op
    BY <1>1 DEF IsCall, Fields
  <2> HIDE DEF c, e
  <2> QED
    BY <1>1, <2>1, <2>2 DEF Plain, DirOps
<1>4. CASE ReadNoMemory(p)
  BY <1>4, PlainReturns DEF ReadNoMemory, Running, DirOps
<1>5. CASE ReadChunk(p)
  <2>1. PICK k : /\ d.op = "read"
                 /\ Becomes(p, [d EXCEPT !.n = @ + Len(Chunk(p, k)), !.got = @ \o Chunk(p, k)])
    BY <1>5 DEF ReadChunk, Running
  <2> DEFINE b == Chunk(p, k)
             c == [d EXCEPT !.n = @ + Len(b), !.got = @ \o b]
  <2>2. Becomes(p, c)
    BY <2>1
  <2> HIDE DEF d, b
  <2>3. IsCall(c) /\ c.done = d.done /\ c.op = d.op
    BY <1>1 DEF IsCall, Fields
  <2> HIDE DEF c
  <2> QED
    BY <1>1, <2>1, <2>2, <2>3 DEF Plain, DirOps
<1>6. CASE ReadReturns(p)
  <2>1. PICK e : d.op = "read" /\ Becomes(p, [d EXCEPT !.done = TRUE, !.ok = TRUE, !.err = e])
    BY <1>6 DEF ReadReturns, Running
  <2> DEFINE c == [d EXCEPT !.done = TRUE, !.ok = TRUE, !.err = e]
  <2>2. Becomes(p, c)
    BY <2>1
  <2> HIDE DEF d
  <2>3. IsCall(c) /\ c.done = TRUE /\ c.op = d.op
    BY <1>1 DEF IsCall, Fields
  <2> HIDE DEF c
  <2> QED
    BY <2>1, <2>2, <2>3 DEF Plain, DirOps
<1> QED
  BY <1>2, <1>3, <1>4, <1>5, <1>6

\* of justFileWriteEntire and justFileAppendEntire,
LEMMA PlainWrites ==
  ASSUME FilesInv, NEW p \in Procs,
         \/ WriteBegins(p) \/ AppendNothing(p) \/ WriteChunk(p) \/ WriteFails(p)
         \/ WriteReturns(p)
  PROVE  Plain(p)
<1> DEFINE d == call[p]
<1>1. IsCall(d) /\ d.done \in BOOLEAN
  BY DEF FilesInv, FileTypes
<1>2. CASE WriteBegins(p)
  <2>1. PICK op, path_, size, before :
          op \in WriteOps /\ Becomes(p, [New(op, path_) EXCEPT !.size = size, !.before = before])
    BY <1>2 DEF WriteBegins
  <2> DEFINE c == [New(op, path_) EXCEPT !.size = size, !.before = before]
  <2>2. IsCall(c) /\ c.done = FALSE /\ c.op = op
    BY DEF New, NoCall, IsCall, Fields
  <2> HIDE DEF c
  <2> QED
    BY <2>1, <2>2 DEF Plain, DirOps, WriteOps, c
<1>3. CASE AppendNothing(p)
  <2> DEFINE c == [NoCall EXCEPT !.ok = TRUE]
  <2>1. IsCall(c) /\ c.done = TRUE /\ c.op = "none" /\ Becomes(p, c)
    BY <1>3 DEF IsCall, Fields, NoCall, AppendNothing
  <2> HIDE DEF c
  <2> QED
    BY <2>1 DEF Plain, DirOps
<1>4. CASE WriteChunk(p)
  <2>1. PICK op, k : op \in WriteOps /\ d.op = op /\ Becomes(p, [d EXCEPT !.n = @ + k])
    BY <1>4 DEF WriteChunk, Running
  <2> DEFINE c == [d EXCEPT !.n = @ + k]
  <2>2. Becomes(p, c)
    BY <2>1
  <2> HIDE DEF d
  <2>3. IsCall(c) /\ c.done = d.done /\ c.op = d.op
    BY <1>1 DEF IsCall, Fields
  <2> HIDE DEF c
  <2> QED
    BY <1>1, <2>1, <2>2, <2>3 DEF Plain, DirOps, WriteOps
<1>5. CASE WriteFails(p)
  BY <1>5, PlainReturns DEF WriteFails, Running, DirOps, WriteOps
<1>6. CASE WriteReturns(p)
  BY <1>6, PlainReturns DEF WriteReturns, Running, DirOps, WriteOps
<1> QED
  BY <1>2, <1>3, <1>4, <1>5, <1>6

\* and of justListDir.
LEMMA PlainLists ==
  ASSUME FilesInv, NEW p \in Procs,
         ListBegins(p) \/ ListEntry(p) \/ ListKind(p) \/ ListReturns(p)
  PROVE  Plain(p)
<1> DEFINE d == call[p]
<1>1. IsCall(d) /\ d.done \in BOOLEAN
  BY DEF FilesInv, FileTypes
<1>2. CASE ListBegins(p)
  <2>1. PICK path_, before :
          Becomes(p, [New("list", path_) EXCEPT !.got = {}, !.before = before])
    BY <1>2 DEF ListBegins
  <2> DEFINE c == [New("list", path_) EXCEPT !.got = {}, !.before = before]
  <2>2. IsCall(c) /\ c.done = FALSE /\ c.op = "list"
    BY DEF New, NoCall, IsCall, Fields
  <2> HIDE DEF c
  <2> QED
    BY <2>1, <2>2 DEF Plain, DirOps, c
<1>3. CASE ListEntry(p)
  <2>1. PICK name : d.op = "list" /\ Becomes(p, [d EXCEPT !.entry = name])
    BY <1>3 DEF ListEntry, Running
  <2> DEFINE c == [d EXCEPT !.entry = name]
  <2>2. Becomes(p, c)
    BY <2>1
  <2> HIDE DEF d
  <2>3. IsCall(c) /\ c.done = d.done /\ c.op = d.op
    BY <1>1 DEF IsCall, Fields
  <2> HIDE DEF c
  <2> QED
    BY <1>1, <2>1, <2>2, <2>3 DEF Plain, DirOps
<1>4. CASE ListKind(p)
  <2>1. PICK g, h :
          /\ d.op = "list"
          /\ \/ Becomes(p, [d EXCEPT !.entry = Nowhere, !.got = g])
             \/ Becomes(p, [d EXCEPT !.entry = Nowhere, !.got = h, !.err = TRUE])
    BY <1>4 DEF ListKind, Running
  <2> DEFINE b == [d EXCEPT !.entry = Nowhere, !.got = g]
             c == [d EXCEPT !.entry = Nowhere, !.got = h, !.err = TRUE]
  <2>2. Becomes(p, b) \/ Becomes(p, c)
    BY <2>1
  <2> HIDE DEF d
  <2>3. /\ IsCall(b) /\ b.done = d.done /\ b.op = d.op
        /\ IsCall(c) /\ c.done = d.done /\ c.op = d.op
    BY <1>1 DEF IsCall, Fields
  <2> HIDE DEF b, c
  <2> QED
    BY <1>1, <2>1, <2>2, <2>3 DEF Plain, DirOps
<1>5. CASE ListReturns(p)
  BY <1>5, ListReturnsCall DEF Plain, DirOps
<1> QED
  BY <1>2, <1>3, <1>4, <1>5

\* mkdir() only adds a name, and the path then names a directory.
LEMMA MadeNamed ==
  ASSUME FileTypes, tree' \in Trees, NEW q \in Seq(Tokens), CanMake(q), tree' = Made(q)
  PROVE  Grows(tree, tree') /\ Named(tree', q) = "dir"
<1>1. Locate(q) \in Places /\ tree[Locate(q)] = "none" /\ tree \in Trees
  BY LocatePlace DEF CanMake, FileTypes, Trees
<1>2. tree'[Locate(q)] = "dir" /\ \A at \in Places : at # Locate(q) => tree'[at] = tree[at]
  BY <1>1 DEF Made, Trees
<1>3. Grows(tree, tree')
  BY <1>1, <1>2 DEF Grows
<1>4. Walk(tree, q)[Len(q)] = Locate(q) /\ Locate(q) # Nowhere
  BY DEF Locate, CanMake
<1>5. Walk(tree', q)[Len(q)] = Locate(q)
  BY <1>1, <1>3, <1>4, NamedStill
<1> QED
  BY <1>2, <1>3, <1>4, <1>5 DEF Named

\* The mkdir() of justMkdir.
LEMMA MkdirBeginsDirs ==
  ASSUME FileTypes, FileTypes', DirsInv, NEW p \in Procs, MkdirBegins(p)
  PROVE  DirsInv'
<1>1. PICK path_ \in DirArgs :
        \/ /\ CanMake(path_) /\ tree' = Made(path_)
           /\ Becomes(p, [New("mkdir", path_) EXCEPT !.done = TRUE, !.ok = TRUE])
        \/ UNCHANGED tree /\ Becomes(p, New("mkdir", path_))
        \/ /\ UNCHANGED tree
           /\ \E e : Becomes(p, [New("mkdir", path_) EXCEPT !.done = TRUE, !.err = e])
  BY DEF MkdirBegins
<1>2. path_ \in Seq(Tokens) /\ tree \in Trees /\ tree' \in Trees /\ tree[<<>>] = "dir"
  BY FilesAssumption DEF FileTypes, Trees, DirsInv
<1>3. CASE CanMake(path_) /\ tree' = Made(path_)
           /\ Becomes(p, [New("mkdir", path_) EXCEPT !.done = TRUE, !.ok = TRUE])
  <2> DEFINE c == [New("mkdir", path_) EXCEPT !.done = TRUE, !.ok = TRUE]
  <2>1. Becomes(p, c)
    BY <1>3
  <2>2. IsCall(c) /\ c.done = TRUE /\ c.op = "mkdir" /\ c.path = path_ /\ c.n = 0
    BY DEF New, NoCall, IsCall, Fields
  <2> HIDE DEF c
  <2>3. Grows(tree, tree') /\ Named(tree', path_) = "dir"
    BY <1>2, <1>3, MadeNamed
  <2>4. tree'[<<>>] = "dir"
    BY <1>2, <2>3, GrownRoot
  <2>5. DirCall(tree', c)
    BY <2>2, <2>3 DEF DirCall, DirResult
  <2> QED
    BY <2>1, <2>2, <2>4, <2>5, StepDirs
<1>4. CASE UNCHANGED tree /\ Becomes(p, New("mkdir", path_))
  <2> DEFINE c == New("mkdir", path_)
  <2>1. Becomes(p, c) /\ tree'[<<>>] = "dir"
    BY <1>2, <1>4
  <2>2. IsCall(c) /\ c.done = FALSE /\ c.op = "mkdir" /\ c.path = path_ /\ c.n = 0
    BY DEF New, NoCall, IsCall, Fields
  <2> HIDE DEF c
  <2>3. DirCall(tree', c)
    BY <2>2 DEF DirCall, DirResult
  <2> QED
    BY <2>1, <2>2, <2>3, StepDirs
<1>5. CASE UNCHANGED tree
           /\ \E e : Becomes(p, [New("mkdir", path_) EXCEPT !.done = TRUE, !.err = e])
  <2>1. PICK e : Becomes(p, [New("mkdir", path_) EXCEPT !.done = TRUE, !.err = e])
    BY <1>5
  <2> DEFINE c == [New("mkdir", path_) EXCEPT !.done = TRUE, !.err = e]
  <2>2. Becomes(p, c) /\ tree'[<<>>] = "dir"
    BY <1>2, <1>5, <2>1
  <2>3. /\ IsCall(c) /\ c.done = TRUE /\ c.ok = FALSE
        /\ c.op = "mkdir" /\ c.path = path_ /\ c.n = 0
    BY DEF New, NoCall, IsCall, Fields
  <2> HIDE DEF c
  <2>4. DirCall(tree', c)
    BY <2>3 DEF DirCall, DirResult
  <2> QED
    BY <2>2, <2>3, <2>4, StepDirs
<1> QED
  BY <1>1, <1>3, <1>4, <1>5

\* Its look at what was there.
LEMMA MkdirChecksDirs ==
  ASSUME FileTypes, FileTypes', DirsInv, NEW p \in Procs, MkdirChecks(p)
  PROVE  DirsInv'
<1> DEFINE d == call[p]
<1>0. PICK ok \in {justIsDirectory(d.path), FALSE} : Returns(p, ok)
  BY DEF MkdirChecks
<1> DEFINE c == [d EXCEPT !.done = TRUE, !.ok = ok]
<1>1. /\ d.op = "mkdir" /\ UNCHANGED tree /\ Becomes(p, c)
      /\ IsCall(d) /\ DirCall(tree, d) /\ tree[<<>>] = "dir"
  BY <1>0 DEF MkdirChecks, Running, Returns, FileTypes, DirsInv
<1>2. ok => Named(tree, d.path) = "dir"
  BY <1>0, NamedAt DEF justIsDirectory
<1> HIDE DEF d
<1>3. /\ IsCall(c) /\ c.done = TRUE /\ c.ok = ok /\ c.op = "mkdir" /\ c.path = d.path
      /\ c.n = d.n /\ c.hits = d.hits
  BY <1>1 DEF IsCall, Fields
<1> HIDE DEF c
<1>4. DirResult(tree', c)
  BY <1>1, <1>2, <1>3, Zenon DEF DirResult
<1>5. DirCall(tree', c)
  BY <1>1, <1>3, <1>4 DEF DirCall, DirOps
<1> QED
  BY <1>1, <1>3, <1>5, StepDirs

\* justMkdirRecursive begins with no prefix made.
LEMMA MkdirsBeginsDirs ==
  ASSUME FileTypes, FileTypes', DirsInv, NEW p \in Procs, MkdirsBegins(p)
  PROVE  DirsInv'
<1>1. PICK path_ \in DirArgs : UNCHANGED tree /\ Becomes(p, New("mkdirs", path_))
  BY DEF MkdirsBegins
<1> DEFINE c == New("mkdirs", path_)
<1>2. Becomes(p, c) /\ tree'[<<>>] = "dir"
  BY <1>1 DEF DirsInv
<1>3. /\ IsCall(c) /\ c.done = FALSE /\ c.ok = FALSE
      /\ c.op = "mkdirs" /\ c.path = path_ /\ c.n = 0
  BY DEF New, NoCall, IsCall, Fields
<1> HIDE DEF c
<1>4. \A i \in Cuts(path_) : ~(i <= 0)
  BY DEF Cuts
<1>5. DirCall(tree', c)
  BY <1>3, <1>4 DEF DirCall, DirResult
<1> QED
  BY <1>2, <1>3, <1>5, StepDirs

\* A prefix that is there now: the call returns, or goes on with one more.
LEMMA AdvancesDirs ==
  ASSUME FileTypes, FileTypes', DirsInv, NEW p \in Procs, InCall(p, "mkdirs"),
         NEW q, q = Prefix(call[p].path, call[p].n), Advances(p, q),
         Grows(tree, tree'), Named(tree', q) # "none"
  PROVE  DirsInv'
<1> DEFINE d == call[p]
           len == Len(q) + 1
<1>1. /\ d.op = "mkdirs" /\ ~d.done /\ d.done \in BOOLEAN /\ IsCall(d) /\ DirCall(tree, d)
      /\ Becomes(p, IF q = d.path THEN [d EXCEPT !.done = TRUE, !.ok = TRUE]
                                  ELSE [d EXCEPT !.n = len])
  BY DEF InCall, FileTypes, DirsInv, Advances
<1>2. d.path \in DirArgs /\ d.n \in Nat /\ q = Prefix(d.path, d.n)
  BY <1>1 DEF DirCall, DirOps
<1>3. d.path \in Seq(Tokens) /\ tree \in Trees /\ tree' \in Trees /\ tree'[<<>>] = "dir"
  BY <1>2, GrownRoot, FilesAssumption DEF FileTypes, Trees, DirsInv
<1>4. DirCall(tree', d)
  BY <1>1, <1>3, DirCallStill
<1> HIDE DEF d
<1>5. CASE q = d.path
  <2> DEFINE c == [d EXCEPT !.done = TRUE, !.ok = TRUE]
  <2>1. Becomes(p, c)
    BY <1>1, <1>5
  <2>2. /\ IsCall(c) /\ c.done = TRUE /\ c.ok = TRUE /\ c.op = "mkdirs"
        /\ c.path = d.path /\ c.n = d.n
    BY <1>1 DEF IsCall, Fields
  <2> HIDE DEF c
  <2>3. DirCall(tree', c)
    BY <1>2, <1>5, <2>2 DEF DirCall, DirResult
  <2> QED
    BY <1>3, <2>1, <2>2, <2>3, StepDirs
<1>6. CASE q # d.path
  <2> DEFINE c == [d EXCEPT !.n = len]
  <2>1. Becomes(p, c)
    BY <1>1, <1>6
  <2>2. PICK m \in Cuts(d.path) : /\ m > d.n /\ \A i \in Cuts(d.path) : i > d.n => m <= i
                                  /\ q = SubSeq(d.path, 1, m - 1)
    BY <1>2, <1>3, <1>6, PrefixIs
  <2>3. Len(d.path) \in Nat /\ m \in Nat /\ m - 1 \in 1 .. Len(d.path)
    BY <1>3 DEF Cuts
  <2>4. len = m
    <3>1. Len(SubSeq(d.path, 1, m - 1)) = m - 1
      BY <1>3, <2>3, CutPath
    <3> QED
      BY <2>2, <2>3, <3>1
  <2> HIDE DEF len
  <2>5. /\ IsCall(c) /\ c.done = d.done /\ c.ok = d.ok /\ c.op = "mkdirs"
        /\ c.path = d.path /\ c.n = m /\ c.hits = d.hits
    BY <1>1, <2>4 DEF IsCall, Fields
  <2> HIDE DEF c
  <2>6. ASSUME "move" \notin d.hits, NEW i \in Cuts(d.path), i <= m
        PROVE  Named(tree', SubSeq(d.path, 1, i - 1)) # "none"
    <3>1. CASE i <= d.n
      <4>1. DirResult(tree', d)
        BY <1>1, <1>4, <2>6 DEF DirCall, DirOps
      <4> QED
        BY <1>1, <3>1, <4>1 DEF DirResult
    <3>2. CASE ~(i <= d.n)
      <4>1. i \in Nat
        BY DEF Cuts
      <4>2. i = m
        BY <1>2, <2>2, <2>3, <2>6, <3>2, <4>1
      <4> QED
        BY <2>2, <4>2
    <3> QED
      BY <3>1, <3>2
  <2>7. "move" \notin d.hits => DirResult(tree', c)
    BY <1>1, <2>5, <2>6, Zenon DEF DirResult
  <2>8. ~c.ok
    BY <1>1, <2>5, Zenon DEF DirCall, DirOps
  <2>9. DirCall(tree', c)
    BY <1>2, <2>3, <2>5, <2>7, <2>8 DEF DirCall, DirOps
  <2> QED
    BY <1>1, <1>3, <2>1, <2>5, <2>9, StepDirs
<1> QED
  BY <1>5, <1>6

\* mkdir() failed, and not because the prefix is there.
LEMMA GivesUpDirs ==
  ASSUME FileTypes, FileTypes', DirsInv, DirsFit,
         NEW p \in Procs, InCall(p, "mkdirs"), UNCHANGED tree,
         NEW q, q = Prefix(call[p].path, call[p].n),
         Becomes(p, [call[p] EXCEPT !.done = TRUE, !.err = Locate(q) # Nowhere])
  PROVE  DirsInv'
<1> DEFINE d == call[p]
           e == Locate(q) # Nowhere
           c == [d EXCEPT !.done = TRUE, !.err = e]
<1>1. /\ d.op = "mkdirs" /\ ~d.done /\ d.done \in BOOLEAN /\ IsCall(d) /\ DirCall(tree, d)
      /\ Becomes(p, c) /\ tree[<<>>] = "dir" /\ tree' = tree
  BY DEF InCall, FileTypes, DirsInv
<1>2. d.path \in DirArgs /\ d.n \in Nat /\ q = Prefix(d.path, d.n)
  BY <1>1 DEF DirCall, DirOps
<1>3. d.path \in Seq(Tokens) /\ tree \in Trees
  BY <1>2, FilesAssumption DEF FileTypes, Trees
<1>4. tree[Start(d.path)] = "dir"
  BY <1>1, <1>2 DEF DirsFit, Start
<1>5. ~e => Walk(tree, q)[Len(q)] = Nowhere
  BY DEF Locate
<1> HIDE DEF d, e
<1>6. /\ IsCall(c) /\ c.done = TRUE /\ c.err = e /\ c.ok = d.ok /\ c.op = "mkdirs"
      /\ c.path = d.path /\ c.n = d.n /\ c.hits = d.hits
  BY <1>1 DEF IsCall, Fields
<1> HIDE DEF c
<1>7. ASSUME "move" \notin d.hits, ~e
      PROVE  \E i \in Cuts(d.path) : Named(tree, SubSeq(d.path, 1, i - 1)) \in Inodes
  <2>1. DirResult(tree, d)
    BY <1>1, <1>7 DEF DirCall, DirOps
  <2>2. \A i \in Cuts(d.path) : i <= d.n => Named(tree, SubSeq(d.path, 1, i - 1)) # "none"
    BY <1>1, <2>1, Zenon DEF DirResult
  <2> QED
    BY <1>2, <1>3, <1>4, <1>5, <1>7, <2>2, MetFile
<1>8. ~d.ok
  BY <1>1, Zenon DEF DirCall, DirOps
<1>9. "move" \notin d.hits => DirResult(tree', c)
  BY <1>1, <1>6, <1>7, <1>8, Zenon DEF DirResult
<1>10. DirCall(tree', c)
  BY <1>2, <1>6, <1>9 DEF DirCall, DirOps
<1> QED
  BY <1>1, <1>6, <1>10, StepDirs

\* Each of its mkdir() calls.
LEMMA MkdirsStepDirs ==
  ASSUME FileTypes, FileTypes', DirsInv, DirsFit,
         NEW p \in Procs, MkdirsStep(p)
  PROVE  DirsInv'
<1> DEFINE d == call[p]
           q == Prefix(d.path, d.n)
<1>1. /\ InCall(p, "mkdirs")
      /\ \/ CanMake(q) /\ tree' = Made(q) /\ Advances(p, q)
         \/ justFileExists(q) /\ UNCHANGED tree /\ Advances(p, q)
         \/ /\ UNCHANGED tree
            /\ Becomes(p, [call[p] EXCEPT !.done = TRUE, !.err = Locate(q) # Nowhere])
  BY DEF MkdirsStep, Running, InCall
<1>2. d.path \in DirArgs /\ d.n \in Nat
  BY <1>1 DEF DirsInv, DirCall, DirOps, InCall
<1>3. d.path \in Seq(Tokens) /\ tree \in Trees /\ tree' \in Trees
  BY <1>2, FilesAssumption DEF FileTypes, Trees
<1>4. q \in Seq(Tokens)
  <2> HIDE DEF d
  <2>1. CASE q = d.path
    BY <1>3, <2>1
  <2>2. CASE \E m \in Cuts(d.path) : q = SubSeq(d.path, 1, m - 1)
    <3>1. PICK m \in Cuts(d.path) : q = SubSeq(d.path, 1, m - 1)
      BY <2>2
    <3>2. m - 1 \in 1 .. Len(d.path)
      BY <1>3 DEF Cuts
    <3> QED
      BY <1>3, <3>1, <3>2, CutPath
  <2> QED
    BY <1>2, <1>3, <2>1, <2>2, PrefixIs
<1>5. q = Prefix(call[p].path, call[p].n)
  OBVIOUS
<1> HIDE DEF d, q
<1>6. CASE CanMake(q) /\ tree' = Made(q) /\ Advances(p, q)
  <2>1. Grows(tree, tree') /\ Named(tree', q) = "dir"
    BY <1>3, <1>4, <1>6, MadeNamed
  <2>2. Named(tree', q) # "none"
    BY <2>1
  <2> QED
    BY <1>1, <1>5, <1>6, <2>1, <2>2, AdvancesDirs
<1>7. CASE justFileExists(q) /\ UNCHANGED tree /\ Advances(p, q)
  <2>1. Grows(tree, tree')
    BY <1>7 DEF Grows
  <2>2. Named(tree', q) # "none"
    BY <1>7, NamedAt DEF justFileExists
  <2> QED
    BY <1>1, <1>5, <1>7, <2>1, <2>2, AdvancesDirs
<1>8. CASE /\ UNCHANGED tree
           /\ Becomes(p, [call[p] EXCEPT !.done = TRUE, !.err = Locate(q) # Nowhere])
  BY <1>1, <1>5, <1>8, GivesUpDirs
<1> QED
  BY <1>1, <1>6, <1>7, <1>8

\* A process that dies leaves the tree as it is.
LEMMA CrashDirs ==
  ASSUME FileTypes, DirsInv, NEW p \in Procs, Crash(p)
  PROVE  DirsInv'
<1>1. call' = [call EXCEPT ![p] = NoCall] /\ tree' = tree
  BY DEF Crash
<1>2. DirCall(tree', NoCall)
  BY DEF DirCall, DirOps, NoCall
<1>3. \A q \in Procs : call'[q] = IF q = p THEN NoCall ELSE call[q]
  BY <1>1 DEF FileTypes
<1> QED
  BY <1>1, <1>2, <1>3 DEF DirsInv

\* A step on files leaves the root where it is.
LEMMA FilesRoot ==
  ASSUME FileTypes, tree[<<>>] = "dir", NEW p \in Procs,
         \/ HandleOpen(p) \/ HandleClose(p) \/ HandleRead(p) \/ HandleWrite(p)
         \/ HandleSeek(p)
         \/ ReadBegins(p) \/ ReadSize(p) \/ ReadNoMemory(p) \/ ReadChunk(p)
         \/ ReadReturns(p)
         \/ WriteBegins(p) \/ AppendNothing(p) \/ WriteChunk(p) \/ WriteFails(p)
         \/ WriteReturns(p)
         \/ ListBegins(p) \/ ListEntry(p) \/ ListKind(p) \/ ListReturns(p)
  PROVE  tree'[<<>>] = "dir"
<1>1. CASE \E path_, mode : Open(p, path_, mode)
  BY <1>1, OpenGrows, GrownRoot
<1>2. CASE UNCHANGED tree
  BY <1>2
<1>3. CASE HandleOpen(p) \/ ReadBegins(p) \/ WriteBegins(p)
  BY <1>1, <1>3 DEF HandleOpen, ReadBegins, WriteBegins
<1>4. CASE HandleClose(p) \/ HandleRead(p) \/ HandleWrite(p) \/ HandleSeek(p)
  BY <1>2, <1>4 DEF HandleClose, HandleRead, HandleWrite, HandleSeek, Writes
<1>5. CASE ReadSize(p) \/ ReadNoMemory(p) \/ ReadChunk(p) \/ ReadReturns(p)
  BY <1>2, <1>5 DEF ReadSize, ReadNoMemory, ReadChunk, ReadReturns
<1>6. CASE AppendNothing(p) \/ WriteChunk(p) \/ WriteFails(p) \/ WriteReturns(p)
  BY <1>2, <1>6 DEF AppendNothing, WriteChunk, WriteFails, WriteReturns, Writes
<1>7. CASE ListBegins(p) \/ ListEntry(p) \/ ListKind(p) \/ ListReturns(p)
  BY <1>2, <1>7 DEF ListBegins, ListEntry, ListKind, ListReturns
<1> QED
  BY <1>3, <1>4, <1>5, <1>6, <1>7

\* Every step keeps the invariant of the directory calls.
LEMMA DirsStep ==
  ASSUME FilesInv, FilesInv', DirsInv, DirsFit,
         [FilesystemNext]_<<pathVars, fileVars>>
  PROVE  DirsInv'
<1>1. FileTypes /\ FileTypes' /\ tree[<<>>] = "dir"
  BY DEF FilesInv, DirsInv
<1>2. CASE UNCHANGED fileVars
  BY <1>2 DEF fileVars, DirsInv
<1>3. ASSUME NEW p \in Procs,
             \/ HandleOpen(p) \/ HandleClose(p) \/ HandleRead(p) \/ HandleWrite(p)
             \/ HandleSeek(p)
      PROVE  DirsInv'
  <2>1. Plain(p)
    BY <1>3, PlainNone DEF HandleOpen, HandleClose, HandleRead, HandleWrite, HandleSeek
  <2>2. tree'[<<>>] = "dir"
    BY <1>1, <1>3, FilesRoot
  <2> QED
    BY <1>1, <2>1, <2>2, PlainDirs
<1>4. ASSUME NEW p \in Procs,
             \/ ReadBegins(p) \/ ReadSize(p) \/ ReadNoMemory(p) \/ ReadChunk(p)
             \/ ReadReturns(p)
      PROVE  DirsInv'
  <2>1. Plain(p)
    BY <1>4, PlainReads
  <2>2. tree'[<<>>] = "dir"
    BY <1>1, <1>4, FilesRoot
  <2> QED
    BY <1>1, <2>1, <2>2, PlainDirs
<1>5. ASSUME NEW p \in Procs,
             \/ WriteBegins(p) \/ AppendNothing(p) \/ WriteChunk(p) \/ WriteFails(p)
             \/ WriteReturns(p)
      PROVE  DirsInv'
  <2>1. Plain(p)
    BY <1>5, PlainWrites
  <2>2. tree'[<<>>] = "dir"
    BY <1>1, <1>5, FilesRoot
  <2> QED
    BY <1>1, <2>1, <2>2, PlainDirs
<1>6. ASSUME NEW p \in Procs, ListBegins(p) \/ ListEntry(p) \/ ListKind(p) \/ ListReturns(p)
      PROVE  DirsInv'
  <2>1. Plain(p)
    BY <1>6, PlainLists
  <2>2. tree'[<<>>] = "dir"
    BY <1>1, <1>6, FilesRoot
  <2> QED
    BY <1>1, <2>1, <2>2, PlainDirs
<1>7. ASSUME NEW p \in Procs, FileRemove(p) \/ FileRename(p)
      PROVE  DirsInv'
  <2>1. Plain(p)
    BY <1>7, PlainNone DEF FileRemove, FileRename
  <2>2. tree'[<<>>] = "dir"
    BY <1>1, <1>7, RemoveRoot, RenameRoot
  <2> QED
    BY <1>1, <2>1, <2>2, PlainDirs
<1>8. ASSUME NEW p \in Procs,
             MkdirBegins(p) \/ MkdirChecks(p) \/ MkdirsBegins(p) \/ MkdirsStep(p) \/ Crash(p)
      PROVE  DirsInv'
  BY <1>1, <1>8, MkdirBeginsDirs, MkdirChecksDirs, MkdirsBeginsDirs, MkdirsStepDirs, CrashDirs
<1>9. CASE FilesNext
  BY <1>3, <1>4, <1>5, <1>6, <1>7, <1>8, <1>9 DEF FilesNext
<1> QED
  BY <1>2, <1>9 DEF FilesystemNext

\* It holds at the start,
LEMMA DirsInitially ==
  ASSUME FilesInit
  PROVE  DirsInv
<1>1. tree[<<>>] = "dir"
  BY RootPlace DEF FilesInit
<1>2. ASSUME NEW p \in Procs PROVE DirCall(tree, call[p])
  <2>1. call[p] = NoCall
    BY DEF FilesInit
  <2> QED
    BY <2>1 DEF DirCall, DirOps, NoCall
<1> QED
  BY <1>1, <1>2 DEF DirsInv

\* and it implies the property.
LEMMA DirsMean ==
  ASSUME FileTypes, DirsInv
  PROVE  MkdirsCooperate
<1> SUFFICES ASSUME NEW p \in Procs, "move" \notin call[p].hits
             PROVE  LET c == call[p]
                    IN  /\ Finished(p, "mkdir") /\ c.ok => justIsDirectory(c.path)
                        /\ Finished(p, "mkdirs") /\ c.ok =>
                             /\ justFileExists(c.path)
                             /\ \A i \in Cuts(c.path) :
                                  (\E j \in i .. Len(c.path) : ~Slash(c.path[j])) =>
                                    justIsDirectory(SubSeq(c.path, 1, i - 1))
                        /\ Finished(p, "mkdirs") /\ ~c.ok /\ ~c.err =>
                             \E i \in Cuts(c.path) : justIsFile(SubSeq(c.path, 1, i - 1))
  BY Zenon DEF MkdirsCooperate
<1> DEFINE c == call[p]
<1>1. tree \in Trees /\ DirCall(tree, c)
  BY DEF FileTypes, Trees, DirsInv
<1>2. ASSUME c.op \in DirOps
      PROVE  DirResult(tree, c) /\ c.path \in Seq(Tokens)
  BY <1>1, <1>2, FilesAssumption DEF DirCall
<1>3. ASSUME Finished(p, "mkdir"), c.ok
      PROVE  justIsDirectory(c.path)
  <2>1. c.op = "mkdir" /\ c.done /\ c.op \in DirOps
    BY <1>3 DEF Finished, DirOps
  <2>2. Named(tree, c.path) = "dir"
    BY <1>2, <1>3, <2>1, Zenon DEF DirResult
  <2> QED
    BY <2>2, NamedAt DEF justIsDirectory
<1>4. ASSUME Finished(p, "mkdirs"), c.ok
      PROVE  /\ justFileExists(c.path)
             /\ \A i \in Cuts(c.path) :
                  (\E j \in i .. Len(c.path) : ~Slash(c.path[j])) =>
                    justIsDirectory(SubSeq(c.path, 1, i - 1))
  <2>1. c.op = "mkdirs" /\ c.done /\ c.op \in DirOps
    BY <1>4 DEF Finished, DirOps
  <2>2. Named(tree, c.path) # "none" /\ c.path \in Seq(Tokens)
    BY <1>2, <1>4, <2>1, Zenon DEF DirResult
  <2>3. justFileExists(c.path)
    BY <2>2, NamedAt DEF justFileExists
  <2>4. ASSUME NEW i \in Cuts(c.path), \E j \in i .. Len(c.path) : ~Slash(c.path[j])
        PROVE  justIsDirectory(SubSeq(c.path, 1, i - 1))
    <3> HIDE DEF c
    <3>1. Named(tree, SubSeq(c.path, 1, i - 1)) = "dir"
      BY <1>1, <2>2, <2>4, WayToIt
    <3> QED
      BY <3>1, NamedAt DEF justIsDirectory
  <2> QED
    BY <2>3, <2>4, Zenon
<1>5. ASSUME Finished(p, "mkdirs"), ~c.ok, ~c.err
      PROVE  \E i \in Cuts(c.path) : justIsFile(SubSeq(c.path, 1, i - 1))
  <2>1. c.op = "mkdirs" /\ c.done /\ c.op \in DirOps
    BY <1>5 DEF Finished, DirOps
  <2>2. PICK i \in Cuts(c.path) : Named(tree, SubSeq(c.path, 1, i - 1)) \in Inodes
    BY <1>2, <1>5, <2>1, Zenon DEF DirResult
  <2>3. justIsFile(SubSeq(c.path, 1, i - 1))
    BY <2>2, NamedAt DEF justIsFile
  <2> QED
    BY <2>3
<1> QED
  BY <1>3, <1>4, <1>5, Zenon

\* justMkdir and justMkdirRecursive, called by any number of processes for
\* overlapping paths, leave what they promise, as long as no name is taken
\* away; a failure without a system error means that a file was in the way.
THEOREM FilesMkdirsCooperate ==
  ASSUME DirsFit
  PROVE  FilesystemSpec => []MkdirsCooperate
<1>1. FilesystemInit => DirsInv
  BY DirsInitially DEF FilesystemInit
<1>2. FilesInv /\ FilesInv' /\ DirsInv /\ [FilesystemNext]_<<pathVars, fileVars>>
        => DirsInv'
  BY DirsStep
<1>3. FilesInv /\ DirsInv => MkdirsCooperate
  BY DirsMean DEF FilesInv
<1> QED
  BY <1>1, <1>2, <1>3, FilesInvariant, PTL DEF FilesystemSpec

-----------------------------------------------------------------------------
(* Calls during which nobody else changes anything *)

\* Bytes, SizeNow and Entries of the trees and contents that a step leads to.
Content(dt, ino) == IF ino \in Inodes THEN dt[ino] ELSE <<>>
SizeOf(dt, ino) == IF ino \in Inodes THEN Len(dt[ino]) ELSE 1

Leaf(tr, p, name) == tr[Append(Walk(tr, p)[Len(p)], name)]
EntriesIn(tr, p) ==
  IF Named(tr, p) = "dir" THEN {name \in Names : Leaf(tr, p, name) # "none"} ELSE {}

KindsIn(tr, p) ==
  {[name |-> name, isDir |-> Leaf(tr, p, name) = "dir"] : name \in EntriesIn(tr, p)}

\* What a callback may be told: a name that is there, and that it is a
\* directory only of one that is.
ReportsIn(tr, p) ==
  {e \in [name : EntriesIn(tr, p), isDir : BOOLEAN] : e.isDir => Leaf(tr, p, e.name) = "dir"}

\* A read has the file that its path names and has got the beginning of it.
ReadOf(tr, dt, f, c) ==
  /\ ~c.done =>
       /\ Named(tr, c.path) = f.ino /\ f.ino \in Inodes \cup {"dir"}
       /\ c.got \in Seq(Byte) /\ IsPrefix(c.got, Content(dt, f.ino))
       /\ c.n = Len(c.got) /\ f.pos = c.n
       /\ c.size # Unasked /\ ~c.err => c.size = SizeOf(dt, f.ino)
  /\ c.done /\ c.ok =>
       /\ Named(tr, c.path) \in Inodes => IsPrefix(c.got, dt[Named(tr, c.path)])
       /\ ~c.err => /\ Named(tr, c.path) \in Inodes
                    /\ Len(c.got) = Len(dt[Named(tr, c.path)])

\* The file a write has is what it has written.
WriteOf(tr, dt, f, c, p) ==
  /\ ~c.done =>
       /\ Named(tr, c.path) = f.ino /\ f.pos = c.n
       /\ dt[f.ino] = SubSeq(Buffer(p), 1, c.n)
  /\ c.done =>
       /\ Named(tr, c.path) \in Inodes
       /\ dt[Named(tr, c.path)] = SubSeq(Buffer(p), 1, c.n)
       /\ c.ok <=> c.n = c.size

\* A listing has reported what there is, some directories as no directory
\* after an error only, and knows what there was.
ListOf(tr, c) ==
  /\ ~c.done =>
       /\ c.path \in DirArgs /\ Named(tr, c.path) = "dir"
       /\ Len(Walk(tr, c.path)[Len(c.path)]) < MaxDepth
       /\ c.before = EntriesIn(tr, c.path)
       /\ c.entry # Nowhere => c.entry \in EntriesIn(tr, c.path)
       /\ ~c.err => c.got \subseteq KindsIn(tr, c.path)
  /\ c.done /\ ~c.err => c.got = KindsIn(tr, c.path)
  /\ c.got \subseteq ReportsIn(tr, c.path)

ExactCall(tr, dt, f, c, p) ==
  c.hits = {} =>
    /\ c.op = "read" => ReadOf(tr, dt, f, c)
    /\ c.op = "write" => WriteOf(tr, dt, f, c, p)
    /\ c.op = "list" => ListOf(tr, c)

ExactInv == \A p \in Procs : ExactCall(tree, data, file[p], call[p], p)

\* A call that has noted nothing is as it was, and so is what it is about.
LEMMA OthersExact ==
  ASSUME FileTypes, NEW p \in Procs, NEW q \in Procs, p # q, NEW c, Becomes(p, c),
         file'[q] = file[q], ExactCall(tree, data, file[q], call[q], q)
  PROVE  ExactCall(tree', data', file'[q], call'[q], q)
<1>1. CASE call[q] = NoCall
  <2>1. call'[q] = NoCall
    BY <1>1 DEF Becomes
  <2> QED
    BY <2>1 DEF ExactCall, NoCall
<1>2. CASE call[q] # NoCall
  <2> SUFFICES ASSUME call'[q].hits = {}
               PROVE  ExactCall(tree', data', file'[q], call'[q], q)
    BY DEF ExactCall
  <2>1. call'[q] = [call[q] EXCEPT !.hits = @ \cup Events]
    BY <1>2 DEF Becomes
  <2> DEFINE b == call[q]
             d == call'[q]
             e == Events
  <2>2. IsCall(b) /\ d = [b EXCEPT !.hits = @ \cup e] /\ d.hits = {}
    BY <2>1 DEF FileTypes
  <2> HIDE DEF b, d, e
  <2>3. d.hits = b.hits \cup e
    BY <2>2 DEF IsCall, Fields
  <2>4. e = {} /\ b.hits = {}
    BY <2>2, <2>3
  <2>5. d = b
    BY <2>2, <2>4 DEF IsCall, Fields
  <2>6. tree' = tree /\ data' = data
    <3>1. "change" \notin Events
      BY <2>4 DEF e
    <3> QED
      BY <3>1 DEF Events
  <2> QED
    BY <2>5, <2>6 DEF b, d
<1> QED
  BY <1>1, <1>2

\* A step is sound when its own call is.
LEMMA StepExact ==
  ASSUME FileTypes, ExactInv, NEW p \in Procs, NEW c, IsCall(c), c.done \in BOOLEAN,
         Becomes(p, c), \A q \in Procs \ {p} : file'[q] = file[q],
         ExactCall(tree', data', file'[p], c, p)
  PROVE  ExactInv'
<1>1. call'[p] = c
  BY BecomesCall
<1>2. ASSUME NEW q \in Procs PROVE ExactCall(tree', data', file'[q], call'[q], q)
  <2>1. CASE q = p
    BY <1>1, <2>1
  <2>2. CASE q # p
    <3>1. ExactCall(tree, data, file[q], call[q], q) /\ file'[q] = file[q]
      BY <2>2 DEF ExactInv
    <3> QED
      BY <2>2, <3>1, OthersExact
  <2> QED
    BY <2>1, <2>2
<1> QED
  BY <1>2 DEF ExactInv

\* A process touches no descriptor but its own.
LEMMA OthersFiles ==
  ASSUME FileTypes, NEW p \in Procs,
         \/ UNCHANGED file \/ Close(p)
         \/ \E pos : Advanced(p, pos)
         \/ \E path_, mode : Open(p, path_, mode)
  PROVE  \A q \in Procs \ {p} : file'[q] = file[q]
<1>1. UNCHANGED file \/ \E h : file' = [file EXCEPT ![p] = h]
  <2>1. CASE UNCHANGED file
    BY <2>1
  <2>2. CASE Close(p)
    BY <2>2 DEF Close
  <2>3. CASE \E pos : Advanced(p, pos)
    <3>1. PICK pos : file' = [file EXCEPT ![p].pos = pos]
      BY <2>3 DEF Advanced
    <3>2. file' = [file EXCEPT ![p] = [file[p] EXCEPT !.pos = pos]]
      BY <3>1
    <3> QED
      BY <3>2
  <2>4. CASE \E path_, mode : Open(p, path_, mode)
    BY <2>4 DEF Open
  <2> QED
    BY <2>1, <2>2, <2>3, <2>4
<1>2. file \in [Procs -> Handles]
  BY DEF FileTypes
<1> QED
  BY <1>1, <1>2

\* The last calls that the property is not about.
Aside(p) ==
  \E c : /\ IsCall(c) /\ c.done \in BOOLEAN /\ c.op \notin {"read", "write", "list"}
         /\ Becomes(p, c)

\* A step of a call that the property is not about.
LEMMA AsideExact ==
  ASSUME FileTypes, ExactInv, NEW p \in Procs, Aside(p),
         \A q \in Procs \ {p} : file'[q] = file[q]
  PROVE  ExactInv'
<1>1. PICK c : /\ IsCall(c) /\ c.done \in BOOLEAN /\ c.op \notin {"read", "write", "list"}
               /\ Becomes(p, c)
  BY DEF Aside
<1>2. ExactCall(tree', data', file'[p], c, p)
  BY <1>1 DEF ExactCall
<1> QED
  BY <1>1, <1>2, StepExact

\* Such are the steps of handles and names,
LEMMA AsideNone ==
  ASSUME NEW p \in Procs, Becomes(p, NoCall)
  PROVE  Aside(p)
<1>1. NoCall.op = "none"
  BY DEF NoCall
<1> QED
  BY <1>1, CallShapes DEF Aside

\* the returns of other calls,
LEMMA AsideReturns ==
  ASSUME FilesInv, NEW p \in Procs, NEW ok, Returns(p, ok),
         call[p].op \notin {"read", "write", "list"}
  PROVE  Aside(p)
<1>1. PICK c : IsCall(c) /\ c.done = TRUE /\ c.op = call[p].op /\ Becomes(p, c)
  BY ReturnsCall
<1> QED
  BY <1>1 DEF Aside

\* The calls on directories that are no listings.
LEMMA AsideDirs ==
  ASSUME FilesInv, NEW p \in Procs,
         MkdirBegins(p) \/ MkdirChecks(p) \/ MkdirsBegins(p) \/ MkdirsStep(p)
  PROVE  Aside(p)
<1> DEFINE d == call[p]
<1>1. IsCall(d) /\ d.done \in BOOLEAN
  BY DEF FilesInv, FileTypes
<1>2. CASE MkdirBegins(p)
  <2>1. PICK path_, e :
          \/ Becomes(p, [New("mkdir", path_) EXCEPT !.done = TRUE, !.ok = TRUE])
          \/ Becomes(p, New("mkdir", path_))
          \/ Becomes(p, [New("mkdir", path_) EXCEPT !.done = TRUE, !.err = e])
    BY <1>2 DEF MkdirBegins
  <2> DEFINE a == New("mkdir", path_)
             b == [a EXCEPT !.done = TRUE, !.ok = TRUE]
             c == [a EXCEPT !.done = TRUE, !.err = e]
  <2>2. IsCall(a) /\ a.op = "mkdir" /\ a.done = FALSE
    BY DEF New, NoCall, IsCall, Fields
  <2>3. Becomes(p, a) \/ Becomes(p, b) \/ Becomes(p, c)
    BY <2>1
  <2> HIDE DEF a
  <2>4. IsCall(b) /\ b.op = "mkdir" /\ b.done = TRUE
    BY <2>2 DEF IsCall, Fields
  <2>5. IsCall(c) /\ c.op = "mkdir" /\ c.done = TRUE
    BY <2>2 DEF IsCall, Fields
  <2> HIDE DEF b, c
  <2> QED
    BY <2>2, <2>3, <2>4, <2>5 DEF Aside
<1>3. CASE MkdirChecks(p)
  BY <1>3, AsideReturns DEF MkdirChecks, Running
<1>4. CASE MkdirsBegins(p)
  <2>1. PICK path_ : Becomes(p, New("mkdirs", path_))
    BY <1>4 DEF MkdirsBegins
  <2> DEFINE a == New("mkdirs", path_)
  <2>2. IsCall(a) /\ a.op = "mkdirs" /\ a.done = FALSE
    BY DEF New, NoCall, IsCall, Fields
  <2>3. Becomes(p, a)
    BY <2>1
  <2> HIDE DEF a
  <2> QED
    BY <2>2, <2>3 DEF Aside
<1>5. CASE MkdirsStep(p)
  <2>1. PICK e, len :
          /\ d.op = "mkdirs"
          /\ \/ Becomes(p, [d EXCEPT !.done = TRUE, !.ok = TRUE])
             \/ Becomes(p, [d EXCEPT !.n = len])
             \/ Becomes(p, [d EXCEPT !.done = TRUE, !.err = e])
    BY <1>5 DEF MkdirsStep, Running, Advances
  <2> DEFINE a == [d EXCEPT !.done = TRUE, !.ok = TRUE]
             b == [d EXCEPT !.n = len]
             c == [d EXCEPT !.done = TRUE, !.err = e]
  <2>2. Becomes(p, a) \/ Becomes(p, b) \/ Becomes(p, c)
    BY <2>1
  <2> HIDE DEF d
  <2>3. /\ IsCall(a) /\ a.op = d.op /\ a.done = TRUE
        /\ IsCall(b) /\ b.op = d.op /\ b.done = d.done
        /\ IsCall(c) /\ c.op = d.op /\ c.done = TRUE
    BY <1>1 DEF IsCall, Fields
  <2> HIDE DEF a, b, c
  <2> QED
    BY <1>1, <2>1, <2>2, <2>3 DEF Aside
<1> QED
  BY <1>2, <1>3, <1>4, <1>5

\* The steps of an append.
LEMMA AsideAppends ==
  ASSUME FilesInv, NEW p \in Procs,
         \/ \E path_, size, before :
              Becomes(p, [New("append", path_) EXCEPT !.size = size, !.before = before])
         \/ AppendNothing(p)
         \/ call[p].op = "append" /\ \E k : Becomes(p, [call[p] EXCEPT !.n = @ + k])
         \/ call[p].op = "append" /\ \E ok : Returns(p, ok)
  PROVE  Aside(p)
<1> DEFINE d == call[p]
<1>1. IsCall(d) /\ d.done \in BOOLEAN
  BY DEF FilesInv, FileTypes
<1>2. ASSUME NEW path_, NEW size, NEW before,
             Becomes(p, [New("append", path_) EXCEPT !.size = size, !.before = before])
      PROVE  Aside(p)
  <2> DEFINE a == New("append", path_)
             c == [a EXCEPT !.size = size, !.before = before]
  <2>1. IsCall(a) /\ a.op = "append" /\ a.done = FALSE
    BY DEF New, NoCall, IsCall, Fields
  <2>3. Becomes(p, c)
    BY <1>2
  <2> HIDE DEF a
  <2>2. IsCall(c) /\ c.op = a.op /\ c.done = a.done
    BY <2>1 DEF IsCall, Fields
  <2> HIDE DEF c
  <2> QED
    BY <2>1, <2>2, <2>3 DEF Aside
<1>3. CASE AppendNothing(p)
  <2> DEFINE c == [NoCall EXCEPT !.ok = TRUE]
  <2>1. IsCall(c) /\ c.done = TRUE /\ c.op = "none" /\ Becomes(p, c)
    BY <1>3 DEF IsCall, Fields, NoCall, AppendNothing
  <2> HIDE DEF c
  <2> QED
    BY <2>1 DEF Aside
<1>4. ASSUME d.op = "append", NEW k, Becomes(p, [d EXCEPT !.n = @ + k])
      PROVE  Aside(p)
  <2> DEFINE c == [d EXCEPT !.n = @ + k]
  <2>1. Becomes(p, c)
    BY <1>4
  <2> HIDE DEF d
  <2>2. IsCall(c) /\ c.done = d.done /\ c.op = d.op
    BY <1>1 DEF IsCall, Fields
  <2> HIDE DEF c
  <2> QED
    BY <1>1, <1>4, <2>1, <2>2 DEF Aside
<1>5. ASSUME d.op = "append", NEW ok, Returns(p, ok)
      PROVE  Aside(p)
  BY <1>5, AsideReturns
<1> QED
  BY <1>2, <1>3, <1>4, <1>5

-----------------------------------------------------------------------------
(* justFileReadEntire, undisturbed *)

\* The file a read opens is the one its path names, and its offset is 0.
LEMMA ReadBeginsExact ==
  ASSUME FilesInv, FilesInv', ExactInv, NEW p \in Procs, ReadBegins(p)
  PROVE  ExactInv'
<1>1. PICK path_ \in FileArgs : /\ Open(p, path_, "read")
                                /\ Becomes(p, [New("read", path_) EXCEPT !.size = Unasked])
  BY DEF ReadBegins
<1> DEFINE c == [New("read", path_) EXCEPT !.size = Unasked]
           at == Locate(path_)
<1>2. /\ IsCall(c) /\ c.op = "read" /\ c.path = path_ /\ c.done = FALSE /\ c.n = 0
      /\ c.got = <<>> /\ c.size = Unasked
  BY DEF New, NoCall, IsCall, Fields
<1>3. Becomes(p, c)
  BY <1>1
<1>4. FileTypes /\ \A q \in Procs \ {p} : file'[q] = file[q]
  BY <1>1, OthersFiles DEF FilesInv
<1>5. /\ at \in Places /\ tree[at] \in Inodes \cup {"dir"} /\ tree' = tree /\ data' = data
      /\ file' = [file EXCEPT ![p] = Handle(tree'[at], "read")]
  BY <1>1 DEF Open
<1>6. file'[p].ino = tree[at] /\ file'[p].pos = 0
  BY <1>4, <1>5 DEF Handle, FileTypes
<1>7. Named(tree', path_) = tree[at]
  BY <1>5, RootPlace DEF Named, Locate
<1> HIDE DEF c, at
<1>8. c.got \in Seq(Byte) /\ IsPrefix(c.got, Content(data', tree[at])) /\ Len(c.got) = 0
  <2>1. Content(data', tree[at]) \in Seq(Byte) /\ <<>> \in Seq(Byte)
    BY <1>4, <1>5 DEF FileTypes, Content
  <2> DEFINE t == Content(data', tree[at])
             none == <<>>
  <2>3. /\ t \in Seq(Byte) /\ Len(t) \in Nat /\ none \in Seq(Byte) /\ Len(none) = 0
        /\ Len(none) <= Len(t) /\ \A j \in 1 .. Len(none) : none[j] = t[j]
    BY <2>1
  <2> HIDE DEF t, none
  <2>4. IsPrefix(none, t)
    BY <2>3, PrefixElements
  <2>2. IsPrefix(<<>>, Content(data', tree[at]))
    BY <2>4 DEF t, none
  <2> QED
    BY <1>2, <2>1, <2>2
<1>9. ReadOf(tree', data', file'[p], c)
  BY <1>2, <1>5, <1>6, <1>7, <1>8 DEF ReadOf
<1>10. ExactCall(tree', data', file'[p], c, p)
  BY <1>2, <1>9 DEF ExactCall
<1> QED
  BY <1>2, <1>3, <1>4, <1>10, StepExact

\* What is known of a read in progress.
LEMMA ReadIs ==
  ASSUME FilesInv, ExactInv, NEW p \in Procs, Running(p, "read"), call[p].hits = {}
  PROVE  ReadOf(tree, data, file[p], call[p])
  BY DEF ExactInv, ExactCall, Running

\* fstat gives the size of that file, or the call notes an error.
LEMMA ReadSizeExact ==
  ASSUME FilesInv, FilesInv', ExactInv, NEW p \in Procs, ReadSize(p)
  PROVE  ExactInv'
<1> DEFINE d == call[p]
           z == SizeNow(file[p].ino)
           c == [d EXCEPT !.size = z]
           e == [d EXCEPT !.size = 0, !.err = TRUE]
<1>1. /\ UNCHANGED <<tree, data, file>> /\ (Becomes(p, c) \/ Becomes(p, e))
      /\ Running(p, "read") /\ d.op = "read" /\ ~d.done
  BY DEF ReadSize, Running
<1>2. IsCall(d) /\ d.done = FALSE /\ FileTypes /\ z = SizeOf(data, file[p].ino)
  BY <1>1 DEF FilesInv, FileTypes, SizeNow, SizeOf
<1>3. d.hits = {} => ReadOf(tree, data, file[p], d)
  BY <1>1, ReadIs
<1> HIDE DEF d, z
<1>4. /\ IsCall(c) /\ c.op = d.op /\ c.path = d.path /\ c.done = d.done /\ c.n = d.n
      /\ c.got = d.got /\ c.size = z /\ c.hits = d.hits
  BY <1>2 DEF IsCall, Fields
<1>5. /\ IsCall(e) /\ e.op = d.op /\ e.path = d.path /\ e.done = d.done /\ e.n = d.n
      /\ e.got = d.got /\ e.size = 0 /\ e.hits = d.hits /\ e.err = TRUE
  BY <1>2 DEF IsCall, Fields
<1> HIDE DEF c, e
<1>6. d.hits = {} => ReadOf(tree, data, file[p], c) /\ ReadOf(tree, data, file[p], e)
  <2> SUFFICES ASSUME d.hits = {}
               PROVE  ReadOf(tree, data, file[p], c) /\ ReadOf(tree, data, file[p], e)
    OBVIOUS
  <2>1. /\ Named(tree, d.path) = file[p].ino /\ file[p].ino \in Inodes \cup {"dir"}
        /\ d.got \in Seq(Byte) /\ IsPrefix(d.got, Content(data, file[p].ino))
        /\ d.n = Len(d.got) /\ file[p].pos = d.n
    BY <1>2, <1>3 DEF ReadOf
  <2> QED
    BY <1>2, <1>4, <1>5, <2>1 DEF ReadOf
<1>7. ExactCall(tree', data', file'[p], c, p) /\ ExactCall(tree', data', file'[p], e, p)
  BY <1>1, <1>4, <1>5, <1>6 DEF ExactCall
<1>8. \A q \in Procs \ {p} : file'[q] = file[q]
  BY <1>1
<1> QED
  BY <1>1, <1>2, <1>4, <1>5, <1>7, <1>8, StepExact

\* A read that returns NULL promises nothing.
LEMMA ReadNoMemoryExact ==
  ASSUME FilesInv, FilesInv', ExactInv, NEW p \in Procs, ReadNoMemory(p)
  PROVE  ExactInv'
<1> DEFINE d == call[p]
           c == [d EXCEPT !.done = TRUE, !.ok = FALSE]
<1>1. Becomes(p, c) /\ d.op = "read" /\ Close(p)
  BY DEF ReadNoMemory, Running, Returns
<1>2. IsCall(d) /\ FileTypes /\ \A q \in Procs \ {p} : file'[q] = file[q]
  BY <1>1, OthersFiles DEF FilesInv, FileTypes
<1> HIDE DEF d
<1>3. IsCall(c) /\ c.done = TRUE /\ c.ok = FALSE /\ c.op = d.op
  BY <1>2 DEF IsCall, Fields
<1> HIDE DEF c
<1>4. ExactCall(tree', data', file'[p], c, p)
  BY <1>1, <1>3 DEF ExactCall, ReadOf
<1> QED
  BY <1>1, <1>2, <1>3, <1>4, StepExact

\* The bounds of the next k of l bytes.
LEMMA ChunkBounds ==
  ASSUME NEW pos \in Nat, NEW k \in Nat, NEW l \in Nat, pos <= l, NEW m, NEW n, NEW len,
         m = IF pos + k < l THEN pos + k ELSE l, n = pos + 1,
         len = IF pos + k < l THEN k ELSE l - pos
  PROVE  m \in Nat /\ m <= l /\ n \in Nat /\ n >= 1 /\ m - n + 1 = len /\ len \in Nat
  OBVIOUS

\* The next bytes of s are those after the first pos.
LEMMA NextBytes ==
  ASSUME NEW s \in Seq(Byte), NEW pos \in Nat, NEW k \in Nat, pos <= Len(s)
  PROVE  LET b == SubSeq(s, pos + 1, IF pos + k < Len(s) THEN pos + k ELSE Len(s))
         IN  /\ b \in Seq(Byte)
             /\ Len(b) = IF pos + k < Len(s) THEN k ELSE Len(s) - pos
             /\ \A x \in 1 .. Len(b) : b[x] = s[pos + x]
<1> DEFINE l == Len(s)
           m == IF pos + k < l THEN pos + k ELSE l
           n == pos + 1
           b == SubSeq(s, n, m)
           len == IF pos + k < l THEN k ELSE l - pos
<1>0. l \in Nat /\ pos <= l
  OBVIOUS
<1>2. m \in Nat /\ m <= l /\ n \in Nat /\ n >= 1 /\ m - n + 1 = len /\ len \in Nat
  <2>1. /\ m = IF pos + k < l THEN pos + k ELSE l
        /\ n = pos + 1 /\ len = IF pos + k < l THEN k ELSE l - pos
    OBVIOUS
  <2> HIDE DEF l, m, n, len
  <2> QED
    BY <1>0, <2>1, ChunkBounds
<1>6. \A x \in 1 .. len : n + x - 1 = pos + x
  OBVIOUS
<1>10. \A i \in 1 .. l : s[i] \in Byte
  OBVIOUS
<1> HIDE DEF m, n, len, l
<1>4. \A i \in n .. m : s[i] \in Byte
  <2>1. \A i \in n .. m : i \in 1 .. l
    BY <1>0, <1>2
  <2> QED
    BY <1>10, <2>1
<1>5. (IF n <= m THEN m - n + 1 ELSE 0) = len
  BY <1>2
<1>7. /\ b \in Seq(Byte) /\ Len(b) = IF n <= m THEN m - n + 1 ELSE 0
      /\ \A i \in 1 .. m - n + 1 : b[i] = s[n + i - 1]
  BY <1>2, <1>4, SubSeqProperties
<1> HIDE DEF b
<1>8. Len(b) = len
  BY <1>5, <1>7
<1>9. \A x \in 1 .. len : b[x] = s[pos + x]
  BY <1>2, <1>6, <1>7
<1> QED
  BY <1>7, <1>8, <1>9 DEF b, m, n, len, l

\* The bytes of a chunk are those at the offset.
LEMMA ChunkIs ==
  ASSUME FilesInv, NEW p \in Procs, NEW k \in Nat, file[p].pos <= Len(Bytes(p))
  PROVE  LET b   == Chunk(p, k)
             s   == Bytes(p)
             pos == file[p].pos
         IN  /\ s \in Seq(Byte) /\ pos \in Nat /\ b \in Seq(Byte)
             /\ Len(b) = IF pos + k < Len(s) THEN k ELSE Len(s) - pos
             /\ \A x \in 1 .. Len(b) : b[x] = s[pos + x]
<1> DEFINE s == Bytes(p)
           pos == file[p].pos
           b == Chunk(p, k)
<1>1. s \in Seq(Byte) /\ pos \in Nat
  BY DEF Bytes, FilesInv, FileTypes, Handles
<1>2. /\ pos <= Len(s)
      /\ b = SubSeq(s, pos + 1, IF pos + k < Len(s) THEN pos + k ELSE Len(s))
  BY DEF Chunk
<1> HIDE DEF s, pos, b
<1>3. /\ b \in Seq(Byte)
      /\ Len(b) = IF pos + k < Len(s) THEN k ELSE Len(s) - pos
      /\ \A x \in 1 .. Len(b) : b[x] = s[pos + x]
  BY <1>1, <1>2, NextBytes
<1> QED
  BY <1>1, <1>3 DEF s, pos, b

\* A prefix with the next bytes is a prefix.
LEMMA PrefixLonger ==
  ASSUME NEW s \in Seq(Byte), NEW a \in Seq(Byte), NEW b \in Seq(Byte), IsPrefix(a, s),
         Len(a) + Len(b) <= Len(s), \A x \in 1 .. Len(b) : b[x] = s[Len(a) + x]
  PROVE  a \o b \in Seq(Byte) /\ Len(a \o b) = Len(a) + Len(b) /\ IsPrefix(a \o b, s)
<1> DEFINE t == a \o b
<1>1. /\ Len(a) \in Nat /\ Len(b) \in Nat /\ Len(s) \in Nat
      /\ \A x \in 1 .. Len(a) : a[x] = s[x]
  BY PrefixElements
<1>2. /\ t \in Seq(Byte) /\ Len(t) = Len(a) + Len(b)
      /\ \A i \in 1 .. Len(t) : t[i] = IF i <= Len(a) THEN a[i] ELSE b[i - Len(a)]
  BY <1>1, ConcatProperties
<1> HIDE DEF t
<1>3. ASSUME NEW i \in 1 .. Len(t) PROVE t[i] = s[i]
  <2>1. CASE i <= Len(a)
    <3>1. i \in 1 .. Len(a) /\ t[i] = a[i]
      BY <1>1, <1>2, <2>1
    <3> QED
      BY <1>1, <3>1
  <2>2. CASE ~(i <= Len(a))
    <3>1. i - Len(a) \in 1 .. Len(b) /\ Len(a) + (i - Len(a)) = i /\ t[i] = b[i - Len(a)]
      BY <1>1, <1>2, <2>2
    <3>2. b[i - Len(a)] = s[Len(a) + (i - Len(a))]
      BY <3>1
    <3> QED
      BY <3>1, <3>2
  <2> QED
    BY <2>1, <2>2
<1>4. IsPrefix(t, s)
  BY <1>2, <1>3, PrefixElements
<1> QED
  BY <1>2, <1>4 DEF t

\* A read() adds the next bytes of the file to the buffer.
LEMMA ReadChunkExact ==
  ASSUME FilesInv, FilesInv', ExactInv, NEW p \in Procs, ReadChunk(p)
  PROVE  ExactInv'
<1> DEFINE d == call[p]
<1>1. PICK k \in 1 .. d.size - d.n :
        /\ Running(p, "read") /\ UNCHANGED <<tree, data>>
        /\ Advanced(p, file[p].pos + Len(Chunk(p, k)))
        /\ Becomes(p, [d EXCEPT !.n = @ + Len(Chunk(p, k)), !.got = @ \o Chunk(p, k)])
  BY DEF ReadChunk
<1>2. IsCall(d) /\ d.op = "read" /\ d.done = FALSE /\ d.n \in Nat /\ d.size \in Int
  BY <1>1, NotListing
<1>3. FileTypes /\ \A q \in Procs \ {p} : file'[q] = file[q]
  BY <1>1, OthersFiles DEF FilesInv
<1> DEFINE b == Chunk(p, k)
           len == Len(b)
           s == Bytes(p)
           f == file[p]
           g == file'[p]
           c == [d EXCEPT !.n = @ + len, !.got = @ \o b]
<1>4. Becomes(p, c)
  BY <1>1
<1>5. g.ino = f.ino /\ g.pos = f.pos + len
  BY <1>1, <1>3 DEF Advanced, FileTypes, Handles
<1>6. d.hits = {} => ReadOf(tree, data, f, d)
  BY <1>1, ReadIs
<1>7. k \in Nat /\ s = Content(data, f.ino)
  BY <1>2 DEF Bytes, Content
<1>8. f.pos <= Len(s) =>
        /\ s \in Seq(Byte) /\ f.pos \in Nat /\ b \in Seq(Byte)
        /\ len = IF f.pos + k < Len(s) THEN k ELSE Len(s) - f.pos
        /\ \A x \in 1 .. len : b[x] = s[f.pos + x]
  BY <1>7, ChunkIs
<1>9. Content(data, f.ino) \in Seq(Byte)
  BY <1>3 DEF FileTypes, Content
<1>20. tree' = tree /\ data' = data
  BY <1>1
<1> HIDE DEF d, b, len, s, f, g
<1>10. /\ IsCall(c) /\ c.op = d.op /\ c.path = d.path /\ c.done = d.done /\ c.n = d.n + len
       /\ c.got = d.got \o b /\ c.size = d.size /\ c.err = d.err /\ c.hits = d.hits
  BY <1>2 DEF IsCall, Fields
<1> HIDE DEF c
<1>11. ASSUME d.hits = {}
       PROVE  ReadOf(tree, data, g, c)
  <2>1. /\ Named(tree, d.path) = f.ino /\ f.ino \in Inodes \cup {"dir"}
        /\ d.got \in Seq(Byte) /\ IsPrefix(d.got, s)
        /\ d.n = Len(d.got) /\ f.pos = d.n
    BY <1>2, <1>6, <1>7, <1>11 DEF ReadOf
  <2>2. d.size # Unasked /\ ~d.err => d.size = SizeOf(data, f.ino)
    BY <1>2, <1>6, <1>11, Zenon DEF ReadOf
  <2>3. s \in Seq(Byte) /\ Len(d.got) <= Len(s) /\ Len(s) \in Nat
    BY <1>7, <1>9, <2>1, PrefixElements
  <2>4. /\ b \in Seq(Byte)
        /\ len = IF d.n + k < Len(s) THEN k ELSE Len(s) - d.n
        /\ \A x \in 1 .. len : b[x] = s[d.n + x]
    BY <1>8, <2>1, <2>3
  <2>5. len \in Nat /\ d.n + len <= Len(s) /\ Len(b) = len
    <3> DEFINE n == d.n
               l == Len(s)
    <3>1. n \in Nat /\ l \in Nat /\ n <= l /\ len = IF n + k < l THEN k ELSE l - n
      BY <1>2, <2>1, <2>3, <2>4
    <3> HIDE DEF n, l
    <3>2. len \in Nat /\ n + len <= l
      BY <1>7, <3>1
    <3> QED
      BY <3>2 DEF n, l, len
  <2>6. /\ d.got \o b \in Seq(Byte) /\ Len(d.got \o b) = d.n + len
        /\ IsPrefix(d.got \o b, s)
    <3> DEFINE a == d.got
    <3>1. /\ a \in Seq(Byte) /\ IsPrefix(a, s) /\ Len(a) + Len(b) <= Len(s)
          /\ \A x \in 1 .. Len(b) : b[x] = s[Len(a) + x]
      BY <2>1, <2>4, <2>5
    <3>2. Len(a) = d.n /\ Len(b) = len
      BY <2>1, <2>5
    <3> HIDE DEF a
    <3>3. a \o b \in Seq(Byte) /\ Len(a \o b) = Len(a) + Len(b) /\ IsPrefix(a \o b, s)
      BY <2>3, <2>4, <3>1, PrefixLonger
    <3> QED
      BY <3>2, <3>3 DEF a
  <2>7. /\ Named(tree, c.path) = g.ino /\ g.ino \in Inodes \cup {"dir"}
        /\ c.got \in Seq(Byte) /\ IsPrefix(c.got, Content(data, g.ino))
        /\ c.n = Len(c.got) /\ g.pos = c.n
    BY <1>5, <1>7, <1>10, <2>1, <2>6
  <2>8. c.size # Unasked /\ ~c.err => c.size = SizeOf(data, g.ino)
    BY <1>5, <1>10, <2>2, Zenon
  <2> QED
    BY <1>2, <1>10, <2>7, <2>8, Zenon DEF ReadOf
<1>12. ExactCall(tree', data', g, c, p)
  BY <1>2, <1>10, <1>11, <1>20 DEF ExactCall
<1> QED
  BY <1>2, <1>3, <1>4, <1>10, <1>12, StepExact DEF g

\* The loop ends with all of the file, or the call notes an error.
LEMMA ReadReturnsExact ==
  ASSUME FilesInv, FilesInv', ExactInv, NEW p \in Procs, ReadReturns(p)
  PROVE  ExactInv'
<1> DEFINE d == call[p]
           f == file[p]
           s == Bytes(p)
           e == d.err \/ /\ d.n < d.size
                         /\ Chunk(p, 1) # <<>> \/ f.ino \notin Inodes
           c == [d EXCEPT !.done = TRUE, !.ok = TRUE, !.err = e]
<1>1. /\ Running(p, "read") /\ d.size # Unasked /\ Close(p) /\ tree' = tree /\ data' = data
      /\ Becomes(p, c)
  BY DEF ReadReturns
<1>2. IsCall(d) /\ d.op = "read" /\ d.done = FALSE /\ d.n \in Nat /\ d.size \in Int
  BY <1>1, NotListing
<1>3. FileTypes /\ \A q \in Procs \ {p} : file'[q] = file[q]
  BY <1>1, OthersFiles DEF FilesInv
<1>4. d.hits = {} => ReadOf(tree, data, f, d)
  BY <1>1, ReadIs
<1>5. s = Content(data, f.ino) /\ s \in Seq(Byte)
  BY <1>3 DEF Bytes, Content, FileTypes
<1>6. f.pos <= Len(s) => Len(Chunk(p, 1)) = IF f.pos + 1 < Len(s) THEN 1 ELSE Len(s) - f.pos
  BY ChunkIs
<1>7. e <=> d.err \/ (d.n < d.size /\ (Chunk(p, 1) # <<>> \/ f.ino \notin Inodes))
  OBVIOUS
<1> HIDE DEF d, f, s, e
<1>8. /\ IsCall(c) /\ c.op = d.op /\ c.path = d.path /\ c.done = TRUE /\ c.ok = TRUE
      /\ c.got = d.got /\ c.err = e /\ c.hits = d.hits
  BY <1>2 DEF IsCall, Fields
<1> HIDE DEF c
<1>9. ASSUME d.hits = {}
      PROVE  ReadOf(tree, data, file'[p], c)
  <2> DEFINE ino == Named(tree, d.path)
  <2>1. /\ ino = f.ino /\ f.ino \in Inodes \cup {"dir"}
        /\ d.got \in Seq(Byte) /\ IsPrefix(d.got, s)
        /\ d.n = Len(d.got) /\ f.pos = d.n
    BY <1>2, <1>4, <1>5, <1>9 DEF ReadOf
  <2>2. ~d.err => d.size = SizeOf(data, f.ino)
    BY <1>1, <1>2, <1>4, <1>9, Zenon DEF ReadOf
  <2> HIDE DEF ino
  <2>3. d.n <= Len(s) /\ Len(s) \in Nat
    BY <1>5, <2>1, PrefixElements
  <2>4. ino \in Inodes => IsPrefix(d.got, data[ino])
    BY <1>5, <2>1 DEF Content
  <2>5. ASSUME ~e
        PROVE  ino \in Inodes /\ Len(d.got) = Len(data[ino])
    <3>1. ~d.err
      BY <1>7, <2>5, Zenon
    <3>2. ~(d.n < d.size) \/ (Chunk(p, 1) = <<>> /\ f.ino \in Inodes)
      BY <1>7, <2>5, Zenon
    <3>3. d.size = SizeOf(data, f.ino)
      BY <2>2, <3>1, Zenon
    <3>4. f.ino \in Inodes
      <4> SUFFICES ASSUME f.ino \notin Inodes PROVE FALSE
        OBVIOUS
      <4>1. s = <<>> /\ d.size = 1
        BY <1>5, <3>3 DEF Content, SizeOf
      <4>2. Len(s) = 0
        BY <4>1
      <4> QED
        BY <1>2, <2>3, <3>2, <4>1, <4>2
    <3>5. s = data[ino] /\ d.size = Len(s) /\ ino \in Inodes
      BY <1>5, <2>1, <3>3, <3>4 DEF Content, SizeOf
    <3>6. ~(d.n < d.size)
      <4> SUFFICES ASSUME d.n < d.size PROVE FALSE
        OBVIOUS
      <4>1. Len(Chunk(p, 1)) = 0
        BY <3>2
      <4>2. Len(Chunk(p, 1)) = IF d.n + 1 < Len(s) THEN 1 ELSE Len(s) - d.n
        BY <1>6, <2>1, <2>3
      <4> DEFINE n == d.n
                 l == Len(s)
      <4>3. /\ n \in Nat /\ l \in Nat /\ n < l
            /\ 0 = IF n + 1 < l THEN 1 ELSE l - n
        BY <1>2, <2>3, <3>5, <4>1, <4>2
      <4> HIDE DEF n, l
      <4> QED
        BY <4>3
    <3>7. d.n = Len(s)
      BY <1>2, <2>3, <3>5, <3>6
    <3> QED
      BY <2>1, <3>5, <3>7
  <2> QED
    BY <1>8, <2>4, <2>5, Zenon DEF ReadOf, ino
<1>10. ExactCall(tree', data', file'[p], c, p)
  BY <1>1, <1>2, <1>8, <1>9 DEF ExactCall
<1> QED
  BY <1>1, <1>3, <1>8, <1>10, StepExact

-----------------------------------------------------------------------------
(* justFileWriteEntire, undisturbed *)

\* The first n bytes of a buffer.
LEMMA BufferStart ==
  ASSUME NEW p \in Procs, NEW n \in Nat, n <= BufferBytes
  PROVE  LET a == SubSeq(Buffer(p), 1, n)
         IN  a \in Seq(Byte) /\ Len(a) = n /\ \A x \in 1 .. n : a[x] = <<p, x>>
<1> DEFINE a == SubSeq(Buffer(p), 1, n)
           z == 0
<1>1. z \in Nat /\ z + n <= BufferBytes /\ z + 1 = 1 /\ z + n = n
  OBVIOUS
<1>2. \A x \in 1 .. n : z + x = x
  OBVIOUS
<1> HIDE DEF z
<1>3. a = SubSeq(Buffer(p), z + 1, z + n)
  BY <1>1
<1> HIDE DEF a
<1>4. IsPart(a, p, z, n)
  BY <1>1, <1>3, BufferPart
<1>5. a \in Seq(Byte) /\ Len(a) = n /\ \A x \in 1 .. n : a[x] = <<p, x>>
  BY <1>2, <1>4 DEF IsPart
<1> QED
  BY <1>5 DEF a

\* The next k bytes behind the first n make the first n + k.
LEMMA BufferWritten ==
  ASSUME NEW p \in Procs, NEW n \in Nat, NEW k \in Nat, n + k <= BufferBytes,
         NEW b, b = SubSeq(Buffer(p), n + 1, n + k)
  PROVE  Over(SubSeq(Buffer(p), 1, n), n, b) = SubSeq(Buffer(p), 1, n + k)
<1> DEFINE a == SubSeq(Buffer(p), 1, n)
           m == n + k
           u == SubSeq(Buffer(p), 1, m)
           t == Over(a, n, b)
<1>1. BufferBytes \in Nat
  BY FilesAssumption
<1>2. n <= BufferBytes /\ m \in Nat /\ m <= BufferBytes
  BY <1>1
<1>3. a \in Seq(Byte) /\ Len(a) = n /\ \A x \in 1 .. n : a[x] = <<p, x>>
  BY <1>2, BufferStart
<1>4. b \in Seq(Byte) /\ Len(b) = k /\ \A x \in 1 .. k : b[x] = <<p, n + x>>
  <2>1. IsPart(b, p, n, k)
    BY BufferPart
  <2> QED
    BY <2>1 DEF IsPart
<1> HIDE DEF a
<1>5. /\ t \in Seq(Byte)
      /\ Len(t) = IF Len(a) > n + Len(b) THEN Len(a) ELSE n + Len(b)
      /\ \A i \in 1 .. Len(t) :
           t[i] = IF n < i /\ i <= n + Len(b) THEN b[i - n]
                  ELSE IF i <= Len(a) THEN a[i] ELSE <<Nowhere, 0>>
  <2>1. a \in Seq(Byte) /\ b \in Seq(Byte)
    BY <1>3, <1>4
  <2> QED
    BY <2>1, OverElements
<1> HIDE DEF t
<1>6. Len(t) = m
  BY <1>3, <1>4, <1>5
<1> HIDE DEF m
<1>7. u \in Seq(Byte) /\ Len(u) = m /\ \A x \in 1 .. m : u[x] = <<p, x>>
  BY <1>2, BufferStart
<1> HIDE DEF u
<1>8. ASSUME NEW i \in 1 .. m PROVE t[i] = u[i]
  <2>1. CASE i <= n
    <3>1. i \in 1 .. n /\ ~(n < i)
      BY <2>1
    <3>2. t[i] = a[i]
      BY <1>3, <1>5, <1>6, <3>1
    <3>3. a[i] = <<p, i>> /\ u[i] = <<p, i>>
      BY <1>3, <1>7, <3>1
    <3> QED
      BY <3>2, <3>3
  <2>2. CASE ~(i <= n)
    <3> DEFINE x == i - n
    <3>1. x \in 1 .. k /\ n + x = i /\ n < i /\ i <= n + k
      BY <2>2 DEF m
    <3>2. t[i] = b[x]
      BY <1>4, <1>5, <1>6, <3>1
    <3> HIDE DEF x
    <3>3. b[x] = <<p, n + x>>
      BY <1>4, <3>1
    <3>4. b[x] = <<p, i>>
      BY <3>1, <3>3
    <3>5. u[i] = <<p, i>>
      BY <1>7
    <3> QED
      BY <3>2, <3>4, <3>5
  <2> QED
    BY <2>1, <2>2
<1>9. t = u
  BY <1>5, <1>6, <1>7, <1>8, SeqEqual
<1> QED
  BY <1>9 DEF t, a, u, m

\* After open() the path names the file that the descriptor has, from its
\* start, and one opened for writing is empty.
LEMMA OpenNames ==
  ASSUME FilesInv, FilesInv', NEW p \in Procs, NEW path_ \in Seq(Tokens),
         Open(p, path_, "write")
  PROVE  /\ Named(tree', path_) = file'[p].ino /\ file'[p].pos = 0
         /\ data'[file'[p].ino] = <<>>
<1> DEFINE at == Locate(path_)
           new == CHOOSE i \in Spare : TRUE
           none == <<>>
<1>1. /\ at \in Places
      /\ \/ /\ tree[at] \in Inodes /\ data' = [data EXCEPT ![tree[at]] = none]
            /\ tree' = tree
         \/ /\ new \in Inodes
            /\ tree' = [tree EXCEPT ![at] = new] /\ data' = [data EXCEPT ![new] = none]
      /\ file' = [file EXCEPT ![p] = Handle(tree'[at], "write")]
  BY DEF Open, Spare
<1>2. FileTypes /\ tree \in Trees /\ tree' \in Trees
  BY DEF FilesInv, FileTypes, Trees
<1>3. Grows(tree, tree')
  BY <1>2, OpenGrows
<1>4. Walk(tree, path_)[Len(path_)] = at /\ at # Nowhere
  BY <1>1, RootPlace DEF Locate
<1> HIDE DEF at, new, none
<1>5. Walk(tree', path_)[Len(path_)] = at
  BY <1>2, <1>3, <1>4, NamedStill
<1>6. file'[p].ino = tree'[at] /\ file'[p].pos = 0
  BY <1>1, <1>2 DEF Handle, FileTypes
<1>7. Named(tree', path_) = tree'[at]
  BY <1>4, <1>5 DEF Named
<1>8. data'[tree'[at]] = none
  BY <1>1, <1>2 DEF FileTypes
<1> QED
  BY <1>6, <1>7, <1>8 DEF none

\* The file a write opens is empty, and it is the one its path names.
LEMMA WriteBeginsExact ==
  ASSUME FilesInv, FilesInv', ExactInv, NEW p \in Procs, WriteBegins(p)
  PROVE  ExactInv'
<1>1. PICK op \in WriteOps, path_ \in FileArgs, size \in {0, BufferBytes} :
        /\ Open(p, path_, op)
        /\ Becomes(p, [New(op, path_) EXCEPT !.size = size, !.before = data'[file'[p].ino]])
  BY DEF WriteBegins
<1>2. FileTypes /\ \A q \in Procs \ {p} : file'[q] = file[q]
  BY <1>1, OthersFiles DEF FilesInv
<1>3. CASE op = "append"
  <2>1. Aside(p)
    BY <1>1, <1>3, AsideAppends
  <2> QED
    BY <1>2, <2>1, AsideExact
<1>4. CASE op = "write"
  <2> DEFINE s == data'[file'[p].ino]
             c == [New("write", path_) EXCEPT !.size = size, !.before = s]
  <2>1. Becomes(p, c)
    BY <1>1, <1>4
  <2>2. Named(tree', path_) = file'[p].ino /\ file'[p].pos = 0 /\ s = <<>>
    <3>1. path_ \in Seq(Tokens)
      BY FilesAssumption
    <3> QED
      BY <1>1, <1>4, <3>1, OpenNames
  <2>3. s = SubSeq(Buffer(p), 1, 0)
    BY <2>2, SubSeqEmpty
  <2>4. data'[file'[p].ino] = s
    OBVIOUS
  <2> HIDE DEF s
  <2>5. IsCall(c) /\ c.op = "write" /\ c.path = path_ /\ c.done = FALSE /\ c.n = 0
    BY DEF New, NoCall, IsCall, Fields
  <2> HIDE DEF c
  <2>6. WriteOf(tree', data', file'[p], c, p)
    BY <2>2, <2>3, <2>4, <2>5 DEF WriteOf
  <2>7. ExactCall(tree', data', file'[p], c, p)
    BY <2>5, <2>6 DEF ExactCall
  <2> QED
    BY <1>2, <2>1, <2>5, <2>7, StepExact
<1> QED
  BY <1>3, <1>4 DEF WriteOps

\* What is known of a write in progress.
LEMMA WriteIs ==
  ASSUME FilesInv, ExactInv, NEW p \in Procs, Running(p, "write")
  PROVE  /\ IsCall(call[p]) /\ call[p].op = "write" /\ call[p].done = FALSE
         /\ call[p].n \in Nat /\ call[p].size \in Int /\ call[p].n <= call[p].size
         /\ call[p].size <= BufferBytes
         /\ file[p].ino \in Inodes /\ file[p].mode = "write"
         /\ call[p].hits = {} =>
              /\ Named(tree, call[p].path) = file[p].ino /\ file[p].pos = call[p].n
              /\ data[file[p].ino] = SubSeq(Buffer(p), 1, call[p].n)
<1>1. /\ IsCall(call[p]) /\ call[p].op = "write" /\ call[p].done = FALSE
      /\ call[p].n \in Nat /\ call[p].size \in Int
  BY NotListing
<1>2. /\ call[p].n <= call[p].size /\ call[p].size <= BufferBytes
      /\ file[p].ino \in Inodes /\ file[p].mode = "write"
  BY <1>1 DEF FilesInv, Sound, Writing, InCall
<1>3. call[p].hits = {} => WriteOf(tree, data, file[p], call[p], p)
  BY <1>1 DEF ExactInv, ExactCall
<1> QED
  BY <1>1, <1>2, <1>3 DEF WriteOf

\* A write() adds the next bytes of the buffer to the file.
LEMMA WriteChunkExact ==
  ASSUME FilesInv, FilesInv', ExactInv, NEW p \in Procs, WriteChunk(p)
  PROVE  ExactInv'
<1> DEFINE d == call[p]
<1>1. PICK op \in WriteOps : \E k \in 1 .. d.size - d.n :
        /\ Running(p, op)
        /\ Writes(p, SubSeq(Buffer(p), d.n + 1, d.n + k))
        /\ Becomes(p, [d EXCEPT !.n = @ + k])
  BY DEF WriteChunk
<1>2. PICK k \in 1 .. d.size - d.n :
        /\ Running(p, op)
        /\ Writes(p, SubSeq(Buffer(p), d.n + 1, d.n + k))
        /\ Becomes(p, [d EXCEPT !.n = @ + k])
  BY <1>1
<1>3. FileTypes /\ \A q \in Procs \ {p} : file'[q] = file[q]
  BY <1>2, OthersFiles DEF FilesInv, Writes
<1>4. CASE op = "append"
  <2>1. Aside(p)
    BY <1>2, <1>4, AsideAppends DEF Running
  <2> QED
    BY <1>3, <2>1, AsideExact
<1>5. CASE op = "write"
  <2> DEFINE f == file[p]
             g == file'[p]
             n == d.n
             b == SubSeq(Buffer(p), n + 1, n + k)
             c == [d EXCEPT !.n = @ + k]
             new(s) == Over(s, f.pos, b)
  <2>1. /\ IsCall(d) /\ d.op = "write" /\ d.done = FALSE /\ n \in Nat
        /\ d.size \in Int /\ n <= d.size /\ d.size <= BufferBytes
        /\ f.ino \in Inodes /\ f.mode = "write"
    BY <1>2, <1>5, WriteIs
  <2>2. d.hits = {} => /\ Named(tree, d.path) = f.ino /\ f.pos = n
                       /\ data[f.ino] = SubSeq(Buffer(p), 1, n)
    BY <1>2, <1>5, WriteIs
  <2>3. k \in Nat /\ n + k <= BufferBytes
    <3> DEFINE z == d.size
    <3>1. z \in Int /\ n <= z /\ z <= BufferBytes /\ n \in Nat /\ k \in 1 .. z - n
      BY <2>1
    <3> HIDE DEF z, n
    <3> QED
      BY <3>1, FilesAssumption
  <2>4. WritePos(p) = f.pos
    BY <2>1 DEF WritePos
  <2>5. /\ Becomes(p, c) /\ tree' = tree /\ Advanced(p, f.pos + Len(b))
        /\ data' = [data EXCEPT ![f.ino] = new(@)]
    BY <1>2, <2>4 DEF Writes
  <2>6. Len(b) = k /\ b = SubSeq(Buffer(p), n + 1, n + k)
    <3>1. b = SubSeq(Buffer(p), n + 1, n + k)
      OBVIOUS
    <3> HIDE DEF b, n
    <3>2. IsPart(b, p, n, k)
      BY <2>1, <2>3, <3>1, BufferPart
    <3> QED
      BY <3>1, <3>2 DEF IsPart
  <2> HIDE DEF b
  <2>7. g.ino = f.ino /\ g.pos = f.pos + k
    BY <1>3, <2>5, <2>6 DEF Advanced, FileTypes, Handles
  <2>8. data'[f.ino] = Over(data[f.ino], f.pos, b)
    <3>1. data'[f.ino] = new(data[f.ino])
      <4> HIDE DEF new, f
      <4> QED
        BY <1>3, <2>1, <2>5 DEF FileTypes
    <3> QED
      BY <3>1
  <2> HIDE DEF d, f, g, n, new
  <2>9. /\ IsCall(c) /\ c.op = d.op /\ c.path = d.path /\ c.done = d.done /\ c.n = d.n + k
        /\ c.size = d.size /\ c.hits = d.hits
    BY <2>1 DEF IsCall, Fields
  <2> HIDE DEF c
  <2>10. ASSUME d.hits = {}
         PROVE  WriteOf(tree', data', g, c, p)
    <3>1. Named(tree, d.path) = f.ino /\ f.pos = n /\ data[f.ino] = SubSeq(Buffer(p), 1, n)
      BY <2>2, <2>10
    <3>2. Over(SubSeq(Buffer(p), 1, n), n, b) = SubSeq(Buffer(p), 1, n + k)
      BY <2>1, <2>3, <2>6, BufferWritten
    <3>3. data'[f.ino] = SubSeq(Buffer(p), 1, n + k)
      BY <2>8, <3>1, <3>2
    <3>4. c.n = n + k /\ g.pos = n + k
      BY <2>7, <2>9, <3>1 DEF n
    <3>5. /\ Named(tree', c.path) = g.ino /\ g.pos = c.n
          /\ data'[g.ino] = SubSeq(Buffer(p), 1, c.n)
      BY <2>5, <2>7, <2>9, <3>1, <3>3, <3>4
    <3> QED
      BY <2>1, <2>9, <3>5 DEF WriteOf
  <2>11. ExactCall(tree', data', g, c, p)
    BY <2>1, <2>9, <2>10 DEF ExactCall
  <2> QED
    BY <1>3, <2>1, <2>5, <2>9, <2>11, StepExact DEF g
<1> QED
  BY <1>4, <1>5 DEF WriteOps

\* A write that returns, with everything written or not.
LEMMA WriteEndsExact ==
  ASSUME FilesInv, FilesInv', ExactInv, NEW p \in Procs, NEW op \in WriteOps,
         Running(p, op), Close(p), UNCHANGED <<tree, data>>,
         NEW ok \in BOOLEAN, ok <=> call[p].n = call[p].size, Returns(p, ok)
  PROVE  ExactInv'
<1>1. FileTypes /\ \A q \in Procs \ {p} : file'[q] = file[q]
  BY OthersFiles DEF FilesInv
<1>2. CASE op = "append"
  <2>1. Aside(p)
    BY <1>2, AsideAppends DEF Running
  <2> QED
    BY <1>1, <2>1, AsideExact
<1>3. CASE op = "write"
  <2> DEFINE d == call[p]
             f == file[p]
             c == [d EXCEPT !.done = TRUE, !.ok = ok]
  <2>1. /\ IsCall(d) /\ d.op = "write" /\ f.ino \in Inodes
        /\ d.hits = {} => /\ Named(tree, d.path) = f.ino
                          /\ data[f.ino] = SubSeq(Buffer(p), 1, d.n)
    BY <1>3, WriteIs
  <2>2. Becomes(p, c) /\ tree' = tree /\ data' = data /\ (ok <=> d.n = d.size)
    BY DEF Returns
  <2> HIDE DEF d, f
  <2>3. /\ IsCall(c) /\ c.op = d.op /\ c.path = d.path /\ c.done = TRUE /\ c.ok = ok
        /\ c.n = d.n /\ c.size = d.size /\ c.hits = d.hits
    BY <2>1 DEF IsCall, Fields
  <2> HIDE DEF c
  <2>4. ASSUME d.hits = {}
        PROVE  WriteOf(tree', data', file'[p], c, p)
    <3>1. /\ Named(tree', c.path) \in Inodes
          /\ data'[Named(tree', c.path)] = SubSeq(Buffer(p), 1, c.n)
      BY <2>1, <2>2, <2>3, <2>4
    <3>2. c.ok <=> c.n = c.size
      BY <2>2, <2>3, Zenon
    <3> QED
      BY <2>3, <3>1, <3>2, Zenon DEF WriteOf
  <2>5. ExactCall(tree', data', file'[p], c, p)
    BY <2>1, <2>3, <2>4 DEF ExactCall
  <2> QED
    BY <1>1, <2>2, <2>3, <2>5, StepExact
<1> QED
  BY <1>2, <1>3 DEF WriteOps

\* A write fails before it has written its buffer, or returns after it.
LEMMA WriteReturnExact ==
  ASSUME FilesInv, FilesInv', ExactInv, NEW p \in Procs, WriteFails(p) \/ WriteReturns(p)
  PROVE  ExactInv'
<1>1. CASE WriteFails(p)
  <2>1. PICK op \in WriteOps :
          /\ Running(p, op) /\ call[p].n < call[p].size /\ Close(p)
          /\ UNCHANGED <<tree, data>> /\ Returns(p, FALSE)
    BY <1>1 DEF WriteFails
  <2>2. call[p].n # call[p].size
    <3>1. op \in {"read", "write", "append"}
      BY DEF WriteOps
    <3>2. call[p].n \in Nat /\ call[p].size \in Int
      BY <2>1, <3>1, NotListing
    <3> QED
      BY <2>1, <3>2
  <2>3. FALSE \in BOOLEAN /\ (FALSE <=> call[p].n = call[p].size)
    BY <2>2
  <2> QED
    BY <2>1, <2>3, WriteEndsExact
<1>2. CASE WriteReturns(p)
  <2>1. PICK op \in WriteOps :
          /\ Running(p, op) /\ call[p].n = call[p].size /\ Close(p)
          /\ UNCHANGED <<tree, data>> /\ Returns(p, TRUE)
    BY <1>2 DEF WriteReturns
  <2>2. TRUE \in BOOLEAN /\ (TRUE <=> call[p].n = call[p].size)
    BY <2>1
  <2> QED
    BY <2>1, <2>2, WriteEndsExact
<1> QED
  BY <1>1, <1>2

-----------------------------------------------------------------------------
(* justListDir, undisturbed *)

\* The walk along a path with one token more.
LEMMA WalkOn ==
  ASSUME NEW tr, NEW p \in Seq(Tokens), NEW t \in Tokens, p # <<>> \/ ~Slash(t)
  PROVE  LET q == Append(p, t)
         IN  /\ q \in Seq(Tokens) /\ q # <<>>
             /\ Walk(tr, q)[Len(q)] = Passed(tr, Walk(tr, p)[Len(p)], t)
<1> DEFINE q == Append(p, t)
           n == Len(p)
<1>1. /\ q \in Seq(Tokens) /\ q # <<>> /\ n \in Nat /\ Len(q) = n + 1 /\ q[n + 1] = t
      /\ \A i \in 1 .. n : q[i] = p[i]
  BY AppendProperties
<1> HIDE DEF q
<1>2. Start(q) = Start(p)
  <2>1. CASE p # <<>>
    <3>1. 1 \in 1 .. n
      BY <2>1, EmptySeq
    <3>2. q[1] = p[1]
      BY <1>1, <3>1
    <3> QED
      BY <1>1, <2>1, <3>2 DEF Start, IsAbsolute
  <2>2. CASE p = <<>>
    <3>1. n = 0 /\ q[1] = t /\ ~Slash(t)
      BY <1>1, <2>2
    <3> QED
      BY <2>2, <3>1 DEF Start, IsAbsolute
  <2> QED
    BY <2>1, <2>2
<1>3. IsWalk(Walk(tr, q), tr, q) /\ IsWalk(Walk(tr, p), tr, p)
  BY <1>1, WalkIs
<1>4. \A i \in 0 .. n : Walk(tr, p)[i] = Walk(tr, q)[i]
  BY <1>1, <1>2, <1>3, WalkStarts
<1>5. Walk(tr, q)[n + 1] = Passed(tr, Walk(tr, q)[(n + 1) - 1], q[n + 1])
  BY <1>1, <1>3 DEF IsWalk
<1>6. (n + 1) - 1 = n /\ n \in 0 .. n
  BY <1>1
<1>7. Walk(tr, q)[n + 1] = Passed(tr, Walk(tr, p)[n], t)
  BY <1>1, <1>4, <1>5, <1>6
<1> QED
  BY <1>1, <1>7 DEF q

\* A name below a place that is not too deep is a place.
LEMMA PlaceBelow ==
  ASSUME NEW at \in Places, Len(at) < MaxDepth, NEW name \in Names
  PROVE  Append(at, name) \in Places
<1>1. PICK m \in 0 .. MaxDepth : at \in [1 .. m -> Names]
  BY DEF Places, BoundedSeq, SeqOf
<1>2. MaxDepth \in Nat /\ m \in Nat
  BY FilesAssumption
<1>3. at \in Seq(Names) /\ Len(at) = m
  BY <1>1, <1>2
<1>4. m + 1 \in 0 .. MaxDepth
  BY <1>2, <1>3
<1> DEFINE q == Append(at, name)
<1>5. q \in Seq(Names) /\ Len(q) = m + 1
  BY <1>3, AppendProperties
<1> HIDE DEF q
<1>6. q \in [1 .. m + 1 -> Names]
  BY <1>5, LenProperties
<1> QED
  BY <1>4, <1>6 DEF Places, BoundedSeq, SeqOf, q

\* justPathJoin of a directory and a name leads to that name in it.
LEMMA JoinLeads ==
  ASSUME NEW tr \in Trees, NEW p \in Seq(Tokens), NEW name \in Names,
         Named(tr, p) = "dir", Len(Walk(tr, p)[Len(p)]) < MaxDepth,
         NEW r, r = justPathJoin(p, <<name>>, PathTemp).path
  PROVE  Named(tr, r) = Leaf(tr, p, name)
<1> DEFINE at == Walk(tr, p)[Len(p)]
           new == Append(at, name)
<1>1. at \in Places /\ at # Nowhere /\ tr[at] = "dir" /\ Len(at) < MaxDepth
  <2>1. IsWalk(Walk(tr, p), tr, p) /\ Len(p) \in 0 .. Len(p)
    BY WalkIs
  <2>2. at \in Places \cup {Nowhere}
    BY <2>1 DEF IsWalk
  <2>3. at # Nowhere /\ tr[at] = "dir"
    BY DEF Named
  <2> QED
    BY <2>2, <2>3
<1>2. /\ name \notin {"/", ".", ".."} /\ name \in Tokens /\ "/" \in Tokens
      /\ ~Slash(name) /\ Slash("/")
  BY FilesAssumption DEF Tokens, Slash
<1>3. new \in Places /\ new # Nowhere
  BY <1>1, PlaceBelow, RootPlace
<1> HIDE DEF at, new
<1>4. Passed(tr, at, name) = new
  <2>1. Step(at, name) = new
    BY <1>2 DEF Step, new
  <2> QED
    BY <1>1, <1>2, <1>3, <2>1 DEF Passed
<1>5. Passed(tr, at, "/") = at
  BY <1>2 DEF Passed
<1> DEFINE s == Append(p, "/")
<1>6. (p # <<>> /\ r = Append(s, name)) \/ r = Append(p, name)
  <2>1. /\ p \o <<name>> = Append(p, name)
        /\ p \o <<"/">> = s
    BY <1>2, AppendForm
  <2>2. s \in Seq(Tokens)
    BY <1>2
  <2>3. s \o <<name>> = Append(s, name)
    BY <1>2, <2>2, AppendForm
  <2>4. (p # <<>> /\ r = p \o <<"/">> \o <<name>>) \/ r = p \o <<name>>
    BY DEF justPathJoin, Filled
  <2> QED
    BY <2>1, <2>3, <2>4
<1>8. p \in Seq(Tokens) /\ Walk(tr, p)[Len(p)] = at
  BY DEF at
<1>7. Walk(tr, r)[Len(r)] = new
  <2>1. CASE p # <<>> /\ r = Append(s, name)
    <3>1. s \in Seq(Tokens) /\ s # <<>> /\ Walk(tr, s)[Len(s)] = at
      BY <1>2, <1>5, <2>1, WalkOn DEF at
    <3> HIDE DEF s
    <3>2. Walk(tr, Append(s, name))[Len(Append(s, name))] = Passed(tr, Walk(tr, s)[Len(s)], name)
      BY <1>2, <3>1, WalkOn
    <3> QED
      BY <1>4, <2>1, <3>1, <3>2
  <2>2. CASE r = Append(p, name)
    <3>2. Walk(tr, Append(p, name))[Len(Append(p, name))] = Passed(tr, Walk(tr, p)[Len(p)], name)
      BY <1>2, <1>8, WalkOn
    <3> QED
      BY <1>4, <1>8, <2>2, <3>2
  <2> QED
    BY <1>6, <2>1, <2>2
<1> QED
  BY <1>3, <1>7 DEF Named, Leaf, new, at

\* Entries, of the tree as it is.
LEMMA EntriesIs ==
  ASSUME NEW p
  PROVE  Entries(p) = EntriesIn(tree, p)
  BY NamedAt DEF Entries, EntriesIn, justIsDirectory, Locate, Leaf

\* A listing begins with the names there are, and none of them told.
LEMMA ListBeginsExact ==
  ASSUME FilesInv, FilesInv', ExactInv, NEW p \in Procs, ListBegins(p)
  PROVE  ExactInv'
<1>1. PICK path_ \in DirArgs :
        /\ justIsDirectory(path_) /\ Len(Locate(path_)) < MaxDepth
        /\ UNCHANGED <<tree, data, file>>
        /\ Becomes(p, [New("list", path_) EXCEPT !.got = {}, !.before = Entries(path_)])
  BY DEF ListBegins
<1> DEFINE b == Entries(path_)
           c == [New("list", path_) EXCEPT !.got = {}, !.before = b]
<1>2. Becomes(p, c) /\ b = EntriesIn(tree, path_)
  BY <1>1, EntriesIs
<1> HIDE DEF b
<1>3. /\ IsCall(c) /\ c.op = "list" /\ c.path = path_ /\ c.done = FALSE
      /\ c.got = {} /\ c.before = b /\ c.entry = Nowhere
  BY DEF New, NoCall, IsCall, Fields
<1> HIDE DEF c
<1>4. Named(tree, path_) = "dir" /\ Len(Walk(tree, path_)[Len(path_)]) < MaxDepth
  BY <1>1, NamedAt DEF justIsDirectory, Locate
<1>5. ListOf(tree', c)
  BY <1>1, <1>2, <1>3, <1>4 DEF ListOf
<1>6. ExactCall(tree', data', file'[p], c, p)
  BY <1>3, <1>5 DEF ExactCall
<1>7. FileTypes /\ \A q \in Procs \ {p} : file'[q] = file[q]
  BY <1>1 DEF FilesInv
<1> QED
  BY <1>2, <1>3, <1>6, <1>7, StepExact

\* What is known of a listing in progress.
LEMMA ListIs ==
  ASSUME FilesInv, ExactInv, NEW p \in Procs, Running(p, "list")
  PROVE  /\ IsCall(call[p]) /\ call[p].op = "list" /\ call[p].done = FALSE /\ FileTypes
         /\ call[p].hits = {} => ListOf(tree, call[p])
<1>1. /\ IsCall(call[p]) /\ call[p].op = "list" /\ call[p].done \in BOOLEAN /\ ~call[p].done
      /\ FileTypes
  BY DEF FilesInv, FileTypes, Running
<1>2. ExactCall(tree, data, file[p], call[p], p)
  BY DEF ExactInv
<1> QED
  BY <1>1, <1>2 DEF ExactCall

\* The name that readdir() returns is one that is there.
LEMMA ListEntryExact ==
  ASSUME FilesInv, FilesInv', ExactInv, NEW p \in Procs, ListEntry(p)
  PROVE  ExactInv'
<1> DEFINE d == call[p]
<1>1. PICK name \in Entries(d.path) : Becomes(p, [d EXCEPT !.entry = name])
  BY DEF ListEntry
<1> DEFINE c == [d EXCEPT !.entry = name]
<1>2. Becomes(p, c) /\ tree' = tree /\ data' = data /\ file' = file /\ Running(p, "list")
  BY <1>1 DEF ListEntry
<1>3. /\ IsCall(d) /\ d.op = "list" /\ d.done = FALSE /\ FileTypes
      /\ d.hits = {} => ListOf(tree, d)
  BY <1>2, ListIs
<1>4. name \in EntriesIn(tree, d.path)
  BY <1>1, EntriesIs
<1> HIDE DEF d
<1>5. /\ IsCall(c) /\ c.op = d.op /\ c.path = d.path /\ c.done = d.done /\ c.got = d.got
      /\ c.before = d.before /\ c.entry = name /\ c.err = d.err /\ c.hits = d.hits
  BY <1>3 DEF IsCall, Fields
<1> HIDE DEF c
<1>6. d.hits = {} => ListOf(tree', c)
  BY <1>2, <1>3, <1>4, <1>5, Zenon DEF ListOf
<1>7. ExactCall(tree', data', file'[p], c, p)
  BY <1>3, <1>5, <1>6 DEF ExactCall
<1>8. \A q \in Procs \ {p} : file'[q] = file[q]
  BY <1>2
<1> QED
  BY <1>2, <1>3, <1>5, <1>7, <1>8, StepExact

\* The joined path of an entry leads to it, so its kind is the right one.
LEMMA KindIsRight ==
  ASSUME FileTypes, ListsFit, NEW dir \in DirArgs, Named(tree, dir) = "dir",
         Len(Walk(tree, dir)[Len(dir)]) < MaxDepth, NEW name \in EntriesIn(tree, dir)
  PROVE  LET sub  == justPathJoin(dir, <<name>>, PathTemp)
             kind == sub.ok /\ justIsDirectory(sub.path)
         IN  kind = (Leaf(tree, dir, name) = "dir")
<1> DEFINE sub == justPathJoin(dir, <<name>>, PathTemp)
           r == sub.path
           leaf == Leaf(tree, dir, name)
<1>1. name \in Names /\ dir \in Seq(Tokens) /\ tree \in Trees
  BY FilesAssumption DEF EntriesIn, FileTypes, Trees
<1>2. sub.ok
  BY <1>1 DEF ListsFit
<1>3. Named(tree, r) = leaf
  BY <1>1, JoinLeads
<1>4. justIsDirectory(r) <=> leaf = "dir"
  BY <1>3, NamedAt DEF justIsDirectory
<1> QED
  BY <1>2, <1>4

\* The callback is told the right kind, or, after an error, no directory.
LEMMA ListKindExact ==
  ASSUME FilesInv, FilesInv', ExactInv, ListsFit, NEW p \in Procs, ListKind(p)
  PROVE  ExactInv'
<1> DEFINE d == call[p]
           name == d.entry
           sub == justPathJoin(d.path, <<name>>, PathTemp)
           kind == sub.ok /\ justIsDirectory(sub.path)
           k == [name |-> name, isDir |-> kind]
           n == [name |-> name, isDir |-> FALSE]
           b == [d EXCEPT !.entry = Nowhere, !.got = @ \cup {k}]
           c == [d EXCEPT !.entry = Nowhere, !.got = @ \cup {n}, !.err = TRUE]
<1>1. /\ Running(p, "list") /\ name # Nowhere /\ tree' = tree /\ data' = data /\ file' = file
      /\ Becomes(p, b) \/ Becomes(p, c)
  BY DEF ListKind
<1>2. /\ IsCall(d) /\ d.op = "list" /\ d.done = FALSE /\ FileTypes
      /\ d.hits = {} => ListOf(tree, d)
  BY <1>1, ListIs
<1>3. ASSUME d.hits = {}
      PROVE  /\ k \in KindsIn(tree, d.path) /\ k \in ReportsIn(tree, d.path)
             /\ n \in ReportsIn(tree, d.path)
  <2> DEFINE leaf == Leaf(tree, d.path, name)
  <2>1. /\ d.path \in DirArgs /\ Named(tree, d.path) = "dir"
        /\ Len(Walk(tree, d.path)[Len(d.path)]) < MaxDepth
        /\ name \in EntriesIn(tree, d.path)
    BY <1>1, <1>2, <1>3 DEF ListOf
  <2>2. kind = (leaf = "dir")
    BY <1>2, <2>1, KindIsRight
  <2>3. k = [name |-> name, isDir |-> leaf = "dir"]
    BY <2>2
  <2>4. n \in ReportsIn(tree, d.path)
    BY <2>1 DEF ReportsIn
  <2>5. k \in KindsIn(tree, d.path)
    BY <2>1, <2>3 DEF KindsIn
  <2>6. k \in ReportsIn(tree, d.path)
    BY <2>1, <2>3 DEF ReportsIn
  <2> QED
    BY <2>4, <2>5, <2>6
<1> HIDE DEF d, k, n
<1>4. /\ IsCall(b) /\ b.op = d.op /\ b.path = d.path /\ b.done = d.done
      /\ b.got = d.got \cup {k} /\ b.before = d.before /\ b.entry = Nowhere
      /\ b.err = d.err /\ b.hits = d.hits
  BY <1>2 DEF IsCall, Fields
<1>5. /\ IsCall(c) /\ c.op = d.op /\ c.path = d.path /\ c.done = d.done
      /\ c.got = d.got \cup {n} /\ c.before = d.before /\ c.entry = Nowhere
      /\ c.err = TRUE /\ c.hits = d.hits
  BY <1>2 DEF IsCall, Fields
<1> HIDE DEF b, c
<1>6. d.hits = {} => ListOf(tree', b)
  <2> SUFFICES ASSUME d.hits = {} PROVE ListOf(tree', b)
    OBVIOUS
  <2>1. k \in KindsIn(tree, d.path) /\ k \in ReportsIn(tree, d.path) /\ ListOf(tree, d)
    BY <1>2, <1>3
  <2>2. ~d.err => d.got \cup {k} \subseteq KindsIn(tree, d.path)
    BY <1>2, <2>1, Zenon DEF ListOf
  <2>3. d.got \cup {k} \subseteq ReportsIn(tree, d.path)
    BY <2>1, Zenon DEF ListOf
  <2> QED
    BY <1>1, <1>2, <1>4, <2>1, <2>2, <2>3, Zenon DEF ListOf
<1>7. d.hits = {} => ListOf(tree', c)
  <2> SUFFICES ASSUME d.hits = {} PROVE ListOf(tree', c)
    OBVIOUS
  <2>1. n \in ReportsIn(tree, d.path) /\ ListOf(tree, d)
    BY <1>2, <1>3
  <2>2. d.got \cup {n} \subseteq ReportsIn(tree, d.path)
    BY <2>1, Zenon DEF ListOf
  <2> QED
    BY <1>1, <1>2, <1>5, <2>1, <2>2, Zenon DEF ListOf
<1>8. \A q \in Procs \ {p} : file'[q] = file[q]
  BY <1>1
<1>9. CASE Becomes(p, b)
  <2>1. ExactCall(tree', data', file'[p], b, p)
    BY <1>2, <1>4, <1>6 DEF ExactCall
  <2> QED
    BY <1>2, <1>4, <1>8, <1>9, <2>1, StepExact
<1>10. CASE Becomes(p, c)
  <2>1. ExactCall(tree', data', file'[p], c, p)
    BY <1>2, <1>5, <1>7 DEF ExactCall
  <2> QED
    BY <1>2, <1>5, <1>8, <1>10, <2>1, StepExact
<1> QED
  BY <1>1, <1>9, <1>10

\* Whoever has been told of all names has been told of all kinds.
LEMMA AllKinds ==
  ASSUME NEW tr, NEW p, NEW got, got \subseteq KindsIn(tr, p),
         EntriesIn(tr, p) \subseteq {e.name : e \in got}
  PROVE  got = KindsIn(tr, p)
<1> DEFINE kind(name) == [name |-> name, isDir |-> Leaf(tr, p, name) = "dir"]
<1>1. ASSUME NEW name \in EntriesIn(tr, p) PROVE kind(name) \in got
  <2>1. PICK e \in got : e.name = name
    BY <1>1
  <2>2. PICK other \in EntriesIn(tr, p) : e = kind(other)
    BY <2>1 DEF KindsIn
  <2>3. other = name
    BY <2>1, <2>2
  <2> QED
    BY <2>1, <2>2, <2>3
<1>2. KindsIn(tr, p) = {kind(name) : name \in EntriesIn(tr, p)}
  BY DEF KindsIn
<1> HIDE DEF kind
<1> QED
  BY <1>1, <1>2

\* A listing ends when all names that were there are told, or with an error.
LEMMA ListReturnsExact ==
  ASSUME FilesInv, FilesInv', ExactInv, NEW p \in Procs, ListReturns(p)
  PROVE  ExactInv'
<1> DEFINE d == call[p]
           all == d.before \cap Entries(d.path) \subseteq {e.name : e \in d.got}
           e == d.err \/ ~all
           c == [d EXCEPT !.done = TRUE, !.ok = TRUE, !.err = e]
<1>1. Becomes(p, c) /\ tree' = tree /\ data' = data /\ file' = file /\ Running(p, "list")
  BY DEF ListReturns, Listed
<1>2. /\ IsCall(d) /\ d.op = "list" /\ d.done = FALSE /\ FileTypes
      /\ d.hits = {} => ListOf(tree, d)
  BY <1>1, ListIs
<1>3. Entries(d.path) = EntriesIn(tree, d.path)
  BY EntriesIs
<1>4. ~e => ~d.err /\ all
  OBVIOUS
<1>5. all => d.before \cap EntriesIn(tree, d.path) \subseteq {r.name : r \in d.got}
  BY <1>3
<1> HIDE DEF d, all, e
<1>6. /\ IsCall(c) /\ c.op = d.op /\ c.path = d.path /\ c.done = TRUE
      /\ c.got = d.got /\ c.err = e /\ c.hits = d.hits
  BY <1>2 DEF IsCall, Fields
<1> HIDE DEF c
<1>7. ASSUME d.hits = {}, ~e
      PROVE  d.got = KindsIn(tree, d.path)
  <2>1. ~d.err /\ all
    BY <1>4, <1>7, Zenon
  <2>2. d.before = EntriesIn(tree, d.path) /\ d.got \subseteq KindsIn(tree, d.path)
    BY <1>2, <1>7, <2>1, Zenon DEF ListOf
  <2>3. EntriesIn(tree, d.path) \subseteq {r.name : r \in d.got}
    BY <1>5, <2>1, <2>2
  <2> QED
    BY <2>2, <2>3, AllKinds
<1>8. ASSUME d.hits = {}
      PROVE  ListOf(tree', c)
  <2>1. d.got \subseteq ReportsIn(tree, d.path)
    BY <1>2, <1>8, Zenon DEF ListOf
  <2> QED
    BY <1>1, <1>6, <1>7, <1>8, <2>1, Zenon DEF ListOf
<1>9. ExactCall(tree', data', file'[p], c, p)
  BY <1>2, <1>6, <1>8 DEF ExactCall
<1>10. \A q \in Procs \ {p} : file'[q] = file[q]
  BY <1>1
<1> QED
  BY <1>1, <1>2, <1>6, <1>9, <1>10, StepExact

-----------------------------------------------------------------------------
(* UndisturbedCallsExact *)

\* Handles, and the calls that remove and rename.
LEMMA HandlesExact ==
  ASSUME FilesInv, ExactInv, NEW p \in Procs,
         \/ HandleOpen(p) \/ HandleClose(p) \/ HandleRead(p) \/ HandleWrite(p)
         \/ HandleSeek(p) \/ FileRemove(p) \/ FileRename(p)
  PROVE  ExactInv'
<1>1. Becomes(p, NoCall)
  BY DEF HandleOpen, HandleClose, HandleRead, HandleWrite, HandleSeek, FileRemove, FileRename
<1>2. \/ UNCHANGED file \/ Close(p)
      \/ \E pos : Advanced(p, pos)
      \/ \E path_, mode : Open(p, path_, mode)
  BY DEF HandleOpen, HandleClose, HandleRead, HandleWrite, HandleSeek, Writes, FileRemove,
         FileRename
<1>3. FileTypes
  BY DEF FilesInv
<1>4. \A q \in Procs \ {p} : file'[q] = file[q]
  BY <1>2, <1>3, OthersFiles
<1> QED
  BY <1>1, <1>3, <1>4, AsideNone, AsideExact

\* Calls on directories that are no listings, and empty appends.
LEMMA DirsExact ==
  ASSUME FilesInv, ExactInv, NEW p \in Procs,
         \/ AppendNothing(p)
         \/ MkdirBegins(p) \/ MkdirChecks(p) \/ MkdirsBegins(p) \/ MkdirsStep(p)
  PROVE  ExactInv'
<1>1. file' = file
  BY DEF AppendNothing, MkdirBegins, MkdirChecks, MkdirsBegins, MkdirsStep
<1>2. FileTypes
  BY DEF FilesInv
<1>3. Aside(p)
  BY AsideDirs, AsideAppends
<1> QED
  BY <1>1, <1>2, <1>3, AsideExact

\* A process that dies has no call left.
LEMMA CrashExact ==
  ASSUME FilesInv, ExactInv, NEW p \in Procs, Crash(p)
  PROVE  ExactInv'
<1>1. /\ call' = [call EXCEPT ![p] = NoCall] /\ file' = [file EXCEPT ![p] = Closed]
      /\ tree' = tree /\ data' = data
  BY DEF Crash
<1>2. call = [q \in Procs |-> call[q]] /\ file \in [Procs -> Handles]
  BY DEF FilesInv, FileTypes
<1>3. ASSUME NEW q \in Procs
      PROVE  ExactCall(tree', data', file'[q], call'[q], q)
  <2>1. CASE q = p
    <3>1. call'[q] = NoCall
      BY <1>1, <1>2, <2>1
    <3> QED
      BY <3>1 DEF ExactCall, NoCall
  <2>2. CASE q # p
    <3>1. call'[q] = call[q] /\ file'[q] = file[q]
      BY <1>1, <1>2, <2>2
    <3>2. ExactCall(tree, data, file[q], call[q], q)
      BY DEF ExactInv
    <3> QED
      BY <1>1, <3>1, <3>2
  <2> QED
    BY <2>1, <2>2
<1> QED
  BY <1>3 DEF ExactInv

\* Every step keeps what undisturbed calls rely on.
LEMMA ExactStep ==
  ASSUME FilesInv, FilesInv', ExactInv, ListsFit,
         [FilesystemNext]_<<pathVars, fileVars>>
  PROVE  ExactInv'
<1>1. CASE UNCHANGED fileVars
  BY <1>1 DEF fileVars, ExactInv
<1>2. ASSUME NEW p \in Procs,
             \/ HandleOpen(p) \/ HandleClose(p) \/ HandleRead(p) \/ HandleWrite(p)
             \/ HandleSeek(p) \/ FileRemove(p) \/ FileRename(p)
      PROVE  ExactInv'
  BY <1>2, HandlesExact
<1>3. ASSUME NEW p \in Procs,
             \/ ReadBegins(p) \/ ReadSize(p) \/ ReadNoMemory(p) \/ ReadChunk(p)
             \/ ReadReturns(p)
      PROVE  ExactInv'
  BY <1>3, ReadBeginsExact, ReadSizeExact, ReadNoMemoryExact, ReadChunkExact, ReadReturnsExact
<1>4. ASSUME NEW p \in Procs,
             WriteBegins(p) \/ WriteChunk(p) \/ WriteFails(p) \/ WriteReturns(p)
      PROVE  ExactInv'
  BY <1>4, WriteBeginsExact, WriteChunkExact, WriteReturnExact
<1>5. ASSUME NEW p \in Procs,
             \/ AppendNothing(p)
             \/ MkdirBegins(p) \/ MkdirChecks(p) \/ MkdirsBegins(p) \/ MkdirsStep(p)
      PROVE  ExactInv'
  BY <1>5, DirsExact
<1>6. ASSUME NEW p \in Procs,
             ListBegins(p) \/ ListEntry(p) \/ ListKind(p) \/ ListReturns(p) \/ Crash(p)
      PROVE  ExactInv'
  BY <1>6, ListBeginsExact, ListEntryExact, ListKindExact, ListReturnsExact, CrashExact
<1>7. CASE FilesNext
  BY <1>2, <1>3, <1>4, <1>5, <1>6, <1>7 DEF FilesNext
<1> QED
  BY <1>1, <1>7 DEF FilesystemNext

\* It holds at the start,
LEMMA ExactInitially ==
  ASSUME FilesInit
  PROVE  ExactInv
<1> SUFFICES ASSUME NEW p \in Procs
             PROVE  ExactCall(tree, data, file[p], call[p], p)
  BY DEF ExactInv
<1>1. call[p] = NoCall
  BY DEF FilesInit
<1> QED
  BY <1>1 DEF ExactCall, NoCall

\* and it implies the property.
LEMMA ExactMean ==
  ASSUME FilesInv, ExactInv
  PROVE  UndisturbedCallsExact
<1> SUFFICES ASSUME NEW p \in Procs, Calm(p)
             PROVE  LET c == call[p]
                        IsDir(name) == tree[Append(Locate(c.path), name)] = "dir"
                    IN  /\ Finished(p, "read") /\ c.ok =>
                             /\ justIsFile(c.path) => IsPrefix(c.got, data[At(c.path)])
                             /\ ~c.err =>
                                  justIsFile(c.path) /\ Len(c.got) = justGetFileSize(c.path)
                        /\ Finished(p, "write") =>
                             /\ justIsFile(c.path)
                             /\ data[At(c.path)] = SubSeq(Buffer(p), 1, c.n)
                             /\ c.ok <=> c.n = c.size
                        /\ Finished(p, "list") =>
                             /\ \A e \in c.got :
                                  e.name \in Entries(c.path) /\ (e.isDir => IsDir(e.name))
                             /\ ~c.err => c.got = {[name |-> name, isDir |-> IsDir(name)] :
                                                     name \in Entries(c.path)}
  BY Zenon DEF UndisturbedCallsExact
<1> DEFINE c == call[p]
           x == Named(tree, c.path)
           IsDir(name) == tree[Append(Locate(c.path), name)] = "dir"
<1>1. /\ c.op = "read" => ReadOf(tree, data, file[p], c)
      /\ c.op = "write" => WriteOf(tree, data, file[p], c, p)
      /\ c.op = "list" => ListOf(tree, c)
  BY DEF ExactInv, ExactCall, Calm
<1>2. At(c.path) = x /\ (justIsFile(c.path) <=> x \in Inodes)
  BY NamedAt DEF justIsFile
<1>3. ASSUME Finished(p, "read"), c.ok
      PROVE  /\ justIsFile(c.path) => IsPrefix(c.got, data[At(c.path)])
             /\ ~c.err => justIsFile(c.path) /\ Len(c.got) = justGetFileSize(c.path)
  <2>1. /\ x \in Inodes => IsPrefix(c.got, data[x])
        /\ ~c.err => x \in Inodes /\ Len(c.got) = Len(data[x])
    BY <1>1, <1>3, Zenon DEF Finished, ReadOf
  <2>2. x \in Inodes => justGetFileSize(c.path) = Len(data[x])
    BY <1>2, FilesAssumption DEF justGetFileSize, justFileExists, SizeNow
  <2> HIDE DEF c, x
  <2> QED
    BY <1>2, <2>1, <2>2, Zenon
<1>4. ASSUME Finished(p, "write")
      PROVE  /\ justIsFile(c.path)
             /\ data[At(c.path)] = SubSeq(Buffer(p), 1, c.n)
             /\ c.ok <=> c.n = c.size
  <2>1. /\ x \in Inodes /\ data[x] = SubSeq(Buffer(p), 1, c.n)
        /\ c.ok <=> c.n = c.size
    BY <1>1, <1>4, Zenon DEF Finished, WriteOf
  <2> HIDE DEF c, x
  <2> QED
    BY <1>2, <2>1, Zenon
<1>5. ASSUME Finished(p, "list")
      PROVE  /\ \A e \in c.got : e.name \in Entries(c.path) /\ (e.isDir => IsDir(e.name))
             /\ ~c.err => c.got = {[name |-> name, isDir |-> IsDir(name)] :
                                     name \in Entries(c.path)}
  <2>1. /\ c.got \subseteq ReportsIn(tree, c.path)
        /\ ~c.err => c.got = KindsIn(tree, c.path)
    BY <1>1, <1>5, Zenon DEF Finished, ListOf
  <2>2. Entries(c.path) = EntriesIn(tree, c.path)
    BY EntriesIs
  <2>3. \A name : Leaf(tree, c.path, name) = tree[Append(Locate(c.path), name)]
    BY DEF Leaf, Locate
  <2>4. \A e \in c.got : e.name \in Entries(c.path) /\ (e.isDir => IsDir(e.name))
    BY <2>1, <2>2, <2>3 DEF ReportsIn
  <2>5. KindsIn(tree, c.path) = {[name |-> name, isDir |-> IsDir(name)] :
                                   name \in Entries(c.path)}
    BY <2>2, <2>3 DEF KindsIn
  <2> QED
    BY <2>1, <2>4, <2>5, Zenon
<1> QED
  BY <1>3, <1>4, <1>5, Zenon

\* justFileWriteEntire leaves its buffer and nothing else or says that it did
\* not; justFileReadEntire returns the file and justListDir names every entry
\* with its kind, or a part of it after an error that neither reports; all
\* whenever no other process changed anything meanwhile, however the system
\* cuts the call into pieces and whatever the others do before and after.
THEOREM FilesUndisturbedCallsExact ==
  ASSUME ListsFit
  PROVE  FilesystemSpec => []UndisturbedCallsExact
<1>1. FilesystemInit => ExactInv
  BY ExactInitially DEF FilesystemInit
<1>2. FilesInv /\ FilesInv' /\ ExactInv /\ [FilesystemNext]_<<pathVars, fileVars>>
        => ExactInv'
  BY ExactStep
<1>3. FilesInv /\ ExactInv => UndisturbedCallsExact
  BY ExactMean
<1> QED
  BY <1>1, <1>2, <1>3, FilesInvariant, PTL DEF FilesystemSpec
=============================================================================
