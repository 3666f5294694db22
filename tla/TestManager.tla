----------------------------- MODULE TestManager -----------------------------
(***************************************************************************)
(* The test manager (src/testing/testManager.c): tests are registered in   *)
(* groups and run one by one, each in a child process whose output comes   *)
(* back through a pipe and whose exit status is the result.                *)
(*                                                                         *)
(* Output is lines, written with the logger (src/core/logger.c), which     *)
(* the release build reduces to errors.  stderr is unbuffered.  stdout is  *)
(* flushed line by line if it was a terminal when first written to;        *)
(* otherwise lines wait in the process's buffer, and fork copies them.     *)
(* What a test does is its own affair: it writes, leaves a process behind  *)
(* that keeps the pipe open, returns, calls exit, or is killed.            *)
(***************************************************************************)
EXTENDS Naturals, Sequences, FiniteSets, SequencesExt

CONSTANTS
  Tests,
  Groups,           \* the group numbers below JUST_MAX_TEST_GROUPS that are used
  MaxTestsPerGroup, \* JUST_MAX_TESTS_PER_GROUP
  PipeLines,        \* lines that fit in a pipe
  MaxLines,         \* bound: lines a test writes
  Codes             \* bound: exit statuses

FAIL == 0  \* JustTestResult
PASS == 1
SKIP == 2

SIGNALED == 256  \* stands for a status with WIFSIGNALED
NOT_RUN  == 257  \* history: there was no process

ASSUME TestAssumption ==
  /\ IsFiniteSet(Groups) /\ Groups # {} /\ Groups = 0 .. Cardinality(Groups) - 1
  /\ MaxTestsPerGroup \in Nat \ {0} /\ PipeLines \in Nat \ {0} /\ MaxLines \in Nat
  /\ {FAIL, PASS, SKIP} \subseteq Codes /\ Codes \subseteq 0 .. 255

VARIABLES
  debug,       \* is it the debug build?  fixed from the start
  toFile,      \* is stdout a file?  fixed from the start
  used,        \* has the parent written to stdout?
  pc,          \* the parent: "idle", "next", "pipe", "forked", "read", "wait",
               \* "returned", "aborted"
  testGroups, maxGroupID,
  group, index,                                   \* the loops of RunAll
  total, passed, skipped, failed, crashed,
  child,       \* the child process: its state, exit status and stdout buffer
  writers,     \* the processes that hold the pipe's write end
  pipe, buffer, console,  \* lines in the pipe, in the parent's stdout, shown
  written,     \* history: the lines written, in order
  fates,       \* history: how every test that was run came to its end
  verdicts     \* history: what it was counted as

vars == <<debug, toFile, used, pc, testGroups, maxGroupID, group, index, total, passed, skipped,
          failed, crashed, child, writers, pipe, buffer, console, written, fates, verdicts>>

counts == <<passed, skipped, failed, crashed, verdicts>>
fixed  == <<debug, toFile>>
loops  == <<fixed, testGroups, maxGroupID, group, index, total>>
output == <<pipe, buffer, console, written, used>>

NoChild == [state |-> "none", status |-> 0, stdout |-> <<>>,
            buffered |-> FALSE, lines |-> 0]

Init ==
  /\ debug \in BOOLEAN /\ toFile \in BOOLEAN /\ used = FALSE
  /\ pc = "idle"
  /\ testGroups = [g \in Groups |-> <<>>] /\ maxGroupID = 0
  /\ group = 0 /\ index = 1
  /\ total = 0 /\ passed = 0 /\ skipped = 0 /\ failed = 0 /\ crashed = 0
  /\ child = NoChild /\ writers = {}
  /\ pipe = <<>> /\ buffer = <<>> /\ console = <<>>
  /\ written = <<>> /\ fates = <<>> /\ verdicts = <<>>

-----------------------------------------------------------------------------
(* The logger in the parent *)

\* The stream of a level: writeConsole.
Stream(level) == IF level \in {"FATAL", "ERROR"} THEN "stderr" ELSE "stdout"

\* stdio: what happens to lines the parent writes to a stream.
Put(stream, lines) ==
  /\ used' = (used \/ stream = "stdout")
  /\ IF stream = "stdout" /\ toFile
       THEN buffer' = buffer \o lines /\ UNCHANGED console
       ELSE console' = console \o lines /\ UNCHANGED buffer

\* The macros of logger.h: which levels are compiled in.
Enabled(level) == debug \/ level \in {"FATAL", "ERROR"}

\* justLogOutput: one line.
LogOutput(level, line) ==
  IF Enabled(level)
    THEN /\ Put(Stream(level), <<line>>)
         /\ written' = Append(written, line)
         /\ UNCHANGED pipe
    ELSE UNCHANGED output

-----------------------------------------------------------------------------
(* Registration *)

\* A group that is full stops the program.
Register(t, g) ==
  /\ pc = "idle"
  /\ \A h \in Groups : t \notin Range(testGroups[h])
  /\ maxGroupID' = IF g > maxGroupID THEN g ELSE maxGroupID
  /\ IF Len(testGroups[g]) < MaxTestsPerGroup
       THEN testGroups' = [testGroups EXCEPT ![g] = Append(@, t)] /\ UNCHANGED pc
       ELSE pc' = "aborted" /\ UNCHANGED testGroups
  /\ UNCHANGED <<fixed, group, index, total, counts, child, writers, output, fates>>

-----------------------------------------------------------------------------
(* justTestRunAll *)

Test == testGroups[group][index]

RunAll ==
  /\ pc = "idle"
  /\ pc' = "next"
  /\ group' = 0 /\ index' = 1
  /\ LogOutput("INFO", <<"banner">>)
  /\ UNCHANGED <<fixed, testGroups, maxGroupID, total, counts, child, writers, fates>>

StartTest ==
  /\ pc = "next" /\ group <= maxGroupID /\ index <= Len(testGroups[group])
  /\ pc' = "pipe"
  /\ total' = total + 1
  /\ IF index = 1 THEN LogOutput("INFO", <<"group", group>>) ELSE UNCHANGED output
  /\ UNCHANGED <<fixed, testGroups, maxGroupID, group, index, counts, child, writers, fates>>

\* Mutant: the loop ends before the last group.
GroupsLeftBefore == group + 1 < maxGroupID

GroupsLeft == group + 1 <= maxGroupID

NextGroup ==
  /\ pc = "next" /\ index > Len(testGroups[group])
  /\ GroupsLeft
  /\ group' = group + 1 /\ index' = 1
  /\ UNCHANGED <<fixed, pc, testGroups, maxGroupID, total, counts, child, writers,
                 output, fates>>

\* The summary, with the failures on stderr; the caller returns from main and
\* stdio is flushed.
Summary ==
  /\ pc = "next" /\ index > Len(testGroups[group])
  /\ ~GroupsLeft
  /\ pc' = "returned"
  /\ LET summary  == IF Enabled("INFO") THEN <<<<"summary">>>> ELSE <<>>
         failures == IF failed + crashed > 0 THEN <<<<"failures">>>> ELSE <<>>
     IN  /\ console' = IF toFile THEN console \o failures \o buffer \o summary
                       ELSE console \o summary \o failures
         /\ written' = written \o summary \o failures
  /\ buffer' = <<>>
  /\ UNCHANGED <<loops, counts, child, writers, pipe, used, fates>>

\* Mutant: what is not skipped or failed has passed.
KindOfLeftover(safe, result) ==
  IF ~safe THEN "crashed"
  ELSE IF result = SKIP THEN "skipped"
  ELSE IF result = FAIL THEN "failed"
  ELSE "passed"

\* How a result is counted.
Kind(safe, result) ==
  IF ~safe THEN "crashed"
  ELSE IF result = PASS THEN "passed"
  ELSE IF result = SKIP THEN "skipped"
  ELSE "failed"

\* The end of one turn of the loop.
Booked(safe, result) ==
  LET kind == Kind(safe, result)
  IN  /\ passed'  = passed  + IF kind = "passed"  THEN 1 ELSE 0
      /\ skipped' = skipped + IF kind = "skipped" THEN 1 ELSE 0
      /\ failed'  = failed  + IF kind = "failed"  THEN 1 ELSE 0
      /\ crashed' = crashed + IF kind = "crashed" THEN 1 ELSE 0
      /\ verdicts' = Append(verdicts, <<Test, kind>>)
      /\ LogOutput(CASE kind = "passed" -> "INFO" [] kind = "skipped" -> "WARNING"
                     [] OTHER -> "ERROR", <<kind, Test>>)
      /\ pc' = "next"
      /\ index' = index + 1
      /\ UNCHANGED <<fixed, testGroups, maxGroupID, group, total>>

-----------------------------------------------------------------------------
(* runTestForked: the parent *)

\* pipe fails; the line that says so is left out.
PipeFails ==
  /\ pc = "pipe"
  /\ fates' = Append(fates, <<Test, NOT_RUN>>)
  /\ Booked(FALSE, FAIL)
  /\ UNCHANGED <<child, writers>>

\* The child has a copy of everything, the lines in stdout's buffer too.
Fork ==
  /\ pc = "pipe"
  /\ pc' = "forked"
  /\ child' = [NoChild EXCEPT !.state = "running", !.stdout = buffer,
                              !.buffered = (toFile \/ ~used)]
  /\ writers' = {"parent", "child"}
  /\ UNCHANGED <<loops, counts, output, fates>>

\* pid is -1, which nobody looks at: the parent goes on without a child.
ForkFails ==
  /\ pc = "pipe"
  /\ pc' = "forked"
  /\ writers' = {"parent"}
  /\ fates' = Append(fates, <<Test, NOT_RUN>>)
  /\ UNCHANGED <<loops, counts, output, child>>

\* Mutant: the write end stays open.
ParentKeeps ==
  /\ pc = "forked"
  /\ pc' = "read"
  /\ UNCHANGED <<loops, counts, child, writers, output, fates>>

\* close(pipefd[1])
ParentCloses ==
  /\ pc = "forked"
  /\ pc' = "read"
  /\ writers' = writers \ {"parent"}
  /\ UNCHANGED <<loops, counts, child, output, fates>>

\* One read, echoed with fputs.
ParentReads ==
  /\ pc = "read" /\ pipe # <<>>
  /\ \E n \in 1 .. Len(pipe) :
       /\ Put("stdout", SubSeq(pipe, 1, n))
       /\ pipe' = SubSeq(pipe, n + 1, Len(pipe))
  /\ UNCHANGED <<loops, pc, counts, child, writers, written, fates>>

\* Mutant: the read loop ends when the pipe is empty.
AtEndEmpty == pipe = <<>>

\* read returns 0 when the pipe is empty and nobody can write to it.
AtEnd == pipe = <<>> /\ writers = {}

ParentReachesEnd ==
  /\ pc = "read" /\ AtEnd
  /\ pc' = "wait"
  /\ UNCHANGED <<loops, counts, child, writers, output, fates>>

\* waitpid: the status of the child, or 0 as initialised if there is none.
ParentWaits ==
  /\ pc = "wait" /\ child.state \in {"zombie", "none"}
  /\ Booked(child.status # SIGNALED, child.status)
  /\ child' = NoChild
  /\ UNCHANGED <<writers, fates>>

-----------------------------------------------------------------------------
(* The child *)

\* The test writes a line: to its stdout buffer, or to the pipe.
ChildWrites(stream) ==
  /\ child.state = "running" /\ child.lines < MaxLines
  /\ LET line == <<stream, Test, child.lines>> IN
       /\ written' = Append(written, line)
       /\ IF stream = "stdout" /\ child.buffered
            THEN /\ child' = [child EXCEPT !.lines = @ + 1, !.stdout = Append(@, line)]
                 /\ UNCHANGED pipe
            ELSE /\ Len(pipe) < PipeLines
                 /\ pipe' = Append(pipe, line)
                 /\ child' = [child EXCEPT !.lines = @ + 1]
  /\ UNCHANGED <<loops, pc, counts, writers, buffer, console, used, fates>>

\* It starts a process that inherits the pipe and outlives it.
ChildSpawns ==
  /\ child.state = "running" /\ "other" \notin writers
  /\ writers' = writers \cup {"other"}
  /\ UNCHANGED <<loops, pc, counts, child, output, fates>>

OtherEnds ==
  /\ "other" \in writers
  /\ writers' = writers \ {"other"}
  /\ UNCHANGED <<loops, pc, counts, child, output, fates>>

\* TEST.func returns, or the test calls exit itself.
ChildReturns(code) ==
  /\ child.state = "running"
  /\ child' = [child EXCEPT !.state = "exiting", !.status = code]
  /\ UNCHANGED <<loops, pc, counts, writers, output, fates>>

\* exit flushes stdout.
ChildFlushes ==
  /\ child.state = "exiting" /\ child.stdout # <<>>
  /\ Len(pipe) < PipeLines
  /\ pipe' = Append(pipe, Head(child.stdout))
  /\ child' = [child EXCEPT !.stdout = Tail(@)]
  /\ UNCHANGED <<loops, pc, counts, writers, buffer, console, written, used, fates>>

ChildExits ==
  /\ child.state = "exiting" /\ child.stdout = <<>>
  /\ child' = [child EXCEPT !.state = "zombie"]
  /\ writers' = writers \ {"child"}
  /\ fates' = Append(fates, <<Test, child.status>>)
  /\ UNCHANGED <<loops, pc, counts, output>>

\* A signal, in the test or while exit flushes, or abort after a failed
\* assertion: what is not flushed is lost.
ChildDies ==
  /\ child.state \in {"running", "exiting"}
  /\ child' = [child EXCEPT !.state = "zombie", !.status = SIGNALED, !.stdout = <<>>]
  /\ writers' = writers \ {"child"}
  /\ fates' = Append(fates, <<Test, SIGNALED>>)
  /\ UNCHANGED <<loops, pc, counts, output>>

ParentStep ==
  \/ StartTest \/ NextGroup \/ Summary
  \/ PipeFails \/ Fork \/ ForkFails \/ ParentCloses \/ ParentReads
  \/ ParentReachesEnd \/ ParentWaits

\* A test that comes to its end by itself; a signal need never come.
ChildEnds == ChildFlushes \/ ChildExits \/ \E c \in Codes : ChildReturns(c)

Next ==
  \/ RunAll \/ ParentStep \/ ChildEnds \/ ChildDies \/ ChildSpawns \/ OtherEnds
  \/ \E t \in Tests, g \in Groups : Register(t, g)
  \/ \E stream \in {"stdout", "stderr"} : ChildWrites(stream)

Spec == Init /\ [][Next]_vars

\* The parent runs, and what the test started comes to an end: the code sets
\* no limit to a test's time.
FairSpec == Spec /\ WF_vars(ParentStep) /\ WF_vars(ChildEnds) /\ WF_vars(OtherEnds)

-----------------------------------------------------------------------------
(* Properties *)

Registered == {t \in Tests : \E g \in Groups : t \in Range(testGroups[g])}

\* The four counters and the test being run make up the total, no test is run
\* twice, and when RunAll returns every registered test has been counted.
EveryTestCountedOnce ==
  /\ passed + skipped + failed + crashed = Len(verdicts)
  /\ total = Len(verdicts) + IF pc \in {"pipe", "forked", "read", "wait"} THEN 1 ELSE 0
  /\ Cardinality({verdicts[i][1] : i \in DOMAIN verdicts}) = Len(verdicts)
  /\ pc = "returned" => {verdicts[i][1] : i \in DOMAIN verdicts} = Registered

\* The verdict is about the test's own end, whatever was forked, read and
\* waited for in between.  A test that could not be started never counts as
\* passed or skipped, and one that was killed counts as crashed.
VerdictsTruthful ==
  \A i \in DOMAIN verdicts :
    /\ fates[i][1] = verdicts[i][1]
    /\ verdicts[i][2] \in
         CASE fates[i][2] = NOT_RUN  -> {"failed", "crashed"}
           [] fates[i][2] = SIGNALED -> {"crashed"}
           [] fates[i][2] = PASS     -> {"passed"}
           [] fates[i][2] = SKIP     -> {"skipped"}
           [] OTHER                  -> {"failed"}

Killed(t) == \E i \in DOMAIN fates : fates[i] = <<t, SIGNALED>>

\* On a terminal the debug build's transcript is exact: every line of the
\* parent and of the tests appears once, in the order written, a killed test's
\* last ones too.  Otherwise no line is lost but those a killed test left in
\* its buffer, or exit had not flushed when it was killed.
TranscriptComplete ==
  IF debug /\ ~toFile
    THEN console \o pipe = written
    ELSE \A i \in DOMAIN written :
           \/ written[i] \in Range(console \o buffer \o pipe \o child.stdout)
           \/ written[i][1] = "stdout" /\ Killed(written[i][2])

\* RunAll returns: neither a full pipe nor an open one blocks it for ever,
\* nor a child that was never forked.
RunAllReturns == (pc = "next") ~> (pc = "returned")
=============================================================================
