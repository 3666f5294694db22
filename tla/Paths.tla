-------------------------------- MODULE Paths --------------------------------
(***************************************************************************)
(* The path functions of src/system/filesystem.c, and a caller that        *)
(* composes a path with them, call by call.  A path is a sequence of       *)
(* tokens: "/" or a name, and no two names meet.  A name counts one        *)
(* character, ".." two.                                                    *)
(***************************************************************************)
EXTENDS Naturals, Sequences, SequencesExt

CONSTANTS
  Parts,         \* the paths a caller joins
  PathBuffer,    \* BUFFER_SIZE
  PathTemp,      \* the local buffer of justPathNormalize, 1024 in the code
  MaxSegments,   \* its array of segments, 64 in the code
  Cwd            \* the caller's working directory, a sequence of names

ASSUME PathsAssumption ==
  /\ PathBuffer \in Nat /\ PathTemp \in Nat /\ MaxSegments \in Nat \ {0}

VARIABLES
  path,   \* the caller's buffer
  place   \* history: the directory or file the caller means

pathVars == <<path, place>>

Slash(t) == t = "/"
Segments(p) == SelectSeq(p, LAMBDA t : ~Slash(t))
IsAbsolute(p) == p # <<>> /\ Slash(p[1])

\* strlen
Length(p) == Len(p) + Len(SelectSeq(p, LAMBDA t : t = ".."))

\* The result of a function that fills a buffer of the given size.
Filled(p, size) == [ok |-> Length(p) < size, path |-> p]

\* strrchr(PATH, '/'), 0 for none.
LastSlash(p) == SelectLastInSeq(p, Slash)

justPathFilename(p) == SubSeq(p, LastSlash(p) + 1, Len(p))

justPathJoin(p, q, size) ==
  LET needsSlash == p # <<>> /\ ~Slash(Last(p)) /\ (q = <<>> \/ ~Slash(q[1]))
  IN  Filled(IF needsSlash THEN p \o <<"/">> \o q ELSE p \o q, size)

justPathParent(p, size) ==
  LET slash == LastSlash(p)
  IN  Filled(CASE slash = 0 -> <<".">>
               [] slash = 1 -> <<"/">>
               [] OTHER     -> SubSeq(p, 1, slash - 1), size)

\* A segment is stored while the array has room, and dropped afterwards.
Stored(segments, t) ==
  IF Len(segments) < MaxSegments THEN Append(segments, t) ELSE segments

\* Mutant: ".." takes back a ".." before it.
TakeSegmentBack(absolute, segments, t) ==
  CASE t = "."  -> segments
    [] t = ".." -> IF segments # <<>> THEN Front(segments)
                   ELSE IF absolute THEN segments ELSE Stored(segments, t)
    [] OTHER    -> Stored(segments, t)

TakeSegment(absolute, segments, t) ==
  CASE t = "."  -> segments
    [] t = ".." -> IF segments # <<>> /\ Last(segments) # ".." THEN Front(segments)
                   ELSE IF absolute THEN segments ELSE Stored(segments, t)
    [] OTHER    -> Stored(segments, t)

Resolved(p) ==
  FoldLeft(LAMBDA segments, t : TakeSegment(IsAbsolute(p), segments, t), <<>>, Segments(p))

\* The segments written out with one separator between two of them.
Written(absolute, segments) ==
  LET joined == FoldLeft(LAMBDA out, t : IF out = <<>> THEN <<t>> ELSE out \o <<"/", t>>,
                         <<>>, segments)
  IN  IF absolute THEN <<"/">> \o joined
      ELSE IF segments = <<>> THEN <<".">> ELSE joined

justPathNormalize(p, size) ==
  LET r == Filled(Written(IsAbsolute(p), Resolved(p)), size)
  IN  [r EXCEPT !.ok = @ /\ Length(p) < PathTemp]

-----------------------------------------------------------------------------
(* Where a path leads, from a directory, when every name is a directory.     *)

Step(at, t) ==
  CASE t = "."  -> at
    [] t = ".." -> IF at = <<>> THEN at ELSE Front(at)
    [] OTHER    -> Append(at, t)

From(at, p) == FoldLeft(Step, at, Segments(p))

Leads(p) == From(IF IsAbsolute(p) THEN <<>> ELSE Cwd, p)

\* The array of segments never was full before the last token.
FitsSegments(p) == \A q \in Prefixes(p) \ {p} : Len(Resolved(q)) < MaxSegments

-----------------------------------------------------------------------------
PathsInit == path = <<>> /\ place = Cwd

Got(r, at) == r.ok /\ path' = r.path /\ place' = at

CallJoin(part) ==
  Got(justPathJoin(path, part, PathBuffer),
      IF path = <<>> THEN Leads(part) ELSE From(place, part))

CallNormalize ==
  LET r == justPathNormalize(path, PathBuffer)
  IN  Got(r, IF FitsSegments(path) THEN place ELSE Leads(r.path))

\* Of a path that ends in a name the parent is the directory it is in.
CallParent ==
  /\ justPathFilename(path) \notin {<<>>, <<".">>, <<"..">>}
  /\ Got(justPathParent(path, PathBuffer), Front(place))

\* A path is taken apart and put together again.
CallSplit ==
  LET dir == justPathParent(path, PathBuffer)
  IN  /\ dir.ok
      /\ Got(justPathJoin(dir.path, justPathFilename(path), PathBuffer), place)

PathsNext ==
  CallNormalize \/ CallParent \/ CallSplit \/ \E part \in Parts : CallJoin(part)

-----------------------------------------------------------------------------
(* Properties *)

\* No "." and no doubled separator, ".." only where a relative path leaves
\* the directory it starts in, and no separator at the end.
Canonical(p) ==
  \/ p \in {<<".">>, <<"/">>}
  \/ /\ ~Slash(Last(p))
     /\ \A i \in DOMAIN p : p[i] # "."
     /\ \A i \in 2 .. Len(p) : ~(Slash(p[i - 1]) /\ Slash(p[i]))
     /\ \A i \in DOMAIN p :
          p[i] = ".." => ~IsAbsolute(p) /\ \A j \in 1 .. i : p[j] \in {"..", "/"}

\* However joins, normalisations, parents and file names are chained, the
\* buffer leads to what the caller means; normalising it gives a canonical
\* path to the same place, and normalising again changes nothing, as long as
\* the path has no more segments than justPathNormalize stores.
PathsLeadHome ==
  /\ Leads(path) = place
  /\ LET n == justPathNormalize(path, PathBuffer)
     IN  n.ok /\ FitsSegments(path) =>
           /\ Leads(n.path) = place
           /\ Canonical(n.path)
           /\ justPathNormalize(n.path, PathBuffer) = n
=============================================================================
