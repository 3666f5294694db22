-------------------------------- MODULE Files --------------------------------
(***************************************************************************)
(* The file and directory calls of src/system/filesystem.c, made by        *)
(* several processes on one file system.  Every system call is a step of   *)
(* its own: it may be interrupted by other processes, transfer less than   *)
(* asked for, fail, or be the last step before its process dies.           *)
(*                                                                         *)
(* The file system is external: a tree of places (sequences of names),     *)
(* each with nothing, a directory or a file; a file has an inode that may  *)
(* outlive its name.  Byte i of what process p writes is <<p, i>>.         *)
(***************************************************************************)
EXTENDS Paths, Integers, FiniteSets

CONSTANTS
  Procs, Inodes, Names,
  Nowhere,          \* no place, no inode, no process, no name
  FileArgs,         \* the paths of file calls
  DirArgs,          \* the paths of directory calls
  Moves,            \* the pairs of paths of justFileRename
  MaxDepth,         \* bound: levels of directories
  BufferBytes,      \* bound: bytes of a caller's buffer
  MaxBytes,         \* bound: bytes of a file; beyond it a write fails
  MaxCalls          \* bound: calls, by all processes

Places == BoundedSeq(Names, MaxDepth)

Tokens == Names \cup {"/", ".", ".."}

ASSUME FilesAssumption ==
  /\ BufferBytes \in Nat \ {0} /\ MaxBytes \in Nat /\ MaxCalls \in Nat
  /\ MaxDepth \in Nat /\ Cwd \in Places
  /\ Nowhere \notin Procs \cup Places \cup Names
  /\ {"/", ".", ".."} \cap Names = {} /\ {"none", "dir"} \cap Inodes = {}
  /\ FileArgs \cup DirArgs \subseteq Seq(Tokens)
  /\ \A move \in Moves : {move[1], move[2]} \subseteq Seq(Tokens)

VARIABLES
  tree,      \* what is at every place
  data,      \* the bytes of every inode
  file,      \* every process's JustFile, with the offset the kernel keeps
  openFds,   \* the number of descriptors it has open
  call,      \* its last call: progress, result, and what others did meanwhile
  calls      \* calls begun

fileVars == <<tree, data, file, openFds, call, calls>>

Closed == [isOpen |-> FALSE, ino |-> Nowhere, pos |-> 0, mode |-> "read"]

NoCall ==
  [op |-> "none", path |-> <<>>, done |-> TRUE, ok |-> FALSE, size |-> 0, n |-> 0,
   got |-> <<>>, before |-> <<>>, entry |-> Nowhere, err |-> FALSE, hits |-> {}]

FilesInit ==
  /\ tree = [at \in Places |-> IF at = <<>> THEN "dir" ELSE "none"]
  /\ data = [i \in Inodes |-> <<>>]
  /\ file = [p \in Procs |-> Closed]
  /\ openFds = [p \in Procs |-> 0]
  /\ call = [p \in Procs |-> NoCall]
  /\ calls = 0

\* One token further: a name leads on from a directory only.
Passed(tr, at, t) ==
  IF Slash(t) THEN at
  ELSE IF at = Nowhere \/ tr[at] # "dir" \/ Step(at, t) \notin Places THEN Nowhere
  ELSE Step(at, t)

\* The places that a path passes, token by token.
Walk(tr, p) ==
  LET at[i \in 0 .. Len(p)] ==
        IF i = 0 THEN (IF IsAbsolute(p) THEN <<>> ELSE Cwd)
        ELSE Passed(tr, at[i - 1], p[i])
  IN  at

Locate(p) == Walk(tree, p)[Len(p)]

At(p) == IF Locate(p) = Nowhere THEN "none" ELSE tree[Locate(p)]

justFileExists(p)  == At(p) # "none"
justIsFile(p)      == At(p) \in Inodes
justIsDirectory(p) == At(p) = "dir"

\* st_size; a directory has a size too.
SizeNow(ino) == IF ino \in Inodes THEN Len(data[ino]) ELSE 1

justGetFileSize(p) == IF justFileExists(p) THEN SizeNow(At(p)) ELSE 0

\* What a step does to calls of other processes: it changes something, it
\* changes bytes that were there, it takes or replaces a name.
Events ==
  {e \in {"change", "cut", "move"} :
     CASE e = "change" -> tree' # tree \/ data' # data
       [] e = "cut"    -> \E i \in Inodes : ~IsPrefix(data[i], data'[i])
       [] e = "move"   -> \E at \in Places : tree[at] \notin {"none", tree'[at]}}

\* The call of p is now c; the others' calls note what happened.
Becomes(p, c) ==
  call' = [q \in Procs |->
             IF q = p THEN c
             ELSE IF call[q] = NoCall THEN NoCall
             ELSE [call[q] EXCEPT !.hits = @ \cup Events]]

Returns(p, ok) == Becomes(p, [call[p] EXCEPT !.done = TRUE, !.ok = ok])

\* A process between calls makes the next one.
Begins(p) ==
  /\ call[p].done /\ calls < MaxCalls
  /\ calls' = calls + 1

Running(p, op) == call[p].op = op /\ ~call[p].done /\ UNCHANGED calls

New(op, p) == [NoCall EXCEPT !.op = op, !.path = p, !.done = FALSE]

-----------------------------------------------------------------------------
(* justFileOpen, justFileClose *)

Spare == {i \in Inodes : /\ \A at \in Places : tree[at] # i
                         /\ \A q \in Procs : file[q].ino # i}

Handle(ino, mode) == [isOpen |-> TRUE, ino |-> ino, pos |-> 0, mode |-> mode]

Open(p, path_, mode) ==
  LET at == Locate(path_)
  IN  /\ at \in Places
      /\ \/ /\ tree[at] \in Inodes
            /\ data' = IF mode = "write" THEN [data EXCEPT ![tree[at]] = <<>>] ELSE data
            /\ UNCHANGED tree
         \/ /\ tree[at] = "none" /\ mode # "read"
            /\ Spare # {}
            /\ LET i == CHOOSE i \in Spare : TRUE
               IN  tree' = [tree EXCEPT ![at] = i] /\ data' = [data EXCEPT ![i] = <<>>]
         \/ tree[at] = "dir" /\ mode = "read" /\ UNCHANGED <<tree, data>>
      /\ file' = [file EXCEPT ![p] = Handle(tree'[at], mode)]
      /\ openFds' = [openFds EXCEPT ![p] = @ + 1]

Close(p) ==
  /\ file' = [file EXCEPT ![p] = Closed]
  /\ openFds' = [openFds EXCEPT ![p] = @ - 1]

Modes == {"read", "write", "append", "read_write"}

HandleOpen(p) ==
  \E path_ \in FileArgs, mode \in Modes :
    /\ ~file[p].isOpen /\ Begins(p)
    /\ Open(p, path_, mode)
    /\ Becomes(p, NoCall)

HandleClose(p) ==
  /\ call[p].done /\ file[p].isOpen
  /\ UNCHANGED <<tree, data, calls>>
  /\ Close(p) /\ Becomes(p, NoCall)

-----------------------------------------------------------------------------
(* justFileRead, justFileWrite, justFileSeek *)

Bytes(p) == IF file[p].ino \in Inodes THEN data[file[p].ino] ELSE <<>>

Advanced(p, pos) == file' = [file EXCEPT ![p].pos = pos]

\* The next k bytes, no more than there are.
Chunk(p, k) ==
  SubSeq(Bytes(p), file[p].pos + 1,
         IF file[p].pos + k < Len(Bytes(p)) THEN file[p].pos + k ELSE Len(Bytes(p)))

HandleRead(p) ==
  /\ call[p].done /\ file[p].isOpen /\ file[p].mode \in {"read", "read_write"}
  /\ Chunk(p, 1) # <<>>
  /\ Advanced(p, file[p].pos + 1)
  /\ UNCHANGED <<tree, data, openFds, calls>>
  /\ Becomes(p, NoCall)

\* Mutant: the file is not opened with O_APPEND.
WritePosAtOffset(p) == file[p].pos

\* O_APPEND moves the offset to the end before every write.
WritePos(p) == IF file[p].mode = "append" THEN Len(Bytes(p)) ELSE file[p].pos

\* The bytes s with b written at pos; a gap reads as zeros.
Over(s, pos, b) ==
  [i \in 1 .. (IF Len(s) > pos + Len(b) THEN Len(s) ELSE pos + Len(b)) |->
     IF pos < i /\ i <= pos + Len(b) THEN b[i - pos]
     ELSE IF i <= Len(s) THEN s[i] ELSE <<Nowhere, 0>>]

Writes(p, b) ==
  /\ WritePos(p) + Len(b) <= MaxBytes
  /\ data' = [data EXCEPT ![file[p].ino] = Over(@, WritePos(p), b)]
  /\ Advanced(p, WritePos(p) + Len(b))
  /\ UNCHANGED <<tree, openFds>>

Buffer(p) == [i \in 1 .. BufferBytes |-> <<p, i>>]

HandleWrite(p) ==
  /\ call[p].done /\ file[p].isOpen /\ file[p].mode # "read"
  /\ Writes(p, SubSeq(Buffer(p), 1, 1))
  /\ Becomes(p, NoCall)
  /\ UNCHANGED calls

\* JUST_SEEK_SET, JUST_SEEK_CUR and JUST_SEEK_END; a negative offset is refused.
HandleSeek(p) ==
  \E base \in {0, file[p].pos, Len(Bytes(p))}, offset \in {-1, 0, 1} :
    /\ call[p].done /\ file[p].isOpen /\ file[p].ino \in Inodes
    /\ base + offset \in 0 .. MaxBytes
    /\ Advanced(p, base + offset)
    /\ UNCHANGED <<tree, data, openFds, calls>>
    /\ Becomes(p, NoCall)

-----------------------------------------------------------------------------
(* justFileReadEntire *)

\* The size before the file was asked for it.
Unasked == -1

\* A directory can be opened too, and every read of it fails.
ReadBegins(p) ==
  \E path_ \in FileArgs :
    /\ ~file[p].isOpen /\ Begins(p)
    /\ Open(p, path_, "read")
    /\ Becomes(p, [New("read", path_) EXCEPT !.size = Unasked])

\* fstat, which counts as 0 when it fails.
ReadSize(p) ==
  /\ Running(p, "read") /\ call[p].size = Unasked
  /\ UNCHANGED <<tree, data, file, openFds>>
  /\ \/ Becomes(p, [call[p] EXCEPT !.size = SizeNow(file[p].ino)])
     \/ Becomes(p, [call[p] EXCEPT !.size = 0, !.err = TRUE])

\* No memory for the buffer: NULL.
ReadNoMemory(p) ==
  /\ Running(p, "read") /\ call[p].size # Unasked /\ call[p].n = 0
  /\ Close(p)
  /\ UNCHANGED <<tree, data>>
  /\ Returns(p, FALSE)

ReadChunk(p) ==
  \E k \in 1 .. call[p].size - call[p].n :
    LET b == Chunk(p, k)
    IN  /\ Running(p, "read") /\ b # <<>>
        /\ Advanced(p, file[p].pos + Len(b))
        /\ UNCHANGED <<tree, data, openFds>>
        /\ Becomes(p, [call[p] EXCEPT !.n = @ + Len(b), !.got = @ \o b])

\* The loop ends at the size, at the end of the file or with an error; all
\* return the buffer.
ReadReturns(p) ==
  /\ Running(p, "read") /\ call[p].size # Unasked
  /\ Close(p)
  /\ UNCHANGED <<tree, data>>
  /\ Becomes(p, [call[p] EXCEPT !.done = TRUE, !.ok = TRUE,
                   !.err = @ \/ /\ call[p].n < call[p].size
                                /\ Chunk(p, 1) # <<>> \/ file[p].ino \notin Inodes])

-----------------------------------------------------------------------------
(* justFileWriteEntire, justFileAppendEntire *)

WriteOps == {"write", "append"}

WriteBegins(p) ==
  \E op \in WriteOps, path_ \in FileArgs, size \in {0, BufferBytes} :
    /\ ~file[p].isOpen /\ Begins(p)
    /\ ~(op = "append" /\ size = 0)
    /\ Open(p, path_, op)
    /\ Becomes(p, [New(op, path_) EXCEPT !.size = size, !.before = data'[file'[p].ino]])

\* An empty append returns true before anything is opened.
AppendNothing(p) ==
  /\ ~file[p].isOpen /\ Begins(p)
  /\ UNCHANGED <<tree, data, file, openFds>>
  /\ Becomes(p, [NoCall EXCEPT !.ok = TRUE])

WriteChunk(p) ==
  \E op \in WriteOps : \E k \in 1 .. call[p].size - call[p].n :
    /\ Running(p, op)
    /\ Writes(p, SubSeq(Buffer(p), call[p].n + 1, call[p].n + k))
    /\ Becomes(p, [call[p] EXCEPT !.n = @ + k])

\* Mutant: the descriptor is left open.
WriteFailsOpen(p) ==
  \E op \in WriteOps :
    /\ Running(p, op) /\ call[p].n < call[p].size
    /\ file' = [file EXCEPT ![p] = Closed]
    /\ UNCHANGED <<tree, data, openFds>>
    /\ Returns(p, FALSE)

\* write() fails: a part may be in the file.
WriteFails(p) ==
  \E op \in WriteOps :
    /\ Running(p, op) /\ call[p].n < call[p].size
    /\ Close(p)
    /\ UNCHANGED <<tree, data>>
    /\ Returns(p, FALSE)

\* Mutant: a short write counts as a whole one.
WriteReturnsShort(p) ==
  \E op \in WriteOps :
    /\ Running(p, op) /\ (call[p].n > 0 \/ call[p].size = 0)
    /\ Close(p)
    /\ UNCHANGED <<tree, data>>
    /\ Returns(p, TRUE)

WriteReturns(p) ==
  \E op \in WriteOps :
    /\ Running(p, op) /\ call[p].n = call[p].size
    /\ Close(p)
    /\ UNCHANGED <<tree, data>>
    /\ Returns(p, TRUE)

-----------------------------------------------------------------------------
(* justMkdir, justMkdirRecursive, justFileRemove, justFileRename *)

\* mkdir(): the new tree, if there was nothing at the place.
CanMake(p) == Locate(p) # Nowhere /\ tree[Locate(p)] = "none"
Made(p) == [tree EXCEPT ![Locate(p)] = "dir"]

MkdirBegins(p) ==
  \E path_ \in DirArgs :
    /\ Begins(p)
    /\ UNCHANGED <<data, file, openFds>>
    /\ \/ /\ CanMake(path_) /\ tree' = Made(path_)
          /\ Becomes(p, [New("mkdir", path_) EXCEPT !.done = TRUE, !.ok = TRUE])
       \/ /\ justFileExists(path_) /\ UNCHANGED tree
          /\ Becomes(p, New("mkdir", path_))
       \/ /\ UNCHANGED tree
          /\ Becomes(p, [New("mkdir", path_) EXCEPT !.done = TRUE,
                                                   !.err = Locate(path_) # Nowhere])

\* EEXIST: is it a directory?  No when stat fails.
MkdirChecks(p) ==
  /\ Running(p, "mkdir")
  /\ UNCHANGED <<tree, data, file, openFds>>
  /\ \E ok \in {justIsDirectory(call[p].path), FALSE} : Returns(p, ok)

MkdirsBegins(p) ==
  \E path_ \in DirArgs :
    /\ Length(path_) < PathTemp /\ Begins(p)
    /\ UNCHANGED <<tree, data, file, openFds>>
    /\ Becomes(p, New("mkdirs", path_))

\* Where the path is cut: at every separator but one at its start.
Cuts(p) == {i \in 2 .. Len(p) : Slash(p[i])}

\* The prefix whose turn it is, after n tokens.
Prefix(p, n) ==
  LET rest == {i \in Cuts(p) : i > n}
  IN  IF rest = {} THEN p ELSE SubSeq(p, 1, Min(rest) - 1)

Advances(p, prefix) ==
  Becomes(p, IF prefix = call[p].path THEN [call[p] EXCEPT !.done = TRUE, !.ok = TRUE]
                                      ELSE [call[p] EXCEPT !.n = Len(prefix) + 1])

\* Mutant: a directory that is already there ends the call.
MkdirsStepOnce(p) ==
  LET prefix == Prefix(call[p].path, call[p].n)
  IN  /\ Running(p, "mkdirs")
      /\ UNCHANGED <<data, file, openFds>>
      /\ IF CanMake(prefix) THEN tree' = Made(prefix) /\ Advances(p, prefix)
                            ELSE UNCHANGED tree /\ Returns(p, FALSE)

\* One mkdir(); EEXIST is no error, and any other is the system's when the
\* place can be reached.
MkdirsStep(p) ==
  LET prefix == Prefix(call[p].path, call[p].n)
  IN  /\ Running(p, "mkdirs")
      /\ UNCHANGED <<data, file, openFds>>
      /\ \/ CanMake(prefix) /\ tree' = Made(prefix) /\ Advances(p, prefix)
         \/ justFileExists(prefix) /\ UNCHANGED tree /\ Advances(p, prefix)
         \/ /\ UNCHANGED tree
            /\ Becomes(p, [call[p] EXCEPT !.done = TRUE, !.err = Locate(prefix) # Nowhere])

FileRemove(p) ==
  \E path_ \in FileArgs :
    /\ Begins(p)
    /\ justIsFile(path_)
    /\ tree' = [tree EXCEPT ![Locate(path_)] = "none"]
    /\ UNCHANGED <<data, file, openFds>>
    /\ Becomes(p, NoCall)

Below(at) == {x \in Places : x # at /\ IsPrefix(at, x) /\ tree[x] # "none"}

\* x, below the place from, as it is called below the place to.
Moved(x, from, to) == to \o SubSeq(x, Len(from) + 1, Len(x))

FileRename(p) ==
  \E move \in Moves :
    LET from == Locate(move[1])
        to   == Locate(move[2])
    IN  /\ Begins(p)
        /\ from # Nowhere /\ to # Nowhere /\ ~IsPrefix(from, to) /\ from # <<>>
        /\ \/ tree[from] \in Inodes /\ tree[to] # "dir"
           \/ tree[from] = "dir" /\ tree[to] \in {"none", "dir"} /\ Below(to) = {}
        /\ \A x \in Below(from) : Moved(x, from, to) \in Places
        /\ tree' = [x \in Places |->
                      IF IsPrefix(to, x)
                        THEN LET was == Moved(x, to, from)
                             IN  IF was \in Places THEN tree[was] ELSE "none"
                        ELSE IF IsPrefix(from, x) THEN "none" ELSE tree[x]]
        /\ UNCHANGED <<data, file, openFds>>
        /\ Becomes(p, NoCall)

-----------------------------------------------------------------------------
(* justListDir *)

Entries(p) == IF justIsDirectory(p) THEN {name \in Names : tree[Append(Locate(p), name)] # "none"}
              ELSE {}

Listed(p) == {e.name : e \in call[p].got}

ListBegins(p) ==
  \E path_ \in DirArgs :
    /\ Begins(p)
    /\ justIsDirectory(path_) /\ Len(Locate(path_)) < MaxDepth
    /\ openFds' = [openFds EXCEPT ![p] = @ + 1]
    /\ UNCHANGED <<tree, data, file>>
    /\ Becomes(p, [New("list", path_) EXCEPT !.got = {}, !.before = Entries(path_)])

\* readdir() finds an entry that it has not returned before.
ListEntry(p) ==
  /\ Running(p, "list") /\ call[p].entry = Nowhere
  /\ UNCHANGED <<tree, data, file, openFds>>
  /\ \E name \in Entries(call[p].path) \ Listed(p) :
       Becomes(p, [call[p] EXCEPT !.entry = name])

\* Its kind is asked for by its joined path, and both go to the callback; when
\* stat fails, the entry is reported as no directory.
ListKind(p) ==
  LET name       == call[p].entry
      sub        == justPathJoin(call[p].path, <<name>>, PathTemp)
      Seen(kind) == call[p].got \cup {[name |-> name, isDir |-> kind]}
  IN  /\ Running(p, "list") /\ name # Nowhere
      /\ UNCHANGED <<tree, data, file, openFds>>
      /\ \/ Becomes(p, [call[p] EXCEPT !.entry = Nowhere,
                           !.got = Seen(sub.ok /\ justIsDirectory(sub.path))])
         \/ Becomes(p, [call[p] EXCEPT !.entry = Nowhere, !.got = Seen(FALSE), !.err = TRUE])

\* readdir() returns NULL at the end, when the entries that were there from the
\* start have been read, and for an error; the call returns true for both.
ListReturns(p) ==
  /\ Running(p, "list") /\ call[p].entry = Nowhere
  /\ openFds' = [openFds EXCEPT ![p] = @ - 1]
  /\ UNCHANGED <<tree, data, file>>
  /\ Becomes(p, [call[p] EXCEPT !.done = TRUE, !.ok = TRUE,
                   !.err = @ \/ ~(call[p].before \cap Entries(call[p].path)
                                     \subseteq Listed(p))])

-----------------------------------------------------------------------------
\* The process dies; the kernel closes its descriptors.
Crash(p) ==
  /\ openFds[p] > 0 \/ ~call[p].done
  /\ file' = [file EXCEPT ![p] = Closed]
  /\ openFds' = [openFds EXCEPT ![p] = 0]
  /\ call' = [call EXCEPT ![p] = NoCall]
  /\ UNCHANGED <<tree, data, calls>>

FilesNext ==
  \E p \in Procs :
    \/ HandleOpen(p) \/ HandleClose(p) \/ HandleRead(p) \/ HandleWrite(p) \/ HandleSeek(p)
    \/ ReadBegins(p) \/ ReadSize(p) \/ ReadNoMemory(p) \/ ReadChunk(p) \/ ReadReturns(p)
    \/ WriteBegins(p) \/ AppendNothing(p) \/ WriteChunk(p) \/ WriteFails(p) \/ WriteReturns(p)
    \/ MkdirBegins(p) \/ MkdirChecks(p) \/ MkdirsBegins(p) \/ MkdirsStep(p)
    \/ FileRemove(p) \/ FileRename(p)
    \/ ListBegins(p) \/ ListEntry(p) \/ ListKind(p) \/ ListReturns(p)
    \/ Crash(p)

\* Path functions touch no file: a behaviour either composes a path or makes
\* file calls.
FilesystemInit == PathsInit /\ FilesInit
FilesystemNext ==
  \/ calls = 0 /\ PathsNext /\ UNCHANGED fileVars
  \/ path = <<>> /\ FilesNext /\ UNCHANGED pathVars

FilesystemSpec == FilesystemInit /\ [][FilesystemNext]_<<pathVars, fileVars>>

-----------------------------------------------------------------------------
(* Properties *)

Finished(p, op) == call[p].op = op /\ call[p].done

Calm(p) == call[p].hits = {}

\* A whole-file call or a listing during which no other process changed
\* anything did what it says.  A write that returns true leaves its buffer and
\* nothing else, one that returns false leaves less of it.  A read returns the
\* file and a listing names every entry with its kind, unless fstat, read,
\* readdir or stat fails (err): the call does not report it, but returns the
\* bytes or the entries it has, some directories as no directory; it never
\* returns a byte or a name that is not there, or calls a file a directory.
UndisturbedCallsExact ==
  \A p \in Procs : Calm(p) =>
    LET c == call[p]
        IsDir(name) == tree[Append(Locate(c.path), name)] = "dir"
    IN  /\ Finished(p, "read") /\ c.ok =>
             /\ justIsFile(c.path) => IsPrefix(c.got, data[At(c.path)])
             /\ ~c.err => justIsFile(c.path) /\ Len(c.got) = justGetFileSize(c.path)
        /\ Finished(p, "write") =>
             /\ justIsFile(c.path)
             /\ data[At(c.path)] = SubSeq(Buffer(p), 1, c.n)
             /\ c.ok <=> c.n = c.size
        /\ Finished(p, "list") =>
             /\ \A e \in c.got : e.name \in Entries(c.path) /\ (e.isDir => IsDir(e.name))
             /\ ~c.err => c.got = {[name |-> name, isDir |-> IsDir(name)] :
                                     name \in Entries(c.path)}

\* Processes that append to one file, in chunks and at the same time, lose
\* nothing: what was in the file stays, and after it the bytes of a call are
\* in the file, each once and in their order, unless somebody truncates or
\* overwrites the file.
AppendsKept ==
  \A p \in Procs :
    LET c    == call[p]
        s    == data[file[p].ino]
        mine == {j \in Len(c.before) + 1 .. Len(s) : s[j][1] = p}
    IN  c.op = "append" /\ ~c.done /\ "cut" \notin c.hits =>
          /\ IsPrefix(c.before, s)
          /\ {s[j] : j \in mine} = {Buffer(p)[i] : i \in 1 .. c.n}
          /\ \A j, k \in mine : j < k => s[j][2] < s[k][2]

\* Every path out of every call closes what the call opened: a process has a
\* descriptor open only for a handle it still has or a call it is in.
DescriptorsClosed ==
  \A p \in Procs :
    openFds[p] = (IF file[p].isOpen THEN 1 ELSE 0)
                   + (IF call[p].op = "list" /\ ~call[p].done THEN 1 ELSE 0)

\* Processes that make overlapping directories at the same time do not
\* disturb one another: unless names are taken away, a call that returns true
\* finds all of its path made (the last name may be a file already), and one
\* that returns false met a file on the way or an error of the system.
MkdirsCooperate ==
  \A p \in Procs : "move" \notin call[p].hits =>
    LET c == call[p]
    IN  /\ Finished(p, "mkdir") /\ c.ok => justIsDirectory(c.path)
        /\ Finished(p, "mkdirs") /\ c.ok =>
             /\ justFileExists(c.path)
             /\ \A i \in Cuts(c.path) : (\E j \in i .. Len(c.path) : ~Slash(c.path[j])) =>
                                          justIsDirectory(SubSeq(c.path, 1, i - 1))
        /\ Finished(p, "mkdirs") /\ ~c.ok /\ ~c.err =>
             \E i \in Cuts(c.path) : justIsFile(SubSeq(c.path, 1, i - 1))

\* In the paths of directory calls no two names meet, the tree is deep enough
\* for them, and they start at a directory that is there from the start.
DirsFit ==
  \A p \in DirArgs :
    /\ \A i \in 2 .. Len(p) : Slash(p[i - 1]) \/ Slash(p[i])
    /\ Walk([at \in Places |-> "dir"], p)[Len(p)] # Nowhere
    /\ IsAbsolute(p) \/ Cwd = <<>>

\* The path of an entry fits the buffer in which justListDir builds it.
ListsFit ==
  \A p \in DirArgs, name \in Names : justPathJoin(p, <<name>>, PathTemp).ok
=============================================================================
