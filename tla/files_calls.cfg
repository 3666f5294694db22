SPECIFICATION FilesystemSpec
CONSTANTS
  proc1 = proc1
  proc2 = proc2
  ino1 = ino1
  ino2 = ino2
  Procs <- TwoProcs
  Inodes <- TwoInodes
  Names <- TwoNames
  Nowhere = Nowhere
  Parts <- SomeParts
  PathBuffer = 10
  PathTemp = 10
  MaxSegments = 3
  Cwd <- DeepCwd
  FileArgs <- SomeFiles
  DirArgs <- SomeDirs
  Moves <- SomeMoves
  MaxDepth = 2
  BufferBytes = 2
  MaxBytes = 2
  MaxCalls = 3
INVARIANTS
  UndisturbedCallsExact
  AppendsKept
  DescriptorsClosed
  MkdirsCooperate
  PathsLeadHome
SYMMETRY Swap
CHECK_DEADLOCK FALSE
