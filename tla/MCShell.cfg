\* A ring of three elements, pushed to twice around; three lines of two columns
\* and seven characters; one small ext2 group and two crashes; four commands.
CONSTANTS
  N = 3
  Nothing = Nothing
  Elements = {a, b}
  MaxPushed = 8
  W = 2
  Chars = {"a", "b"}
  Newline = "newline"
  NoChar = "nul"
  FontWidth = 8
  FontHeight = 13
  MaxWritten = 7
  Groups = 1
  InodesPerGroup = 6
  BlocksPerGroup = 6
  BitmapBits = 8
  FirstDataBlock = 0
  MetaBlocks = 2
  BlockSize = 52
  NameLens = {1, 5}
  WriteLens = {0, 3, 60}
  MaxMounts = 3
  None = None
  Chunk = 4
  Files <- FilesRead
  NumDirect = 13
  BlockIndexBytes = 8
  BlockAddressBytes = 4
  Disks = {"disk0"}
  MaxTasks = 3
  MaxProcesses = 2
  MaxCommands = 4
SPECIFICATION ShellSpec
INVARIANTS
  HoldsLastPushed
  ShowsEndOfText
  DirectoriesSound
  AllocationsSound
  VisibleDataIsOwn
  ReadContract
  LookupsLinearizable
CHECK_DEADLOCK FALSE
