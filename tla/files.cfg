SPECIFICATION Spec
CONSTANTS
  p1 = p1
  p2 = p2
  NULL = NULL
  Vnodes = {1, 2, 3, 4}
  Files = {1, 2}
  Procs <- TwoProcs
  Pieces <- ShortNames
  Bytes = {1, 2}
  Junk = Junk
  INITIAL_CAPACITY = 1
  VFS_MOUNT_MAX = 1
  Devices <- OneDevice
  FD_MAX = 1
  Paths <- TwoPaths
  OpenFlags <- FlagSets
  Lens = {2}
  Data <- TwoWrites
  MaxSize = 2
  UnlinkOpen = 0
SYMMETRY Symmetric
INVARIANTS TypeOK TreeExact CountsExact BufFits
PROPERTIES AppendAtEnd IsFileStore
