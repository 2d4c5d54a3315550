SPECIFICATION MemorySpec
CONSTANTS
  PMM_MAX_FRAMES = 16
  PAGE_SIZE = 4
  UINT_MOD = 256
  MemoryMaps <- Maps
  KernelImages <- Images
  ENTRIES = 16
  Junk = 7
  Programs <- Names
  Binary <- Files
  HEAP_START = 64
  HEAP_MAX = 66
  Variables <- Data
  Value = 10
  MaxLoose = 1
CHECK_DEADLOCK FALSE
INVARIANTS TypeOK HeldExact CountExact LowestFrameFirst RolesExact LoadedExact
PROPERTIES IsFlatMemory
