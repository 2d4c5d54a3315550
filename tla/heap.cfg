SPECIFICATION Spec
CONSTANTS
  HEAP_START = 64
  HEAP_MAX = 176
  HEAP_INITIAL = 32
  PAGE_SIZE = 16
  Sizes = {0, 9, 20}
  AlignedSizes = {4}
INVARIANTS TypeOK TagsExact Coalesced AllocatedExact PayloadIntact
PROPERTIES Allocates
