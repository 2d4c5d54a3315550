SPECIFICATION Spec
CONSTANTS
  PIPE_BUFSZ = 4
  Bytes = {1, 2}
INVARIANTS TypeOK
PROPERTIES IsFifo
