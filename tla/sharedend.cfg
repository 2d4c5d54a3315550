SPECIFICATION IoSpec
CONSTANTS
  MAX_PROCS = 5
  PROC_PRIO_NORMAL = 2
  PROC_PRIO_IDLE = 3
  PROC_TIMESLICE_DEFAULT = 2
  TICK_MOD = 1
  UserPrios <- OneNormal
  Syscalls = {"fork", "pipe", "read", "write", "close"}
  SleepTicks = {}
  SleepMayWrap = 0
  ExecTargets <- AllButIdle
  Pipes <- OnePipe
  PIPE_BUFSZ = 2
  FD_MAX = 2
  Lens = {1}
  SharedEnds = 1
INVARIANTS NoLostIo
