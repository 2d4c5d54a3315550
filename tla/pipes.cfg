SPECIFICATION IoSpec
CONSTANTS
  MAX_PROCS = 4
  PROC_PRIO_NORMAL = 2
  PROC_PRIO_IDLE = 3
  PROC_TIMESLICE_DEFAULT = 2
  TICK_MOD = 2
  UserPrios <- OneNormal
  Syscalls = {"fork", "exit", "sleep", "wait", "pipe", "close", "dup2", "read", "write"}
  SleepTicks = {1}
  SleepMayWrap = 0
  ExecTargets <- AllButIdle
  Pipes <- OnePipe
  PIPE_BUFSZ = 2
  FD_MAX = 2
  Lens = {1, 3}
  SharedEnds = 0
INVARIANTS IoTypeOK NoLostIo RefsExact EndStaysOpen
PROPERTIES FollowsDiagram
