SPECIFICATION IoSpec
CONSTANTS
  MAX_PROCS = 4
  PROC_PRIO_NORMAL = 2
  PROC_PRIO_IDLE = 3
  PROC_TIMESLICE_DEFAULT = 2
  TICK_MOD = 3
  UserPrios <- OneRealtime
  Syscalls = {"fork", "exec", "exit", "wait", "yield", "execve", "sleep", "pipe", "read", "write"}
  SleepTicks = {1}
  SleepMayWrap = 0
  ExecTargets <- AllButIdle
  Pipes <- OnePipe
  PIPE_BUFSZ = 1
  FD_MAX = 2
  Lens = {1, 2}
  SharedEnds = 0
INVARIANTS QueueExact NoLostIo
