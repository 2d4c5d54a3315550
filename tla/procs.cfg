SPECIFICATION Spec
CONSTANTS
  MAX_PROCS = 5
  PROC_PRIO_NORMAL = 2
  PROC_PRIO_IDLE = 3
  PROC_TIMESLICE_DEFAULT = 2
  TICK_MOD = 1
  UserPrios <- OneNormal
  Syscalls = {"fork", "exec", "wait", "exit", "yield", "execve"}
  SleepTicks = {}
  SleepMayWrap = 0
  ExecTargets = {2, 3}
INVARIANTS TypeOK QueueExact CpuOwner PidsExact LowestPidFirst NoLostExit
