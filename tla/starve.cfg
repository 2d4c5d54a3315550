SPECIFICATION FairSpec
CONSTANTS
  MAX_PROCS = 5
  PROC_PRIO_NORMAL = 2
  PROC_PRIO_IDLE = 3
  PROC_TIMESLICE_DEFAULT = 2
  TICK_MOD = 1
  UserPrios <- ThreeNormal
  Syscalls = {}
  SleepTicks = {}
  SleepMayWrap = 0
  ExecTargets <- AllButIdle
PROPERTIES RoundRobin
