SPECIFICATION FairSpec
CONSTANTS
  MAX_PROCS = 4
  PROC_PRIO_NORMAL = 2
  PROC_PRIO_IDLE = 3
  PROC_TIMESLICE_DEFAULT = 2
  TICK_MOD = 5
  UserPrios <- OneNormal
  Syscalls = {"fork", "exec", "execve", "wait", "sleep", "exit"}
  SleepTicks = {0, 1, 3}
  SleepMayWrap = 0
  ExecTargets <- AllButIdle
INVARIANTS BlockedHasWaker
PROPERTIES SleepExact SleepEnds Preempted
