SPECIFICATION KbSpec
CONSTANTS
  MAX_PROCS = 4
  PROC_PRIO_NORMAL = 2
  PROC_PRIO_IDLE = 3
  PROC_TIMESLICE_DEFAULT = 2
  TICK_MOD = 1
  UserPrios <- OneNormal
  Syscalls = {"fork", "exec", "read"}
  SleepTicks = {}
  SleepMayWrap = 0
  ExecTargets <- AllButIdle
  KB_BUFFER_SIZE = 4
  Keys = {"one", "f1", "shift", "caps"}
  ReadLens = {1, 2}
  SharedStdin = 0
INVARIANTS NoLostKey
PROPERTIES KeysInOrder
