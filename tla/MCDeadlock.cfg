SPECIFICATION LSpec
CONSTANTS
  NoThread = NoThread
  NoProc = NoProc
  Threads = {idle, init, t1, t2}
  Procs = {root, pinit, p1, p2}
  IdleThread = idle
  InitThread = init
  IdleProc = root
  InitProc = pinit
  Calls = {"fork", "vanish"}
  TickMod = 1
  SleepArgs = {}
  MoreCalls = {"wait"}
  Statuses = {}
  FailProcs = {}
  MaxCount = 6
SYMMETRY Symmetric
INVARIANT NoLockCycle
CHECK_DEADLOCK TRUE
