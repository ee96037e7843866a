SPECIFICATION LSpec
CONSTANTS
  NoThread = NoThread
  NoProc = NoProc
  Threads = {idle, init, t1, t2, t3}
  Procs = {root, pinit, p1, p2, p3, p4}
  IdleThread = idle
  InitThread = init
  IdleProc = root
  InitProc = pinit
  Calls = {"fork", "vanish"}
  TickMod = 1
  SleepArgs = {}
  MoreCalls = {"wait"}
  Statuses = {}
  FailProcs = {pinit}
  MaxCount = 5
SYMMETRY Symmetric
PROPERTY FreesOwn
CHECK_DEADLOCK TRUE
CONSTRAINT FewOrSimple
ACTION_CONSTRAINT YieldIfFew
