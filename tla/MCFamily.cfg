SPECIFICATION LSpec
CONSTANTS
  NoThread = NoThread
  NoProc = NoProc
  Threads = {idle, init, t1, t2, t3}
  Procs = {root, pinit, p1, p2, p3}
  IdleThread = idle
  InitThread = init
  IdleProc = root
  InitProc = pinit
  Calls = {"fork", "thread_fork", "vanish", "task_vanish"}
  TickMod = 1
  SleepArgs = {}
  MoreCalls = {"wait", "fault", "yield"}
  Statuses = {1}
  FailProcs = {pinit, p1, p2, p3}
  MaxCount = 5
SYMMETRY Symmetric
INVARIANTS  FreedQuiet HoldersRun ZombieNoticed
CHECK_DEADLOCK TRUE
CONSTRAINT FewOrSimple
ACTION_CONSTRAINT YieldIfFew UndoesOwn
