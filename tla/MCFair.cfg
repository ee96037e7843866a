SPECIFICATION FairSpec
CONSTANTS
  NoThread = NoThread
  NoProc = NoProc
  Threads = {idle, init, t1, t2}
  Procs = {root, pinit, p1}
  IdleThread = idle
  InitThread = init
  IdleProc = root
  InitProc = pinit
  Calls = {"deschedule", "thread_fork", "fork", "vanish", "task_vanish"}
  TickMod = 1
  SleepArgs = {}
PROPERTY ReadyRuns
CHECK_DEADLOCK TRUE
