SPECIFICATION Spec
CONSTANTS
  NoThread = NoThread
  NoProc = NoProc
  Threads = {idle, init, t1, t2}
  Procs = {root, pinit, p1}
  IdleThread = idle
  InitThread = init
  IdleProc = root
  InitProc = pinit
  Calls = {"thread_fork", "fork", "vanish", "task_vanish",
           "sleep", "deschedule"}
  TickMod = 4
  SleepArgs = {1, 2}
SYMMETRY Symmetric
INVARIANTS TypeOK SleepSorted ListsAgree ReadyGrouped HolderCanRun NeverHalts
PROPERTIES DeadStaysDead TaskVanishKills
CHECK_DEADLOCK TRUE
