SPECIFICATION RdFairSpec
CONSTANTS
  t1 = t1
  t2 = t2
  t3 = t3
  p2 = p2
  NoThread = NoThread
  NoProc = NoProc
  Threads = {idle, t1, t2, t3}
  Procs = {root, pinit, p2}
  IdleThread = idle
  InitThread = t1
  IdleProc = root
  InitProc = pinit
  Calls = {}
  TickMod = 1
  SleepArgs = {}
  ProcOf <- TwoAndOne
  Readers = {t1, t2}
  Printers = {t3}
  BUF_LEN = 2
  Lens = {1, 2}
INVARIANTS OneReader NoLostKey BufOneLine
PROPERTY ReadlineReturns
CHECK_DEADLOCK TRUE
