SPECIFICATION USpec
CONSTANTS
  t1 = t1
  t2 = t2
  t3 = t3
  t4 = t4
  Threads = {t1, t2, t3, t4}
  NoThread = NoThread
  Mutexes = {"mon", "sem", "rw", "chain"}
  Conds <- AllConds
  MonLock = "mon"
  MonCond = MonCond
  SemLock = "sem"
  SemCond = SemCond
  Units = {1}
  RwLock = "rw"
  Roles <- Together
  Root = t1
  ChainLock = "chain"
  Joins <- Tree
  Uses = {"rw"}
  StackTop = 4
  InitialLow = 3
  Frames = 3
INVARIANT WriterAlone
CHECK_DEADLOCK FALSE
