SPECIFICATION UFairSpec
CONSTANTS
  t1 = t1
  t2 = t2
  t3 = t3
  t4 = t4
  Threads = {t1, t2, t3, t4}
  NoThread = NoThread
  Mutexes = {"mon", "sem", "rw", "chain"}
  Conds <- AllConds
  MonLock = "mon"
  MonCond = MonCond
  SemLock = "sem"
  SemCond = SemCond
  Units = {1, 2}
  RwLock = "rw"
  Roles <- Apart
  Root = t1
  ChainLock = "chain"
  Joins <- Tree
  Uses = {"cond", "sem", "rw", "thr", "stack"}
  StackTop = 4
  InitialLow = 3
  Frames = 3
INVARIANTS NoLostWaiter UnitsKept WriterAlone GrantedPrefix WrapFinds
  ExitNoticed LastEnds
PROPERTIES SignalEnds FaultSettles
CHECK_DEADLOCK TRUE
