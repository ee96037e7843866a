SPECIFICATION Spec
CONSTANTS
  Procs = {p1}
  InitProc = p1
  NoProc = NoProc
  Dirs = {d1}
  NoDir = NoDir
  NPages = 5
  NFrames = 3
  Image <- SmallImage
  Ops = {"new_pages", "remove_pages", "deschedule"}
  Fails = {}
SYMMETRY Symmetric
INVARIANT NoSelfLock
CHECK_DEADLOCK FALSE
