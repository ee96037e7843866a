SPECIFICATION Spec
CONSTANTS
  Procs = {p1, p2}
  InitProc = p1
  NoProc = NoProc
  Dirs = {d1, d2, d3}
  NoDir = NoDir
  NPages = 5
  NFrames = 4
  Image <- SmallImage
  Ops = {"new_pages", "remove_pages", "fork", "exec", "wait", "vanish",
         "fault", "deschedule", "bad_args"}
  Fails = {"page_table", "list_node", "pool_node"}
SYMMETRY Symmetric
INVARIANTS FrameOnce NoLeak DirsPrivate AllocBacked
PROPERTY AllOrNothing
CHECK_DEADLOCK FALSE
CONSTRAINTS OwnTrouble Short
