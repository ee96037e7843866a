SPECIFICATION FairSpec
CONSTANTS
  Threads = {t1, t2, t3}
  NoTid = NoTid
INVARIANT TidNamesOwner
PROPERTIES ImplementsLock SomebodyEnters
CHECK_DEADLOCK TRUE
