SPECIFICATION FairSpec
CONSTANTS
  p1 = p1
  p2 = p2
  Older = Older
  None = None
  Clicks = 1
  Procs <- MCProcs
INVARIANTS
  TypeOK
  OneWindow
  
  LockNoticed
PROPERTIES
  
  GuardCheckComes
CHECK_DEADLOCK FALSE
