SPECIFICATION Spec
CONSTANTS
  p1 = p1
  p2 = p2
  Older = Older
  None = None
  Clicks = 1
  Procs <- MCProcs
PROPERTIES
  NoSurprise
CHECK_DEADLOCK FALSE
