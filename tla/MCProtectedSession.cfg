SPECIFICATION Spec
CONSTANTS
  w1 = w1
  w2 = w2
  eth = eth
  ams = ams
  zrh = zrh
  u1 = u1
  u2 = u2
  u3 = u3
  u4 = u4
  None = None
  Workers <- MCWorkers
  Interfaces <- MCInterfaces
  Endpoints <- MCEndpoints
  Uuids <- MCUuids
  JobsInDialogs = FALSE
SYMMETRY MCSymmetry
INVARIANTS
  TypeOK
  OneJobAtATime
  ArmedIsRemembered
  StatusIsExact
  ViewIsHonest
PROPERTIES
  RecoveryIsExact
  StaysClosed
  QuitLeavesNothing
