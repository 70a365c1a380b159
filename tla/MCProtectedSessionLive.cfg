SPECIFICATION UninterruptedSpec
CONSTANTS
  w1 = w1
  eth = eth
  ams = ams
  u1 = u1
  zrh = zrh
  None = None
  Workers <- MCWorkers
  Interfaces <- MCInterfaces
  Endpoints <- MCEndpoints
  Uuids <- MCUuids
  JobsInDialogs = FALSE
PROPERTIES
  BusyEnds
  LossIsShown
