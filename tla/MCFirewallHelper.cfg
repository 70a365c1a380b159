SPECIFICATION FairSpec
CONSTANTS
  p1 = p1
  p2 = p2
  p3 = p3
  p4 = p4
  eth = eth
  wifi = wifi
  tun = tun
  a4 = a4
  b4 = b4
  c6 = c6
  NoProc = NoProc
  Procs <- MCProcs
  Rooted <- MCRooted
  HostAllowed <- MCHostAllowed
  Interfaces <- MCInterfaces
  ReservedNames <- MCReserved
  EndpointsV4 <- MCV4
  EndpointsV6 <- MCV6
  MaxInterfaces = 2
  MaxEndpoints = 2
  SetSize = 2
  Requests <- MCRequests
INVARIANTS
  TypeOK
  TablesExclusive
  ReplyIsOwnEffect
  ReplacementVerifies
  ClientAgrees
PROPERTIES
  NoUnfilteredWindow
  LockReleased
