SPECIFICATION FairSpec
CONSTANTS
  v1 = v1
  v2 = v2
  helper = helper
  session = session
  cli = cli
  i1 = i1
  i2 = i2
  p1 = p1
  None = None
  Versions <- MCVersions
  Files <- MCFiles
  Modules <- MCModules
  Order <- MCOrder
  Session = session
  Installers <- MCInstallers
  Launches <- MCLaunches
  Windows <- MCWindows
  Casts <- MCCasts
INVARIANTS
  TypeOK
  ManifestIsOneVersion
  RunsOneVersion
PROPERTIES
  OkIsInstalled
  ReadyStarts
  GateEnds
