SPECIFICATION FairSpec
CONSTANTS
  w1 = w1
  w2 = w2
  Workers <- MCWorkers
  ConnectDuringRelease = FALSE
INVARIANTS
  TypeOK
  ShownBlockedIsBlocked
  GuardIsRemembered
  OneOfAKind
PROPERTIES
  GuardedFromStart
  TransactionsEnd
