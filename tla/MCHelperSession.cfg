SPECIFICATION FairSpec
CONSTANTS
  t1 = t1
  t2 = t2
  b1 = b1
  b2 = b2
  None = None
  Threads <- MCThreads
  CallerSets <- MCCallers
  Brokers <- MCBrokers
  MaxRequests = 2
  Calls = 5
INVARIANTS
  TypeOK
  AnswerIsOwn
  
PROPERTIES
  
  BrokersEnd
\* a run stops when the Calls are made
CHECK_DEADLOCK FALSE
