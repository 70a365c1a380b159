SPECIFICATION Spec
CONSTANTS
  w1 = w1
  w2 = w2
  Workers <- MCWorkers
  ConnectDuringRelease = TRUE
SYMMETRY MCSymmetry
PROPERTIES
  RemovedOnlyDown
