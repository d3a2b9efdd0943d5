SPECIFICATION Spec
CONSTANTS
  p1 = p1
  p2 = p2
  p3 = p3
  Page = {p1, p2, p3}
  Workload <- MCWorkload
  Target = 2
  NoPage = NoPage
INVARIANTS
  QueuesMatchPages
  NoWriteIsLost
  AssertionsHold
PROPERTY ScanTakesTheOldest
CHECK_DEADLOCK FALSE
SYMMETRY MCSymmetry
