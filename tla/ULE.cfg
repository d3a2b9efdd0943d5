SPECIFICATION Spec
CONSTANTS
  CPU = {1, 2, 3}
  Thread = {a, b}
  cpuset <- MCcpuset
  lowest = {a}
  steal_thresh = 2
  Idle = Idle
  None = None
  SleepQ = SleepQ
  Blocked = Blocked
INVARIANTS
  ThreadsInOnePlace
  NoThreadStranded
  NoSpinCycle
