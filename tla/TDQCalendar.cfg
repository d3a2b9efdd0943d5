SPECIFICATION FairSpec
CONSTANTS
  Thread = {r, s, t}
  NoThread = NoThread
  Root = {r, s, t}
  MayPin = {}
  Prio = {1, 2, 5}
  Nice <- MCNice
  RQ_NQS = 4
  RQ_PPQ = 2
  PRI_MIN_BATCH = 2
  PRI_MAX_BATCH = 5
  PRI_MIN_IDLE = 6
  PRI_MAX_IDLE = 7
  preempt_thresh = 1
  sched_slice = 1
  sched_slice_min = 1
INVARIANTS
  CalendarDrains
PROPERTY TimeshareThreadsRun
CHECK_DEADLOCK FALSE
