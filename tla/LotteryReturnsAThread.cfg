SPECIFICATION Spec
CONSTANTS
  Thread = {r, u}
  NoThread = NoThread
  Root = {r}
  MayPin = {r}
  Prio = {1, 5}
  Nice <- MCNice
  RQ_NQS = 4
  RQ_PPQ = 2
  PRI_MIN_BATCH = 2
  PRI_MAX_BATCH = 5
  PRI_MIN_IDLE = 6
  PRI_MAX_IDLE = 7
  preempt_thresh = 1
  sched_slice = 1
  sched_slice_min = 1
INVARIANT LotteryReturnsAThread
CHECK_DEADLOCK FALSE
