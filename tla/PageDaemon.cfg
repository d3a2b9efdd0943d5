SPECIFICATION FairSpec
CONSTANTS
  Thread = {a}
  Domain = {d, e}
  Pages = 2
  v_interrupt_free_min = 0
  v_pageout_free_min = 0
  v_free_reserved = 0
  v_free_min = 1
  v_free_target = 2
  vm_pageout_wakeup_thresh = 2
  vm_pageout_oom_seq = 2
  MaxDeficit = 1
INVARIANTS
  TypeOK
  DaemonsAwakeForSleepers
PROPERTIES
  KillNeedsEveryVote
  WaitersWake
