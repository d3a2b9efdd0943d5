SPECIFICATION Spec
CONSTANTS
  BLOCK_NUM = 3
  Name = {f, g}
  NoName = NoName
  Thread = {t1, t2}
INVARIANT
  AllocationIsExclusive
