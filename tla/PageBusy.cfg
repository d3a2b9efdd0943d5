SPECIFICATION FairSpec
CONSTANTS
  Thread = {a, b, c}
  NoThread = NoThread
INVARIANTS
  BusyWordCountsHolders
  SleepersAreSeen
  BusyingSucceeds
PROPERTY SleepersWake
