SPECIFICATION Spec
CONSTANTS
  N = 2
  Head = {}
  Output = 3
  PipeSize = 2
PROPERTY PipelinesEnd
CHECK_DEADLOCK FALSE
