SPECIFICATION Spec
CONSTANTS
  Consumers = {c1}
  Sequential = {c1}
  None = None
  N = 2
  Batch = 2
  MaxHeld = 1
  MaxCrashes = 0
INVARIANTS NackSeeksBack
CHECK_DEADLOCK FALSE
