SPECIFICATION Spec
CONSTANTS
  Consumers = {s1, s2}
  Sequential = {s1, s2}
  N = 2
  Batch = 2
  MaxHeld = 1
  MaxCrashes = 0
INVARIANTS NoDuplicateProcessing
CHECK_DEADLOCK FALSE
