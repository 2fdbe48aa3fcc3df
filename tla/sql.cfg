SPECIFICATION Spec
CONSTANTS
  Consumers = {s1, s2}
  Sequential = {s1, s2}
  N = 2
  Batch = 2
  MaxHeld = 1
  MaxCrashes = 1
INVARIANTS TypeOK SharedOnlyByRaceOrDeadline
PROPERTIES IsWorkQueue InsertedIsAcked
CHECK_DEADLOCK FALSE
