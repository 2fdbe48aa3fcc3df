SPECIFICATION Spec
CONSTANTS
  Handlers = {h1}
  Faulty = {h1}
  Closers = {c1}
  Inside = {}
  MaxDeliveries = 2
  MaxRuns = 2
INVARIANTS DrainedCloseCutsNothing
CHECK_DEADLOCK FALSE
