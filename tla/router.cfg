SPECIFICATION Spec
CONSTANTS
  Handlers = {h1, h2}
  Publishing = {h1}
  SelfAcking = {h2}
  Faulty = {h1}
  Closers = {c1}
  MaxDeliveries = 2
  MaxRuns = 2
INVARIANTS TypeOK InFlightIsExact DrainedCloseCutsNothing
PROPERTIES RunStops SettlesOnce
CHECK_DEADLOCK FALSE
