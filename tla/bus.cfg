SPECIFICATION Spec
CONSTANTS
  Handlers = {h1}
  Faulty = {h1}
  Closers = {c1, c2}
  Inside = {c2}
  MaxDeliveries = 2
  MaxRuns = 2
INVARIANTS TypeOK InFlightIsExact DrainedCloseCutsOnlyUncounted SubscribersFollowLoops
PROPERTIES SettlesOnce CloseStopsRun
CHECK_DEADLOCK FALSE
