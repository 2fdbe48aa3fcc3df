SPECIFICATION Spec
CONSTANTS
  Handlers = {h1}
  Publishing = {}
  SelfAcking = {h1}
  Faulty = {}
  Closers = {c1}
  MaxDeliveries = 2
  MaxRuns = 2
INVARIANTS SelfAckingHandlerKeepsRunning
CHECK_DEADLOCK FALSE
