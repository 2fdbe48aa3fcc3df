SPECIFICATION Spec
CONSTANTS
  Consumers = {s1, s2}
  Sequential = {s1}
  Senders = {1, 2}
  N = 2
  Batch = 2
  MaxHeld = 2
  MaxCrashes = 1
  None = None
  NoClient = NoClient
  MaxRetries = 2
  MaxDepth = 3
  Closeables = 3
  MaxCalls = 4
  Threads = 1
  MaxLayers = 1
  MaxHops = 2
INVARIANTS
  TypeOK
  OneOwner
  LostOnlyIfOvertaken
  LeakedOnlyIfOverlapped SubscribedMissesNothing ReadyUnlessNotStarted
  SuccessMeansAcked
  HandledOrDivertedOnce PermanentErrorIsNotRetried ObserversTellTheOutcome
  CalmShutdownIsOrderly
  RunningHandlersAreReached ArrivesAsSent
PROPERTIES RegistrationOnlyAdds IsWorkQueue DeliveredInTheEnd HandlerCallEnds
CHECK_DEADLOCK FALSE
