SPECIFICATION Spec
CONSTANTS
  Topics = {T1}
  T1 = T1
  Subs = {s1, s2}
  Calls = {p1, p2}
  Closers = {c1}
  TopicOf <- OneTopic
  BatchSize = 2
  BufferSize = 1
  None = None
SYMMETRY Symmetry
INVARIANTS TypeOK Backpressure InOrder FanOutUnlessPassedOver CloseReachesStreams
PROPERTIES DepartedGetsNothing
CHECK_DEADLOCK FALSE
