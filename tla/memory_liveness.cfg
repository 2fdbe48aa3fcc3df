SPECIFICATION Spec
CONSTANTS
  Topics = {T1}
  T1 = T1
  Subs = {s1, s2}
  Calls = {p1}
  Closers = {c1, c2}
  TopicOf <- OneTopic
  BatchSize = 1
  BufferSize = 0
  None = None
PROPERTIES BlockedPublisherGoesOn ClosedStreamEnds
CHECK_DEADLOCK FALSE
