SPECIFICATION Spec
CONSTANTS
  Topics = {T1}
  T1 = T1
  Subs = {s1, s2}
  Calls = {}
  Closers = {c1}
  TopicOf <- OneTopic
  BatchSize = 1
  BufferSize = 1
  None = None
PROPERTIES CloseEndsIteration
CHECK_DEADLOCK FALSE
