SPECIFICATION Spec
CONSTANTS
  Topics = {T1}
  T1 = T1
  Subs = {s1, s2, s3}
  Calls = {p1, p2}
  Closers = {}
  TopicOf <- OneTopic
  BatchSize = 1
  BufferSize = 1
  None = None
INVARIANTS AllSubscribersReceiveAllMessages
CHECK_DEADLOCK FALSE
