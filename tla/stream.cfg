SPECIFICATION FairSpec
CONSTANTS
  Streams = {s1, s2}
  s1 = s1 s2 = s2
  Capacity = 1 QueueSize = 1 MaxSteps = 2
INVARIANTS SlotsExact FramesInOrder
PROPERTIES TurnsEnd StreamsEnd
CHECK_DEADLOCK FALSE
