SPECIFICATION FairSpec
CONSTANTS
  s1 = s1
  s2 = s2
  p1 = p1
  p2 = p2
  i1 = i1
  i2 = i2
  NoOne = NoOne
  Sessions = {s1}
  Procs = {p1}
  Intents = {i1}
  Host <- SoleHost
  Target <- SoleTask
  Uncertain = {i1}
  Legacy = {}
  Controls = {"stop", "pause", "cancel"}
  Degraded = TRUE
  MaxId = 2
  MaxFaults = 2
INVARIANTS SentIsTrue
PROPERTIES GuardReleased
