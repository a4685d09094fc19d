SPECIFICATION Spec
CONSTANTS
  s1 = s1
  s2 = s2
  p1 = p1
  p2 = p2
  i1 = i1
  i2 = i2
  NoOne = NoOne
  Sessions = {s1, s2}
  Procs = {p1, p2}
  Intents = {i1}
  Host <- TwoHosts
  Target <- SameTask
  Uncertain = {i1}
  Legacy = {}
  Controls = {"cancel"}
  Degraded = FALSE
  MaxId = 2
  MaxFaults = 1
INVARIANTS WithdrawnMeansUnsent EvidenceKept
PROPERTIES IdIsStable RefinesSendOnce
