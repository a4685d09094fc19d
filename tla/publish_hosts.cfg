SPECIFICATION FairSpec
CONSTANTS
  s1 = s1 s2 = s2 p1 = p1 p2 = p2 a = a b = b
  Sessions = {s1, s2} Procs = {p1, p2}
  NoOne = NoOne NoParam = NoParam
  Host <- TwoHosts
  Params = {a}
  Losable = FALSE PowerFails = FALSE Telemetry = FALSE
  MaxSeq = 3 MaxVer = 0 MaxSaved = 1 MaxFaults = 2
INVARIANTS TaskIdsUnique FailureLeavesNoId
PROPERTIES LockReleased
