SPECIFICATION Spec
CONSTANTS
  s1 = s1 s2 = s2 p1 = p1 p2 = p2 a = a b = b
  Sessions = {s1, s2} Procs = {p1}
  NoOne = NoOne NoParam = NoParam
  Host <- OneHost
  Params = {a, b}
  Losable = FALSE PowerFails = FALSE Telemetry = TRUE
  MaxSeq = 2 MaxVer = 0 MaxSaved = 2 MaxFaults = 2
SYMMETRY Both
INVARIANTS PendingIsThere
PROPERTIES PendingIsFrozen
