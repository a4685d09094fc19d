SPECIFICATION Spec
CONSTANTS
  None = None
  Sites = {"in", "off"}
  Depths = {"ok", "deep"}
  Units = {u}
  OffField = {"off"}
  TooDeep = {"deep"}
  OverLimit = {}
  Readings = {"calm", "rough", "down"}
  Rough = {"rough"}
  Down = {"down"}
  Edits <- MCEdits
  Limit = 2
  MaxReports = 1
  MaxAcks = 2
INVARIANTS ReadyIsClean NotAskedAgain
  
