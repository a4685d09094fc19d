SPECIFICATION Spec
CONSTANTS
  c1 = c1 c2 = c2 r1 = r1 r2 = r2 r3 = r3
  Clients = {c1, c2} NoOne = NoOne
  Robots = {r1, r2, r3}
  Selectors = {"second", "any", "left"}
  NamesOf <- Names Requests <- Reports Initial <- OneLeft
  MaxVersion = 4 MaxFaults = 2
INVARIANTS NothingLost
PROPERTIES RefinesRegister
