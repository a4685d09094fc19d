SPECIFICATION FairSpec
CONSTANTS
  w = w c1 = c1 h1 = h1 h2 = h2 p = p topic = topic
  Watcher = w Requesters = {c1}
  Hosts = {h1, h2} Ports = {p} Modes = {"real", "mock"} Targets <- Second
  Topics = {topic}
  Configured <- AtFirst Edits <- ByFile Broken = Broken
  MaxEdits = 1 MaxFaults = 2
INVARIANTS OneLink LastGoodKept
PROPERTIES Answered
