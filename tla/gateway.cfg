SPECIFICATION Spec
CONSTANTS
  i1 = i1
  i2 = i2
  Instances = {i1, i2}
  MultiNames = {g1, g2}
  HubNames = {hub}
  Canvases = {c1, c2}
  Sizes <- MCSizes
  Chunks = 1
  Found <- MCFound
  Selections <- MCSelections
  Slots = 2
  MaxClicks = 2
  MaxDeliveries = 2
  Disturbances = {"write", "command", "reply", "prune", "link", "game", "controller", "mode"}
  MaxFaults = 1
SYMMETRY Symmetry
INVARIANTS TypeOK MultiModeOk NewestWins LinksTwoWay
PROPERTIES ConfigNeverRegresses
CHECK_DEADLOCK FALSE
