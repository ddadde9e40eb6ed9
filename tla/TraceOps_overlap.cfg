CONSTANTS
  Runs = {r1, r2}
  NoRun = NoRun
  Kinds = {"trace", "block"}
  Targets = {1}
  Limit = 1
  Items = {1}
  QueueCap = 2
SPECIFICATION Spec
SYMMETRY Symmetry
PROPERTY
  LocationFindsRow
CHECK_DEADLOCK FALSE
