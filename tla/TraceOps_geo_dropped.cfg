CONSTANTS
  Runs = {r1}
  NoRun = NoRun
  Kinds = {"trace"}
  Targets = {1}
  Limit = 1
  Items = {1}
  QueueCap = 2
SPECIFICATION Spec
INVARIANT
  FailedLookupsEmitted
CHECK_DEADLOCK FALSE
