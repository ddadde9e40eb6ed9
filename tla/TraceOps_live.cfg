CONSTANTS
  Runs = {r1, r2}
  NoRun = NoRun
  Kinds = {"scan", "subs"}
  Targets = {1, 2}
  Limit = 1
  Items = {}
  QueueCap = 2
SPECIFICATION FairSpec
INVARIANT
  LiveTracesBounded
PROPERTIES
  OperationsEnd
  TargetsReported
  CompleteMeansSettled
CHECK_DEADLOCK FALSE
