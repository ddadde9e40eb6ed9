CONSTANTS
  Lookups = {l1, l2}
  Ips = {i1}
  Limit = 2
  MaxAttempts = 2
  HasLocal = TRUE
  Endings = {"canceled", "deadline"}
  MaxGen = 1
SPECIFICATION FairSpec
INVARIANTS
  BreakerTrapsNobody
  AnswerPersisted
PROPERTY
  LookupsEnd
CHECK_DEADLOCK FALSE
