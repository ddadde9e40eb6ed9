CONSTANTS
  Workers = {"w1", "w2"}
  Bodies = {"bytes"}
  NoBody = "none"
  Items <- MCItems
  Body <- MCBody
  Finds <- MCFinds
  MaxJobs = 2
  MaxFaults = 1
  MaxDeletions = 1
SPECIFICATION MCSpec
INVARIANT ArchiveHonest
PROPERTIES
  DeletionIsFinal
  RowsOfSelection
CHECK_DEADLOCK FALSE
