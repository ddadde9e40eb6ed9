CONSTANTS
  Runs = {r1, r2, r3, r4}
  NoRun = NoRun
  Windows = {w1, w2}
  NoWindow = NoWindow
  Tls = TRUE
  MaxSeq = 2
  MaxData = 1
SPECIFICATION MCSpec
INVARIANTS
  NewestCancellable
  HopsAreWhole
  WindowsHearOfEnds
PROPERTIES
  SlotSpec
  OperationsReturn
  StartComesBack
  ClosedIsLast
  CloseNeverHangs
CHECK_DEADLOCK FALSE
