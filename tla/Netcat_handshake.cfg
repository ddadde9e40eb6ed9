CONSTANTS
  Windows = {w1}
  NoWindow = NoWindow
  Tls = TRUE
  MaxSeq = 1
  MaxData = 0
SPECIFICATION FairSpec
PROPERTY
  HandshakeBounded
CHECK_DEADLOCK FALSE
