CONSTANTS
  Workers = {w1, w2}
  Scans = {s1, s2}
  Ports = {p1, p2}
  Every = 2
  NoJob = NoJob
  N = 3
  HostLimit = 2
  PingLimit = 2
  Modes = {"targets", "block"}
  Names = {"a", "b", "c"}
  Ips = {"1", "2", "3", "w"}
  Forward <- MCForward
  Backward <- MCBackward
  Apex = {"w"}
  WildIps = {"w"}
  Public = {"1", "2", "3"}
  Block <- MCBlock
  Words = {"b", "c"}
  Services <- MCServices
  Crawled = {"b"}
  NameRequests <- MCNameRequests
  ProbesAtOnce = 2
  MaxNames = 2
  MaxBlocks = 1
  MaxScans = 2
  Domain = "d"
  Zone <- MCZone
  Mailbox <- MCMailbox
  HostAddress <- MCHostAddress
  HostIps = {"1", "2", "3", "4", "5", "6"}
  IPv6 = {"6"}
  Discovered <- MCDiscovered
  HaveIPv6 = {TRUE, FALSE}
  MaxTargets = 3
  MaxNSDepth = 3
  MaxNSHosts = 3
SPECIFICATION MCSpec
INVARIANTS
  NothingAfterReturn
  ReportsAreTrue
  TargetsAreHonest
PROPERTIES
  ContractSpec
  QuietAfterEnd
  ScansEnd
CHECK_DEADLOCK FALSE
