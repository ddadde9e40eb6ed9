CONSTANTS
  Workers = {w1, w2, w3}
  Every = 2
  Delay = 2
  Horizon = 3
  Owners <- MCOwners
  Unknown = "X"
  Family <- MCFamily
  Families = {"all", "v4"}
  BlockLimit = 1
  MaxOps = 3
  MaxRuns = 2
  Registrations <- MCRegistrations
  Records = {{"address"}}
  Sites = {{"https", "redirect", "cert", "hsts", "headers"}}
  Candidates = {"front", "origin", "edge"}
  Front = {"front"}
  Ports <- MCPorts
  Serves <- MCServes
  Foreign = {"front", "edge"}
  Remembered = {"edge"}
  Concurrency = 2
  PortConcurrency = 2
  MaxDiscoveries = 1
SPECIFICATION MCSpec
INVARIANT
  SNISupports
CHECK_DEADLOCK FALSE
