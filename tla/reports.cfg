SPECIFICATION FairSpec
CONSTANTS
  Nodes = {1, 2}
  Hosts <- ReportHosts
  InitHost <- MCInitHost
  Skew <- MCSkew
  Life = 1
  FreshWithin = 1
  NoProbe = NoProbe
  NoRecord = NoRecord
  NoNode = NoNode
  Requests = {}
  LocalFiles = {"data", "root", "kernel"}
  MaxClock = 3
  MaxUpsets = 1
  MaxInspection = 1
  MaxInFlight = 2
INVARIANTS PoolsTrusted
PROPERTIES StoreConverges
