SPECIFICATION Spec
CONSTANTS
  Nodes = {1, 2}
  Hosts <- MCHosts
  InitHost <- MCInitHost
  Skew <- MCSkew
  Life = 1
  FreshWithin = 1
  NoProbe = NoProbe
  NoRecord = NoRecord
  NoNode = NoNode
  Requests <- MCRequests
  LocalFiles = {"data", "root", "kernel"}
  MaxClock = 2
  MaxUpsets = 1
  MaxInspection = 1
  MaxInFlight = 2
INVARIANTS AdmissionTypeOK ChoiceDetermined
PROPERTIES ChosenOnFacts ReadyOnFacts AgentFollowsPlan PreparersAgree
