SPECIFICATION FairSpec
CONSTANTS
  Execs = {e1}
  Handlers = {h1}
  Pids = {p1}
  Workloads = {w1}
  WorkloadOf <- OneWorkload
  Boot = boot
  Modes = {"Execute"}
  NoRec = NoRec
  NoPid = NoPid
  NoOne = NoOne
  Outsider = Outsider
  SerialClients = TRUE
  MaxCrashes = 1
  MaxWriteFailures = 0
PROPERTIES
  UnknownResolves
