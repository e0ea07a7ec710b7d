SPECIFICATION Spec
CONSTANTS
  Execs = {e1, e2}
  Handlers = {h1}
  Pids = {p1, p2}
  Workloads = {w1}
  WorkloadOf <- OneWorkload
  Boot = boot
  Modes = {"Execute"}
  NoRec = NoRec
  NoPid = NoPid
  NoOne = NoOne
  Outsider = Outsider
  SerialClients = TRUE
  MaxCrashes = 0
  MaxWriteFailures = 0
SYMMETRY Symmetric
PROPERTIES
  ReadyIsOwn
