SPECIFICATION Spec
CONSTANTS
  Execs = {e1}
  Handlers = {h1, h2}
  Pids = {p1, p2}
  Workloads = {w1}
  WorkloadOf <- OneWorkload
  Boot = boot
  Modes = {"Execute", "DryRun"}
  NoRec = NoRec
  NoPid = NoPid
  NoOne = NoOne
  Outsider = Outsider
  SerialClients = TRUE
  MaxCrashes = 2
  MaxWriteFailures = 1
SYMMETRY Symmetric
INVARIANTS
  TypeOK
  TerminatedMeansDead
PROPERTIES
  TerminalStable
  HistoryExtends
  KeepsPromise
