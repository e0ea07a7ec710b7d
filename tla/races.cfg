SPECIFICATION Spec
CONSTANTS
  Execs = {e1}
  Handlers = {h1, h2}
  Pids = {p1}
  Workloads = {w1}
  WorkloadOf <- OneWorkload
  Boot = boot
  Modes = {"Execute"}
  NoRec = NoRec
  NoPid = NoPid
  NoOne = NoOne
  Outsider = Outsider
  SerialClients = FALSE
  MaxCrashes = 1
  MaxWriteFailures = 0
SYMMETRY Symmetric
INVARIANTS
  LegalHistory
  RuntimeStatesHavePid
  HeldPid
  ClosedMeansDead
  Recovered
  AuditAhead
