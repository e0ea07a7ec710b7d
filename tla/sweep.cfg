SPECIFICATION FairSpec
CONSTANTS
  w1 = w1
  qemu = qemu
  c1 = c1
  Execs = {e1}
  Outsiders = {alien}
  Pids = {p1, p2}
  Commands = {c1}
  CommandOf <- MCCommandOf
  HintOf <- MCHintOf
  BackendOf <- MCBackendOf
  NoBackend = NoBackend
  NoHint = NoHint
  NoOrphan = NoOrphan
  NoPid = NoPid
  NoRow = NoRow
  NoOne = NoOne
  MaxClock = 1
  MaxCrashes = 1
  MaxDbFailures = 1
INVARIANTS
  SweepTypeOK
  VerdictAnnounced
PROPERTIES
  FirstSeenKept
  SeenStaysActive
  StraySurfaces
  FalseAlarmClears
