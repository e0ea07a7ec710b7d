------------------------ MODULE ControlPlaneRefines ------------------------
(***************************************************************************)
(* ControlPlane implements ManagedExecution: the threads, their copies of  *)
(* records and their pending writes are hidden, a record is reduced to its *)
(* PID and to whether it is closed.                                        *)
(***************************************************************************)
EXTENDS ControlPlane

RowStatus(s) ==
  CASE s \in {"Terminated", "Exited"} -> "closed"
    [] s = "Failed"                   -> "failed"
    [] OTHER                          -> "open"

RowOf(r) == [pid |-> r.pid, status |-> RowStatus(r.state)]

SavedRows ==
  [e \in Execs |-> IF store[e] = NoRec THEN NoRec ELSE RowOf(store[e])]

LaunchStages ==
  [e \in Execs |-> CASE pc[e] = "none"               -> "new"
                     [] pc[e] \in {"return", "done"} -> "over"
                     [] pc[e] = "past"               -> "past"
                     [] OTHER                        -> "active"]

Managed == INSTANCE ManagedExecution WITH
  Outsiders <- {Outsider},
  NoRow <- NoRec,
  row <- SavedRows,
  stage <- LaunchStages

ASSUME RowAssumption == NoRec \notin Managed!Rows

(* Whatever the requests, crashes and failed writes, the saved rows and    *)
(* the processes keep the promise of ManagedExecution: one process per     *)
(* launch, no row that names another execution's process while the launch  *)
(* is of this control plane, no PID learnt or lost after a crash, no row   *)
(* closed over a live process (orchestrator.go:111-241, db.go:85-112,      *)
(* reconcile.go:12-128, bootstrap.go:45-127).                              *)
KeepsPromise == Managed!ManagedSpec
=============================================================================
