----------------------------- MODULE Lifecycle -----------------------------
(***************************************************************************)
(* The execution state machine of internal/domain/lifecycle: the table of  *)
(* allowed transitions, TransitionTo, and Reconcile, the function that     *)
(* confronts an execution record with one observation of its process.      *)
(*                                                                         *)
(* An execution record is abstracted to                                    *)
(*   id         the ExecutionID                                            *)
(*   state      the LaunchState                                            *)
(*   trace      the states its "StateTransition" trace steps entered, the  *)
(*              initial Pending first (other trace steps are left out)     *)
(*   pid        the PID pointer; StartedAtSec is set with it               *)
(*   prepared   whether PreparedState is set                               *)
(*   liveness   RuntimeLiveness                                            *)
(*   readiness  RuntimeReadiness                                           *)
(*   epoch      RecoveryEpoch, 0 when no bootstrap has stamped the record  *)
(***************************************************************************)
EXTENDS Integers, Sequences

CONSTANTS NoPid \* the nil PID pointer of a record

TerminalStates == {"Exited", "Failed", "Terminated"}

LaunchStates ==
  {"Pending", "Preparing", "Validated", "Launching", "Starting", "Running",
   "Degraded", "Unknown", "Terminating"} \cup TerminalStates

AllowedTransitions ==
  [s \in LaunchStates \ {"Unknown"} |->
     CASE s = "Pending"          -> {"Preparing", "Terminated"}
       [] s = "Preparing"        -> {"Validated", "Failed", "Terminating"}
       [] s = "Validated"        -> {"Launching", "Failed", "Terminating"}
       [] s = "Launching"        -> {"Starting", "Failed", "Terminating"}
       [] s = "Starting"         -> {"Running", "Exited", "Failed", "Terminating"}
       [] s = "Running"          -> {"Degraded", "Exited", "Terminating"}
       [] s = "Degraded"         -> {"Failed", "Terminating"}
       [] s = "Terminating"      -> {"Terminated"}
       [] s \in TerminalStates   -> {}]

IsTransitionAllowed(current, next) ==
  \/ next = "Unknown" /\ current \notin TerminalStates
  \/ /\ next # "Unknown"
     /\ current = "Unknown"
     /\ next \in {"Running", "Exited", "Failed", "Terminating"}
  \/ /\ next # "Unknown"
     /\ current # "Unknown"
     /\ next \in AllowedTransitions[current]

(* Mutant of TransitionTo: the transition is made without asking the table. *)
TransitionUnchecked(r, next) == [r EXCEPT !.state = next, !.trace = Append(@, next)]

(* A rejected transition returns an error and leaves the record as it was. *)
TransitionTo(r, next) ==
  IF IsTransitionAllowed(r.state, next)
  THEN [r EXCEPT !.state = next, !.trace = Append(@, next)]
  ELSE r

-----------------------------------------------------------------------------
(* What an inspector reports: err when Inspect itself fails, exists for    *)
(* ProcessExists, ready for BackendReadySignal, backendError for a non-nil *)
(* BackendSpecificError.                                                   *)
Observation == [err: BOOLEAN, exists: BOOLEAN, ready: BOOLEAN, backendError: BOOLEAN]

PolledStates == {"Starting", "Running", "Degraded", "Terminating", "Unknown"}

(* The outcome of asking for a transition: the record, and whether an      *)
(* error is returned.                                                      *)
Ask(r, next) ==
  [rec |-> TransitionTo(r, next), err |-> ~IsTransitionAllowed(r.state, next)]

Keep(r) == [rec |-> r, err |-> FALSE]

(* Mutant of ReadinessTimedOut: the deadline is never computed. *)
NoDeadline(r, obs, late) == FALSE

(* late says that the readiness deadline, 15 s after StartedAtSec, has passed. *)
ReadinessTimedOut(r, obs, late) ==
  r.state = "Starting" /\ obs.exists /\ ~obs.ready /\ late

(* Reconcile, once the record has a PID and Inspect returned obs. *)
ReconcileObserved(r, obs, late) ==
  LET seen == [r EXCEPT !.liveness = IF obs.exists THEN "Alive" ELSE "Dead"]
      Ready(n) == [seen EXCEPT !.readiness = n]
  IN CASE r.state = "Terminating" /\ ~obs.exists ->
            Ask(Ready("NotReady"), "Terminated")
       [] r.state = "Starting" /\ ~obs.exists ->
            Ask(Ready("Failed"), "Failed")
       [] r.state \notin {"Terminating", "Starting"} /\ ~obs.exists ->
            Ask(seen, "Exited")
       [] r.state = "Starting" /\ obs.exists /\ obs.ready ->
            Ask(Ready("Ready"), "Running")
       [] ReadinessTimedOut(r, obs, late) ->
            Ask(Ready("Failed"), "Failed")
       [] r.state = "Running" /\ obs.exists /\ obs.backendError ->
            Ask(Ready("Degraded"), "Degraded")
       [] r.state = "Degraded" /\ obs.exists /\ ~obs.backendError /\ obs.ready ->
            Ask(Ready("Ready"), "Running")
       [] r.state = "Unknown" /\ obs.exists ->
            Ask(seen, IF obs.ready THEN "Running" ELSE "Starting")
       [] OTHER -> Keep(seen)

(* Mutant of Reconcile: a missing PID is inspected like any other. *)
ReconcileWithoutPid(r, obs, late) ==
  IF r.state \in PolledStates THEN ReconcileObserved(r, obs, late) ELSE Keep(r)

(* Mutant of Reconcile: a record without PID is left alone. *)
ReconcileSkipsNilPid(r, obs, late) ==
  IF r.state \in PolledStates /\ r.pid # NoPid
  THEN ReconcileObserved(r, obs, late) ELSE Keep(r)

Reconcile(r, obs, late) ==
  CASE r.state \notin PolledStates            -> Keep(r)
    [] r.state \in PolledStates /\ r.pid = NoPid -> Ask(r, "Failed")
    [] r.state \in PolledStates /\ r.pid # NoPid /\ obs.err -> Ask(r, "Unknown")
    [] OTHER                                  -> ReconcileObserved(r, obs, late)

-----------------------------------------------------------------------------
(* What every record must satisfy whatever happened to it: its history     *)
(* starts in Pending, each step of it is one the table allows, and it ends *)
(* in the state the record claims (state.go:62-70).                        *)
LegalTrace(r) ==
  /\ r.trace # <<>>
  /\ r.trace[1] = "Pending"
  /\ r.trace[Len(r.trace)] = r.state
  /\ \A i \in 1..(Len(r.trace) - 1) :
       IsTransitionAllowed(r.trace[i], r.trace[i + 1])
=============================================================================
