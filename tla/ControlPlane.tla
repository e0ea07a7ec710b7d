--------------------------- MODULE ControlPlane ---------------------------
(***************************************************************************)
(* The control plane's handling of executions: the goroutines that run     *)
(* StartLaunch, the GET handlers that reconcile and save what they read,   *)
(* the terminate handler, the recovery bootstrap, the SQLite tables they   *)
(* share, and the host on which the spawned processes run.                 *)
(*                                                                         *)
(* Nothing in the code serialises two requests for one execution: each     *)
(* reads a whole record, works on its own copy and writes the whole record *)
(* back (SaveExecution is an upsert).  A thread here is therefore a pc, a  *)
(* private copy of a record and the database writes it still has to make,  *)
(* one step each; everything else interleaves between any two of them.     *)
(*                                                                         *)
(* External to src/ are the host's process table and socket files, modelled*)
(* from how the executors and the inspectors use them: an exited child of  *)
(* the control plane stays a zombie, since no executor calls cmd.Wait, and *)
(* signal 0 reaches a zombie; it is reaped when the control plane exits,   *)
(* and only then can its PID be given to another process.                  *)
(***************************************************************************)
EXTENDS Lifecycle, FiniteSets

CONSTANTS
  Execs,             \* execution ids, a fresh one for each StartLaunch
  Workloads,         \* workload ids
  WorkloadOf,        \* the workload each execution is a launch of
  Handlers,          \* goroutines serving GET and terminate requests
  Boot,              \* the main goroutine running the recovery bootstrap
  Pids,              \* process ids of the host
  Modes,             \* launch modes StartLaunch is called with
  NoRec,             \* no record: an absent row, an unset variable
  NoOne,             \* owner of a free pid, creator of an absent socket
  Outsider,          \* owner of a pid taken by an unmanaged process
  SerialClients,     \* whether clients wait for each other (see Clear)
  MaxCrashes,        \* bound on the crashes of the control plane
  MaxWriteFailures   \* bound on the failed database writes

Threads == Execs \cup Handlers \cup {Boot}

LaunchRecord ==
  [id : Execs, state : LaunchStates, trace : Seq(LaunchStates),
   pid : Pids \cup {NoPid}, prepared : BOOLEAN,
   liveness : {"Unknown", "Alive", "Dead"},
   readiness : {"NotStarted", "Ready", "NotReady", "Failed", "Degraded"},
   epoch : 0..MaxCrashes]

ASSUME ThreadsAssumption ==
  /\ Boot \notin Execs \cup Handlers
  /\ Execs \cap Handlers = {}

ASSUME WorkloadAssumption == WorkloadOf \in [Execs -> Workloads]

ASSUME PidAssumption == NoPid \notin Pids

ASSUME OwnerAssumption ==
  /\ NoOne \notin Execs
  /\ Outsider \notin Execs
  /\ NoOne # Outsider

ASSUME RecAssumption == NoRec \notin LaunchRecord

ASSUME ModesAssumption == Modes \subseteq {"Execute", "DryRun", "Validate"}

ASSUME BoundsAssumption ==
  /\ SerialClients \in BOOLEAN
  /\ MaxCrashes \in Nat
  /\ MaxWriteFailures \in Nat

VARIABLES
  store,     \* executions table: the saved record of each execution
  events,    \* events table: the types of the events of each execution
  pc,        \* where each thread is
  rec,       \* the record each thread works on
  todo,      \* records a GET handler or the bootstrap has read, not yet treated
  out,       \* database writes a thread makes before its next step
  owner,     \* whose process holds each pid
  pst,       \* state of each pid in the process table
  socket,    \* the execution whose process created a workload's control socket
  late,      \* executions whose readiness deadline has passed
  mode,      \* the control plane's process
  crashes,   \* number of crashes so far, the epoch the next bootstrap stamps
  failures   \* number of failed database writes so far

db == <<store, events, failures>>
host == <<owner, pst, socket, late>>
thread == <<pc, rec, todo, out>>
vars == <<store, events, pc, rec, todo, out, owner, pst, socket, late, mode,
          crashes, failures>>

-----------------------------------------------------------------------------
(* Events, threads, the initial state.                                     *)

EventTypes ==
  {"ExecutionCreated", "ValidationFailed", "ValidationPassed",
   "PreparationFailed", "PreparationPassed", "RuntimeSpawnFailed",
   "RuntimeSpawned", "DryRunCompleted", "TerminationRequested",
   "TerminationFailed", "Terminated", "ReconcileStateChanged",
   "ExecutionRehydrated", "ExecutionRecoveryUnknown"}

(* A write is "save", the upsert of the thread's record, or an event type, *)
(* the insertion of that event.                                            *)
Writes == {"save"} \cup EventTypes

LauncherPCs == {"none", "validate", "prepare", "launching", "execute",
                "return", "done", "past"}
HandlerPCs == {"idle", "reconcile", "kill", "return"}
BootPCs == {"idle", "recover"}

(* The records that exist somewhere: in the table, or in some thread's hands. *)
Copies ==
  ({store[e] : e \in Execs} \cup {rec[t] : t \in Threads}
     \cup UNION {todo[t] : t \in Threads}) \ {NoRec}

TypeOK ==
  /\ store \in [Execs -> LaunchRecord \cup {NoRec}]
  /\ \A e \in Execs : store[e] # NoRec => store[e].id = e
  /\ events \in [Execs -> SUBSET EventTypes]
  /\ pc \in [Threads -> LauncherPCs \cup HandlerPCs \cup BootPCs]
  /\ rec \in [Threads -> LaunchRecord \cup {NoRec}]
  /\ todo \in [Threads -> SUBSET LaunchRecord]
  /\ out \in [Threads -> Seq(Writes)]
  /\ owner \in [Pids -> Execs \cup {NoOne, Outsider}]
  /\ pst \in [Pids -> {"free", "child", "adopted", "zombie"}]
  /\ socket \in [Workloads -> Execs \cup {NoOne}]
  /\ late \in SUBSET Execs
  /\ mode \in {"up", "down", "boot"}
  /\ crashes \in 0..MaxCrashes
  /\ failures \in 0..MaxWriteFailures

Init ==
  /\ store = [e \in Execs |-> NoRec]
  /\ events = [e \in Execs |-> {}]
  /\ pc = [t \in Threads |-> IF t \in Execs THEN "none" ELSE "idle"]
  /\ rec = [t \in Threads |-> NoRec]
  /\ todo = [t \in Threads |-> {}]
  /\ out = [t \in Threads |-> <<>>]
  /\ owner = [p \in Pids |-> NoOne]
  /\ pst = [p \in Pids |-> "free"]
  /\ socket = [w \in Workloads |-> NoOne]
  /\ late = {}
  /\ mode = "up"
  /\ crashes = 0
  /\ failures = 0

-----------------------------------------------------------------------------
(* Database writes, common to all threads.                                 *)

(* Every caller goes on whether or not the write succeeded: save,          *)
(* emitEvent and the bootstrap drop the error, reconcileExecution returns  *)
(* one that its callers only log.                                          *)
DbWrite(t) ==
  /\ mode # "down"
  /\ out[t] # <<>>
  /\ out' = [out EXCEPT ![t] = Tail(@)]
  /\ \/ /\ IF Head(out[t]) = "save"
           THEN /\ store' = [store EXCEPT ![rec[t].id] = rec[t]]
                /\ UNCHANGED events
           ELSE /\ events' = [events EXCEPT ![rec[t].id] = @ \cup {Head(out[t])}]
                /\ UNCHANGED store
        /\ UNCHANGED failures
     \/ /\ failures < MaxWriteFailures
        /\ failures' = failures + 1
        /\ UNCHANGED <<store, events>>
  /\ UNCHANGED <<pc, rec, todo, host, mode, crashes>>

(* Thread t, at pc from with no write left, goes on to pc to with record r *)
(* and the writes w.                                                       *)
Step(t, from, to, r, w) ==
  /\ mode # "down"
  /\ pc[t] = from
  /\ out[t] = <<>>
  /\ pc' = [pc EXCEPT ![t] = to]
  /\ rec' = [rec EXCEPT ![t] = r]
  /\ out' = [out EXCEPT ![t] = w]

-----------------------------------------------------------------------------
(* StartLaunch(spec), run by ExecuteLaunch's goroutine, for execution e.   *)

NewRecord(e) ==
  [id |-> e, state |-> "Pending", trace |-> <<"Pending">>, pid |-> NoPid,
   prepared |-> FALSE, liveness |-> "Unknown", readiness |-> "NotStarted",
   epoch |-> 0]

InitializeRecord(e) ==
  /\ mode = "up"
  /\ Step(e, "none", "validate", NewRecord(e), <<"ExecutionCreated", "save">>)
  /\ UNCHANGED <<todo, db, host, mode, crashes>>

(* The target node is unknown, or it does not meet the prerequisites. *)
ValidationFails(e) ==
  /\ Step(e, "validate", "return",
          TransitionTo(TransitionTo(rec[e], "Preparing"), "Failed"),
          <<"save", "ValidationFailed">>)
  /\ UNCHANGED <<todo, db, host, mode, crashes>>

ValidationPasses(e) ==
  /\ Step(e, "validate", "prepare", TransitionTo(rec[e], "Preparing"),
          <<"save", "ValidationPassed">>)
  /\ UNCHANGED <<todo, db, host, mode, crashes>>

(* Mutant of PreparationFails: prepare again, as often as it takes. *)
PreparationRetries(e) ==
  /\ Step(e, "prepare", "prepare", rec[e], <<"PreparationFailed">>)
  /\ UNCHANGED <<todo, db, host, mode, crashes>>

(* No executor for the backend, or Prepare returns an error. *)
PreparationFails(e) ==
  /\ Step(e, "prepare", "return", TransitionTo(rec[e], "Failed"),
          <<"save", "PreparationFailed">>)
  /\ UNCHANGED <<todo, db, host, mode, crashes>>

PreparationPasses(e) ==
  /\ Step(e, "prepare", "launching",
          TransitionTo([rec[e] EXCEPT !.prepared = TRUE], "Validated"),
          <<"save", "PreparationPassed">>)
  /\ UNCHANGED <<todo, db, host, mode, crashes>>

RecordLaunching(e) ==
  /\ Step(e, "launching", "execute", TransitionTo(rec[e], "Launching"), <<"save">>)
  /\ UNCHANGED <<todo, db, host, mode, crashes>>

CompleteDryRun(e) ==
  /\ Modes \cap {"DryRun", "Validate"} # {}
  /\ Step(e, "execute", "return",
          TransitionTo(TransitionTo(rec[e], "Terminating"), "Terminated"),
          <<"save", "DryRunCompleted">>)
  /\ UNCHANGED <<todo, db, host, mode, crashes>>

SpawnFails(e) ==
  /\ "Execute" \in Modes
  /\ Step(e, "execute", "return", TransitionTo(rec[e], "Failed"),
          <<"save", "RuntimeSpawnFailed">>)
  /\ UNCHANGED <<todo, db, host, mode, crashes>>

(* The fork succeeds; until the next write only this goroutine knows the PID. *)
Spawn(e, p) ==
  /\ "Execute" \in Modes
  /\ pst[p] = "free"
  /\ Step(e, "execute", "return",
          TransitionTo([rec[e] EXCEPT !.pid = p], "Starting"),
          <<"save", "RuntimeSpawned">>)
  /\ owner' = [owner EXCEPT ![p] = e]
  /\ pst' = [pst EXCEPT ![p] = "child"]
  /\ UNCHANGED <<todo, db, socket, late, mode, crashes>>

Return(t) ==
  /\ t # Boot
  /\ Step(t, "return", IF t \in Execs THEN "done" ELSE "idle", NoRec, <<>>)
  /\ UNCHANGED <<todo, db, host, mode, crashes>>

-----------------------------------------------------------------------------
(* Requests of other goroutines.  Clients may send one at any time; under  *)
(* SerialClients they send a request about the executions es only when     *)
(* their launches have returned and no other request is being served.      *)

Clear(es) ==
  SerialClients =>
    /\ \A h \in Handlers : pc[h] = "idle"
    /\ \A e \in es : pc[e] \in {"done", "past"}

Recorded == {e \in Execs : store[e] # NoRec}

(* InspectLaunch, ObserveLaunch and InspectReadiness read one record,      *)
(* ListLaunches reads them all.                                            *)
BeginGet(h, es) ==
  /\ mode = "up"
  /\ es # {}
  /\ Clear(es)
  /\ Step(h, "idle", "reconcile", NoRec, <<>>)
  /\ todo' = [todo EXCEPT ![h] = {store[e] : e \in es}]
  /\ UNCHANGED <<db, host, mode, crashes>>

GetOne(h, e) == e \in Recorded /\ BeginGet(h, {e})
GetAll(h) == BeginGet(h, Recorded)

(* Mutant of Observed: only children of the running control plane count. *)
ObservedChildren(r) ==
  [err |-> FALSE, backendError |-> FALSE,
   exists |-> r.pid # NoPid /\ pst[r.pid] = "child",
   ready |-> socket[WorkloadOf[r.id]] # NoOne]

(* What the QEMU and Cloud Hypervisor inspectors report of a record with a *)
(* PID: signal 0 reaches any process table entry, and the existence of the *)
(* workload's socket file is enough to be ready.  They return no error and *)
(* no backend error.                                                       *)
Observed(r) ==
  [err |-> FALSE, backendError |-> FALSE,
   exists |-> r.pid # NoPid /\ pst[r.pid] # "free",
   ready |-> socket[WorkloadOf[r.id]] # NoOne]

(* Mutant of ReconcileWrites: saved first, announced afterwards. *)
SaveFirst == <<"save", "ReconcileStateChanged">>

ReconcileWrites == <<"ReconcileStateChanged", "save">>

(* reconcileExecution of a record that was read: it saves unless Reconcile *)
(* fails, and announces a material change first.  A change of the          *)
(* readiness signal alone is one too: the signal is left out of the record,*)
(* so an observation may or may not be such a change.                      *)
ReconcileExecution(h, r) ==
  /\ r \in todo[h]
  /\ todo' = [todo EXCEPT ![h] = @ \ {r}]
  /\ LET res == Reconcile(r, Observed(r), r.id \in late)
         Material == \/ res.rec.state # r.state
                     \/ res.rec.liveness # r.liveness
                     \/ res.rec.readiness # r.readiness
         SignalSeen == r.state \in PolledStates /\ r.pid # NoPid
     IN \/ /\ r.state \in TerminalStates \/ res.err
           /\ Step(h, "reconcile", "reconcile", NoRec, <<>>)
        \/ /\ r.state \notin TerminalStates
           /\ ~res.err
           /\ Material \/ SignalSeen
           /\ Step(h, "reconcile", "reconcile", res.rec, ReconcileWrites)
        \/ /\ r.state \notin TerminalStates
           /\ ~res.err
           /\ ~Material
           /\ Step(h, "reconcile", "reconcile", res.rec, <<"save">>)
  /\ UNCHANGED <<db, host, mode, crashes>>

EndGet(h) ==
  /\ todo[h] = {}
  /\ Step(h, "reconcile", "idle", NoRec, <<>>)
  /\ UNCHANGED <<todo, db, host, mode, crashes>>

(* Mutant of Terminable: without the idempotency check. *)
AnyRecorded(e) == e \in Recorded

Terminable(e) == e \in Recorded /\ store[e].state \notin TerminalStates

(* TerminateLaunch up to the announcement of the request.  A rejected      *)
(* transition is ignored: a Pending or Terminating record is saved as read.*)
TerminateLaunch(h, e) ==
  /\ mode = "up"
  /\ Terminable(e)
  /\ Clear({e})
  /\ Step(h, "idle", "kill", TransitionTo(store[e], "Terminating"),
          <<"save", "TerminationRequested">>)
  /\ UNCHANGED <<todo, db, host, mode, crashes>>

(* Mutants of HasRuntime: only what this control plane spawned, or only    *)
(* what became ready, is killed.                                           *)
SpawnedHere(r) == r.pid # NoPid /\ r.prepared /\ r.epoch = 0
ReadyRuntime(r) == r.pid # NoPid /\ r.prepared /\ r.readiness = "Ready"

HasRuntime(r) == r.pid # NoPid /\ r.prepared

(* The record of an execution whose process was killed or never was. *)
Killed(r) ==
  TransitionTo([r EXCEPT !.liveness = "Dead", !.readiness = "NotReady"], "Terminated")

TerminateWithoutRuntime(h) ==
  /\ pc[h] = "kill"
  /\ ~HasRuntime(rec[h])
  /\ Step(h, "kill", "return", Killed(rec[h]), <<"save", "Terminated">>)
  /\ UNCHANGED <<todo, db, host, mode, crashes>>

(* Mutant of Reaped: the executors wait for their children. *)
WaitedFor(p) == TRUE

(* Whether the death of the process p leaves no zombie: a process adopted  *)
(* by init is reaped at once.                                              *)
Reaped(p) == pst[p] = "adopted"

(* SIGKILL: a child becomes a zombie. *)
KillRuntime(h) ==
  /\ pc[h] = "kill"
  /\ HasRuntime(rec[h])
  /\ LET p == rec[h].pid
     IN /\ pst[p] # "free"
        /\ pst' = [pst EXCEPT ![p] = IF Reaped(p) THEN "free" ELSE "zombie"]
        /\ owner' = [owner EXCEPT ![p] = IF Reaped(p) THEN NoOne ELSE @]
  /\ Step(h, "kill", "return", Killed(rec[h]), <<"save", "Terminated">>)
  /\ UNCHANGED <<todo, db, socket, late, mode, crashes>>

(* No process has the PID: the record stays as it is, Terminating. *)
KillFails(h) ==
  /\ pc[h] = "kill"
  /\ HasRuntime(rec[h])
  /\ pst[rec[h].pid] = "free"
  /\ Step(h, "kill", "return", rec[h], <<"save", "TerminationFailed">>)
  /\ UNCHANGED <<todo, db, host, mode, crashes>>

-----------------------------------------------------------------------------
(* Crash of the control plane, restart, recovery bootstrap.                *)

(* The goroutines and their records are gone, the launches become past;    *)
(* the children are adopted by init, which reaps the dead ones.            *)
Crash ==
  /\ mode # "down"
  /\ crashes < MaxCrashes
  /\ crashes' = crashes + 1
  /\ mode' = "down"
  /\ pc' = [t \in Threads |->
              IF t \notin Execs THEN "idle"
              ELSE IF pc[t] = "none" THEN "none" ELSE "past"]
  /\ rec' = [t \in Threads |-> NoRec]
  /\ todo' = [t \in Threads |-> {}]
  /\ out' = [t \in Threads |-> <<>>]
  /\ pst' = [p \in Pids |-> CASE pst[p] = "child" -> "adopted"
                              [] pst[p] = "zombie" -> "free"
                              [] OTHER -> pst[p]]
  /\ owner' = [p \in Pids |-> IF pst[p] = "zombie" THEN NoOne ELSE owner[p]]
  /\ UNCHANGED <<db, socket, late>>

(* Mutant of Recoverable: only the states recovery.md:15 lists. *)
RecoverableListed == {e \in Recorded : store[e].state \in PolledStates}

Recoverable == {e \in Recorded : store[e].state \notin TerminalStates}

(* The new process lists the recoverable executions before it serves. *)
Restart ==
  /\ mode = "down"
  /\ mode' = "boot"
  /\ pc' = [pc EXCEPT ![Boot] = "recover"]
  /\ todo' = [todo EXCEPT ![Boot] = {store[e] : e \in Recoverable}]
  /\ UNCHANGED <<rec, out, db, host, crashes>>

(* Mutants of Stamped: one epoch too far, or a record rebuilt from the     *)
(* columns of the table instead of the payload.                            *)
StampedNext(r) == [r EXCEPT !.epoch = crashes + 1]
StampedColumns(r) ==
  [NewRecord(r.id) EXCEPT !.state = r.state, !.pid = r.pid, !.epoch = crashes]

Stamped(r) == [r EXCEPT !.epoch = crashes]

(* recoverExecution, with the ProcessInspector: the PID alone decides. *)
RecoverExecution(r) ==
  /\ r \in todo[Boot]
  /\ todo' = [todo EXCEPT ![Boot] = @ \ {r}]
  /\ LET Recover(s, ev) == Step(Boot, "recover", "recover", s, <<"save", ev>>)
     IN \/ /\ r.pid = NoPid
           /\ Recover(TransitionTo(Stamped(r), "Unknown"), "ExecutionRecoveryUnknown")
        \/ /\ r.pid # NoPid
           /\ Observed(r).exists
           /\ Recover([Stamped(r) EXCEPT !.liveness = "Alive"], "ExecutionRehydrated")
        \/ /\ r.pid # NoPid
           /\ ~Observed(r).exists
           /\ r.state = "Terminating"
           /\ Recover(TransitionTo(Stamped(r), "Terminated"), "ExecutionRehydrated")
        \/ /\ r.pid # NoPid
           /\ ~Observed(r).exists
           /\ r.state # "Terminating"
           /\ Recover(TransitionTo(Stamped(r), "Unknown"), "ExecutionRecoveryUnknown")
  /\ UNCHANGED <<db, host, mode, crashes>>

(* The bootstrap is over and the HTTP server starts. *)
Serve ==
  /\ todo[Boot] = {}
  /\ Step(Boot, "recover", "idle", NoRec, <<>>)
  /\ mode' = "up"
  /\ UNCHANGED <<todo, db, host, crashes>>

-----------------------------------------------------------------------------
(* The host.                                                               *)

Alive(p) == pst[p] \in {"child", "adopted"}

(* The guest's process creates its control socket; an earlier file at the  *)
(* same path is replaced.                                                  *)
CreateSocket(p) ==
  /\ Alive(p)
  /\ owner[p] \in Execs
  /\ socket[WorkloadOf[owner[p]]] # owner[p]
  /\ socket' = [socket EXCEPT ![WorkloadOf[owner[p]]] = owner[p]]
  /\ UNCHANGED <<db, thread, owner, pst, late, mode, crashes>>

(* A process exits by itself; a clean exit may remove its socket file. *)
Exit(p) ==
  /\ Alive(p)
  /\ pst' = [pst EXCEPT ![p] = IF Reaped(p) THEN "free" ELSE "zombie"]
  /\ owner' = [owner EXCEPT ![p] = IF Reaped(p) THEN NoOne ELSE @]
  /\ \/ UNCHANGED socket
     \/ /\ owner[p] \in Execs
        /\ socket[WorkloadOf[owner[p]]] = owner[p]
        /\ socket' = [socket EXCEPT ![WorkloadOf[owner[p]]] = NoOne]
  /\ UNCHANGED <<db, thread, late, mode, crashes>>

(* An unmanaged process starts and is given a free PID. *)
ForeignStart(p) ==
  /\ pst[p] = "free"
  /\ pst' = [pst EXCEPT ![p] = "adopted"]
  /\ owner' = [owner EXCEPT ![p] = Outsider]
  /\ UNCHANGED <<db, thread, socket, late, mode, crashes>>

(* More than 15 s have passed since the process of e was spawned. *)
DeadlinePasses(e) ==
  /\ e \notin late
  /\ \E r \in Copies : r.id = e /\ r.pid # NoPid
  /\ late' = late \cup {e}
  /\ UNCHANGED <<db, thread, owner, pst, socket, mode, crashes>>

-----------------------------------------------------------------------------
Launch(e) ==
  \/ InitializeRecord(e)
  \/ ValidationFails(e) \/ ValidationPasses(e)
  \/ PreparationFails(e) \/ PreparationPasses(e)
  \/ RecordLaunching(e) \/ CompleteDryRun(e) \/ SpawnFails(e)
  \/ \E p \in Pids : Spawn(e, p)

Request(h) ==
  \/ \E e \in Execs : GetOne(h, e) \/ TerminateLaunch(h, e)
  \/ GetAll(h)

Serving(h) ==
  \/ \E r \in todo[h] : ReconcileExecution(h, r)
  \/ EndGet(h)
  \/ TerminateWithoutRuntime(h) \/ KillRuntime(h) \/ KillFails(h)

Bootstrap == (\E r \in todo[Boot] : RecoverExecution(r)) \/ Serve

Host ==
  \/ \E p \in Pids : CreateSocket(p) \/ Exit(p) \/ ForeignStart(p)
  \/ \E e \in Execs : DeadlinePasses(e)

Next ==
  \/ \E e \in Execs : Launch(e)
  \/ \E h \in Handlers : Request(h) \/ Serving(h)
  \/ \E t \in Threads : DbWrite(t) \/ Return(t)
  \/ Bootstrap
  \/ Crash \/ Restart
  \/ Host

Spec == Init /\ [][Next]_vars

(* Fairness: a goroutine that can go on does, a control plane that is down *)
(* is restarted, time passes, and clients keep polling every execution.    *)
(* The last is an assumption on clients: the code reconciles on GETs only. *)
Fairness ==
  /\ \A e \in Execs :
       WF_vars(\/ ValidationFails(e) \/ ValidationPasses(e)
               \/ PreparationFails(e) \/ PreparationPasses(e)
               \/ RecordLaunching(e) \/ CompleteDryRun(e) \/ SpawnFails(e)
               \/ \E p \in Pids : Spawn(e, p))
  /\ \A t \in Threads : WF_vars(DbWrite(t) \/ Return(t))
  /\ \A h \in Handlers : WF_vars(Serving(h))
  /\ WF_vars(Bootstrap)
  /\ WF_vars(Restart)
  /\ \A e \in Execs : WF_vars(DeadlinePasses(e))
  /\ \A e \in Execs : SF_vars(\E h \in Handlers : GetOne(h, e))

FairSpec == Spec /\ Fairness

-----------------------------------------------------------------------------
(* Safety, whatever the interleaving, the crashes and the failed writes.   *)

(* No copy of a record, saved or held by any goroutine, ever has a history *)
(* the transition table forbids (state.go:27-70), although rejected        *)
(* transitions are ignored by most callers.                                *)
LegalHistory == \A r \in Copies : LegalTrace(r)

(* A state that speaks of a process comes with the PID of that process and *)
(* the prepared launch that terminate needs to kill it                     *)
(* (orchestrator.go:182-196, reconcile.go:25).                             *)
RuntimeStatesHavePid ==
  \A r \in Copies :
    r.state \in {"Starting", "Running", "Degraded", "Exited"} => HasRuntime(r)

(* While the control plane that spawned a process runs, the PID its record *)
(* holds names that process and no other, dead or alive: inspection and    *)
(* kill cannot reach a stranger (kvm.go:76-88, never waiting for a child). *)
HeldPid ==
  \A r \in Copies :
    r.pid # NoPid /\ pc[r.id] # "past" =>
      owner[r.pid] = r.id /\ pst[r.pid] \in {"child", "zombie"}

(* A record that is Terminated or Exited and knows its PID is the record   *)
(* of a dead process, even if other requests, a crash or a reuse of the    *)
(* PID came in between (orchestrator.go:219-238, reconcile.go:50-86,       *)
(* bootstrap.go:96-104).                                                   *)
ClosedMeansDead ==
  \A r \in Copies :
    r.state \in {"Terminated", "Exited"} /\ r.pid # NoPid =>
      ~\E p \in Pids : owner[p] = r.id /\ Alive(p)

(* Once the bootstrap is over, nobody holds a record of an earlier control *)
(* plane that still claims a launch in progress, and the ones that are not *)
(* closed carry the current recovery epoch (bootstrap.go:45-127).          *)
MidFlight == {"Pending", "Preparing", "Validated", "Launching"}

Recovered ==
  mode = "up" /\ failures = 0 =>
    \A r \in Copies :
      pc[r.id] = "past" =>
        /\ r.state \notin MidFlight
        /\ r.state \notin TerminalStates => r.epoch = crashes

(* The events of an execution run ahead of the states that only Reconcile  *)
(* enters and of the record's creation: a crash can lose the state, never  *)
(* the event (launch_handlers.go:214-237, orchestrator.go:49-51).  A       *)
(* Terminated event has a TerminationRequested event before it.            *)
AuditAhead ==
  failures = 0 =>
    \A e \in Execs :
      /\ e \in Recorded => "ExecutionCreated" \in events[e]
      /\ e \in Recorded /\ store[e].state \in {"Running", "Exited"} =>
           "ReconcileStateChanged" \in events[e]
      /\ "Terminated" \in events[e] => "TerminationRequested" \in events[e]

-----------------------------------------------------------------------------
(* Properties of the table that need clients to wait for each other.       *)

(* A terminal record is never modified again (state.go:19).                *)
TerminalStable ==
  [][\A e \in Recorded :
       store[e].state \in TerminalStates => store'[e] = store[e]]_vars

(* The saved trace only grows, and a saved PID is never forgotten          *)
(* (state.go:50, "append-only trace").                                     *)
HistoryExtends ==
  [][\A e \in Recorded :
       LET old == store[e]  new == store'[e]
       IN /\ Len(old.trace) <= Len(new.trace)
          /\ SubSeq(new.trace, 1, Len(old.trace)) = old.trace
          /\ old.pid # NoPid => new.pid = old.pid]_vars

(* As long as no crash or failed write has lost a PID, a Terminated        *)
(* execution has no live process (state-machine.md:23, orchestrator.go:204-*)
(* 241).                                                                   *)
TerminatedMeansDead ==
  crashes = 0 /\ failures = 0 =>
    \A e \in Recorded :
      store[e].state = "Terminated" => ~\E p \in Pids : owner[p] = e /\ Alive(p)

-----------------------------------------------------------------------------
(* Liveness.                                                               *)

(* A launch that has begun returns or is lost in a crash.                  *)
LaunchReturns ==
  \A e \in Execs : (pc[e] = "validate") ~> (pc[e] \in {"done", "past"})

(* A record a crash left without a PID is closed by the clients' polling:  *)
(* the bootstrap moves it to Unknown, and Reconcile fails an Unknown       *)
(* without PID (bootstrap.go:110-116, reconcile.go:25-27).                 *)
StrandedCloses ==
  \A e \in Execs :
    (e \in Recorded /\ pc[e] = "past") ~>
       (e \in Recorded /\ (store[e].pid # NoPid \/ store[e].state \in TerminalStates))

(* No execution is saved as Starting for ever: it becomes ready, dies, is  *)
(* terminated, or fails at its deadline (reconcile.go:76-101).             *)
StartingResolves ==
  \A e \in Execs :
    (e \in Recorded /\ store[e].state = "Starting") ~>
       (e \in Recorded /\ store[e].state # "Starting")

-----------------------------------------------------------------------------
(* What the documents and comments claim and the code does not do; the     *)
(* runs that check these find a counterexample.                            *)

(* No GET puts a record that is saved as Terminated back to what it was    *)
(* when the GET read it: terminal states do not become active ones         *)
(* (state.go:19).  reconcileExecution saves the whole record that was read *)
(* (launch_handlers.go:237).                                               *)
GetKeepsTerminated ==
  [][\A h \in Handlers : \A e \in Recorded :
       /\ store[e].state = "Terminated"
       /\ pc[h] = "reconcile" /\ out'[h] # out[h]
       => store'[e] = store[e]]_vars

(* A bootstrap that declares an execution rehydrated has found its own     *)
(* process (recovery.md:17-19).  The PID is all it looks at                *)
(* (bootstrap.go:83-95).                                                   *)
RehydratesOwn ==
  [][\A r \in todo[Boot] :
       /\ r \notin todo'[Boot]
       /\ out'[Boot] = <<"save", "ExecutionRehydrated">>
       /\ rec'[Boot].state # "Terminated"
       => owner[r.pid] = r.id]_vars

(* An execution enters Running when its own process is ready               *)
(* (state-machine.md:18).  The socket file of another launch of the        *)
(* workload is enough (qemu_inspect.go:43-56).                             *)
ReadyIsOwn ==
  [][\A h \in Handlers : \A r \in todo[h] :
       /\ r \notin todo'[h]
       /\ r.state = "Starting"
       /\ rec'[h] # NoRec
       /\ rec'[h].state = "Running"
       => socket[WorkloadOf[r.id]] = r.id]_vars

(* While clients poll, the end of a running process is noticed             *)
(* (architecture.md:18, state-machine.md:20).                              *)
ExitNoticed ==
  \A e \in Execs :
    (/\ e \in Recorded /\ store[e].state = "Running"
     /\ \E p \in Pids : owner[p] = e /\ pst[p] = "zombie") ~>
       (e \in Recorded /\ store[e].state # "Running")

(* Reconcile leads an execution out of Unknown (reconcile.go:116-123).     *)
(* While something answers at its PID and its socket is missing, Reconcile *)
(* asks for Starting, which the table refuses (state.go:34-36).  What      *)
(* answers is a stranger: the bootstrap that made the record Unknown found *)
(* its PID free.                                                           *)
UnknownResolves ==
  \A e \in Execs :
    (e \in Recorded /\ store[e].state = "Unknown") ~>
       (e \in Recorded /\ store[e].state # "Unknown")
=============================================================================
