# Schedune: a TLA+ verification project

Schedune schedules microVM and VM workloads on nodes and manages the processes
it launches. A Rust agent describes a node; a Go control plane keeps the node
descriptions in memory, plans and validates launches, starts hypervisor
processes, tracks each launch as an *execution record* in SQLite, and sweeps the
host for hypervisors it does not manage. This directory models three parts in
which the program can go wrong over time: the life of an execution, from the
launch request to the end of its process; the orphan sweep next to it; and the
way from a probe of a node to a launch planned for it and prepared on it.

Paths below are relative to `src/`; `cp/` abbreviates
`schedune-control-plane/`.

## The system

| Component | State it keeps | Operations | Correct when |
|---|---|---|---|
| Lifecycle (`cp/internal/domain/lifecycle`) | none; works on a record | `TransitionTo`, `Reconcile` | every history is a path of the transition table; a state follows from an observation |
| `LaunchOrchestrator` (`cp/internal/domain/orchestrator.go`) | none; a private record per call | `StartLaunch`, `TerminateLaunch` | a record that is closed has no live process; a launch returns; only its own process is killed |
| Launch handlers (`cp/internal/api/launch_handlers.go`) | none; a private record per request | execute, inspect, observe, readiness, list, terminate | a GET may refresh a record, never undo what happened to it |
| Recovery bootstrap (`cp/internal/recovery/bootstrap.go`) | an epoch per start | `Bootstrap`, before requests are served | nothing in flight at a crash is believed in flight after it |
| SQLite store (`cp/internal/store/sqlite/db.go`) | tables `executions`, `events` | upsert, get, list, append | history is not lost; events run ahead of states |
| Executors, inspectors (`cp/internal/runtime`) | the host's processes and sockets | prepare, spawn, kill, observe | what is observed and killed is the execution's own process |
| Orphan sweep and table (`cp/internal/recovery/orphan_*.go`, `cp/internal/runtime/enumerate_linux.go`, `cp/internal/store/sqlite/orphans.go`) | table `orphans` | one sweep each 30 s, listing | a managed process is not called an orphan for long, a live orphan does not disappear for long, a first sighting is kept |
| Node truth (`cp/internal/api/handlers.go`, `cp/internal/domain/projector.go`, `cp/internal/store/memory.go`) | maps of nodes and envelopes | ingest, list, queries | stale or overtaken telemetry does not make a node eligible |
| Scheduling (`cp/internal/domain/{scheduler,eligibility,version}.go`) | none | explain, select | the choice rests on facts and does not depend on a map's order |
| Planning and validation (`cp/internal/domain/{plan_launch,validate_launch,runtime_select}.go`) | none | plan, validate, dry run | a ready plan rests on facts of the node it names |
| Reassociation (`cp/internal/recovery/reassociate.go`), readiness (`cp/internal/domain/readiness.go`) | none | constructed and never called; never called | not modelled |
| API server (`cp/cmd/schedune/main.go`) | none | start: store, bootstrap, sweep loop, requests | order of the start |
| Agent (`schedune-agent/src`) | none | `inspect`, `prepare --spec` | `prepare` resolves a spec as the control plane does |

How they interact. Requests run in goroutines of their own. Each reads a record
from SQLite, works on a copy and writes the whole copy back; **no lock, version
or transaction relates two requests for the same execution**. `StartLaunch` runs
in such a goroutine, too, and saves its copy after each phase. There is no
periodic reconciler: `Reconcile` runs when a client sends a GET. The bootstrap
runs alone, before the server accepts requests. Records point into the host by
PID and by the path of the workload's control socket. The sweep is a goroutine
of its own: it reads the process table and the execution rows, and alone writes
the `orphans` table. Node truth does not meet executions at all: an envelope
replaces a node's record in memory, plan and schedule handlers read those
records, and validation of a launch reads them again. What carries an envelope
from the agent to the intake, and a plan from the client to the agent, is not
part of this repository.

What is hard: lost updates between goroutines; a termination that meets a
launch; a crash between any two writes, or between an effect on the host and
the write that records it; dropped write errors; PIDs that are reused after a
restart; children that nobody waits for; socket files that outlive their
process; a deadline that races a probe; transitions the table refuses and most
callers ignore; a sweep that reads processes first and rows later; orphans that
share a row because they share a command line; reports that are late, overtaken
or of two moments at once; two clocks; two readings of the node store in one
request; three programs that resolve one spec. `PROJECT.json` lists each hazard at its line with the
properties that watch it.

## Modules

| Module | Models |
|---|---|
| `Lifecycle` | the transition table, `TransitionTo`, `Reconcile` as functions of a record and an observation; `LegalTrace`, what a legal history is |
| `ControlPlane` (EXTENDS `Lifecycle`) | launch goroutines, request handlers, bootstrap, tables, host; the properties of executions |
| `ManagedExecution` | abstract: what the control plane promises about rows and processes, without threads, records and pending writes |
| `ControlPlaneRefines` (EXTENDS `ControlPlane`, INSTANCE `ManagedExecution`) | the refinement mapping and `KeepsPromise` |
| `OrphanSweep` (EXTENDS `ManagedExecution`) | the sweep, its table and events, next to any control plane that keeps the promise |
| `NodeTruth` | the agent's inspection, the way to the intake, projection, the node store and its queries |
| `LaunchRules` | pure operators: versions, backend selection, validation, and the three `Prepare`s |
| `Admission` (EXTENDS `NodeTruth`, `LaunchRules`) | scheduler, plan handler, and what a client does with a plan |
| `MCControlPlane`, `MCOrphanSweep`, `MCAdmission` | definitions of constants, symmetry |
| `ControlPlaneProofs`, `AuditProofs`, `RecoveryProofs`, `RefinementProofs`, `SerialProofs`, `OrphanSweepProofs`, `AdmissionProofs`, `PreparationProofs` | the theorems and their proofs |

### Executions: `Lifecycle`, `ControlPlane`

State of `ControlPlane` and the code it stands for:

- `store`, `events`: rows of `executions` (the decoded `payload_json`) and the
  types of the events of each execution.
- `pc`, `rec`, `todo`, `out`: the goroutines. A launch goroutine is named by its
  execution, handlers by `Handlers`, the main goroutine by `Boot`. `pc` is the
  place in `StartLaunch`, `TerminateLaunch`, a GET handler or `Bootstrap`; `rec`
  its private record; `todo` the records a listing returned and the loop has not
  reached; `out` the database writes it makes before it goes on.
- `owner`, `pst`, `socket`, `late`: the host. `pst[p]` is `child` (a live child of
  the running control plane), `zombie`, `adopted` (alive, with init as parent) or
  `free`; `late` holds the executions for which more than 15 s have passed.
- `mode`, `crashes`, `failures`: the control plane's process and the two bounds.

One action stands for the code between two points where another goroutine, the
host or a crash can come in: database writes and the decisive system call.
`TransitionTo`, trace entries and field assignments between two writes belong to
one action, and each write is a step of its own (`DbWrite`), so that a crash or
another request may fall between a save and its event. The writes are in the
code's order: `reconcileExecution` announces and then saves
(`launch_handlers.go:214-237`), all others save and then announce, except
`initializeRecord`.

| Action | Code |
|---|---|
| `InitializeRecord`, `ValidationFails/Passes`, `PreparationFails/Passes`, `RecordLaunching`, `CompleteDryRun`, `SpawnFails`, `Spawn` | `StartLaunch` (`orchestrator.go:49-198`) |
| `TerminateLaunch`, then `TerminateWithoutRuntime`, `KillRuntime` or `KillFails` | `TerminateLaunch` (`orchestrator.go:204-241`) and the executors' `Terminate` |
| `GetOne`, `GetAll`, `ReconcileExecution`, `EndGet` | inspect, observe, readiness, list and `reconcileExecution` (`launch_handlers.go:174-281`, `356-424`) |
| `Crash`, `Restart`, `RecoverExecution`, `Serve` | end of the process, `runServer`, `Bootstrap` (`bootstrap.go:45-127`) |
| `DbWrite`, `Return` | `SaveExecution`, `AppendEvent` and a goroutine's return |
| `CreateSocket`, `Exit`, `ForeignStart`, `DeadlinePasses` | the host (external) |

Abstractions in `ControlPlane`:

- The trace keeps its `StateTransition` steps, which alone are judged by the
  transition table. Timestamps, messages and exit codes are left out.
  `StartedAtSec` is set together with the PID and is never cleared, so `late` and
  `pid` replace it.
- The readiness signal is left out of the record. A change of it alone is
  "material" to `reconcileExecution`, so a GET that finds nothing else new may
  or may not emit an event.
- An inspection is one step, though it sends a signal and then looks at a
  file. SIGKILL takes effect at once. A process that has a given PID can be
  signalled by the control plane. The QEMU and Cloud Hypervisor inspectors
  return no error and no backend error, so `Degraded` does not occur in
  `ControlPlane`; `Lifecycle` has those branches.
- A socket belongs to a workload: all launches of a workload use one backend. A
  clean exit may or may not remove the file.
- Validation and preparation succeed or fail nondeterministically.
- `ExecuteLaunch` always sets the mode `Execute`. The branch for `DryRun` and
  `Validate` in `StartLaunch` is reached by other callers (the tests) and is
  switched on by `Modes`.
- The first start, on an empty database, has nothing to recover and is the
  initial state. A listing error during a bootstrap ends the process, as a crash
  does.
- Listings come in an arbitrary order. Failed writes are bounded by
  `MaxWriteFailures`, crashes by `MaxCrashes`; each execution id is launched once,
  since the code draws a fresh UUID. The recovery epoch is the number of
  crashes before the bootstrap. Requests are unbounded.

`SerialClients` separates what the code guarantees from what it needs of its
clients. FALSE: requests arrive at any time. TRUE: a client asks about an
execution only after its launch has returned, and no two requests are served at
once (`Clear`). Crashes, restarts and the host are unrestricted in both.

### The promise: `ManagedExecution`, `ControlPlaneRefines`

`ManagedExecution` keeps of an execution the row that is saved (its PID, and
whether it is open, failed or closed), the stage of its launch (`new`, `active`,
`over`, `past` once a crash has ended it), and the process table. `Saveable` is
the promise: before a crash a row names no process or the one its launch
spawned; after a crash it never learns or loses a PID; no row is closed over a
live process it can name. `ControlPlaneRefines` maps `store` to rows by `RowOf`
and `SavedRows`, and `pc` to stages by `LaunchStages`. `DbWrite` of a save maps
to `SaveRow`, spawns, exits and kills to `SpawnRuntime`, `Die` and
`OutsiderStarts`, everything else to `BeginLaunch`, `EndLaunch`, the three mode
changes or a stutter.

### Orphans: `OrphanSweep`

`SweepOnce` is cut where something else can come in between:

| Action | Code |
|---|---|
| `BeginSweep`, `Examine` | `Enumerate`: `/proc` is listed, then its entries are read one by one; zombies and other programs are skipped |
| `ListExecutions` | `ListRecoverableExecutions`, then `MatchEnumeratedProcessToExecution` and `ClassifyOrphan` of every process, on the rows of that moment |
| `Report` | `GetOrphan`, the record with its kept first sighting, the detection event |
| `UpsertOrphan` | `UpsertOrphan`, whose `ON CONFLICT` keeps `first_seen_at` |
| `MarkMissing` | `MarkMissingAsDisappeared`, with what was upserted |
| `Crash`, `ControlPlaneStep`, `Tick` | the rest of the system, by `ManagedExecution` |

Each of the five database calls may fail, as often as `MaxDbFailures` allows; what the
code does then differs (give up, take for new, go on), and so do the actions' disjuncts.
A failure met by `GetOrphan` may last over the event that follows it. The sweep sees a
process as a backend, a command fingerprint and a hint, given as functions of whose
process it is; the fingerprint is the row's id. `announced` are the classifications some
event carried. The sweep reads the clock once, so time passes between sweeps. Order of
enumeration and of reporting is arbitrary.

### Admission: `NodeTruth`, `LaunchRules`, `Admission`

A host is an architecture, what the collectors find to exist or open (`has`), the
hypervisors on the agent's PATH (`path`), versions and files. `has` and `path` are
independent: the collector looks for hypervisors in `/usr/bin` and `/usr/local/bin`
only (`virtualization.rs:99-138`), the agent walks its `$PATH` (`prepare.rs:157-167`).
The changes of a host are unrestricted but counted (`MaxUpsets`).

| Action | Code |
|---|---|
| `CollectSystem`, `CollectVirtualization` | `inspect` (`main.rs:55`): two collectors, one after the other, each stamping its capabilities with its own expiry; the second stamps and prints the envelope |
| `Lose`, `Ingest` | the external way to the intake, in any order; `IngestEnvelope`, `Project`, `SaveNodeState` |
| `BuildLaunchPlan` | the plan handler's first reading: mismatches, `ExplainSchedule`/`SelectNode`, contradicted targets |
| `PlanLaunch` | its second reading and `ValidateLaunch` |
| `PrepareOnNode`, `Done` | the client has the agent prepare a dry-run plan, as the answer advises, or goes away |
| `HostChanges`, `Tick`, `ControlPlaneRestart` | the surroundings; a restart forgets all nodes and the request being served |

`LaunchRules` states three readings of one spec side by side:
`ValidateLaunch`/`SelectBackend` (control plane, from a node's record), `Prepare`
(its executors, from local files), `AgentPrepare` (the agent, from its own PATH
and files). Versions are number sequences; a spec or intent is a record of the
fields control depends on. A history variable, `held`, keeps which conditions a
host was in and until when, so that properties can ask what was real.

Abstractions: the agent's collectors never fail as a whole and report health only as
Healthy, so other health values do not arrive; envelopes the intake rejects are
left out; one request is followed at a time, since plan requests write nothing.
`SelectNode` is a set, the nodes that may come first when the store lists its map
in any order; `ChoiceDetermined` says that it has at most one element. Scores keep the
three terms of the code. Texts, warnings, remediation hints and networks are left
out.

## Properties

### Executions

Whatever the clients do (`SerialClients = FALSE`):

- `LegalHistory`: no copy of a record, saved or in memory, has a history
  that the transition table forbids, ends elsewhere than in its state, or starts
  elsewhere than in `Pending`. Lost updates mix *versions* of a record, never
  histories.
- `RuntimeStatesHavePid`: `Starting`, `Running`, `Degraded` and `Exited` come
  with a PID and a prepared launch.
- `HeldPid`: while the control plane that spawned a process runs, the PID in any
  copy of its record names that process, dead or alive. It rests on the missing
  `cmd.Wait`: a zombie keeps its PID. The same omission breaks `ExitNoticed`, and
  the mutant that waits for children breaks `HeldPid`: adding the wait alone
  exposes kills and probes to reused PIDs.
- `ClosedMeansDead`: a copy that is `Terminated` or `Exited` and knows its PID
  belongs to a dead process.
- `Recovered`: after the bootstrap no copy of a record of an earlier control
  plane claims a launch in flight, and those still open carry the current epoch.
  It needs saves to succeed: the bootstrap ignores their errors.
- `AuditAhead`: `ExecutionCreated` precedes the record, `ReconcileStateChanged`
  precedes a saved `Running` or `Exited`, `Terminated` comes after
  `TerminationRequested`.

With serialised clients: `TerminalStable` (a saved terminal record is never
modified), `HistoryExtends` (the saved trace only grows, the PID is kept) and,
until a crash or a failed write, `TerminatedMeansDead` (no process of a
Terminated execution lives). A PID that is lost between the spawn and its save
breaks the last: the process lives and the record is closed without a PID.

Whatever the clients do, `KeepsPromise`: `ControlPlane` implements
`ManagedExecution`. It is checked in the run `serial`, which has two PIDs, two
crashes and a failed write, and proved without those restrictions.

Liveness: `LaunchReturns`, `StrandedCloses` (a record a crash left without PID
is closed), `StartingResolves`.

### Orphans

- `FirstSeenKept`: no step, failure or crash changes or removes the first sighting
  of a row.
- `VerdictAnnounced`: until a database call fails, the table claims of an orphan only
  what an event announced, across crashes between the two writes.
- `SeenStaysActive`: until a database call fails, a row disappears only in a sweep
  that saw no unmatched process of its command, however many share the row.
- `StraySurfaces`: a process that stays stray is at last Active for ever. One
  failed upsert marks it Disappeared for a sweep; the next one repairs that.
- `FalseAlarmClears`: when the live processes of a command stay the same and none
  is stray, its row does not stay Active, whatever a sweep saw between a spawn and
  the save of its PID. The processes must stay the same: if an execution's
  processes come and go for ever, each sweep may see one before its PID is saved.
- `SweepTypeOK`.

### Admission

- `ChosenOnFacts`: a node is chosen on what it really was, within the age the intent
  allows (its architecture and class, probed first, within that and a
  capability's life), however late or out of order its envelope came, up to the
  skew of the node's clock.
- `ReadyOnFacts`: the second reading asks for no age, yet a plan becomes ready on facts no
  older than the larger of the intent's age and a capability's life.
- `PoolsTrusted`: a node offered for `kvm`, `firecracker` or `arm-prod` is not among
  the stale ones, although the two halves of an envelope are stamped by two collectors,
  expire at different times, and one of them may be stale while the other is not.
- `ChoiceDetermined`: the choice does not depend on the order of a Go map.
- `AgentFollowsPlan`: while the node still is what it was validated as, the agent
  prepares a plain spec for the backend the plan named. `Plain` and two conditions on
  the node are what the two programs need to agree. `Plain`: no version requirement
  (the agent reads no versions), and for a microVM one root and one kernel disk, named
  in one of the two ways. `OnPath`: the planned hypervisor is on the agent's PATH.
  `PathReported`: that PATH leads to no hypervisor outside the collector's two
  directories, since such a one may come first in the agent's order without the control
  plane knowing of it (see "Seen while modelling"). The run has such hosts.
- `PreparersAgree`: where both prepare the same backend, agent and dry run
  resolve the same disks.
- `StoreConverges`: once hosts and control plane are left alone, every node's record
  becomes what the node is and stays so, whatever late envelope is in flight.
- `AdmissionTypeOK`, which also says that every record is the projection of the
  envelope stored with it.

## Runs

The runs of executions use `MCControlPlane`. "e/h/p" are executions, handlers, PIDs.

| Run | e/h/p | Serial | Crashes | Failed writes | Distinct states | Checks |
|---|---|---|---|---|---|---|
| `races` | 1/2/1 | no | 1 | 0 | 1.3 M | `LegalHistory`, `RuntimeStatesHavePid`, `HeldPid`, `ClosedMeansDead`, `Recovered`, `AuditAhead` |
| `serial` | 1/2/2 | yes | 2 | 1 | 0.6 M | `TypeOK`, `TerminatedMeansDead`, `TerminalStable`, `HistoryExtends`, `KeepsPromise` |
| `progress` | 1/1/1 | no | 1 | 0 | 45 k | the three liveness properties |

| Run | Instance | Distinct states | Checks |
|---|---|---|---|
| `sweep` (`MCOrphanSweep`) | 1 execution, 1 outsider with the same command line, 2 PIDs, clock up to 1, 1 crash, 1 failed database call | 0.3 M | the six properties of orphans |
| `admission` (`MCAdmission`) | 2 nodes, 4 conditions of hosts, 4 requests, clock up to 2, an inspection takes up to 1 tick, 1 change or restart, `Life` and `FreshWithin` 1, skews 0 and 1, 2 reports under way | 0.85 M | `AdmissionTypeOK`, `ChoiceDetermined`, `ChosenOnFacts`, `ReadyOnFacts`, `AgentFollowsPlan`, `PreparersAgree` |
| `reports` (`MCAdmission`) | the same without requests, clock up to 3, a host without `/dev/kvm` in place of the one with a hypervisor elsewhere | 0.23 M | `PoolsTrusted`, `StoreConverges` |

Why the bounds suffice. Executions meet each other only in a PID or a socket
path, so the interference of requests needs one execution, and two request
goroutines besides its launch already give every order of three concurrent
read-modify-write sequences and of all their writes. One crash reaches every
state between two writes; the second, in `serial`, includes a crash during the
bootstrap and a record recovered twice. The execution's process and unmanaged
ones compete for the PIDs, which forces reuse; that two executions may compete for
them, too, is covered by the theorems. Handlers and PIDs are symmetric where the
run has several, but not in a run with liveness.

In `sweep`, one command shared by the execution and the outsider makes them share a row
and a hint that is not an execution id, the hardest case of the code; two PIDs allow
both to live at once and a PID to be reused; clock 1 tells a first sighting from a later
one; one failed call reaches each of the five failure branches. The only class the run
meets is `StaleExecutionArtifact`; the other classes, different commands, exact hints
and other backends are covered by the theorems about safety. In `admission`, every
duration of the code is one tick, so that a clock up to 2 reaches fresh, aged and stale;
two reports under way let one overtake another. A tick may pass between the two
collectors (`MaxInspection` is 1), so that the halves of an envelope differ in age and
expire apart. `reports` does without requests and has a third tick instead, after which
one half is stale and the other is not for a node that reported in between. One of the
hosts of `admission` has a hypervisor outside the collector's directories. The four
requests take each way through the plan handler: a VM with a target and two disks, a
microVM with a version requirement, a VM with a preferred backend and a minimal version,
a mismatch.

Six further runs, all of executions, each find a counterexample to one sentence of the
documentation or of a comment; `PROJECT.json` quotes it under "findings".

| Run | What happens |
|---|---|
| `lost_update` | a GET reads the record of a launch in progress, a terminate then saves it as Terminated, and the GET writes back what it had read (`GetKeepsTerminated`). `TerminalStable` and `HistoryExtends` fail for the same reason when clients are concurrent |
| `killed_too_early` | terminate finds no PID yet, saves Terminated, and the launch then spawns the process |
| `stale_pid` | during an outage a stranger takes the PID; the bootstrap reports the execution rehydrated |
| `stale_socket` | the socket file of another launch of the workload makes this one Running |
| `zombie` | a process that exits is a zombie until the control plane ends, and stays Running |
| `stuck_unknown` | the process of an execution ends in a crash and the bootstrap makes the execution Unknown; a stranger then takes its PID, and has no socket. Each poll asks for Unknown to Starting, which the table refuses, and the execution stays Unknown for ever |

The last four happen even with serialised clients.

Every property of a passing run has a mutant, a plausible bug in one definition
(operators whose comments call them mutants) under which TLC finds the property
violated in the same run.

## Fairness

`FairSpec` adds weak fairness of goroutines (launches, database writes,
requests, bootstrap), which the Go scheduler provides; of the restart, which a
supervisor provides; of the clock (`DeadlinePasses`). The guest owes nothing: a
process may never create its socket and never exit. Clients are assumed to poll
each execution again and again. That is strong fairness of `GetOne`,
since a GET is enabled only while some handler is free, and an assumption the
code does not establish: without GETs nothing is reconciled. Crashes are finite
by their bound.

`OrphanSweep`: weak fairness of the sweep's steps, the ticker loop of
`runServer`, and of the mode changes, so that a control plane that is down comes
back and ends its bootstrap. Nothing is assumed of launches, requests or the host.

`Admission`: `Reporting` is an assumption about the external poster: a node's
inspection is run again and again, one that has begun ends, and of the envelopes
of a node that keep being under way some arrive. Inspections and arrivals are strongly fair,
since the bound on reports under way and losses disable them again and again. Nothing
is assumed of requests, clocks or hosts. `StoreConverges`, the one property that needs
it, is checked in `reports`; `admission` checks safety only.

## What is proved

`ControlPlaneProofs` proves for all values of the constants, so for any numbers
of executions, handlers, PIDs, crashes and failed writes, and for serial or
concurrent clients:

- `TypeCorrect`: `Spec => []TypeOK`
- `LegalHistoryHolds`: `Spec => []LegalHistory`
- `RuntimeStatesHavePidHolds`: `Spec => []RuntimeStatesHavePid`
- `HeldPidHolds`: `Spec => []HeldPid`
- `ClosedMeansDeadHolds`: `Spec => []ClosedMeansDead`

Assumptions (named, in `ControlPlane`): the names of goroutines are distinct;
every execution has a workload; `NoPid`, `NoRec`, `NoOne` and `Outsider` are not
values of the kinds they stand in for; the bounds are naturals. TLC evaluates
them in every run.

The argument. `TypeOK` is not inductive by itself: the actions apply lifecycle
operators to `rec[t]`, which must not be `NoRec` where they do. `TypeInv` adds
`HoldsRec`: a thread at a place where it works on a record, or with a
write pending, holds one, and a launch holds its own. The transition table
enters through lemmas about `TransitionTo` and `Reconcile`: each either keeps
the record's history or extends it by a step of the table
(`TransitionFacts`, `ReconcileFacts`).

Safety is about *copies*: the rows of the table, the records in the hands
of goroutines and those a loop has not reached. That is why lost updates cannot
break it: a write moves a copy, it creates none. The inductive invariant `IInv`
says of each copy (`CopyIn`) that its history is legal, that a runtime state
has a PID, and of a copy with a PID that its launch has spawned, that its process
is the only one its execution owns and still holds the PID while the launch's
control plane runs, and that it is dead if the copy is closed. It adds
that an owned PID means a launch that has spawned (`HostOK`), which makes a spawn
the first, and what a launch holds before it spawns (`LaunchOK`). `Evolve`
summarises what every step other than a spawn does to processes; `EvolveCopy`
shows that it keeps every copy good, and `StepIInv` reduces each action to the one
record it produces.

Four modules build on it and add an invariant each.

- `AuditProofs`, `AuditAheadHolds`: rows and listed records are accounted for in the
  events (`StoreAudited`, `TodoAudited`). A record in a goroutine's hands is, or its
  announcement is the first of the writes the goroutine has still to make
  (`HeldAudited`), so that no save of the record can precede it. Events only grow.
- `RecoveryProofs`, `RecoveredHolds`: before the server starts, only the bootstrap
  holds anything (`Alone`), and each row is settled, still to be visited, or about to be
  overwritten by a settled record (`BootOK`); while it serves, the copies of earlier
  launches are settled (`UpOK`). Requests cannot undo this, since what they make
  of a record keeps its epoch and never returns it to a launch's own states (`Moves`).
  That a record with a PID is past these (`PidsFree`) is why the bootstrap may
  leave the state of one whose process lives.
- `RefinementProofs`, `KeepsPromiseHolds`: the initial states of `ControlPlane` are
  initial in `ManagedExecution`, and every step maps to a step or a stutter. The save of a
  record read long ago is the case that needs an argument: `BegunInv` says that
  the copies of an execution whose launch has begun and was cut off by a crash are of a
  saved row and carry its PID, so a stale copy writes nothing `Saveable` forbids.
  One more assumption, `RowAssumption`: `NoRec` is no row.
- `SerialProofs`: `TerminalStableHolds`, `HistoryExtendsHolds` and
  `TerminatedMeansDeadHolds`, each under the hypothesis `SerialClients`, without which
  they are false (`lost_update`, `killed_too_early`), and for any crashes and failed writes. On top of `RecoveredHolds`' invariant, `SerialInv` says who may hold
  what: one request is served at a time (`OneServed`); requests and the bootstrap touch
  only executions whose launch is over (`LaunchesOver`); a record listed and
  not yet treated is still what its row holds (`Fresh`); and a record in anyone's hands
  is its row gone on (`Ahead`): its history begins with the row's, it keeps the row's
  PID, and it *is* the row if the row is closed. `Exclusive` draws the
  conclusion that at most one thread holds or lists the record of an execution, so that
  a save replaces a row by what has gone on from it (`RowsGoOn`). For
  `TerminatedMeansDeadHolds`, `PidKnown` adds that until a crash or a failed write the PID
  of an execution's process is in its row or about to be saved there by its launch;
  a Terminated row then has the PID, and `ClosedMeansDead` gives the rest.

`OrphanSweepProofs`, for any executions, outsiders, PIDs, command lines, hints and
backends, and with `ProcessAssumption`, `OrphanAssumption` and `BoundAssumption`
(constants that stand for nothing are not values, bounds are naturals):

- `SweepTypeCorrect`. The strengthening: a live process has an owner (`OwnedAlive`), and
  a verdict in hand is one while a row is upserted (`VerdictReady`).
- `FirstSeenKeptHolds`, from that invariant: only the upsert and the marking write
  rows, and each keeps the first sighting.
- `VerdictAnnouncedHolds` and `SeenStaysActiveHolds`. Until a call fails, the verdict in hand
  has been announced (`Announced`), and every stray of the sweep is still to be reported,
  is being upserted, or is among the observed ones (`Covered`), however many
  share a row.

Since `OrphanSweep` runs next to `ManagedExecution`, these hold next to
`ControlPlane`, which implements it.

`AdmissionProofs`, for any nodes, conditions of hosts, skews, lives of capabilities and
requests, with `NodeAssumption` (nodes are numbers, that is names with an
order; durations are naturals) and `RequestAssumption` (an intent's age is
positive):

- `VersionsOrdered`: `CompareVersions` is a total order.
- `AdmissionTypeCorrect`, `ChosenOnFactsHolds`, `ReadyOnFactsHolds`,
  `PoolsTrustedHolds` from one invariant, `Truth`: whatever is written down, half an
  inspection (`Probed`), an envelope on the way, or one in the store with
  the record projected from it (`Stored`), was real on its node no earlier than it says, up
  to the node's skew. `Requested` adds that a request under way names a known node.
- `ChoiceDeterminedHolds`: two nodes that may both come first have equal scores and
  equal ids.

`PreparationProofs`, for any spec, any node and any past of its records, with one more
assumption, `SpecAssumption`: a planned spec is one of `Specs`, whose class, architecture
and mode are those the bindings of `LaunchSpec` and of the template it is hydrated from admit
(`launch/v1alpha1.go:36-52`, `plan/v1alpha1.go:13-14`).
`Planned` adds to the invariant of `AdmissionProofs` what made a ready plan valid: an envelope and a
time whose projection validation accepted (`Validated`), and that the spec's architecture
is that of the node's machine, which no change of the host touches (`SameArch`).

- `AgentFollowsPlanHolds`. Validation and agent walk the same list
  (`SameCandidates`), at most two backends long, and take the first that fits, so
  it is enough that the planned one fits the agent and that nothing does which the record
  refused (`SameFirst`). The capabilities of one collector go stale together
  (`TrustedTogether`), so if the plan's backend was accepted, any other that the record
  refused was refused for its binary. The agent misses that binary as well, but only because
  its PATH is assumed to lead to reported hypervisors (`PathReported`); that it finds the
  planned one is `OnPath`. Both are hypotheses about the node that the code does not
  establish. One more difference, a host neither `x86_64` nor `aarch64` on which the report
  never supports qemu and the agent would look for it, is excluded by the binding of the
  spec's architecture: the theorem needs that line of the schema.
- `PreparersAgreeHolds`: the executors' and the agent's way to the disks of a plain spec
  end at the same ones (`SamePrimary`, `SameMicroDisks`). Of a microVM the executors take
  the last disk that matches and the agent the first, under different conditions;
  for a plain spec each condition is met by exactly one disk, the same on both sides.
  Both read a missing format as raw (`Resolved`). Where a disk that matches has an empty
  path, the executors go back to the deprecated fields; a plain spec with disks leaves
  those empty, and the dry run prepares nothing.

Only model-checked, as the provers have no rule for them: all liveness
(`LaunchReturns`, `StrandedCloses`, `StartingResolves`, `StraySurfaces`, `FalseAlarmClears`,
`StoreConverges`). Every other property of a passing run is proved.

## Not modelled

- `ReassociationEngine` is constructed by the bootstrap, which never calls it.
  `domain/readiness.go` is not called at all.
- The doctor command and the agent's `migration` analyser only report, its `daemon` only
  waits; the SQLite DDL declares.
- Collectors that fail, health other than Healthy, alarms: the agent's collectors always
  return, and report neither. Envelopes that fail binding or the version check are refused
  before anything changes.
- Reason codes, explanations, traces of validation, remediation hints, networks
  (`normalizeNetworks`), views and response schemas: wording and layout.
- The error and `Degraded` branches of `Reconcile` are in `Lifecycle`, but no inspector
  of the program takes them. That the table refuses Degraded to Running
  (`reconcile.go:113`) therefore has no property.

## Seen while modelling

Oddities that no run states, most of them because no document of the repository
contradicts them or the path is not taken:

- Validation tells the client that typed storage takes precedence over the deprecated
  fields (`validate_launch.go:34`), and the executors do so; the agent takes a microVM's
  kernel and root disk from the deprecated fields first (`prepare.rs:441`).
  `PreparersAgree` is therefore about specs that name them in one way only.
- The documentation has the agent prepare "the selected runtime backend"
  (`docs/api.md:19`), but a spec does not carry the selection: the agent makes its own. It
  looks neither at the version requirement nor at the capabilities the plan was
  validated with, and for hypervisors along its `$PATH`, not in the collector's two
  directories. With `qemu` in `/usr/bin`, `cloud-hypervisor` only elsewhere on the
  PATH and no preference, the plan names `kvm_qemu` and the agent prepares
  `cloud_hypervisor`. `AgentFollowsPlan` says under which conditions they agree.
- After a crash between the saved Terminating and the kill the process lives and the record
  stays Terminating. The bootstrap never kills (`docs/recovery.md:9`) and keeps
  Terminating for a process that exists (`bootstrap.go:86`): it takes another terminate
  of the client.
- Staleness, of a record and of its capabilities, is computed when an envelope arrives and
  never again. The scheduler looks at the age as well; the queries, the second
  reading of a plan, and direct validation, dry run and execution do not. The query
  for `x86-holding` does not look at staleness at all.
- The `kvm` query asks for `kvm_virtualization` (the device exists), validation for
  `kvm_vm_launch` (it opens).
- A microVM plan can be Ready and is rejected when it is executed
  (`validate_launch.go:83`). An error of `GetNode` in `PlanLaunch` cannot occur.
- An orphan whose upsert fails is left out of the observed ids and marked Disappeared
  while it lives, although the comment at `orphan_sweep.go:91` speaks of the ids observed
  this round; `StraySurfaces` shows that the next sweep repairs it.
- A hypervisor of somebody else that is given the PID of an open execution is matched to
  it and not surfaced. It is the root of `stale_pid` once more.
