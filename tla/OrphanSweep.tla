---------------------------- MODULE OrphanSweep ----------------------------
(***************************************************************************)
(* The orphan sweep: a goroutine that every 30 s enumerates the hypervisor *)
(* processes of the host, matches them with the executions that are not    *)
(* terminal, and keeps a table of the processes that match none.           *)
(*                                                                         *)
(* It runs next to the control plane, which is taken here as               *)
(* ManagedExecution: launches, exits, requests and reuses of PIDs happen   *)
(* between any two of its steps.  Only the sweep writes the orphans table. *)
(*                                                                         *)
(* Of a process, the sweep sees its backend, its command line, hashed into *)
(* the orphan's id, and a hint found in the command line: the workload id, *)
(* since runtime directories are named after workloads, or what follows    *)
(* --exec-id=.  Two launches of a workload have the same command line.     *)
(***************************************************************************)
EXTENDS ManagedExecution, Naturals, FiniteSets

CONSTANTS
  Commands,          \* command fingerprints, and with them orphan ids
  CommandOf,         \* the command of each execution's or outsider's process
  BackendOf,         \* the backend its executable is recognised as
  NoBackend,         \* an executable that is not a hypervisor's
  HintOf,            \* the hint in its command line: an execution or a workload
  NoHint,            \* no hint
  NoOrphan,          \* an absent row of the orphans table
  MaxClock,          \* bound on the clock
  MaxCrashes,        \* bound on the crashes of the control plane
  MaxDbFailures      \* bound on the failed database calls of the sweep

Processes == Execs \cup Outsiders

Classes == {"UnmanagedBackendProcess", "PossiblyManagedButUnlinked",
            "StaleExecutionArtifact"}

OrphanRecord ==
  [pid : Pids, class : Classes, status : {"Active", "Disappeared"}, first : 0..MaxClock]

ASSUME ProcessAssumption ==
  /\ NoOne \notin Processes
  /\ NoPid \notin Pids
  /\ NoRow \notin Rows
  /\ CommandOf \in [Processes -> Commands]
  /\ NoHint \notin Execs
  /\ DOMAIN HintOf = Processes
  /\ DOMAIN BackendOf = Processes

ASSUME OrphanAssumption == NoOrphan \notin OrphanRecord

ASSUME BoundAssumption ==
  MaxClock \in Nat /\ MaxCrashes \in Nat /\ MaxDbFailures \in Nat

VARIABLES
  spc,        \* where the sweep is
  unread,     \* entries of /proc it has still to examine
  procs,      \* hypervisor processes it has enumerated
  strays,     \* those that match no execution, each with its classification
  left,       \* strays it has still to report
  verdict,    \* the record it is about to upsert, and under which id
  observed,   \* ids of the orphans it has upserted
  orphans,    \* the orphans table
  announced,  \* classifications of each orphan that some event carries
  now,        \* the clock
  crashes,    \* number of crashes so far
  failures    \* number of failed database calls so far

sweep == <<spc, unread, procs, strays, left, verdict, observed>>
tables == <<orphans, announced>>
vars == <<managed, sweep, tables, now, crashes, failures>>

(* An enumerated process: its PID, and whose command line was read. *)
Enumerated == [pid : Pids, who : Processes]

Unmatched == [pid : Pids, who : Processes, class : Classes]

Verdicts == [id : Commands, rec : OrphanRecord]

SweepTypeOK ==
  /\ ManagedTypeOK
  /\ spc \in {"idle", "enumerate", "report", "upsert"}
  /\ unread \in SUBSET Pids
  /\ procs \in SUBSET Enumerated
  /\ strays \in SUBSET Unmatched
  /\ left \in SUBSET strays
  /\ verdict \in Verdicts \cup {NoOrphan}
  /\ observed \in SUBSET Commands
  /\ orphans \in [Commands -> OrphanRecord \cup {NoOrphan}]
  /\ announced \in [Commands -> SUBSET Classes]
  /\ now \in 0..MaxClock
  /\ crashes \in 0..MaxCrashes
  /\ failures \in 0..MaxDbFailures

AtRest ==
  /\ spc' = "idle" /\ unread' = {} /\ procs' = {} /\ strays' = {}
  /\ left' = {} /\ verdict' = NoOrphan /\ observed' = {}

Init ==
  /\ ManagedInit
  /\ spc = "idle" /\ unread = {} /\ procs = {} /\ strays = {}
  /\ left = {} /\ verdict = NoOrphan /\ observed = {}
  /\ orphans = [c \in Commands |-> NoOrphan]
  /\ announced = [c \in Commands |-> {}]
  /\ now = 0 /\ crashes = 0 /\ failures = 0

DbFails == failures < MaxDbFailures /\ failures' = failures + 1
DbSucceeds == UNCHANGED failures

-----------------------------------------------------------------------------
(* Enumerate: the directory /proc is read, then its entries one by one.    *)

BeginSweep ==
  /\ mode = "up" /\ spc = "idle"
  /\ spc' = "enumerate"
  /\ unread' = {p \in Pids : pst[p] # "free"}
  /\ UNCHANGED <<managed, procs, strays, left, verdict, observed, tables, now,
                 crashes, failures>>

(* An entry that is gone, a zombie, which has no executable any more, or   *)
(* another program is skipped.                                             *)
Examine(p) ==
  /\ spc = "enumerate" /\ p \in unread
  /\ unread' = unread \ {p}
  /\ procs' = IF Alive(p) /\ BackendOf[owner[p]] # NoBackend
              THEN procs \cup {[pid |-> p, who |-> owner[p]]} ELSE procs
  /\ UNCHANGED <<managed, spc, strays, left, verdict, observed, tables, now,
                 crashes, failures>>

-----------------------------------------------------------------------------
(* MatchEnumeratedProcessToExecution and ClassifyOrphan, of the process q, *)
(* with the recoverable executions.  A record with a PID has been prepared.*)

Recoverable == {e \in Execs : row[e] # NoRow /\ row[e].status = "open"}

ExactMatches(q) == {e \in Recoverable : HintOf[q.who] = e}

WeakMatches(q) ==
  {e \in Recoverable \ ExactMatches(q) :
     row[e].pid = q.pid /\ BackendOf[e] = BackendOf[q.who]}

(* Weak matches count only without an exact one. *)
Candidates(q) == IF ExactMatches(q) # {} THEN ExactMatches(q) ELSE WeakMatches(q)

IsMatched(q) == \E e \in Execs : Candidates(q) = {e}

ClassifyOrphan(q) ==
  CASE Candidates(q) # {} -> "PossiblyManagedButUnlinked"
    [] Candidates(q) = {} /\ HintOf[q.who] # NoHint -> "StaleExecutionArtifact"
    [] OTHER -> "UnmanagedBackendProcess"

(* ListRecoverableExecutions, and the matching of every process with what  *)
(* it returns; the sweep is given up if it fails.                          *)
ListExecutions ==
  /\ spc = "enumerate" /\ unread = {}
  /\ \/ /\ DbSucceeds
        /\ spc' = "report"
        /\ strays' = {[pid |-> q.pid, who |-> q.who, class |-> ClassifyOrphan(q)] :
                        q \in {x \in procs : ~IsMatched(x)}}
        /\ left' = strays'
        /\ procs' = {}
        /\ UNCHANGED <<unread, verdict, observed>>
     \/ DbFails /\ AtRest
  /\ UNCHANGED <<managed, tables, now, crashes>>

-----------------------------------------------------------------------------
(* The orphans table.                                                      *)

(* Mutant of Sighting: the clock is read too late. *)
LateSighting(q, old) ==
  [pid |-> q.pid, class |-> q.class, status |-> "Active",
   first |-> IF old = NoOrphan THEN now + 1 ELSE old.first]

(* The record built of q, with the first sighting of the existing row if   *)
(* GetOrphan found one.                                                    *)
Sighting(q, old) ==
  [pid |-> q.pid, class |-> q.class, status |-> "Active",
   first |-> IF old = NoOrphan THEN now ELSE old.first]

(* Mutant of Announces: an orphan without a row is nothing to compare with. *)
AnnouncesChanges(old, rec) ==
  old # NoOrphan /\ (old.class # rec.class \/ old.status # rec.status)

Announces(old, rec) ==
  old = NoOrphan \/ old.class # rec.class \/ old.status # rec.status

(* GetOrphan and the event.  A GetOrphan that fails is taken for a new     *)
(* orphan; an event that is not appended is ignored.  One failure may last *)
(* for both calls.                                                         *)
Report(q) ==
  /\ spc = "report" /\ q \in left
  /\ left' = left \ {q}
  /\ spc' = "upsert"
  /\ LET c == CommandOf[q.who]
         Build(old) == verdict' = [id |-> c, rec |-> Sighting(q, old)]
         Emit(old) == announced' =
           IF Announces(old, Sighting(q, old))
           THEN [announced EXCEPT ![c] = @ \cup {q.class}] ELSE announced
     IN \/ DbSucceeds /\ Build(orphans[c]) /\ Emit(orphans[c])
        \/ DbFails /\ Build(NoOrphan) /\ (Emit(NoOrphan) \/ UNCHANGED announced)
        \/ DbFails /\ Build(orphans[c]) /\ UNCHANGED announced
  /\ UNCHANGED <<managed, unread, procs, strays, observed, orphans, now, crashes>>

(* Mutants of Merged: the row is replaced, or keeps its status. *)
Replaced(old, rec) == rec
MergedStatus(old, rec) ==
  IF old = NoOrphan THEN rec ELSE [rec EXCEPT !.first = old.first, !.status = old.status]

(* ON CONFLICT leaves the first sighting of an existing row as it is. *)
Merged(old, rec) == IF old = NoOrphan THEN rec ELSE [rec EXCEPT !.first = old.first]

UpsertOrphan ==
  /\ spc = "upsert"
  /\ spc' = "report"
  /\ verdict' = NoOrphan
  /\ \/ /\ DbSucceeds
        /\ orphans' = [orphans EXCEPT ![verdict.id] = Merged(@, verdict.rec)]
        /\ observed' = observed \cup {verdict.id}
     \/ /\ DbFails
        /\ UNCHANGED <<orphans, observed>>
  /\ UNCHANGED <<managed, unread, procs, strays, left, announced, now, crashes>>

(* Mutants of Missing: everything Active disappears, or nothing does. *)
AnyActive(c) == orphans[c] # NoOrphan /\ orphans[c].status = "Active"
NeverMissing(c) == FALSE

Missing(c) ==
  /\ orphans[c] # NoOrphan /\ orphans[c].status = "Active"
  /\ c \notin observed

(* MarkMissingAsDisappeared, and the end of the sweep. *)
MarkMissing ==
  /\ spc = "report" /\ left = {}
  /\ \/ /\ DbSucceeds
        /\ orphans' = [c \in Commands |->
              IF Missing(c)
              THEN [orphans[c] EXCEPT !.status = "Disappeared"]
              ELSE orphans[c]]
     \/ DbFails /\ UNCHANGED orphans
  /\ AtRest
  /\ UNCHANGED <<managed, announced, now, crashes>>

Sweep ==
  \/ BeginSweep \/ ListExecutions \/ UpsertOrphan \/ MarkMissing
  \/ \E p \in Pids : Examine(p)
  \/ \E q \in left : Report(q)

-----------------------------------------------------------------------------
(* The rest of the system.                                                 *)

ControlPlaneStep ==
  /\ ManagedStep
  /\ UNCHANGED <<sweep, tables, now, crashes, failures>>

(* The sweep dies with the control plane; its tables stay. *)
Crash ==
  /\ crashes < MaxCrashes
  /\ crashes' = crashes + 1
  /\ ManagerCrash
  /\ AtRest
  /\ UNCHANGED <<tables, now, failures>>

(* The sweep reads the clock once, at its start: it is as if time passed    *)
(* between sweeps.                                                         *)
Tick ==
  /\ spc = "idle"
  /\ now < MaxClock
  /\ now' = now + 1
  /\ UNCHANGED <<managed, sweep, tables, crashes, failures>>

Next == Sweep \/ ControlPlaneStep \/ Crash \/ Tick

Spec == Init /\ [][Next]_vars

(* A control plane that is down comes back, and the sweep's loop goes on.  *)
Fairness == WF_vars(Sweep) /\ WF_vars(ControlPlaneStep /\ mode # mode')

FairSpec == Spec /\ Fairness

-----------------------------------------------------------------------------
(* Safety.                                                                 *)

(* A first sighting is kept whatever happens: a process that vanishes and  *)
(* comes back, a GetOrphan that fails, a crash between the event and the   *)
(* upsert (orphan_sweep.go:68-82, orphans.go:27-35).                       *)
FirstSeenKept ==
  [][\A c \in Commands :
       orphans[c] # NoOrphan =>
         orphans'[c] # NoOrphan /\ orphans'[c].first = orphans[c].first]_vars

(* As long as the database answers, the table never claims of an orphan    *)
(* what no event has announced (orphan_sweep.go:73-82).                    *)
VerdictAnnounced ==
  failures = 0 =>
    \A c \in Commands : orphans[c] # NoOrphan => orphans[c].class \in announced[c]

(* As long as the database answers, an orphan disappears only in a sweep   *)
(* that has seen no unmatched process of its command, however many share   *)
(* the row (orphan_sweep.go:90-92, orphans.go:148-165).                    *)
SeenStaysActive ==
  [][\A c \in Commands :
       /\ orphans[c] # NoOrphan
       /\ orphans[c].status = "Active" /\ orphans'[c].status = "Disappeared"
       /\ failures' = 0
       => \A q \in strays : CommandOf[q.who] # c]_vars

-----------------------------------------------------------------------------
(* Liveness: the table converges to the truth.                             *)

(* The process that holds p is a hypervisor and belongs to no recoverable  *)
(* execution, as far as hints, PIDs and backends tell.                     *)
Stray(p, o) ==
  /\ Alive(p) /\ owner[p] = o /\ BackendOf[o] # NoBackend
  /\ ~IsMatched([pid |-> p, who |-> o])

IsActive(c) == orphans[c] # NoOrphan /\ orphans[c].status = "Active"

(* A process that stays stray is surfaced and stays so (README.md:129),    *)
(* though another process of its command may come and go.                  *)
StraySurfaces ==
  \A p \in Pids, o \in Processes :
    <>[]Stray(p, o) => <>[]IsActive(CommandOf[o])

(* False alarms clear: once the live processes of a command are always the *)
(* same and none of them is stray, its row does not stay Active, whatever  *)
(* a sweep saw between a spawn and the save of its PID, or of a process    *)
(* that is gone (orphan_sweep.go:43-53, 90-92).                            *)
LivePids(c) == {p \in Pids : Alive(p) /\ CommandOf[owner[p]] = c}

FalseAlarmClears ==
  \A c \in Commands, ps \in SUBSET Pids :
    <>[](/\ LivePids(c) = ps
         /\ \A p \in ps : ~Stray(p, owner[p]))
      => <>[]~IsActive(c)
=============================================================================
