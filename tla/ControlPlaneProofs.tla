------------------------ MODULE ControlPlaneProofs ------------------------
(***************************************************************************)
(* Proofs about ControlPlane, for any executions, handlers, workloads and  *)
(* pids, any bounds, and clients that wait for each other or do not.       *)
(***************************************************************************)
EXTENDS ControlPlane, TLAPS

-----------------------------------------------------------------------------
(* The lifecycle operators.                                                *)

(* Trace a begins with trace b. *)
BeginsWith(a, b) == Len(b) <= Len(a) /\ \A i \in 1..Len(b) : a[i] = b[i]

(* What TransitionTo (state.go:62-70) leaves alone, and that it keeps a    *)
(* record well typed, its history legal and what it had of it.             *)
LEMMA TransitionFacts ==
  ASSUME NEW r \in LaunchRecord, NEW s \in LaunchStates
  PROVE  LET n == TransitionTo(r, s)
         IN /\ n \in LaunchRecord
            /\ n.id = r.id
            /\ n.pid = r.pid
            /\ n.prepared = r.prepared
            /\ n.epoch = r.epoch
            /\ n.state = IF IsTransitionAllowed(r.state, s) THEN s ELSE r.state
            /\ LegalTrace(r) => LegalTrace(n)
            /\ BeginsWith(n.trace, r.trace)
<1> DEFINE n == TransitionTo(r, s)
<1>1. CASE ~IsTransitionAllowed(r.state, s)
  <2>1. BeginsWith(r.trace, r.trace)
    BY DEF LaunchRecord, BeginsWith
  <2> QED BY <1>1, <2>1 DEF TransitionTo
<1>2. CASE IsTransitionAllowed(r.state, s)
  <2>1. n = [r EXCEPT !.state = s, !.trace = Append(r.trace, s)]
    BY <1>2 DEF TransitionTo
  <2>2. r.trace \in Seq(LaunchStates) /\ Append(r.trace, s) \in Seq(LaunchStates)
    BY DEF LaunchRecord
  <2>3. /\ n \in LaunchRecord /\ n.id = r.id /\ n.pid = r.pid
        /\ n.prepared = r.prepared /\ n.epoch = r.epoch
        /\ n.state = s /\ n.trace = Append(r.trace, s)
    BY <2>1, <2>2 DEF LaunchRecord
  <2>4. ASSUME LegalTrace(r) PROVE LegalTrace(n)
    <3>1. /\ r.trace # <<>> /\ r.trace[1] = "Pending" /\ r.trace[Len(r.trace)] = r.state
          /\ \A i \in 1..(Len(r.trace) - 1) : IsTransitionAllowed(r.trace[i], r.trace[i + 1])
      BY <2>4 DEF LegalTrace
    <3>2. /\ Len(n.trace) = Len(r.trace) + 1 /\ Len(r.trace) \in Nat \ {0}
          /\ n.trace[Len(n.trace)] = s
          /\ \A i \in 1..Len(r.trace) : n.trace[i] = r.trace[i]
      BY <2>2, <2>3, <3>1
    <3>3. ASSUME NEW i \in 1..(Len(n.trace) - 1)
          PROVE  IsTransitionAllowed(n.trace[i], n.trace[i + 1])
      <4>1. CASE i = Len(r.trace)
        BY <1>2, <3>1, <3>2, <4>1
      <4>2. CASE i \in 1..(Len(r.trace) - 1)
        BY <3>1, <3>2, <4>2
      <4> QED BY <3>2, <4>1, <4>2
    <3> QED BY <2>2, <2>3, <3>1, <3>2, <3>3 DEF LegalTrace
  <2>5. BeginsWith(n.trace, r.trace)
    BY <2>2, <2>3 DEF BeginsWith
  <2> QED BY <1>2, <2>3, <2>4, <2>5
<1> QED BY <1>1, <1>2

(* Two records that differ at most in liveness and readiness. *)
SameButHealth(q, r) ==
  /\ q.id = r.id /\ q.state = r.state /\ q.trace = r.trace
  /\ q.pid = r.pid /\ q.prepared = r.prepared /\ q.epoch = r.epoch

(* Reconcile (reconcile.go:12-128) changes the health of a record and asks *)
(* for at most one transition, never back into a launch: to Failed if there*)
(* is no PID, to Terminated or Exited only if the process was observed to  *)
(* be missing.                                                             *)
LEMMA ReconcileShape ==
  ASSUME NEW r \in LaunchRecord, NEW obs \in Observation, NEW late0 \in BOOLEAN
  PROVE  \E q \in LaunchRecord, s \in LaunchStates :
           /\ SameButHealth(q, r)
           /\ Reconcile(r, obs, late0).rec \in {q, TransitionTo(q, s)}
           /\ s \notin MidFlight
           /\ r.pid = NoPid => s = "Failed"
           /\ s \in {"Terminated", "Exited"} => ~obs.exists
<1> DEFINE res == Reconcile(r, obs, late0)
<1>1. CASE r.state \notin PolledStates
  <2>1. res.rec = r
    BY <1>1 DEF Reconcile, Keep
  <2> QED BY <2>1 DEF SameButHealth, LaunchStates, TerminalStates, MidFlight
<1>2. CASE r.state \in PolledStates /\ r.pid = NoPid
  <2>1. res.rec = TransitionTo(r, "Failed")
    BY <1>2 DEF Reconcile, Ask
  <2> QED BY <2>1 DEF SameButHealth, LaunchStates, TerminalStates, MidFlight
<1>3. CASE r.state \in PolledStates /\ r.pid # NoPid /\ obs.err
  <2>1. res.rec = TransitionTo(r, "Unknown")
    BY <1>3 DEF Reconcile, Ask
  <2> QED BY <1>3, <2>1 DEF SameButHealth, LaunchStates, TerminalStates, MidFlight
<1>4. CASE r.state \in PolledStates /\ r.pid # NoPid /\ ~obs.err
  <2> DEFINE seen == [r EXCEPT !.liveness = IF obs.exists THEN "Alive" ELSE "Dead"]
             Ready(n) == [seen EXCEPT !.readiness = n]
  <2>1. res = ReconcileObserved(r, obs, late0)
    BY <1>4 DEF Reconcile
  <2>2. seen \in LaunchRecord /\ SameButHealth(seen, r)
    BY DEF LaunchRecord, SameButHealth
  <2>3. \A n \in {"NotReady", "Failed", "Ready", "Degraded"} :
          Ready(n) \in LaunchRecord /\ SameButHealth(Ready(n), r)
    <3>1. ASSUME NEW q \in LaunchRecord, SameButHealth(q, r),
                 NEW n \in {"NotReady", "Failed", "Ready", "Degraded"}
          PROVE  /\ [q EXCEPT !.readiness = n] \in LaunchRecord
                 /\ SameButHealth([q EXCEPT !.readiness = n], r)
      BY <3>1 DEF LaunchRecord, SameButHealth
    <3> HIDE DEF seen
    <3> QED BY <2>2, <3>1
  <2>4. \/ res = Keep(seen)
        \/ ~obs.exists /\ res = Ask(Ready("NotReady"), "Terminated")
        \/ res = Ask(Ready("Failed"), "Failed")
        \/ ~obs.exists /\ res = Ask(seen, "Exited")
        \/ res = Ask(Ready("Ready"), "Running")
        \/ res = Ask(Ready("Degraded"), "Degraded")
        \/ res = Ask(seen, "Running")
        \/ res = Ask(seen, "Starting")
    BY <2>1 DEF ReconcileObserved
  <2>5. CASE res = Keep(seen)
    BY <1>4, <2>2, <2>5 DEF Keep, LaunchStates, TerminalStates, MidFlight
  <2>6. CASE ~obs.exists /\ res = Ask(Ready("NotReady"), "Terminated")
    BY <1>4, <2>3, <2>6 DEF Ask, LaunchStates, TerminalStates, MidFlight
  <2>7. CASE res = Ask(Ready("Failed"), "Failed")
    BY <1>4, <2>3, <2>7 DEF Ask, LaunchStates, TerminalStates, MidFlight
  <2>8. CASE ~obs.exists /\ res = Ask(seen, "Exited")
    BY <1>4, <2>2, <2>8 DEF Ask, LaunchStates, TerminalStates, MidFlight
  <2>9. CASE res = Ask(Ready("Ready"), "Running")
    BY <1>4, <2>3, <2>9 DEF Ask, LaunchStates, TerminalStates, MidFlight
  <2>10. CASE res = Ask(Ready("Degraded"), "Degraded")
    BY <1>4, <2>3, <2>10 DEF Ask, LaunchStates, TerminalStates, MidFlight
  <2>11. CASE res = Ask(seen, "Running")
    BY <1>4, <2>2, <2>11 DEF Ask, LaunchStates, TerminalStates, MidFlight
  <2>12. CASE res = Ask(seen, "Starting")
    BY <1>4, <2>2, <2>12 DEF Ask, LaunchStates, TerminalStates, MidFlight
  <2> QED
    BY <2>4, <2>5, <2>6, <2>7, <2>8, <2>9, <2>10, <2>11, <2>12
<1> QED BY <1>1, <1>2, <1>3, <1>4

(* What follows for the record Reconcile returns. *)
LEMMA ReconcileFacts ==
  ASSUME NEW r \in LaunchRecord, NEW obs \in Observation, NEW late0 \in BOOLEAN
  PROVE  LET n == Reconcile(r, obs, late0).rec
         IN /\ n \in LaunchRecord
            /\ n.id = r.id
            /\ n.pid = r.pid
            /\ n.prepared = r.prepared
            /\ n.epoch = r.epoch
            /\ r.pid = NoPid => n.state \in {r.state, "Failed"}
            /\ n.state \in {"Terminated", "Exited"} => n.state = r.state \/ ~obs.exists
            /\ LegalTrace(r) => LegalTrace(n)
<1>1. PICK q \in LaunchRecord, s \in LaunchStates :
           /\ SameButHealth(q, r)
           /\ Reconcile(r, obs, late0).rec \in {q, TransitionTo(q, s)}
           /\ r.pid = NoPid => s = "Failed"
           /\ s \in {"Terminated", "Exited"} => ~obs.exists
  BY ReconcileShape
<1> DEFINE n == Reconcile(r, obs, late0).rec
<1>2. LegalTrace(r) => LegalTrace(q)
  BY <1>1 DEF LegalTrace, SameButHealth
<1>3. CASE n = q
  BY <1>1, <1>2, <1>3 DEF SameButHealth
<1>4. CASE n = TransitionTo(q, s)
  BY <1>1, <1>2, <1>4, TransitionFacts DEF SameButHealth
<1> QED BY <1>1, <1>3, <1>4

RuntimeStates == {"Starting", "Running", "Degraded", "Exited"}

(* n comes from r through the steps of a launch or a termination: it is    *)
(* the same process's record, and no state that speaks of a process was    *)
(* entered on the way.                                                     *)
Derived(n, r) ==
  /\ n \in LaunchRecord
  /\ BeginsWith(n.trace, r.trace)
  /\ n.id = r.id
  /\ n.pid = r.pid
  /\ r.prepared => n.prepared
  /\ n.state \in {r.state} \cup (LaunchStates \ RuntimeStates)
  /\ LegalTrace(r) => LegalTrace(n)

LEMMA SameTrace ==
  ASSUME NEW r \in LaunchRecord
  PROVE  BeginsWith(r.trace, r.trace)
BY DEF LaunchRecord, BeginsWith

LEMMA DerivedTrans ==
  ASSUME NEW r \in LaunchRecord, NEW q, NEW n, Derived(q, r), Derived(n, q)
  PROVE  Derived(n, r)
<1>1. n.trace \in Seq(LaunchStates) /\ q.trace \in Seq(LaunchStates) /\ r.trace \in Seq(LaunchStates)
  BY DEF Derived, LaunchRecord
<1>2. BeginsWith(n.trace, r.trace)
  BY <1>1 DEF Derived, BeginsWith
<1> QED BY <1>2 DEF Derived

LEMMA TransitionDerived ==
  ASSUME NEW r \in LaunchRecord, NEW s \in LaunchStates \ RuntimeStates
  PROVE  Derived(TransitionTo(r, s), r)
BY TransitionFacts DEF Derived

LEMMA TwoTransitionsDerived ==
  ASSUME NEW r \in LaunchRecord,
         NEW s1 \in LaunchStates \ RuntimeStates, NEW s2 \in LaunchStates \ RuntimeStates
  PROVE  Derived(TransitionTo(TransitionTo(r, s1), s2), r)
<1>1. Derived(TransitionTo(r, s1), r)
  BY TransitionDerived
<1>2. Derived(TransitionTo(TransitionTo(r, s1), s2), TransitionTo(r, s1))
  BY <1>1, TransitionDerived DEF Derived
<1> QED BY <1>1, <1>2, DerivedTrans

-----------------------------------------------------------------------------
(* Type correctness.  TypeOK is not inductive: the records handed to the   *)
(* lifecycle operators are records only because a thread that is about to  *)
(* use its record, or to write it, has one.                                *)

PCs == LauncherPCs \cup HandlerPCs \cup BootPCs

Launching == {"validate", "prepare", "launching", "execute"}

HoldsRec ==
  /\ \A e \in Execs : rec[e] # NoRec => rec[e].id = e
  /\ \A e \in Execs : pc[e] \in Launching => rec[e] # NoRec
  /\ \A h \in Handlers : pc[h] = "kill" => rec[h] # NoRec
  /\ \A t \in Threads : out[t] # <<>> => rec[t] # NoRec

TypeInv == TypeOK /\ HoldsRec

(* The part of TypeInv that a thread's own step can disturb. *)
ThreadsOK ==
  /\ pc \in [Threads -> PCs]
  /\ rec \in [Threads -> LaunchRecord \cup {NoRec}]
  /\ out \in [Threads -> Seq(Writes)]
  /\ HoldsRec

LEMMA StepThreads ==
  ASSUME TypeInv, NEW t \in Threads, NEW from, NEW to \in PCs,
         NEW r \in LaunchRecord \cup {NoRec}, NEW w \in Seq(Writes),
         Step(t, from, to, r, w),
         r = NoRec => w = <<>> /\ to \notin Launching \cup {"kill"},
         t \in Execs => r = NoRec \/ r.id = t
  PROVE  ThreadsOK'
<1>1. /\ pc \in [Threads -> PCs] /\ rec \in [Threads -> LaunchRecord \cup {NoRec}]
      /\ out \in [Threads -> Seq(Writes)] /\ HoldsRec
  BY DEF TypeInv, TypeOK, PCs
<1>2. /\ pc' = [pc EXCEPT ![t] = to] /\ rec' = [rec EXCEPT ![t] = r]
      /\ out' = [out EXCEPT ![t] = w]
  BY DEF Step
<1>3. /\ pc' \in [Threads -> PCs] /\ rec' \in [Threads -> LaunchRecord \cup {NoRec}]
      /\ out' \in [Threads -> Seq(Writes)]
  BY <1>1, <1>2
<1>4. \A u \in Threads :
        /\ u = t => pc'[u] = to /\ rec'[u] = r /\ out'[u] = w
        /\ u # t => pc'[u] = pc[u] /\ rec'[u] = rec[u] /\ out'[u] = out[u]
  BY <1>1, <1>2
<1>5. HoldsRec'
  BY <1>1, <1>4 DEF HoldsRec, Threads
<1> QED BY <1>3, <1>5 DEF ThreadsOK

(* The writes the steps queue. *)
LEMMA WritesType ==
  /\ <<>> \in Seq(Writes)
  /\ <<"save">> \in Seq(Writes)
  /\ <<"ReconcileStateChanged", "save">> \in Seq(Writes)
  /\ <<"ExecutionCreated", "save">> \in Seq(Writes)
  /\ \A ev \in EventTypes : <<"save", ev>> \in Seq(Writes)
BY DEF Writes, EventTypes

(* A step that changes nothing but the thread, or the thread and the      *)
(* process table, leaves the rest of TypeInv alone.                        *)
LEMMA ThreadOnlyType ==
  ASSUME TypeInv, ThreadsOK', UNCHANGED <<db, socket, late, mode, crashes>>,
         (owner \in [Pids -> Execs \cup {NoOne, Outsider}])',
         (pst \in [Pids -> {"free", "child", "adopted", "zombie"}])',
         (todo \in [Threads -> SUBSET LaunchRecord])'
  PROVE  TypeInv'
BY DEF TypeInv, TypeOK, ThreadsOK, PCs, db

(* A step of StartLaunch between the creation of the record and the spawn. *)
Proceed(e) ==
  \E from \in Launching, to \in PCs, r \in LaunchRecord, w \in Seq(Writes) :
    /\ Step(e, from, to, r, w)
    /\ Derived(r, rec[e])
    /\ to \in Launching \cup {"return"}
    /\ to = "launching" => r.prepared
    /\ to = "execute" => from = "launching"
    /\ to \in Launching => r.state \in {rec[e].state, "Preparing", "Validated", "Launching"}
    /\ UNCHANGED <<todo, db, host, mode, crashes>>

(* StartLaunch creates a record, spawns the process, or proceeds between   *)
(* the two with a record derived from the one it has                       *)
(* (orchestrator.go:111-198).                                              *)
LEMMA LaunchShape ==
  ASSUME TypeInv, NEW e \in Execs, Launch(e)
  PROVE  InitializeRecord(e) \/ Proceed(e) \/ \E p \in Pids : Spawn(e, p)
<1>1. ASSUME pc[e] \in Launching
      PROVE  rec[e] \in LaunchRecord
  BY <1>1 DEF TypeInv, HoldsRec, TypeOK, Threads
<1>2. /\ {"Preparing", "Failed", "Validated", "Launching", "Terminating",
           "Terminated"} \subseteq LaunchStates \ RuntimeStates
      /\ LauncherPCs \subseteq PCs
  BY DEF LaunchStates, TerminalStates, RuntimeStates, PCs
<1>3. CASE ValidationFails(e)
  <2>1. Step(e, "validate", "return", TransitionTo(TransitionTo(rec[e], "Preparing"), "Failed"),
             <<"save", "ValidationFailed">>)
    BY <1>3 DEF ValidationFails
  <2>2. Derived(TransitionTo(TransitionTo(rec[e], "Preparing"), "Failed"), rec[e])
    BY <1>1, <1>2, <2>1, TwoTransitionsDerived DEF Step, Launching
  <2> QED
    BY <1>2, <1>3, <2>1, <2>2, WritesType
    DEF ValidationFails, Proceed, Derived, Launching, LauncherPCs, EventTypes
<1>4. CASE ValidationPasses(e)
  <2>1. Step(e, "validate", "prepare", TransitionTo(rec[e], "Preparing"),
             <<"save", "ValidationPassed">>)
    BY <1>4 DEF ValidationPasses
  <2>2. /\ Derived(TransitionTo(rec[e], "Preparing"), rec[e])
        /\ TransitionTo(rec[e], "Preparing").state \in {rec[e].state, "Preparing"}
    BY <1>1, <1>2, <2>1, TransitionDerived, TransitionFacts DEF Step, Launching
  <2> QED
    BY <1>2, <1>4, <2>1, <2>2, WritesType
    DEF ValidationPasses, Proceed, Derived, Launching, LauncherPCs, EventTypes
<1>5. CASE PreparationFails(e)
  <2>1. Step(e, "prepare", "return", TransitionTo(rec[e], "Failed"),
             <<"save", "PreparationFailed">>)
    BY <1>5 DEF PreparationFails
  <2>2. Derived(TransitionTo(rec[e], "Failed"), rec[e])
    BY <1>1, <1>2, <2>1, TransitionDerived DEF Step, Launching
  <2> QED
    BY <1>2, <1>5, <2>1, <2>2, WritesType
    DEF PreparationFails, Proceed, Derived, Launching, LauncherPCs, EventTypes
<1>6. CASE PreparationPasses(e)
  <2> DEFINE q == [rec[e] EXCEPT !.prepared = TRUE]
             n == TransitionTo(q, "Validated")
  <2>1. Step(e, "prepare", "launching", n, <<"save", "PreparationPassed">>)
    BY <1>6 DEF PreparationPasses
  <2>2. q \in LaunchRecord /\ q.prepared /\ q.state = rec[e].state /\ Derived(q, rec[e])
    <3>1. rec[e] \in LaunchRecord
      BY <1>1, <2>1 DEF Step, Launching
    <3>2. BeginsWith(q.trace, rec[e].trace)
      BY <3>1, SameTrace DEF LaunchRecord
    <3> QED BY <3>1, <3>2 DEF LaunchRecord, Derived, LegalTrace
  <2>3. Derived(n, q) /\ n.state \in {q.state, "Validated"}
    BY <1>2, <2>2, TransitionDerived, TransitionFacts
  <2>4. Derived(n, rec[e]) /\ n.prepared /\ n.state \in {rec[e].state, "Validated"}
    <3>1. rec[e] \in LaunchRecord
      BY <1>1, <2>1 DEF Step, Launching
    <3>2. Derived(n, rec[e])
      BY <2>2, <2>3, <3>1, DerivedTrans
    <3> QED BY <2>2, <2>3, <3>2 DEF Derived
  <2> QED
    BY <1>2, <1>6, <2>1, <2>4, WritesType
    DEF PreparationPasses, Proceed, Derived, Launching, LauncherPCs, EventTypes
<1>7. CASE RecordLaunching(e)
  <2>1. Step(e, "launching", "execute", TransitionTo(rec[e], "Launching"),
             <<"save">>)
    BY <1>7 DEF RecordLaunching
  <2>2. /\ Derived(TransitionTo(rec[e], "Launching"), rec[e])
        /\ TransitionTo(rec[e], "Launching").state \in {rec[e].state, "Launching"}
    BY <1>1, <1>2, <2>1, TransitionDerived, TransitionFacts DEF Step, Launching
  <2> QED
    BY <1>2, <1>7, <2>1, <2>2, WritesType
    DEF RecordLaunching, Proceed, Derived, Launching, LauncherPCs, EventTypes
<1>8. CASE CompleteDryRun(e)
  <2>1. Step(e, "execute", "return", TransitionTo(TransitionTo(rec[e], "Terminating"), "Terminated"),
             <<"save", "DryRunCompleted">>)
    BY <1>8 DEF CompleteDryRun
  <2>2. Derived(TransitionTo(TransitionTo(rec[e], "Terminating"), "Terminated"), rec[e])
    BY <1>1, <1>2, <2>1, TwoTransitionsDerived DEF Step, Launching
  <2> QED
    BY <1>2, <1>8, <2>1, <2>2, WritesType
    DEF CompleteDryRun, Proceed, Derived, Launching, LauncherPCs, EventTypes
<1>9. CASE SpawnFails(e)
  <2>1. Step(e, "execute", "return", TransitionTo(rec[e], "Failed"),
             <<"save", "RuntimeSpawnFailed">>)
    BY <1>9 DEF SpawnFails
  <2>2. Derived(TransitionTo(rec[e], "Failed"), rec[e])
    BY <1>1, <1>2, <2>1, TransitionDerived DEF Step, Launching
  <2> QED
    BY <1>2, <1>9, <2>1, <2>2, WritesType
    DEF SpawnFails, Proceed, Derived, Launching, LauncherPCs, EventTypes
<1> QED
  BY <1>3, <1>4, <1>5, <1>6, <1>7, <1>8, <1>9 DEF Launch

LEMMA NewRecordFacts ==
  ASSUME NEW e \in Execs
  PROVE  /\ NewRecord(e) \in LaunchRecord
         /\ NewRecord(e).id = e
         /\ NewRecord(e).pid = NoPid
         /\ NewRecord(e).state = "Pending"
         /\ LegalTrace(NewRecord(e))
<1>1. "Pending" \in LaunchStates /\ <<"Pending">> \in Seq(LaunchStates)
  BY DEF LaunchStates
<1>2. 0 \in 0..MaxCrashes
  BY BoundsAssumption
<1>3. NewRecord(e) \in LaunchRecord
  BY <1>1, <1>2 DEF NewRecord, LaunchRecord
<1>4. NewRecord(e).trace = <<"Pending">> /\ NewRecord(e).state = "Pending"
  BY DEF NewRecord
<1>5. LegalTrace(NewRecord(e))
  BY <1>4 DEF LegalTrace
<1> QED BY <1>3, <1>5 DEF NewRecord

LEMMA LaunchType ==
  ASSUME TypeInv, NEW e \in Execs, Launch(e)
  PROVE  TypeInv'
<1>0. e \in Threads /\ TypeOK
  BY DEF Threads, TypeInv
<1>1. CASE InitializeRecord(e)
  <2>1. Step(e, "none", "validate", NewRecord(e), <<"ExecutionCreated", "save">>)
    BY <1>1 DEF InitializeRecord
  <2>2. NewRecord(e) # NoRec
    BY NewRecordFacts, RecAssumption
  <2>3. ThreadsOK'
    BY <1>0, <2>1, <2>2, NewRecordFacts, WritesType, StepThreads DEF PCs, LauncherPCs
  <2> QED BY <1>0, <1>1, <2>3, ThreadOnlyType DEF InitializeRecord, TypeOK, host
<1>2. CASE Proceed(e)
  <2>1. PICK from \in Launching, to \in PCs, r \in LaunchRecord, w \in Seq(Writes) :
          /\ Step(e, from, to, r, w)
          /\ Derived(r, rec[e])
          /\ UNCHANGED <<todo, db, host, mode, crashes>>
    BY <1>2 DEF Proceed
  <2>2. rec[e] # NoRec /\ rec[e].id = e
    BY <2>1 DEF Step, TypeInv, HoldsRec
  <2>3. r.id = e /\ r # NoRec
    BY <2>1, <2>2, RecAssumption DEF Derived
  <2>4. ThreadsOK'
    BY <1>0, <2>1, <2>3, StepThreads
  <2> QED BY <1>0, <2>1, <2>4, ThreadOnlyType DEF TypeOK, host
<1>3. CASE \E p \in Pids : Spawn(e, p)
  <2>1. PICK p \in Pids : Spawn(e, p)
    BY <1>3
  <2> DEFINE q == [rec[e] EXCEPT !.pid = p]
             n == TransitionTo(q, "Starting")
  <2>2. Step(e, "execute", "return", n, <<"save", "RuntimeSpawned">>)
    BY <2>1 DEF Spawn
  <2>3. rec[e] \in LaunchRecord /\ rec[e].id = e
    BY <1>0, <2>2 DEF Step, TypeInv, HoldsRec, TypeOK, Launching
  <2>4. q \in LaunchRecord /\ q.id = e /\ "Starting" \in LaunchStates
    BY <2>3 DEF LaunchRecord, LaunchStates
  <2>5. n \in LaunchRecord /\ n.id = e /\ n # NoRec
    BY <2>4, TransitionFacts, RecAssumption
  <2>6. ThreadsOK'
    BY <1>0, <2>2, <2>5, WritesType, StepThreads DEF PCs, LauncherPCs, EventTypes
  <2>7. /\ (owner \in [Pids -> Execs \cup {NoOne, Outsider}])'
        /\ (pst \in [Pids -> {"free", "child", "adopted", "zombie"}])'
    BY <1>0, <2>1 DEF Spawn, TypeOK
  <2> QED BY <1>0, <2>1, <2>6, <2>7, ThreadOnlyType DEF Spawn, TypeOK
<1> QED BY <1>1, <1>2, <1>3, LaunchShape

LEMMA RequestType ==
  ASSUME TypeInv, NEW h \in Handlers, Request(h)
  PROVE  TypeInv'
<1>0. h \in Threads /\ h \notin Execs /\ TypeOK
  BY ThreadsAssumption DEF Threads, TypeInv
<1>1. ASSUME NEW es \in SUBSET Recorded, BeginGet(h, es)
      PROVE  TypeInv'
  <2>1. Step(h, "idle", "reconcile", NoRec, <<>>)
    BY <1>1 DEF BeginGet
  <2>2. ThreadsOK'
    BY <1>0, <2>1, WritesType, StepThreads DEF PCs, HandlerPCs, Launching
  <2>3. {store[e] : e \in es} \subseteq LaunchRecord
    BY <1>0, <1>1 DEF Recorded, TypeOK
  <2>4. (todo \in [Threads -> SUBSET LaunchRecord])'
    BY <1>0, <1>1, <2>3 DEF BeginGet, TypeOK
  <2> QED BY <1>0, <1>1, <2>2, <2>4, ThreadOnlyType DEF BeginGet, TypeOK, host
<1>2. ASSUME NEW e \in Execs, TerminateLaunch(h, e)
      PROVE  TypeInv'
  <2> DEFINE n == TransitionTo(store[e], "Terminating")
  <2>1. Step(h, "idle", "kill", n, <<"save", "TerminationRequested">>)
    BY <1>2 DEF TerminateLaunch
  <2>2. store[e] \in LaunchRecord /\ "Terminating" \in LaunchStates
    BY <1>0, <1>2 DEF TerminateLaunch, Terminable, Recorded, TypeOK, LaunchStates
  <2>3. n \in LaunchRecord /\ n # NoRec
    BY <2>2, TransitionFacts, RecAssumption
  <2>4. ThreadsOK'
    BY <1>0, <2>1, <2>3, WritesType, StepThreads DEF PCs, HandlerPCs, EventTypes
  <2> QED BY <1>0, <1>2, <2>4, ThreadOnlyType DEF TerminateLaunch, TypeOK, host
<1>3. ASSUME NEW e \in Execs, GetOne(h, e) PROVE TypeInv'
  BY <1>1, <1>3 DEF GetOne
<1>4. ASSUME GetAll(h) PROVE TypeInv'
  BY <1>1, <1>4 DEF GetAll
<1> QED BY <1>2, <1>3, <1>4 DEF Request

(* The record TerminateLaunch closes (orchestrator.go:233-238). *)
LEMMA KilledDerived ==
  ASSUME NEW r \in LaunchRecord
  PROVE  Derived(Killed(r), r)
<1> DEFINE q == [r EXCEPT !.liveness = "Dead", !.readiness = "NotReady"]
<1>1. q \in LaunchRecord /\ Derived(q, r)
  <2>1. BeginsWith(q.trace, r.trace)
    BY SameTrace DEF LaunchRecord
  <2> QED BY <2>1 DEF LaunchRecord, Derived, LegalTrace
<1>2. "Terminated" \in LaunchStates \ RuntimeStates
  BY DEF LaunchStates, TerminalStates, RuntimeStates
<1>3. Derived(TransitionTo(q, "Terminated"), q)
  BY <1>1, <1>2, TransitionDerived
<1> HIDE DEF q
<1>4. Derived(TransitionTo(q, "Terminated"), r)
  BY <1>1, <1>3, DerivedTrans
<1> QED BY <1>4 DEF Killed, q

LEMMA ObservedType ==
  ASSUME NEW r
  PROVE  Observed(r) \in Observation
BY DEF Observed, Observation

(* recoverExecution (bootstrap.go:61-127) closes a record only if its      *)
(* process is missing.                                                     *)
LEMMA RecoverShape ==
  ASSUME TypeInv, NEW r \in todo[Boot], RecoverExecution(r)
  PROVE  \E n \in LaunchRecord, w \in Seq(Writes) :
           /\ Step(Boot, "recover", "recover", n, w)
           /\ Derived(n, r)
           /\ n.state \in {"Terminated", "Exited"} =>
                 n.state = r.state \/ ~Observed(r).exists
<1>0. r \in LaunchRecord /\ crashes \in 0..MaxCrashes
  BY DEF TypeInv, TypeOK, Threads
<1> DEFINE st == Stamped(r)
<1>1. st \in LaunchRecord /\ Derived(st, r) /\ st.state = r.state
  <2>1. BeginsWith(st.trace, r.trace)
    BY <1>0, SameTrace DEF Stamped, LaunchRecord
  <2> QED BY <1>0, <2>1 DEF Stamped, LaunchRecord, Derived, LegalTrace
<1>2. {"Unknown", "Terminated"} \subseteq LaunchStates \ RuntimeStates
  BY DEF LaunchStates, TerminalStates, RuntimeStates
<1> DEFINE u == TransitionTo(st, "Unknown")
           d == TransitionTo(st, "Terminated")
           a == [st EXCEPT !.liveness = "Alive"]
<1>3. Derived(u, r) /\ u.state \in {"Unknown", r.state}
  <2>1. Derived(u, st) /\ u.state \in {"Unknown", st.state}
    BY <1>1, <1>2, TransitionFacts, TransitionDerived
  <2> HIDE DEF u, st
  <2> QED BY <1>0, <1>1, <2>1, DerivedTrans
<1>4. Derived(d, r)
  <2>1. Derived(d, st)
    BY <1>1, <1>2, TransitionDerived
  <2> HIDE DEF d, st
  <2> QED BY <1>0, <1>1, <2>1, DerivedTrans
<1>5. Derived(a, r) /\ a.state = r.state
  <2>1. ASSUME NEW q \in LaunchRecord
        PROVE  /\ [q EXCEPT !.liveness = "Alive"] \in LaunchRecord
               /\ [q EXCEPT !.liveness = "Alive"].state = q.state
               /\ Derived([q EXCEPT !.liveness = "Alive"], q)
    <3> DEFINE x == [q EXCEPT !.liveness = "Alive"]
    <3>1. BeginsWith(x.trace, q.trace)
      BY <2>1, SameTrace DEF LaunchRecord
    <3> QED BY <2>1, <3>1 DEF LaunchRecord, Derived, LegalTrace
  <2> HIDE DEF st
  <2>2. Derived(a, st) /\ a.state = st.state
    BY <1>1, <2>1
  <2> HIDE DEF a
  <2> QED BY <1>0, <1>1, <2>2, DerivedTrans
<1>6. \/ \E ev \in EventTypes : Step(Boot, "recover", "recover", u, <<"save", ev>>)
      \/ \E ev \in EventTypes : Step(Boot, "recover", "recover", a, <<"save", ev>>)
      \/ /\ ~Observed(r).exists
         /\ \E ev \in EventTypes : Step(Boot, "recover", "recover", d, <<"save", ev>>)
  BY DEF RecoverExecution, EventTypes
<1> HIDE DEF st, u, d, a
<1>7. u \in LaunchRecord /\ a \in LaunchRecord /\ d \in LaunchRecord
  BY <1>3, <1>4, <1>5 DEF Derived
<1> QED BY <1>3, <1>4, <1>5, <1>6, <1>7, WritesType

(* reconcileExecution drops the record, or saves what Reconcile returned. *)
LEMMA ReconcileStep ==
  ASSUME NEW h \in Handlers, NEW r, ReconcileExecution(h, r)
  PROVE  \/ Step(h, "reconcile", "reconcile", NoRec, <<>>)
         \/ \E w \in Seq(Writes) :
              Step(h, "reconcile", "reconcile",
                   Reconcile(r, Observed(r), r.id \in late).rec, w)
BY WritesType DEF ReconcileExecution, ReconcileWrites

LEMMA ServingType ==
  ASSUME TypeInv, NEW h \in Handlers, Serving(h)
  PROVE  TypeInv'
<1>0. /\ h \in Threads /\ h \notin Execs /\ TypeOK
      /\ {"reconcile", "return", "idle", "kill"} \subseteq PCs
  BY ThreadsAssumption DEF Threads, TypeInv, PCs, HandlerPCs
<1>1. ASSUME NEW r \in todo[h], ReconcileExecution(h, r)
      PROVE  TypeInv'
  <2>1. r \in LaunchRecord
    BY <1>0 DEF TypeOK
  <2> DEFINE n == Reconcile(r, Observed(r), r.id \in late).rec
  <2>2. n \in LaunchRecord /\ n # NoRec
    <3>1. Observed(r) \in Observation /\ (r.id \in late) \in BOOLEAN
      BY ObservedType
    <3> HIDE DEF n
    <3>2. n \in LaunchRecord
      BY <2>1, <3>1, ReconcileFacts DEF n
    <3> QED BY <3>2, RecAssumption
  <2> HIDE DEF n
  <2>3. ASSUME Step(h, "reconcile", "reconcile", NoRec, <<>>)
        PROVE  ThreadsOK'
    BY <1>0, <2>3, WritesType, StepThreads DEF Launching
  <2>4. ASSUME NEW w \in Seq(Writes), Step(h, "reconcile", "reconcile", n, w)
        PROVE  ThreadsOK'
    BY <1>0, <2>2, <2>4, StepThreads
  <2>5. ThreadsOK'
    BY <1>1, <2>3, <2>4, ReconcileStep DEF n
  <2>6. (todo \in [Threads -> SUBSET LaunchRecord])'
    BY <1>0, <1>1 DEF ReconcileExecution, TypeOK
  <2> QED
    BY <1>0, <1>1, <2>5, <2>6, ThreadOnlyType DEF ReconcileExecution, TypeOK, host
<1>2. CASE EndGet(h)
  <2>1. Step(h, "reconcile", "idle", NoRec, <<>>)
    BY <1>2 DEF EndGet
  <2>2. ThreadsOK'
    BY <1>0, <2>1, WritesType, StepThreads DEF Launching
  <2> QED BY <1>0, <1>2, <2>2, ThreadOnlyType DEF EndGet, TypeOK, host
<1>3. ASSUME pc[h] = "kill" PROVE rec[h] \in LaunchRecord /\ Killed(rec[h]) \in LaunchRecord
  BY <1>0, <1>3, KilledDerived DEF TypeInv, HoldsRec, TypeOK, Derived
<1>4. CASE TerminateWithoutRuntime(h)
  <2>1. Step(h, "kill", "return", Killed(rec[h]), <<"save", "Terminated">>)
    BY <1>4 DEF TerminateWithoutRuntime
  <2>2. Killed(rec[h]) \in LaunchRecord /\ Killed(rec[h]) # NoRec
    BY <1>3, <2>1, RecAssumption DEF Step
  <2>3. ThreadsOK'
    BY <1>0, <2>1, <2>2, WritesType, StepThreads DEF EventTypes
  <2> QED
    BY <1>0, <1>4, <2>3, ThreadOnlyType DEF TerminateWithoutRuntime, TypeOK, host
<1>5. CASE KillRuntime(h)
  <2>1. Step(h, "kill", "return", Killed(rec[h]), <<"save", "Terminated">>)
    BY <1>5 DEF KillRuntime
  <2>2. Killed(rec[h]) \in LaunchRecord /\ Killed(rec[h]) # NoRec
    BY <1>3, <2>1, RecAssumption DEF Step
  <2>3. ThreadsOK'
    BY <1>0, <2>1, <2>2, WritesType, StepThreads DEF EventTypes
  <2>4. /\ (owner \in [Pids -> Execs \cup {NoOne, Outsider}])'
        /\ (pst \in [Pids -> {"free", "child", "adopted", "zombie"}])'
    BY <1>0, <1>5 DEF KillRuntime, TypeOK
  <2> QED BY <1>0, <1>5, <2>3, <2>4, ThreadOnlyType DEF KillRuntime, TypeOK
<1>6. CASE KillFails(h)
  <2>1. Step(h, "kill", "return", rec[h], <<"save", "TerminationFailed">>)
    BY <1>6 DEF KillFails
  <2>2. rec[h] \in LaunchRecord /\ rec[h] # NoRec
    BY <1>3, <2>1, RecAssumption DEF Step
  <2>3. ThreadsOK'
    BY <1>0, <2>1, <2>2, WritesType, StepThreads DEF EventTypes
  <2> QED BY <1>0, <1>6, <2>3, ThreadOnlyType DEF KillFails, TypeOK, host
<1> QED BY <1>1, <1>2, <1>4, <1>5, <1>6 DEF Serving

LEMMA WriteType ==
  ASSUME TypeInv, NEW t \in Threads, DbWrite(t) \/ Return(t)
  PROVE  TypeInv'
<1>0. TypeOK /\ HoldsRec
  BY DEF TypeInv
<1>1. CASE DbWrite(t)
  <2>1. out[t] # <<>> /\ out[t] \in Seq(Writes) /\ rec[t] \in LaunchRecord
    BY <1>0, <1>1 DEF DbWrite, TypeOK, HoldsRec
  <2>2. rec[t].id \in Execs
    BY <2>1 DEF LaunchRecord
  <2>3. Head(out[t]) \in Writes /\ Tail(out[t]) \in Seq(Writes)
    BY <2>1
  <2>4. (store \in [Execs -> LaunchRecord \cup {NoRec}])'
    BY <1>0, <1>1, <2>1, <2>2 DEF DbWrite, TypeOK
  <2>5. (\A e \in Execs : store[e] # NoRec => store[e].id = e)'
    BY <1>0, <1>1, <2>1, <2>2 DEF DbWrite, TypeOK
  <2>6. (events \in [Execs -> SUBSET EventTypes])'
    <3>1. CASE UNCHANGED events
      BY <1>0, <3>1 DEF TypeOK
    <3>2. CASE /\ Head(out[t]) # "save"
               /\ events' = [events EXCEPT ![rec[t].id] = @ \cup {Head(out[t])}]
      BY <1>0, <2>2, <2>3, <3>2 DEF TypeOK, Writes
    <3> QED BY <1>1, <3>1, <3>2 DEF DbWrite
  <2>7. (failures \in 0..MaxWriteFailures)'
    BY <1>0, <1>1, BoundsAssumption DEF DbWrite, TypeOK
  <2>8. (out \in [Threads -> Seq(Writes)])'
    BY <1>0, <1>1, <2>3 DEF DbWrite, TypeOK
  <2>9. HoldsRec'
    BY <1>0, <1>1, <2>1 DEF DbWrite, HoldsRec, TypeOK
  <2>10. TypeOK'
    BY <1>0, <1>1, <2>4, <2>5, <2>6, <2>7, <2>8 DEF DbWrite, TypeOK, host
  <2> QED BY <2>9, <2>10 DEF TypeInv
<1>2. CASE Return(t)
  <2>1. PICK to \in {"done", "idle"} : Step(t, "return", to, NoRec, <<>>)
    BY <1>2 DEF Return
  <2>2. ThreadsOK'
    BY <2>1, WritesType, StepThreads DEF PCs, LauncherPCs, HandlerPCs, Launching
  <2> QED BY <1>0, <1>2, <2>2, ThreadOnlyType DEF Return, TypeOK, host
<1> QED BY <1>1, <1>2

LEMMA RecoveryType ==
  ASSUME TypeInv, Crash \/ Restart \/ Bootstrap
  PROVE  TypeInv'
<1>0. /\ TypeOK /\ HoldsRec /\ Boot \in Threads /\ Boot \notin Execs
      /\ {"recover", "idle"} \subseteq PCs /\ Boot \notin Handlers
  BY ThreadsAssumption DEF TypeInv, Threads, PCs, BootPCs
<1>1. CASE Crash
  <2>1. /\ (pc \in [Threads -> PCs])' /\ (rec \in [Threads -> LaunchRecord \cup {NoRec}])'
        /\ (todo \in [Threads -> SUBSET LaunchRecord])' /\ (out \in [Threads -> Seq(Writes)])'
        /\ \A t \in Threads : /\ rec'[t] = NoRec /\ out'[t] = <<>>
                              /\ pc'[t] \in {"idle", "none", "past"}
    BY <1>0, <1>1, WritesType DEF Crash, TypeOK, PCs, LauncherPCs
  <2>2. HoldsRec'
    BY <2>1 DEF HoldsRec, Launching, Threads
  <2>3. /\ (owner \in [Pids -> Execs \cup {NoOne, Outsider}])'
        /\ (pst \in [Pids -> {"free", "child", "adopted", "zombie"}])'
    <3>1. (owner \in [Pids -> Execs \cup {NoOne, Outsider}])'
      BY <1>0, <1>1 DEF Crash, TypeOK
    <3>2. (pst \in [Pids -> {"free", "child", "adopted", "zombie"}])'
      BY <1>0, <1>1 DEF Crash, TypeOK
    <3> QED BY <3>1, <3>2
  <2>4. (mode \in {"up", "down", "boot"})' /\ (crashes \in 0..MaxCrashes)'
    BY <1>0, <1>1, BoundsAssumption DEF Crash, TypeOK
  <2> QED BY <1>0, <1>1, <2>1, <2>2, <2>3, <2>4 DEF Crash, TypeInv, TypeOK, PCs, db
<1>2. CASE Restart
  <2>1. (pc \in [Threads -> PCs])' /\ UNCHANGED <<rec, out>>
    BY <1>0, <1>2 DEF Restart, TypeOK, PCs
  <2>2. HoldsRec'
    BY <1>0, <1>2, <2>1 DEF Restart, HoldsRec, TypeOK, Threads
  <2>3. {store[e] : e \in Recoverable} \subseteq LaunchRecord
    BY <1>0 DEF Recoverable, Recorded, TypeOK
  <2>4. (todo \in [Threads -> SUBSET LaunchRecord])'
    BY <1>0, <1>2, <2>3 DEF Restart, TypeOK
  <2> QED BY <1>0, <1>2, <2>1, <2>2, <2>4 DEF Restart, TypeInv, TypeOK, PCs, db, host
<1>3. ASSUME NEW r \in todo[Boot], RecoverExecution(r)
      PROVE  TypeInv'
  <2>1. PICK n \in LaunchRecord, w \in Seq(Writes) : Step(Boot, "recover", "recover", n, w)
    BY <1>3, RecoverShape
  <2>2. ThreadsOK'
    BY <1>0, <2>1, RecAssumption, StepThreads
  <2>3. (todo \in [Threads -> SUBSET LaunchRecord])'
    BY <1>0, <1>3 DEF RecoverExecution, TypeOK
  <2> QED BY <1>0, <1>3, <2>2, <2>3, ThreadOnlyType DEF RecoverExecution, TypeOK, host
<1>4. CASE Serve
  <2>1. Step(Boot, "recover", "idle", NoRec, <<>>)
    BY <1>4 DEF Serve
  <2>2. ThreadsOK'
    BY <1>0, <2>1, WritesType, StepThreads DEF Launching
  <2> QED BY <1>0, <1>4, <2>2 DEF Serve, TypeInv, TypeOK, ThreadsOK, PCs, db, host
<1> QED BY <1>1, <1>2, <1>3, <1>4 DEF Bootstrap

LEMMA HostType ==
  ASSUME TypeInv, Host
  PROVE  TypeInv'
<1>0. TypeOK /\ HoldsRec
  BY DEF TypeInv
<1>1. ASSUME NEW p \in Pids, CreateSocket(p)
      PROVE  TypeInv'
  <2>1. (socket \in [Workloads -> Execs \cup {NoOne}])'
    BY <1>0, <1>1, WorkloadAssumption DEF CreateSocket, TypeOK
  <2>2. TypeOK'
    BY <1>0, <1>1, <2>1 DEF CreateSocket, TypeOK, thread, db
  <2> QED BY <1>0, <1>1, <2>2 DEF CreateSocket, TypeInv, HoldsRec, thread
<1>2. ASSUME NEW p \in Pids, Exit(p)
      PROVE  TypeInv'
  <2>1. (socket \in [Workloads -> Execs \cup {NoOne}])'
    BY <1>0, <1>2, WorkloadAssumption DEF Exit, TypeOK
  <2>2. /\ (owner \in [Pids -> Execs \cup {NoOne, Outsider}])'
        /\ (pst \in [Pids -> {"free", "child", "adopted", "zombie"}])'
    BY <1>0, <1>2 DEF Exit, TypeOK
  <2>3. TypeOK'
    BY <1>0, <1>2, <2>1, <2>2 DEF Exit, TypeOK, thread, db
  <2> QED BY <1>0, <1>2, <2>3 DEF Exit, TypeInv, HoldsRec, thread
<1>3. ASSUME NEW p \in Pids, ForeignStart(p)
      PROVE  TypeInv'
  <2>1. /\ (owner \in [Pids -> Execs \cup {NoOne, Outsider}])'
        /\ (pst \in [Pids -> {"free", "child", "adopted", "zombie"}])'
    BY <1>0, <1>3 DEF ForeignStart, TypeOK
  <2>2. TypeOK'
    BY <1>0, <1>3, <2>1 DEF ForeignStart, TypeOK, thread, db
  <2> QED BY <1>0, <1>3, <2>2 DEF ForeignStart, TypeInv, HoldsRec, thread
<1>4. ASSUME NEW e \in Execs, DeadlinePasses(e)
      PROVE  TypeInv'
  BY <1>0, <1>4 DEF DeadlinePasses, TypeInv, TypeOK, HoldsRec, thread, db
<1> QED BY <1>1, <1>2, <1>3, <1>4 DEF Host

LEMMA TypeInit == Init => TypeInv
<1> SUFFICES ASSUME Init PROVE TypeInv
  OBVIOUS
<1>1. TypeOK
  BY BoundsAssumption, WritesType
  DEF Init, TypeOK, LauncherPCs, HandlerPCs
<1>2. HoldsRec
  BY <1>1 DEF Init, HoldsRec, Launching, Threads
<1> QED BY <1>1, <1>2 DEF TypeInv

LEMMA TypeNext == TypeInv /\ [Next]_vars => TypeInv'
<1> SUFFICES ASSUME TypeInv, [Next]_vars PROVE TypeInv'
  OBVIOUS
<1>1. CASE UNCHANGED vars
  BY <1>1 DEF vars, TypeInv, TypeOK, HoldsRec
<1>2. CASE Next
  BY <1>2, LaunchType, RequestType, ServingType, WriteType, RecoveryType, HostType
  DEF Next
<1> QED BY <1>1, <1>2

(* Every variable keeps its type; in particular no operator of the         *)
(* lifecycle is ever applied to an absent record.                          *)
THEOREM TypeCorrect == Spec => []TypeOK
<1>1. Spec => []TypeInv
  BY TypeInit, TypeNext, PTL DEF Spec
<1>2. TypeInv => TypeOK
  BY DEF TypeInv
<1> QED BY <1>1, <1>2, PTL

-----------------------------------------------------------------------------
(* Safety.  The invariants are about every copy of a record; they hold     *)
(* together, by induction, with what they need to know of the process      *)
(* table: a process appears when its launch spawns it, once, and a PID in  *)
(* a record is the PID that spawn returned.                                *)

Spawned == {"return", "done", "past"}

(* Copy r under thread positions c, pid owners o and process states s. *)
CopyIn(r, c, o, s) ==
  /\ LegalTrace(r)
  /\ r.state \in RuntimeStates => r.pid # NoPid
  /\ r.pid # NoPid =>
       /\ r.prepared
       /\ c[r.id] \in Spawned
       /\ c[r.id] # "past" => o[r.pid] = r.id /\ s[r.pid] \in {"child", "zombie"}
       /\ \A p \in Pids : o[p] = r.id => p = r.pid
       /\ r.state \in {"Terminated", "Exited"} =>
            ~\E p \in Pids : o[p] = r.id /\ s[p] \in {"child", "adopted"}

CopyOK(r) == CopyIn(r, pc, owner, pst)

HostOK ==
  \A p \in Pids :
    /\ owner[p] \in Execs => pc[owner[p]] \in Spawned
    /\ pst[p] = "free" => owner[p] = NoOne

LaunchOK ==
  \A e \in Execs :
    /\ pc[e] \in {"launching", "execute"} => rec[e].prepared
    /\ pc[e] \in Launching => rec[e].state \notin {"Terminated", "Exited"}

IInv == TypeInv /\ (\A r \in Copies : CopyOK(r)) /\ HostOK /\ LaunchOK

LEMMA CopiesMembers ==
  ASSUME TypeInv, NEW r
  PROVE  /\ r \in Copies <=> /\ r # NoRec
                             /\ \/ \E e \in Execs : r = store[e]
                                \/ \E t \in Threads : r = rec[t]
                                \/ \E t \in Threads : r \in todo[t]
         /\ r \in Copies => r \in LaunchRecord
BY DEF Copies, TypeInv, TypeOK

(* A record derived from a copy is a copy like it, unless it was closed    *)
(* and its process lives.                                                  *)
LEMMA DerivedCopy ==
  ASSUME NEW r \in LaunchRecord, NEW n, NEW c, NEW o, NEW s,
         CopyIn(r, c, o, s), Derived(n, r),
         n.state \in {"Terminated", "Exited"} /\ n.state # r.state /\ r.pid # NoPid =>
           ~\E p \in Pids : o[p] = r.id /\ s[p] \in {"child", "adopted"}
  PROVE  CopyIn(n, c, o, s)
BY DEF CopyIn, Derived

(* A missing process is dead. *)
LEMMA MissingIsDead ==
  ASSUME NEW r \in LaunchRecord, CopyOK(r), r.pid # NoPid, ~Observed(r).exists
  PROVE  ~\E p \in Pids : owner[p] = r.id /\ pst[p] \in {"child", "adopted"}
<1>1. pst[r.pid] = "free"
  BY DEF Observed
<1> QED BY <1>1 DEF CopyOK, CopyIn

(* What every step but a spawn does to launches and processes: nobody's    *)
(* process comes into being, and while its launch is not past, a process   *)
(* keeps its process table entry.                                          *)
Evolve ==
  /\ \A e \in Execs :
       pc[e] \in Spawned => pc'[e] \in Spawned /\ (pc[e] = "past" => pc'[e] = "past")
  /\ \A p \in Pids :
       /\ owner'[p] \in Execs =>
            owner'[p] = owner[p] /\ (pst'[p] \in {"child", "adopted"} => pst[p] \in {"child", "adopted"})
       /\ owner[p] \in Execs /\ pst[p] \in {"child", "zombie"} /\ pc'[owner[p]] # "past" =>
            owner'[p] = owner[p] /\ pst'[p] \in {"child", "zombie"}
       /\ pst'[p] = "free" => owner'[p] = NoOne

LEMMA EvolveCopy ==
  ASSUME NEW r \in LaunchRecord, CopyOK(r), Evolve
  PROVE  CopyIn(r, pc', owner', pst')
<1>1. r.id \in Execs /\ r.pid \in Pids \cup {NoPid}
  BY DEF LaunchRecord
<1>2. ASSUME r.pid # NoPid
      PROVE  /\ pc'[r.id] \in Spawned
             /\ pc'[r.id] # "past" => owner'[r.pid] = r.id /\ pst'[r.pid] \in {"child", "zombie"}
             /\ \A p \in Pids : owner'[p] = r.id => p = r.pid
             /\ r.state \in {"Terminated", "Exited"} =>
                  ~\E p \in Pids : owner'[p] = r.id /\ pst'[p] \in {"child", "adopted"}
  <2>1. /\ pc[r.id] \in Spawned
        /\ pc[r.id] # "past" => owner[r.pid] = r.id /\ pst[r.pid] \in {"child", "zombie"}
        /\ \A p \in Pids : owner[p] = r.id => p = r.pid
        /\ r.state \in {"Terminated", "Exited"} =>
             ~\E p \in Pids : owner[p] = r.id /\ pst[p] \in {"child", "adopted"}
    BY <1>2 DEF CopyOK, CopyIn
  <2> QED BY <1>1, <1>2, <2>1 DEF Evolve
<1> QED BY <1>2 DEF CopyOK, CopyIn

LEMMA EvolveHost ==
  ASSUME HostOK, Evolve
  PROVE  HostOK'
BY DEF HostOK, Evolve

(* A step of a thread that reads nothing new adds at most its record. *)
LEMMA StepCopies ==
  ASSUME TypeInv, TypeInv', NEW t \in Threads, NEW from, NEW to, NEW r, NEW w,
         Step(t, from, to, r, w), UNCHANGED store,
         \A u \in Threads : todo'[u] \subseteq todo[u],
         NEW q \in Copies'
  PROVE  q \in Copies \/ (q = r /\ r # NoRec)
<1>1. \A u \in Threads : rec'[u] = IF u = t THEN r ELSE rec[u]
  BY DEF Step, TypeInv, TypeOK
<1>2. /\ q # NoRec
      /\ \/ \E e \in Execs : q = store'[e]
         \/ \E u \in Threads : q = rec'[u]
         \/ \E u \in Threads : q \in todo'[u]
  BY DEF Copies
<1> QED BY <1>1, <1>2, CopiesMembers

(* A thread's step that evolves the host and hands on a good record. *)
LEMMA StepIInv ==
  ASSUME IInv, TypeInv', NEW t \in Threads, NEW from, NEW to, NEW r, NEW w,
         Step(t, from, to, r, w), UNCHANGED store,
         \A u \in Threads : todo'[u] \subseteq todo[u],
         Evolve,
         r # NoRec => CopyIn(r, pc', owner', pst'),
         t \in Execs /\ to = "launching" => r.prepared,
         t \in Execs /\ to = "execute" => from = "launching" /\ (rec[t].prepared => r.prepared),
         t \in Execs /\ to \in Launching => r.state \notin {"Terminated", "Exited"}
  PROVE  IInv'
<1>1. ASSUME NEW q \in Copies' PROVE CopyIn(q, pc', owner', pst')
  <2>1. q \in Copies \/ (q = r /\ r # NoRec)
    BY StepCopies DEF IInv
  <2>2. CASE q \in Copies
    BY <2>2, CopiesMembers, EvolveCopy DEF IInv
  <2> QED BY <2>1, <2>2
<1>2. LaunchOK'
  <2>1. \A u \in Threads : /\ rec'[u] = IF u = t THEN r ELSE rec[u]
                           /\ pc'[u] = IF u = t THEN to ELSE pc[u]
    BY DEF Step, IInv, TypeInv, TypeOK
  <2>2. pc[t] = from
    BY DEF Step
  <2> QED BY <2>1, <2>2 DEF IInv, LaunchOK, Threads
<1>3. HostOK'
  BY EvolveHost DEF IInv
<1> QED BY <1>1, <1>2, <1>3 DEF IInv, CopyOK

(* A thread's step that leaves the host alone. *)
LEMMA StepEvolve ==
  ASSUME IInv, NEW t \in Threads, NEW from, NEW to, NEW r, NEW w,
         Step(t, from, to, r, w), UNCHANGED <<owner, pst>>,
         t \in Execs /\ from \in Spawned => to \in Spawned /\ from # "past"
  PROVE  Evolve
<1>1. \A u \in Threads : pc'[u] = IF u = t THEN to ELSE pc[u]
  BY DEF Step, IInv, TypeInv, TypeOK
<1>2. pc[t] = from
  BY DEF Step
<1> QED BY <1>1, <1>2 DEF IInv, HostOK, Evolve, Threads

LEMMA LaunchIInv ==
  ASSUME IInv, TypeInv', NEW e \in Execs, Launch(e)
  PROVE  IInv'
<1>0. e \in Threads /\ TypeInv /\ NoPid \notin Pids
  BY PidAssumption DEF Threads, IInv
<1>1. CASE InitializeRecord(e)
  <2>1. Step(e, "none", "validate", NewRecord(e), <<"ExecutionCreated", "save">>)
    BY <1>1 DEF InitializeRecord
  <2>2. UNCHANGED <<store, todo, owner, pst>>
    BY <1>1 DEF InitializeRecord, db, host
  <2>3. Evolve
    BY <1>0, <2>1, <2>2, StepEvolve DEF Spawned
  <2>4. CopyIn(NewRecord(e), pc', owner', pst')
    BY NewRecordFacts DEF CopyIn, RuntimeStates
  <2>5. NewRecord(e).state \notin {"Terminated", "Exited"}
    BY NewRecordFacts
  <2> QED BY <1>0, <2>1, <2>2, <2>3, <2>4, <2>5, StepIInv
<1>2. CASE Proceed(e)
  <2>1. PICK from \in Launching, to \in PCs, r \in LaunchRecord, w \in Seq(Writes) :
          /\ Step(e, from, to, r, w)
          /\ Derived(r, rec[e])
          /\ to = "launching" => r.prepared
          /\ to = "execute" => from = "launching"
          /\ to \in Launching => r.state \in {rec[e].state, "Preparing", "Validated", "Launching"}
          /\ UNCHANGED <<todo, db, host, mode, crashes>>
    BY <1>2 DEF Proceed
  <2>2. UNCHANGED <<store, todo, owner, pst>>
    BY <2>1 DEF db, host
  <2>3. Evolve
    BY <1>0, <2>1, <2>2, StepEvolve DEF Spawned, Launching
  <2>4. rec[e] \in LaunchRecord /\ rec[e].id = e /\ pc[e] \in Launching
    BY <1>0, <2>1 DEF Step, TypeInv, HoldsRec, TypeOK
  <2>5. CopyOK(rec[e])
    BY <1>0, <2>4, CopiesMembers, RecAssumption DEF IInv
  <2>6. rec[e].pid = NoPid
    BY <2>4, <2>5 DEF CopyOK, CopyIn, Launching, Spawned
  <2>7. CopyOK(r)
    BY <2>1, <2>4, <2>5, <2>6, DerivedCopy DEF CopyOK
  <2>8. CopyIn(r, pc', owner', pst')
    BY <2>3, <2>7, EvolveCopy
  <2>9. /\ to \in Launching => r.state \notin {"Terminated", "Exited"}
        /\ rec[e].prepared => r.prepared
    BY <2>1, <2>4 DEF IInv, LaunchOK, Derived
  <2> QED BY <1>0, <2>1, <2>2, <2>3, <2>8, <2>9, StepIInv
<1>3. CASE \E p \in Pids : Spawn(e, p)
  <2>1. PICK p \in Pids : Spawn(e, p)
    BY <1>3
  <2> DEFINE q == [rec[e] EXCEPT !.pid = p]
             n == TransitionTo(q, "Starting")
  <2>2. /\ Step(e, "execute", "return", n, <<"save", "RuntimeSpawned">>)
        /\ UNCHANGED <<store, todo>>
        /\ pst[p] = "free"
        /\ \A x \in Pids : /\ owner'[x] = IF x = p THEN e ELSE owner[x]
                           /\ pst'[x] = IF x = p THEN "child" ELSE pst[x]
    BY <1>0, <2>1 DEF Spawn, db, TypeInv, TypeOK
  <2>3. rec[e] \in LaunchRecord /\ rec[e].id = e /\ pc[e] = "execute"
    BY <1>0, <2>2 DEF Step, TypeInv, HoldsRec, TypeOK, Launching
  <2>4. rec[e].prepared /\ LegalTrace(rec[e])
    BY <1>0, <2>3, CopiesMembers, RecAssumption DEF IInv, LaunchOK, CopyOK, CopyIn
  <2>5. /\ q \in LaunchRecord /\ q.id = e /\ q.pid = p /\ q.prepared /\ LegalTrace(q)
        /\ q.state = rec[e].state
    BY <2>3, <2>4 DEF LaunchRecord, LegalTrace
  <2>6. /\ n \in LaunchRecord /\ n.id = e /\ n.pid = p /\ n.prepared /\ LegalTrace(n)
        /\ n.state \in {"Starting", rec[e].state}
    <3>1. "Starting" \in LaunchStates
      BY DEF LaunchStates
    <3> HIDE DEF q
    <3> QED BY <2>5, <3>1, TransitionFacts
  <2> HIDE DEF q, n
  <2>7. \A u \in Threads : /\ rec'[u] = IF u = e THEN n ELSE rec[u]
                           /\ pc'[u] = IF u = e THEN "return" ELSE pc[u]
    BY <1>0, <2>2 DEF Step, TypeInv, TypeOK
  <2>8. \A x \in Pids : owner[x] # e
    BY <2>3 DEF IInv, HostOK, Spawned
  <2>9. n.state \notin {"Terminated", "Exited"}
    BY <2>3, <2>6 DEF IInv, LaunchOK, Launching
  <2>10. ASSUME NEW r \in Copies' PROVE CopyIn(r, pc', owner', pst')
    <3>1. CASE r = n
      <4>1. pc'[e] = "return" /\ owner'[p] = e /\ pst'[p] = "child"
        BY <1>0, <2>2, <2>7
      <4>2. \A x \in Pids : owner'[x] = e => x = p
        BY <2>2, <2>8
      <4> QED BY <1>0, <2>6, <2>9, <3>1, <4>1, <4>2 DEF CopyIn, Spawned
    <3>2. CASE r # n
      <4>1. r \in Copies
        BY <1>0, <2>2, <3>2, StepCopies
      <4>2. r \in LaunchRecord /\ CopyOK(r) /\ r.id \in Threads
        BY <1>0, <4>1, CopiesMembers DEF IInv, LaunchRecord, Threads
      <4>3. CASE r.pid = NoPid
        BY <4>2, <4>3 DEF CopyOK, CopyIn
      <4>4. CASE r.pid # NoPid
        <5>1. r.id # e /\ r.pid \in Pids
          BY <2>3, <4>2, <4>4 DEF CopyOK, CopyIn, Spawned, LaunchRecord
        <5>2. /\ pc'[r.id] = pc[r.id]
              /\ pc[r.id] # "past" => r.pid # p
              /\ \A x \in Pids : owner'[x] = r.id => owner[x] = r.id /\ pst'[x] = pst[x]
          BY <2>2, <2>7, <4>2, <4>4, <5>1 DEF CopyOK, CopyIn
        <5> QED BY <2>2, <4>2, <4>4, <5>1, <5>2 DEF CopyOK, CopyIn
      <4> QED BY <4>3, <4>4
    <3> QED BY <3>1, <3>2
  <2>11. HostOK'
    <3>1. ASSUME NEW x \in Pids
          PROVE  /\ owner'[x] \in Execs => pc'[owner'[x]] \in Spawned
                 /\ pst'[x] = "free" => owner'[x] = NoOne
      <4>1. CASE x = p
        BY <1>0, <2>2, <2>7, <4>1 DEF Spawned
      <4>2. CASE x # p
        BY <2>2, <2>7, <2>8, <4>2 DEF IInv, HostOK, Threads
      <4> QED BY <4>1, <4>2
    <3> QED BY <3>1 DEF HostOK
  <2>12. LaunchOK'
    BY <2>7 DEF IInv, LaunchOK, Launching, Threads
  <2> QED BY <2>10, <2>11, <2>12 DEF IInv, CopyOK
<1> QED BY <1>1, <1>2, <1>3, <1>0, LaunchShape

(* Steps that only move records between the table and the threads. *)
LEMMA QuietIInv ==
  ASSUME IInv, TypeInv', Evolve, \A q \in Copies' : q \in Copies, LaunchOK'
  PROVE  IInv'
<1>1. ASSUME NEW q \in Copies' PROVE CopyIn(q, pc', owner', pst')
  BY CopiesMembers, EvolveCopy DEF IInv
<1>2. HostOK'
  BY EvolveHost DEF IInv
<1> QED BY <1>1, <1>2 DEF IInv, CopyOK

LEMMA RequestIInv ==
  ASSUME IInv, TypeInv', NEW h \in Handlers, Request(h)
  PROVE  IInv'
<1>0. h \in Threads /\ h \notin Execs /\ TypeInv
  BY ThreadsAssumption DEF Threads, IInv
<1>1. ASSUME NEW es \in SUBSET Recorded, BeginGet(h, es)
      PROVE  IInv'
  <2>1. /\ Step(h, "idle", "reconcile", NoRec, <<>>)
        /\ UNCHANGED <<store, owner, pst>>
        /\ todo' = [todo EXCEPT ![h] = {store[e] : e \in es}]
    BY <1>1 DEF BeginGet, db, host
  <2>2. Evolve
    BY <1>0, <2>1, StepEvolve
  <2>3. \A u \in Threads : /\ rec'[u] = IF u = h THEN NoRec ELSE rec[u]
                           /\ pc'[u] = IF u = h THEN "reconcile" ELSE pc[u]
                           /\ todo'[u] = IF u = h THEN {store[e] : e \in es} ELSE todo[u]
    BY <1>0, <2>1 DEF Step, TypeInv, TypeOK
  <2>4. ASSUME NEW q \in Copies' PROVE q \in Copies
    <3>1. /\ q # NoRec
          /\ \/ \E e \in Execs : q = store'[e]
             \/ \E u \in Threads : q = rec'[u]
             \/ \E u \in Threads : q \in todo'[u]
      BY DEF Copies
    <3>2. es \subseteq Execs
      BY DEF Recorded
    <3>3. ASSUME NEW u \in Threads, q \in todo'[u]
          PROVE  q \in todo[u] \/ \E e \in Execs : q = store[e]
      <4>1. CASE u # h
        BY <2>3, <3>3, <4>1
      <4>2. CASE u = h
        <5>1. q \in {store[e] : e \in es}
          BY <2>3, <3>3, <4>2
        <5>2. PICK e \in es : q = store[e]
          BY <5>1
        <5> QED BY <3>2, <5>2
      <4> QED BY <4>1, <4>2
    <3> QED BY <1>0, <2>1, <2>3, <3>1, <3>3, CopiesMembers
  <2>5. LaunchOK'
    BY <1>0, <2>3 DEF IInv, LaunchOK, Threads
  <2> QED BY <2>2, <2>4, <2>5, QuietIInv
<1>2. ASSUME NEW e \in Execs, TerminateLaunch(h, e)
      PROVE  IInv'
  <2> DEFINE n == TransitionTo(store[e], "Terminating")
  <2>1. /\ Step(h, "idle", "kill", n, <<"save", "TerminationRequested">>)
        /\ UNCHANGED <<store, todo, owner, pst>>
        /\ store[e] # NoRec
    BY <1>2 DEF TerminateLaunch, Terminable, Recorded, db, host
  <2>2. Evolve
    BY <1>0, <2>1, StepEvolve
  <2>3. store[e] \in LaunchRecord /\ CopyOK(store[e]) /\ "Terminating" \in LaunchStates \ RuntimeStates
    BY <1>0, <2>1, CopiesMembers DEF IInv, LaunchStates, RuntimeStates
  <2>4. Derived(n, store[e]) /\ n.state \in {store[e].state, "Terminating"}
    BY <2>3, TransitionDerived, TransitionFacts
  <2>5. n \in LaunchRecord /\ CopyOK(n)
    BY <2>3, <2>4, DerivedCopy DEF CopyOK, Derived
  <2>6. CopyIn(n, pc', owner', pst')
    BY <2>2, <2>5, EvolveCopy
  <2> QED BY <1>0, <2>1, <2>2, <2>6, StepIInv
<1>3. ASSUME NEW e \in Execs, GetOne(h, e) PROVE IInv'
  BY <1>1, <1>3 DEF GetOne
<1>4. ASSUME GetAll(h) PROVE IInv'
  BY <1>1, <1>4 DEF GetAll
<1> QED BY <1>2, <1>3, <1>4 DEF Request

LEMMA ServingIInv ==
  ASSUME IInv, TypeInv', NEW h \in Handlers, Serving(h)
  PROVE  IInv'
<1>0. h \in Threads /\ h \notin Execs /\ TypeInv
  BY ThreadsAssumption DEF Threads, IInv
<1>1. ASSUME NEW r \in todo[h], ReconcileExecution(h, r)
      PROVE  IInv'
  <2>1. r \in LaunchRecord /\ CopyOK(r)
    <3>1. r \in LaunchRecord
      BY <1>0 DEF TypeInv, TypeOK
    <3>2. r \in Copies
      BY <1>0, <3>1, CopiesMembers, RecAssumption
    <3> QED BY <3>1, <3>2 DEF IInv
  <2> DEFINE n == Reconcile(r, Observed(r), r.id \in late).rec
  <2>2. Observed(r) \in Observation /\ (r.id \in late) \in BOOLEAN
    BY ObservedType
  <2> HIDE DEF n
  <2>3. /\ n \in LaunchRecord /\ n.id = r.id /\ n.pid = r.pid /\ n.prepared = r.prepared
        /\ r.pid = NoPid => n.state \in {r.state, "Failed"}
        /\ n.state \in {"Terminated", "Exited"} => n.state = r.state \/ ~Observed(r).exists
        /\ LegalTrace(r) => LegalTrace(n)
    BY <2>1, <2>2, ReconcileFacts DEF n
  <2>4. CopyOK(n)
    BY <2>1, <2>3, MissingIsDead DEF CopyOK, CopyIn, RuntimeStates
  <2>5. /\ UNCHANGED <<store, owner, pst>>
        /\ \A u \in Threads : todo'[u] \subseteq todo[u]
    BY <1>0, <1>1 DEF ReconcileExecution, db, host, TypeInv, TypeOK
  <2>6. ASSUME Step(h, "reconcile", "reconcile", NoRec, <<>>)
        PROVE  IInv'
    <3>1. Evolve
      BY <1>0, <2>5, <2>6, StepEvolve
    <3> QED BY <1>0, <2>5, <2>6, <3>1, StepIInv
  <2>7. ASSUME NEW w \in Seq(Writes), Step(h, "reconcile", "reconcile", n, w)
        PROVE  IInv'
    <3>1. Evolve
      BY <1>0, <2>5, <2>7, StepEvolve
    <3>2. CopyIn(n, pc', owner', pst')
      BY <2>3, <2>4, <3>1, EvolveCopy
    <3> QED BY <1>0, <2>5, <2>7, <3>1, <3>2, StepIInv
  <2> QED BY <1>1, <2>6, <2>7, ReconcileStep DEF n
<1>2. CASE EndGet(h)
  <2>1. Step(h, "reconcile", "idle", NoRec, <<>>) /\ UNCHANGED <<store, todo, owner, pst>>
    BY <1>2 DEF EndGet, db, host
  <2>2. Evolve
    BY <1>0, <2>1, StepEvolve
  <2> QED BY <1>0, <2>1, <2>2, StepIInv
<1>3. ASSUME pc[h] = "kill"
      PROVE  /\ rec[h] \in LaunchRecord /\ CopyOK(rec[h])
             /\ Derived(Killed(rec[h]), rec[h]) /\ Killed(rec[h]) \in LaunchRecord
  <2>1. rec[h] \in LaunchRecord /\ rec[h] # NoRec
    BY <1>0, <1>3 DEF TypeInv, HoldsRec, TypeOK
  <2> QED BY <1>0, <2>1, CopiesMembers, KilledDerived DEF IInv, Derived
<1>4. CASE TerminateWithoutRuntime(h)
  <2>1. /\ Step(h, "kill", "return", Killed(rec[h]), <<"save", "Terminated">>)
        /\ UNCHANGED <<store, todo, owner, pst>> /\ ~HasRuntime(rec[h]) /\ pc[h] = "kill"
    BY <1>4 DEF TerminateWithoutRuntime, db, host
  <2>2. Evolve
    BY <1>0, <2>1, StepEvolve
  <2>3. rec[h].pid = NoPid
    BY <1>3, <2>1 DEF HasRuntime, CopyOK, CopyIn
  <2>4. CopyOK(Killed(rec[h]))
    BY <1>3, <2>1, <2>3, DerivedCopy DEF CopyOK
  <2>5. CopyIn(Killed(rec[h]), pc', owner', pst')
    BY <1>3, <2>1, <2>2, <2>4, EvolveCopy
  <2> QED BY <1>0, <2>1, <2>2, <2>5, StepIInv
<1>5. CASE KillRuntime(h)
  <2> DEFINE p == rec[h].pid
  <2>1. /\ Step(h, "kill", "return", Killed(rec[h]), <<"save", "Terminated">>)
        /\ UNCHANGED <<store, todo>> /\ HasRuntime(rec[h]) /\ pc[h] = "kill"
        /\ pst[p] # "free"
    BY <1>5 DEF KillRuntime, db
  <2>2. p \in Pids
    BY <1>3, <2>1 DEF HasRuntime, LaunchRecord
  <2>3. \A x \in Pids :
          /\ x # p => owner'[x] = owner[x] /\ pst'[x] = pst[x]
          /\ x = p => \/ pst[x] = "adopted" /\ pst'[x] = "free" /\ owner'[x] = NoOne
                      \/ pst[x] # "adopted" /\ pst'[x] = "zombie" /\ owner'[x] = owner[x]
    BY <1>0, <1>5, <2>2 DEF KillRuntime, Reaped, TypeInv, TypeOK
  <2>4. \A u \in Threads : pc'[u] = IF u = h THEN "return" ELSE pc[u]
    BY <1>0, <2>1 DEF Step, TypeInv, TypeOK
  <2>5. Evolve
    <3>1. ASSUME NEW x \in Pids
          PROVE  /\ owner'[x] \in Execs =>
                      owner'[x] = owner[x] /\ (pst'[x] \in {"child", "adopted"} => pst[x] \in {"child", "adopted"})
                 /\ owner[x] \in Execs /\ pst[x] \in {"child", "zombie"} =>
                      owner'[x] = owner[x] /\ pst'[x] \in {"child", "zombie"}
                 /\ pst'[x] = "free" => owner'[x] = NoOne
      <4>1. CASE x = p
        BY <2>3, <4>1, OwnerAssumption
      <4>2. CASE x # p
        BY <2>3, <4>2 DEF IInv, HostOK
      <4> QED BY <4>1, <4>2
    <3> QED BY <1>0, <2>4, <3>1 DEF Evolve, Threads
  <2>6. CopyIn(rec[h], pc', owner', pst')
    BY <1>3, <2>1, <2>5, EvolveCopy
  <2>7. ~\E x \in Pids : owner'[x] = rec[h].id /\ pst'[x] \in {"child", "adopted"}
    <3>1. rec[h].pid # NoPid /\ rec[h].id \in Execs
      BY <1>3, <2>1 DEF HasRuntime, LaunchRecord
    <3>2. \A x \in Pids : owner'[x] = rec[h].id => x = p
      BY <2>6, <3>1 DEF CopyIn
    <3> QED BY <2>2, <2>3, <3>1, <3>2
  <2>8. CopyIn(Killed(rec[h]), pc', owner', pst')
    BY <1>3, <2>1, <2>6, <2>7, DerivedCopy
  <2> QED BY <1>0, <2>1, <2>5, <2>8, StepIInv
<1>6. CASE KillFails(h)
  <2>1. /\ Step(h, "kill", "return", rec[h], <<"save", "TerminationFailed">>)
        /\ UNCHANGED <<store, todo, owner, pst>> /\ pc[h] = "kill"
    BY <1>6 DEF KillFails, db, host
  <2>2. Evolve
    BY <1>0, <2>1, StepEvolve
  <2>3. CopyIn(rec[h], pc', owner', pst')
    BY <1>3, <2>1, <2>2, EvolveCopy
  <2> QED BY <1>0, <2>1, <2>2, <2>3, StepIInv
<1> QED BY <1>1, <1>2, <1>4, <1>5, <1>6 DEF Serving

LEMMA WriteIInv ==
  ASSUME IInv, TypeInv', NEW t \in Threads, DbWrite(t) \/ Return(t)
  PROVE  IInv'
<1>0. TypeInv
  BY DEF IInv
<1>1. CASE DbWrite(t)
  <2>1. /\ UNCHANGED <<pc, rec, todo, owner, pst>>
        /\ store' = store \/ store' = [store EXCEPT ![rec[t].id] = rec[t]]
    BY <1>1 DEF DbWrite, host
  <2>2. \A e \in Execs : store'[e] = store[e] \/ store'[e] = rec[t]
    BY <1>0, <2>1 DEF TypeInv, TypeOK
  <2>3. ASSUME NEW q \in Copies' PROVE q \in Copies
    <3>1. /\ q # NoRec
          /\ \/ \E e \in Execs : q = store'[e]
             \/ \E u \in Threads : q = rec'[u]
             \/ \E u \in Threads : q \in todo'[u]
      BY DEF Copies
    <3> QED BY <1>0, <2>1, <2>2, <3>1, CopiesMembers
  <2>4. Evolve
    BY <2>1 DEF IInv, HostOK, Evolve
  <2>5. LaunchOK'
    BY <2>1 DEF IInv, LaunchOK
  <2> QED BY <2>3, <2>4, <2>5, QuietIInv
<1>2. CASE Return(t)
  <2> DEFINE to == IF t \in Execs THEN "done" ELSE "idle"
  <2>1. /\ Step(t, "return", to, NoRec, <<>>)
        /\ UNCHANGED <<store, todo, owner, pst>>
    BY <1>2 DEF Return, db, host
  <2>2. t \in Execs => to \in Spawned /\ to \notin Launching
    BY DEF Spawned, Launching
  <2>3. to # "launching" /\ to # "execute"
    OBVIOUS
  <2> HIDE DEF to
  <2>4. Evolve
    BY <2>1, <2>2, StepEvolve
  <2> QED BY <2>1, <2>2, <2>3, <2>4, StepIInv
<1> QED BY <1>1, <1>2

(* A crash leaves the records of the table and makes every launch past. *)
LEMMA CrashIInv ==
  ASSUME IInv, TypeInv', Crash
  PROVE  IInv'
<1>0. TypeInv
  BY DEF IInv
<1>1. /\ UNCHANGED store
      /\ \A u \in Threads : rec'[u] = NoRec /\ todo'[u] = {}
      /\ \A e \in Execs : pc'[e] = IF pc[e] = "none" THEN "none" ELSE "past"
  BY DEF Crash, db, Threads
<1>2. ASSUME NEW p \in Pids
      PROVE  /\ owner'[p] = IF pst[p] = "zombie" THEN NoOne ELSE owner[p]
             /\ pst[p] = "child" => pst'[p] = "adopted"
             /\ pst[p] = "zombie" => pst'[p] = "free"
             /\ pst[p] \in {"adopted", "free"} => pst'[p] = pst[p]
             /\ pst[p] \in {"child", "adopted", "zombie", "free"}
  BY <1>0 DEF Crash, TypeInv, TypeOK
<1>3. \A p \in Pids : owner'[p] \in Execs => owner'[p] = owner[p]
  BY <1>2, OwnerAssumption
<1>4. \A p \in Pids : owner[p] \in Execs => pc'[owner[p]] = "past"
  BY <1>1 DEF IInv, HostOK, Spawned
<1>5. \A p \in Pids : /\ pst'[p] = "free" => owner'[p] = NoOne
                      /\ pst'[p] \in {"child", "adopted"} => pst[p] \in {"child", "adopted"}
  BY <1>2 DEF IInv, HostOK
<1>6. \A e \in Execs :
        pc[e] \in Spawned => pc'[e] \in Spawned /\ (pc[e] = "past" => pc'[e] = "past")
  BY <1>1 DEF Spawned
<1>7. Evolve
  BY <1>3, <1>4, <1>5, <1>6 DEF Evolve
<1>8. ASSUME NEW q \in Copies' PROVE q \in Copies
  <2>1. /\ q # NoRec
        /\ \/ \E e \in Execs : q = store'[e]
           \/ \E u \in Threads : q = rec'[u]
           \/ \E u \in Threads : q \in todo'[u]
    BY DEF Copies
  <2> QED BY <1>0, <1>1, <2>1, CopiesMembers
<1>9. LaunchOK'
  BY <1>1 DEF LaunchOK, Launching
<1> QED BY <1>7, <1>8, <1>9, QuietIInv

LEMMA RecoveryIInv ==
  ASSUME IInv, TypeInv', Restart \/ Bootstrap
  PROVE  IInv'
<1>0. Boot \in Threads /\ Boot \notin Execs /\ TypeInv
  BY ThreadsAssumption DEF Threads, IInv
<1>1. CASE Restart
  <2>1. /\ UNCHANGED <<store, rec, owner, pst>>
        /\ \A e \in Execs : pc'[e] = pc[e]
        /\ \A u \in Threads :
             todo'[u] = IF u = Boot THEN {store[e] : e \in Recoverable} ELSE todo[u]
    BY <1>0, <1>1 DEF Restart, db, host, TypeInv, TypeOK, Threads
  <2>2. Evolve
    BY <2>1 DEF IInv, HostOK, Evolve
  <2>3. ASSUME NEW q \in Copies' PROVE q \in Copies
    <3>1. /\ q # NoRec
          /\ \/ \E e \in Execs : q = store'[e]
             \/ \E u \in Threads : q = rec'[u]
             \/ \E u \in Threads : q \in todo'[u]
      BY DEF Copies
    <3>2. Recoverable \subseteq Execs
      BY DEF Recoverable, Recorded
    <3>3. ASSUME NEW u \in Threads, q \in todo'[u]
          PROVE  q \in todo[u] \/ \E e \in Execs : q = store[e]
      <4>1. CASE u # Boot
        BY <2>1, <3>3, <4>1
      <4>2. CASE u = Boot
        <5>1. q \in {store[e] : e \in Recoverable}
          BY <2>1, <3>3, <4>2
        <5>2. PICK e \in Recoverable : q = store[e]
          BY <5>1
        <5> QED BY <3>2, <5>2
      <4> QED BY <4>1, <4>2
    <3> QED BY <1>0, <2>1, <3>1, <3>3, CopiesMembers
  <2>4. LaunchOK'
    BY <2>1 DEF IInv, LaunchOK, Threads
  <2> QED BY <2>2, <2>3, <2>4, QuietIInv
<1>2. ASSUME NEW r \in todo[Boot], RecoverExecution(r)
      PROVE  IInv'
  <2>1. r \in LaunchRecord /\ CopyOK(r)
    <3>1. r \in LaunchRecord
      BY <1>0 DEF TypeInv, TypeOK
    <3>2. r \in Copies
      BY <1>0, <3>1, CopiesMembers, RecAssumption
    <3> QED BY <3>1, <3>2 DEF IInv
  <2>2. PICK n \in LaunchRecord, w \in Seq(Writes) :
          /\ Step(Boot, "recover", "recover", n, w)
          /\ Derived(n, r)
          /\ n.state \in {"Terminated", "Exited"} =>
                n.state = r.state \/ ~Observed(r).exists
    BY <1>0, <1>2, RecoverShape
  <2>3. /\ UNCHANGED <<store, owner, pst>>
        /\ \A u \in Threads : todo'[u] \subseteq todo[u]
    BY <1>0, <1>2 DEF RecoverExecution, db, host, TypeInv, TypeOK
  <2>4. CopyOK(n)
    BY <2>1, <2>2, DerivedCopy, MissingIsDead DEF CopyOK
  <2>5. Evolve
    BY <1>0, <2>2, <2>3, StepEvolve
  <2>6. CopyIn(n, pc', owner', pst')
    BY <2>2, <2>4, <2>5, EvolveCopy
  <2> QED BY <1>0, <2>2, <2>3, <2>5, <2>6, StepIInv
<1>3. CASE Serve
  <2>1. /\ Step(Boot, "recover", "idle", NoRec, <<>>)
        /\ UNCHANGED <<store, todo, owner, pst>>
    BY <1>3 DEF Serve, db, host
  <2>2. Evolve
    BY <1>0, <2>1, StepEvolve
  <2> QED BY <1>0, <2>1, <2>2, StepIInv
<1> QED BY <1>1, <1>2, <1>3 DEF Bootstrap

LEMMA HostIInv ==
  ASSUME IInv, TypeInv', Host
  PROVE  IInv'
<1>0. TypeInv
  BY DEF IInv
<1>1. UNCHANGED <<store, rec, todo, pc>>
  BY DEF Host, CreateSocket, Exit, ForeignStart, DeadlinePasses, db, thread
<1>2. \A q \in Copies' : q \in Copies
  BY <1>1 DEF Copies
<1>3. LaunchOK'
  BY <1>1 DEF IInv, LaunchOK
<1>4. Evolve
  <2>1. ASSUME UNCHANGED <<owner, pst>> PROVE Evolve
    BY <1>1, <2>1 DEF IInv, HostOK, Evolve
  <2>2. ASSUME NEW p \in Pids, Exit(p) PROVE Evolve
    <3>1. \A x \in Pids :
            /\ x # p => owner'[x] = owner[x] /\ pst'[x] = pst[x]
            /\ x = p => \/ pst[x] = "adopted" /\ pst'[x] = "free" /\ owner'[x] = NoOne
                        \/ pst[x] # "adopted" /\ pst'[x] = "zombie" /\ owner'[x] = owner[x]
      BY <1>0, <2>2 DEF Exit, Reaped, TypeInv, TypeOK
    <3>2. ASSUME NEW x \in Pids
          PROVE  /\ owner'[x] \in Execs =>
                      owner'[x] = owner[x] /\ (pst'[x] \in {"child", "adopted"} => pst[x] \in {"child", "adopted"})
                 /\ owner[x] \in Execs /\ pst[x] \in {"child", "zombie"} =>
                      owner'[x] = owner[x] /\ pst'[x] \in {"child", "zombie"}
                 /\ pst'[x] = "free" => owner'[x] = NoOne
      <4>1. CASE x = p
        BY <3>1, <4>1, OwnerAssumption
      <4>2. CASE x # p
        BY <3>1, <4>2 DEF IInv, HostOK
      <4> QED BY <4>1, <4>2
    <3> QED BY <1>1, <3>2 DEF Evolve
  <2>3. ASSUME NEW p \in Pids, ForeignStart(p) PROVE Evolve
    <3>1. \A x \in Pids :
            /\ x # p => owner'[x] = owner[x] /\ pst'[x] = pst[x]
            /\ x = p => pst[x] = "free" /\ pst'[x] = "adopted" /\ owner'[x] = Outsider
      BY <1>0, <2>3 DEF ForeignStart, TypeInv, TypeOK
    <3>2. owner[p] = NoOne
      BY <3>1 DEF IInv, HostOK
    <3>3. ASSUME NEW x \in Pids
          PROVE  /\ owner'[x] \in Execs =>
                      owner'[x] = owner[x] /\ (pst'[x] \in {"child", "adopted"} => pst[x] \in {"child", "adopted"})
                 /\ owner[x] \in Execs /\ pst[x] \in {"child", "zombie"} =>
                      owner'[x] = owner[x] /\ pst'[x] \in {"child", "zombie"}
                 /\ pst'[x] = "free" => owner'[x] = NoOne
      <4>1. CASE x = p
        BY <3>1, <3>2, <4>1, OwnerAssumption
      <4>2. CASE x # p
        BY <3>1, <4>2 DEF IInv, HostOK
      <4> QED BY <4>1, <4>2
    <3> QED BY <1>1, <3>3 DEF Evolve
  <2>4. ASSUME NEW p \in Pids, CreateSocket(p) PROVE UNCHANGED <<owner, pst>>
    BY <2>4 DEF CreateSocket
  <2>5. ASSUME NEW e \in Execs, DeadlinePasses(e) PROVE UNCHANGED <<owner, pst>>
    BY <2>5 DEF DeadlinePasses
  <2> QED BY <2>1, <2>2, <2>3, <2>4, <2>5 DEF Host
<1> QED BY <1>2, <1>3, <1>4, QuietIInv

LEMMA InitIInv == Init => IInv
<1> SUFFICES ASSUME Init PROVE IInv
  OBVIOUS
<1>1. TypeInv
  BY TypeInit
<1>2. ASSUME NEW r \in Copies PROVE FALSE
  BY DEF Init, Copies
<1>3. HostOK
  BY OwnerAssumption DEF Init, HostOK
<1>4. LaunchOK
  BY DEF Init, LaunchOK, Launching, Threads
<1> QED BY <1>1, <1>2, <1>3, <1>4 DEF IInv

LEMMA NextIInv == IInv /\ [Next]_vars => IInv'
<1> SUFFICES ASSUME IInv, [Next]_vars PROVE IInv'
  OBVIOUS
<1>1. TypeInv'
  BY TypeNext DEF IInv
<1>2. CASE UNCHANGED vars
  BY <1>1, <1>2 DEF vars, IInv, Copies, CopyOK, HostOK, LaunchOK
<1>3. CASE Next
  BY <1>1, <1>3, LaunchIInv, RequestIInv, ServingIInv, WriteIInv, CrashIInv, RecoveryIInv, HostIInv
  DEF Next
<1> QED BY <1>2, <1>3

LEMMA Inductive == Spec => []IInv
<1> QED BY InitIInv, NextIInv, PTL DEF Spec

(* No copy of a record ever has a history the transition table forbids. *)
THEOREM LegalHistoryHolds == Spec => []LegalHistory
<1>1. IInv => LegalHistory
  BY DEF IInv, CopyOK, CopyIn, LegalHistory
<1> QED BY <1>1, Inductive, PTL

(* A state that speaks of a process comes with a PID and a prepared launch,*)
(* so terminate always has what it needs to kill.                          *)
THEOREM RuntimeStatesHavePidHolds == Spec => []RuntimeStatesHavePid
<1>1. IInv => RuntimeStatesHavePid
  BY DEF IInv, CopyOK, CopyIn, RuntimeStates, RuntimeStatesHavePid, HasRuntime
<1> QED BY <1>1, Inductive, PTL

(* While the control plane that spawned a process runs, the PID in any     *)
(* copy of its record cannot name another process.                         *)
THEOREM HeldPidHolds == Spec => []HeldPid
<1>1. IInv => HeldPid
  BY DEF IInv, CopyOK, CopyIn, HeldPid
<1> QED BY <1>1, Inductive, PTL

(* A Terminated or Exited record that knows its PID is the record of a     *)
(* dead process, across requests, crashes, restarts and reuse of the PID.  *)
THEOREM ClosedMeansDeadHolds == Spec => []ClosedMeansDead
<1>1. IInv => ClosedMeansDead
  BY DEF IInv, CopyOK, CopyIn, ClosedMeansDead, Alive
<1> QED BY <1>1, Inductive, PTL
=============================================================================
