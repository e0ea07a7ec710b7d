--------------------------- MODULE RecoveryProofs ---------------------------
(***************************************************************************)
(* After a bootstrap nobody believes a launch of an earlier control plane  *)
(* in progress, for any constants: Recovered.  The bootstrap visits every  *)
(* open record and saves what it made of it before it goes on; later       *)
(* requests only move settled records, however old their copies are.       *)
(***************************************************************************)
EXTENDS ControlPlaneProofs

-----------------------------------------------------------------------------
(* Records.                                                                *)

Settled(r) == r.state \notin MidFlight /\ (r.state \notin TerminalStates => r.epoch = crashes)

(* A record that knows its process is past the launch's own states. *)
PidFree(r) == r.pid # NoPid => r.state \notin MidFlight

(* What requests make of a record. *)
Moves(n, r) ==
  /\ n.id = r.id /\ n.pid = r.pid /\ n.epoch = r.epoch
  /\ n.state = r.state \/ (n.state \notin MidFlight /\ r.state \notin TerminalStates)

LEMMA TransitionMoves ==
  ASSUME NEW r \in LaunchRecord, NEW s \in LaunchStates \ MidFlight
  PROVE  Moves(TransitionTo(r, s), r)
<1>1. r.state \in TerminalStates => ~IsTransitionAllowed(r.state, s)
  BY DEF IsTransitionAllowed, AllowedTransitions, TerminalStates, LaunchStates
<1> QED BY <1>1, TransitionFacts DEF Moves

LEMMA ReconcileMoves ==
  ASSUME NEW r \in LaunchRecord, NEW obs \in Observation, NEW late0 \in BOOLEAN
  PROVE  Moves(Reconcile(r, obs, late0).rec, r)
<1>1. PICK q \in LaunchRecord, s \in LaunchStates :
           /\ SameButHealth(q, r)
           /\ Reconcile(r, obs, late0).rec \in {q, TransitionTo(q, s)}
           /\ s \notin MidFlight
  BY ReconcileShape
<1>2. Moves(TransitionTo(q, s), q)
  BY <1>1, TransitionMoves
<1> QED BY <1>1, <1>2 DEF Moves, SameButHealth

LEMMA KilledMoves ==
  ASSUME NEW r \in LaunchRecord
  PROVE  Moves(Killed(r), r)
<1> DEFINE q == [r EXCEPT !.liveness = "Dead", !.readiness = "NotReady"]
<1>1. q \in LaunchRecord /\ SameButHealth(q, r)
  BY DEF LaunchRecord, SameButHealth
<1>2. "Terminated" \in LaunchStates \ MidFlight
  BY DEF LaunchStates, TerminalStates, MidFlight
<1>3. Moves(TransitionTo(q, "Terminated"), q)
  BY <1>1, <1>2, TransitionMoves
<1> QED BY <1>1, <1>3 DEF Killed, Moves, SameButHealth

LEMMA MovesSettled ==
  ASSUME NEW r, NEW n, Moves(n, r)
  PROVE  /\ PidFree(r) => PidFree(n)
         /\ Settled(r) => Settled(n)
BY DEF Moves, PidFree, Settled

(* recoverExecution settles every record it is given. *)
LEMMA RecoverSettles ==
  ASSUME TypeInv, NEW r \in todo[Boot], PidFree(r), RecoverExecution(r)
  PROVE  \E n \in LaunchRecord, ev \in EventTypes :
           /\ Step(Boot, "recover", "recover", n, <<"save", ev>>)
           /\ n.id = r.id /\ Settled(n) /\ PidFree(n)
<1>0. r \in LaunchRecord /\ crashes \in 0..MaxCrashes
  BY DEF TypeInv, TypeOK, Threads
<1> DEFINE st == Stamped(r)
<1>1. /\ st \in LaunchRecord /\ st.id = r.id /\ st.pid = r.pid
      /\ st.state = r.state /\ st.epoch = crashes
  BY <1>0 DEF Stamped, LaunchRecord
<1>2. {"Unknown", "Terminated"} \subseteq LaunchStates \ MidFlight
  BY DEF LaunchStates, TerminalStates, MidFlight
<1>3. PidFree(st)
  BY <1>1 DEF PidFree
<1> HIDE DEF st
<1> DEFINE Done(n) == n \in LaunchRecord /\ n.id = r.id /\ Settled(n) /\ PidFree(n)
           a == [st EXCEPT !.liveness = "Alive"]
<1>4. Done(TransitionTo(st, "Unknown"))
  <2>1. IsTransitionAllowed(st.state, "Unknown") <=> st.state \notin TerminalStates
    BY DEF IsTransitionAllowed, AllowedTransitions
  <2>2. st.state \in TerminalStates => st.state \notin MidFlight
    BY DEF TerminalStates, MidFlight
  <2> QED BY <1>1, <1>2, <2>1, <2>2, TransitionFacts DEF Settled, PidFree
<1>5. r.pid # NoPid => Done(a)
  <2>1. a \in LaunchRecord /\ a.id = r.id /\ a.pid = r.pid /\ a.state = st.state /\ a.epoch = crashes
    BY <1>1 DEF LaunchRecord
  <2> QED BY <1>1, <1>3, <2>1 DEF Settled, PidFree
<1>6. r.state = "Terminating" => Done(TransitionTo(st, "Terminated"))
  <2>1. "Terminating" \notin MidFlight
    BY DEF MidFlight
  <2>2. st.state = "Terminating" => Settled(st)
    BY <1>1, <2>1 DEF Settled
  <2> QED BY <1>1, <1>2, <1>3, <2>2, TransitionFacts, TransitionMoves, MovesSettled
<1> HIDE DEF a
<1>7. \/ \E ev \in EventTypes :
           Step(Boot, "recover", "recover", TransitionTo(st, "Unknown"), <<"save", ev>>)
      \/ /\ r.pid # NoPid
         /\ \E ev \in EventTypes : Step(Boot, "recover", "recover", a, <<"save", ev>>)
      \/ /\ r.state = "Terminating"
         /\ \E ev \in EventTypes :
              Step(Boot, "recover", "recover", TransitionTo(st, "Terminated"), <<"save", ev>>)
  BY DEF RecoverExecution, EventTypes, st, a
<1> HIDE DEF Done
<1>8. ASSUME NEW n, Done(n), NEW ev \in EventTypes,
             Step(Boot, "recover", "recover", n, <<"save", ev>>)
      PROVE  \E m \in LaunchRecord, x \in EventTypes :
               /\ Step(Boot, "recover", "recover", m, <<"save", x>>)
               /\ m.id = r.id /\ Settled(m) /\ PidFree(m)
  BY <1>8 DEF Done
<1>9. CASE \E ev \in EventTypes :
             Step(Boot, "recover", "recover", TransitionTo(st, "Unknown"), <<"save", ev>>)
  BY <1>4, <1>8, <1>9
<1>10. CASE /\ r.pid # NoPid
            /\ \E ev \in EventTypes : Step(Boot, "recover", "recover", a, <<"save", ev>>)
  BY <1>5, <1>8, <1>10
<1>11. CASE /\ r.state = "Terminating"
            /\ \E ev \in EventTypes :
                 Step(Boot, "recover", "recover", TransitionTo(st, "Terminated"), <<"save", ev>>)
  BY <1>6, <1>8, <1>11
<1> QED BY <1>7, <1>9, <1>10, <1>11
-----------------------------------------------------------------------------
(* The invariant. *)

(* A launch's own record is where the launch is. *)
PlaceOK(r, c) ==
  /\ c = "validate"  => r.state = "Pending"
  /\ c = "prepare"   => r.state = "Preparing"
  /\ c = "launching" => r.state = "Validated"
  /\ c = "execute"   => r.state = "Launching"

Places == \A e \in Execs : PlaceOK(rec[e], pc[e])

PidsFree == \A r \in Copies : PidFree(r)

(* Until the server starts, only the bootstrap runs. *)
Alone ==
  \A t \in Threads :
    mode = "down" \/ (mode = "boot" /\ t # Boot) =>
      rec[t] = NoRec /\ todo[t] = {} /\ pc[t] \in {"none", "past", "idle"}

(* While the server runs, the records of earlier control planes are settled*)
UpOK ==
  mode = "up" /\ failures = 0 =>
    \A r \in Copies : pc[r.id] = "past" => Settled(r)

(* A row is settled, still to be visited, or about to be overwritten by a  *)
(* settled record.                                                         *)
AboutToSave(e) ==
  /\ rec[Boot] # NoRec /\ rec[Boot].id = e
  /\ out[Boot] # <<>> /\ Head(out[Boot]) = "save"

BootOK ==
  mode = "boot" /\ failures = 0 =>
    /\ rec[Boot] # NoRec => Settled(rec[Boot])
    /\ \A e \in Execs :
         store[e] # NoRec =>
           Settled(store[e]) \/ store[e] \in todo[Boot] \/ AboutToSave(e)

RecInv == Places /\ PidsFree /\ Alone /\ UpOK /\ BootOK

-----------------------------------------------------------------------------
(* While the server runs. *)

(* No record is new, and no launch moves. *)
LEMMA MoveCopies ==
  ASSUME RecInv, mode = "up", UNCHANGED <<mode, crashes>>, failures' = 0 => failures = 0,
         \A e \in Execs : pc'[e] = pc[e] /\ rec'[e] = rec[e],
         TypeInv, \A q \in Copies' : q \in Copies
  PROVE  RecInv'
<1>1. Places' /\ PidsFree' /\ Alone' /\ BootOK'
  BY DEF RecInv, Places, PidsFree, PidFree, Alone, BootOK
<1>2. ASSUME NEW q \in Copies', pc'[q.id] = "past", failures = 0 PROVE Settled(q)'
  <2>1. q.id \in Execs
    BY CopiesMembers DEF LaunchRecord
  <2> QED BY <1>2, <2>1 DEF RecInv, UpOK, Settled
<1> QED BY <1>1, <1>2 DEF RecInv, UpOK

(* A thread hands on a record moved from a copy, or a launch its own. *)
LEMMA StepUp ==
  ASSUME TypeInv, TypeInv', RecInv, mode = "up",
         UNCHANGED <<store, mode, crashes, failures>>,
         NEW t \in Threads, NEW from, NEW to, NEW r, NEW w,
         Step(t, from, to, r, w),
         \A u \in Threads : todo'[u] \subseteq todo[u],
         t \in Execs => PlaceOK(r, to) /\ to # "past",
         r # NoRec => \/ \E q \in Copies : Moves(r, q)
                      \/ t \in Execs /\ r.id = t /\ PidFree(r)
  PROVE  RecInv'
<1>1. \A u \in Threads : /\ rec'[u] = IF u = t THEN r ELSE rec[u]
                         /\ pc'[u] = IF u = t THEN to ELSE pc[u]
  BY DEF Step, TypeInv, TypeOK
<1>2. Places'
  BY <1>1 DEF RecInv, Places, Threads
<1>3. Alone' /\ BootOK'
  BY DEF Alone, BootOK
<1>4. ASSUME NEW q \in Copies'
      PROVE  /\ PidFree(q)
             /\ failures = 0 /\ pc'[q.id] = "past" => Settled(q)
  <2>1. q \in Copies \/ (q = r /\ r # NoRec)
    BY StepCopies
  <2>2. q.id \in Execs /\ q \in LaunchRecord
    BY <1>4, CopiesMembers DEF TypeInv, TypeOK, LaunchRecord, Copies
  <2>3. pc'[q.id] = "past" => pc[q.id] = "past" /\ q.id # t
    BY <1>1, <2>2 DEF Threads
  <2>4. CASE q \in Copies
    BY <2>3, <2>4 DEF RecInv, PidsFree, UpOK
  <2>5. CASE q = r /\ \E x \in Copies : Moves(r, x)
    <3>1. PICK x \in Copies : Moves(r, x)
      BY <2>5
    <3>2. PidFree(x) /\ (failures = 0 /\ pc[x.id] = "past" => Settled(x)) /\ x.id = r.id
      BY <3>1 DEF RecInv, PidsFree, UpOK, Moves
    <3> QED BY <2>3, <2>5, <3>1, <3>2, MovesSettled
  <2>6. CASE q = r /\ t \in Execs /\ r.id = t /\ PidFree(r)
    BY <2>3, <2>6
  <2> QED BY <2>1, <2>4, <2>5, <2>6
<1>5. PidsFree' /\ UpOK'
  BY <1>4 DEF PidsFree, UpOK, PidFree, Settled
<1> QED BY <1>2, <1>3, <1>5 DEF RecInv
(* The record of a launch that has not spawned has no PID. *)
LEMMA OwnRecord ==
  ASSUME IInv, NEW e \in Execs, pc[e] \in Launching
  PROVE  rec[e] \in LaunchRecord /\ rec[e].id = e /\ rec[e].pid = NoPid
<1>1. rec[e] \in LaunchRecord /\ rec[e].id = e /\ rec[e] # NoRec /\ e \in Threads
  BY DEF IInv, TypeInv, TypeOK, HoldsRec, Threads
<1>2. rec[e] \in Copies
  BY <1>1 DEF Copies
<1>3. rec[e].pid # NoPid => pc[e] \in Spawned
  BY <1>1, <1>2 DEF IInv, CopyOK, CopyIn
<1> QED BY <1>1, <1>3 DEF Launching, Spawned

(* A step of StartLaunch hands on its own record, where it belongs. *)
LaunchStep(e) ==
  \E from, to, r, w :
    /\ Step(e, from, to, r, w)
    /\ UNCHANGED <<store, todo, mode, crashes, failures>>
    /\ PlaceOK(r, to) /\ to # "past" /\ r.id = e /\ PidFree(r)

LEMMA LaunchPlaced ==
  ASSUME IInv, Places, NEW e \in Execs, Launch(e)
  PROVE  LaunchStep(e)
<1>1. ASSUME NEW from, NEW to, NEW r, NEW w, Step(e, from, to, r, w),
             UNCHANGED <<todo, db, mode, crashes>>,
             PlaceOK(r, to), to # "past", r.id = e, PidFree(r)
      PROVE  LaunchStep(e)
  BY <1>1 DEF LaunchStep, db
<1>2. ASSUME pc[e] \in Launching
      PROVE  /\ rec[e] \in LaunchRecord /\ rec[e].id = e /\ rec[e].pid = NoPid
             /\ PlaceOK(rec[e], pc[e])
  BY <1>2, OwnRecord DEF Places
<1>3. ASSUME NEW r \in LaunchRecord, r.id = e, NEW s \in LaunchStates
      PROVE  LET n == TransitionTo(r, s)
             IN  /\ n \in LaunchRecord /\ n.id = e /\ n.pid = r.pid
                 /\ IsTransitionAllowed(r.state, s) => n.state = s
  BY <1>3, TransitionFacts
<1>4. {"Preparing", "Failed", "Validated", "Launching", "Terminating", "Terminated", "Starting"}
         \subseteq LaunchStates
  BY DEF LaunchStates, TerminalStates
<1>5. /\ IsTransitionAllowed("Pending", "Preparing") /\ IsTransitionAllowed("Preparing", "Validated")
      /\ IsTransitionAllowed("Validated", "Launching") /\ IsTransitionAllowed("Launching", "Starting")
  BY DEF IsTransitionAllowed, AllowedTransitions, LaunchStates, TerminalStates
<1>6. CASE InitializeRecord(e)
  <2>1. Step(e, "none", "validate", NewRecord(e), <<"ExecutionCreated", "save">>)
    BY <1>6 DEF InitializeRecord
  <2>2. NewRecord(e).id = e /\ PidFree(NewRecord(e)) /\ PlaceOK(NewRecord(e), "validate")
    BY DEF NewRecord, PidFree, PlaceOK
  <2> QED BY <1>1, <1>6, <2>1, <2>2 DEF InitializeRecord
<1>7. CASE ValidationFails(e)
  <2> DEFINE n == TransitionTo(TransitionTo(rec[e], "Preparing"), "Failed")
  <2>1. Step(e, "validate", "return", n, <<"save", "ValidationFailed">>)
    BY <1>7 DEF ValidationFails
  <2>2. pc[e] \in Launching
    BY <2>1 DEF Step, Launching
  <2>3. n.id = e /\ n.pid = NoPid
    <3> DEFINE q == TransitionTo(rec[e], "Preparing")
    <3>1. q \in LaunchRecord /\ q.id = e /\ q.pid = NoPid
      BY <1>2, <1>3, <1>4, <2>2
    <3> HIDE DEF q
    <3>2. LET m == TransitionTo(q, "Failed") IN m.id = e /\ m.pid = NoPid
      BY <1>3, <1>4, <3>1
    <3> QED BY <3>2 DEF q
  <2> HIDE DEF n
  <2> QED BY <1>1, <1>7, <2>1, <2>3 DEF ValidationFails, PlaceOK, PidFree
<1>8. CASE ValidationPasses(e)
  <2> DEFINE n == TransitionTo(rec[e], "Preparing")
  <2>1. Step(e, "validate", "prepare", n, <<"save", "ValidationPassed">>)
    BY <1>8 DEF ValidationPasses
  <2>2. pc[e] = "validate" /\ pc[e] \in Launching
    BY <2>1 DEF Step, Launching
  <2>3. n.id = e /\ n.pid = NoPid /\ n.state = "Preparing"
    BY <1>2, <1>3, <1>4, <1>5, <2>2 DEF PlaceOK
  <2> HIDE DEF n
  <2> QED BY <1>1, <1>8, <2>1, <2>3 DEF ValidationPasses, PlaceOK, PidFree
<1>9. CASE PreparationFails(e)
  <2> DEFINE n == TransitionTo(rec[e], "Failed")
  <2>1. Step(e, "prepare", "return", n, <<"save", "PreparationFailed">>)
    BY <1>9 DEF PreparationFails
  <2>2. pc[e] \in Launching
    BY <2>1 DEF Step, Launching
  <2>3. n.id = e /\ n.pid = NoPid
    BY <1>2, <1>3, <1>4, <2>2
  <2> HIDE DEF n
  <2> QED BY <1>1, <1>9, <2>1, <2>3 DEF PreparationFails, PlaceOK, PidFree
<1>10. CASE PreparationPasses(e)
  <2> DEFINE q == [rec[e] EXCEPT !.prepared = TRUE]
             n == TransitionTo(q, "Validated")
  <2>1. Step(e, "prepare", "launching", n, <<"save", "PreparationPassed">>)
    BY <1>10 DEF PreparationPasses
  <2>2. pc[e] = "prepare" /\ pc[e] \in Launching
    BY <2>1 DEF Step, Launching
  <2>3. q \in LaunchRecord /\ q.id = e /\ q.pid = NoPid /\ q.state = "Preparing"
    BY <1>2, <2>2 DEF PlaceOK, LaunchRecord
  <2> HIDE DEF q
  <2>4. n.id = e /\ n.pid = NoPid /\ n.state = "Validated"
    BY <1>3, <1>4, <1>5, <2>3
  <2> HIDE DEF n
  <2> QED BY <1>1, <1>10, <2>1, <2>4 DEF PreparationPasses, PlaceOK, PidFree
<1>11. CASE RecordLaunching(e)
  <2> DEFINE n == TransitionTo(rec[e], "Launching")
  <2>1. Step(e, "launching", "execute", n, <<"save">>)
    BY <1>11 DEF RecordLaunching
  <2>2. pc[e] = "launching" /\ pc[e] \in Launching
    BY <2>1 DEF Step, Launching
  <2>3. n.id = e /\ n.pid = NoPid /\ n.state = "Launching"
    BY <1>2, <1>3, <1>4, <1>5, <2>2 DEF PlaceOK
  <2> HIDE DEF n
  <2> QED BY <1>1, <1>11, <2>1, <2>3 DEF RecordLaunching, PlaceOK, PidFree
<1>12. CASE CompleteDryRun(e)
  <2> DEFINE n == TransitionTo(TransitionTo(rec[e], "Terminating"), "Terminated")
  <2>1. Step(e, "execute", "return", n, <<"save", "DryRunCompleted">>)
    BY <1>12 DEF CompleteDryRun
  <2>2. pc[e] \in Launching
    BY <2>1 DEF Step, Launching
  <2>3. n.id = e /\ n.pid = NoPid
    <3> DEFINE q == TransitionTo(rec[e], "Terminating")
    <3>1. q \in LaunchRecord /\ q.id = e /\ q.pid = NoPid
      BY <1>2, <1>3, <1>4, <2>2
    <3> HIDE DEF q
    <3>2. LET m == TransitionTo(q, "Terminated") IN m.id = e /\ m.pid = NoPid
      BY <1>3, <1>4, <3>1
    <3> QED BY <3>2 DEF q
  <2> HIDE DEF n
  <2> QED BY <1>1, <1>12, <2>1, <2>3 DEF CompleteDryRun, PlaceOK, PidFree
<1>13. CASE SpawnFails(e)
  <2> DEFINE n == TransitionTo(rec[e], "Failed")
  <2>1. Step(e, "execute", "return", n, <<"save", "RuntimeSpawnFailed">>)
    BY <1>13 DEF SpawnFails
  <2>2. pc[e] \in Launching
    BY <2>1 DEF Step, Launching
  <2>3. n.id = e /\ n.pid = NoPid
    BY <1>2, <1>3, <1>4, <2>2
  <2> HIDE DEF n
  <2> QED BY <1>1, <1>13, <2>1, <2>3 DEF SpawnFails, PlaceOK, PidFree
<1>14. ASSUME NEW p \in Pids, Spawn(e, p)
       PROVE  LaunchStep(e)
  <2> DEFINE q == [rec[e] EXCEPT !.pid = p]
             n == TransitionTo(q, "Starting")
  <2>1. Step(e, "execute", "return", n, <<"save", "RuntimeSpawned">>)
    BY <1>14 DEF Spawn
  <2>2. pc[e] = "execute" /\ pc[e] \in Launching
    BY <2>1 DEF Step, Launching
  <2>3. q \in LaunchRecord /\ q.id = e /\ q.state = "Launching"
    BY <1>2, <2>2 DEF PlaceOK, LaunchRecord
  <2> HIDE DEF q
  <2>4. n.id = e /\ n.state = "Starting"
    BY <1>3, <1>4, <1>5, <2>3
  <2> HIDE DEF n
  <2> QED BY <1>1, <1>14, <2>1, <2>4 DEF Spawn, PlaceOK, PidFree, MidFlight
<1> QED
  BY <1>6, <1>7, <1>8, <1>9, <1>10, <1>11, <1>12, <1>13, <1>14 DEF Launch

(* Launches and handlers run only while the server does. *)
LEMMA LaunchRecovered ==
  ASSUME IInv, TypeInv', RecInv, NEW e \in Execs, Launch(e)
  PROVE  RecInv'
<1>0. e \in Threads /\ e # Boot /\ TypeInv
  BY ThreadsAssumption DEF Threads, IInv
<1>1. PICK from, to, r, w :
        /\ Step(e, from, to, r, w)
        /\ UNCHANGED <<store, todo, mode, crashes, failures>>
        /\ PlaceOK(r, to) /\ to # "past" /\ r.id = e /\ PidFree(r)
  BY LaunchPlaced DEF LaunchStep, RecInv
<1>2. mode = "up"
  <2>1. InitializeRecord(e) \/ (pc[e] \in Launching /\ mode # "down")
    BY DEF Launch, ValidationFails, ValidationPasses, PreparationFails, PreparationPasses,
           RecordLaunching, CompleteDryRun, SpawnFails, Spawn, Step, Launching
  <2>2. CASE InitializeRecord(e)
    BY <2>2 DEF InitializeRecord
  <2>3. CASE pc[e] \in Launching /\ mode # "down"
    <3>1. mode \in {"up", "boot"} /\ pc[e] \notin {"none", "past", "idle"}
      BY <1>0, <2>3 DEF TypeInv, TypeOK, Launching
    <3> QED BY <1>0, <3>1 DEF RecInv, Alone
  <2> QED BY <2>1, <2>2, <2>3
<1> QED BY <1>0, <1>1, <1>2, StepUp

LEMMA RequestRecovered ==
  ASSUME IInv, TypeInv', RecInv, NEW h \in Handlers, Request(h)
  PROVE  RecInv'
<1>0. h \in Threads /\ h \notin Execs /\ h # Boot /\ TypeInv /\ TypeOK
  BY ThreadsAssumption DEF Threads, IInv, TypeInv
<1>1. ASSUME NEW es \in SUBSET Recorded, BeginGet(h, es)
      PROVE  RecInv'
  <2>1. /\ UNCHANGED <<store, mode, crashes, failures>> /\ mode = "up"
        /\ \A u \in Threads : /\ rec'[u] = IF u = h THEN NoRec ELSE rec[u]
                              /\ pc'[u] = IF u = h THEN "reconcile" ELSE pc[u]
                              /\ todo'[u] = IF u = h THEN {store[e] : e \in es} ELSE todo[u]
    BY <1>0, <1>1 DEF BeginGet, Step, db, TypeOK
  <2>2. ASSUME NEW q \in Copies' PROVE q \in Copies
    <3>1. /\ q # NoRec
          /\ \/ \E e \in Execs : q = store'[e]
             \/ \E u \in Threads : q = rec'[u]
             \/ \E u \in Threads : q \in todo'[u]
      BY DEF Copies
    <3>2. \A x \in {store[e] : e \in es} : \E e \in Execs : x = store[e]
      BY DEF Recorded
    <3> QED BY <1>0, <2>1, <3>1, <3>2, CopiesMembers
  <2>3. \A e \in Execs : pc'[e] = pc[e] /\ rec'[e] = rec[e]
    BY <1>0, <2>1 DEF Threads
  <2> QED BY <1>0, <2>1, <2>2, <2>3, MoveCopies
<1>2. ASSUME NEW e \in Execs, TerminateLaunch(h, e)
      PROVE  RecInv'
  <2> DEFINE n == TransitionTo(store[e], "Terminating")
  <2>1. /\ Step(h, "idle", "kill", n, <<"save", "TerminationRequested">>)
        /\ UNCHANGED <<store, todo, mode, crashes, failures>>
        /\ store[e] # NoRec /\ mode = "up"
    BY <1>2 DEF TerminateLaunch, Terminable, Recorded, db
  <2>2. store[e] \in Copies /\ store[e] \in LaunchRecord /\ "Terminating" \in LaunchStates \ MidFlight
    BY <1>0, <2>1, CopiesMembers DEF LaunchStates, MidFlight
  <2>3. Moves(n, store[e])
    BY <2>2, TransitionMoves
  <2> HIDE DEF n
  <2> QED BY <1>0, <2>1, <2>2, <2>3, StepUp
<1>3. ASSUME NEW e \in Execs, GetOne(h, e) PROVE RecInv'
  BY <1>1, <1>3 DEF GetOne
<1>4. ASSUME GetAll(h) PROVE RecInv'
  BY <1>1, <1>4 DEF GetAll
<1> QED BY <1>2, <1>3, <1>4 DEF Request

LEMMA ServingRecovered ==
  ASSUME IInv, TypeInv', RecInv, NEW h \in Handlers, Serving(h)
  PROVE  RecInv'
<1>0. h \in Threads /\ h \notin Execs /\ h # Boot /\ TypeInv /\ TypeOK
  BY ThreadsAssumption DEF Threads, IInv, TypeInv
<1>1. mode = "up" /\ UNCHANGED <<store, mode, crashes, failures>>
  <2>1. /\ pc[h] \in {"reconcile", "kill"} /\ mode # "down"
        /\ UNCHANGED <<store, mode, crashes, failures>>
    BY DEF Serving, ReconcileExecution, EndGet, TerminateWithoutRuntime, KillRuntime,
           KillFails, Step, db
  <2>2. mode \in {"up", "boot"} /\ pc[h] \notin {"none", "past", "idle"}
    BY <1>0, <2>1 DEF TypeOK
  <2> QED BY <1>0, <2>1, <2>2 DEF RecInv, Alone
<1>2. ASSUME NEW r \in todo[h], ReconcileExecution(h, r)
      PROVE  RecInv'
  <2> DEFINE n == Reconcile(r, Observed(r), r.id \in late).rec
  <2>1. r \in LaunchRecord /\ r \in Copies
    <3>1. r \in LaunchRecord
      BY <1>0 DEF TypeOK
    <3> QED BY <1>0, <3>1, CopiesMembers, RecAssumption
  <2>2. Observed(r) \in Observation /\ (r.id \in late) \in BOOLEAN
    BY ObservedType
  <2>3. Moves(n, r)
    BY <2>1, <2>2, ReconcileMoves
  <2> HIDE DEF n
  <2>4. \A u \in Threads : todo'[u] \subseteq todo[u]
    BY <1>0, <1>2 DEF ReconcileExecution, TypeOK
  <2>5. \E m, w : /\ Step(h, "reconcile", "reconcile", m, w)
                  /\ m = NoRec \/ m = n
    BY <1>2, ReconcileStep DEF n
  <2> QED BY <1>0, <1>1, <2>1, <2>3, <2>4, <2>5, StepUp
<1>3. CASE EndGet(h)
  <2>1. Step(h, "reconcile", "idle", NoRec, <<>>) /\ UNCHANGED todo
    BY <1>3 DEF EndGet
  <2> QED BY <1>0, <1>1, <2>1, StepUp
<1>4. CASE TerminateWithoutRuntime(h) \/ KillRuntime(h) \/ KillFails(h)
  <2>1. /\ UNCHANGED todo /\ pc[h] = "kill"
        /\ \E m, w : /\ Step(h, "kill", "return", m, w)
                     /\ m = Killed(rec[h]) \/ m = rec[h]
    BY <1>4 DEF TerminateWithoutRuntime, KillRuntime, KillFails
  <2>2. rec[h] \in LaunchRecord /\ rec[h] \in Copies
    BY <1>0, <2>1, CopiesMembers DEF TypeInv, HoldsRec, TypeOK
  <2>3. Moves(Killed(rec[h]), rec[h]) /\ Moves(rec[h], rec[h])
    BY <2>2, KilledMoves DEF Moves
  <2> QED BY <1>0, <1>1, <2>1, <2>2, <2>3, StepUp
<1> QED BY <1>2, <1>3, <1>4 DEF Serving

LEMMA ReturnRecovered ==
  ASSUME IInv, TypeInv', RecInv, NEW t \in Threads, Return(t)
  PROVE  RecInv'
<1>1. PICK to \in {"done", "idle"} :
        /\ Step(t, "return", to, NoRec, <<>>) /\ t # Boot
        /\ UNCHANGED <<store, todo, mode, crashes, failures>>
  BY DEF Return, db
<1>2. mode = "up"
  <2>1. mode \in {"up", "boot"} /\ pc[t] \notin {"none", "past", "idle"}
    BY <1>1 DEF IInv, TypeInv, TypeOK, Step
  <2> QED BY <1>1, <2>1 DEF RecInv, Alone
<1>3. PlaceOK(NoRec, to) /\ to # "past"
  BY DEF PlaceOK
<1> QED BY <1>1, <1>2, <1>3, StepUp DEF IInv

(* A write moves a copy.  That of the bootstrap's settled record is what   *)
(* its row was waiting for.                                                *)
LEMMA WriteRecovered ==
  ASSUME IInv, TypeInv', RecInv, NEW t \in Threads, DbWrite(t)
  PROVE  RecInv'
<1>0. TypeInv /\ TypeOK
  BY DEF IInv, TypeInv
<1>1. /\ rec[t] \in LaunchRecord /\ rec[t] # NoRec /\ out[t] # <<>> /\ mode # "down"
      /\ UNCHANGED <<pc, rec, todo, mode, crashes>>
      /\ \A u \in Threads : out'[u] = IF u = t THEN Tail(out[t]) ELSE out[u]
  BY <1>0 DEF DbWrite, TypeInv, HoldsRec, TypeOK
<1>2. \/ failures' = failures + 1 /\ UNCHANGED store
      \/ UNCHANGED <<failures, store>> /\ Head(out[t]) # "save"
      \/ /\ UNCHANGED failures /\ Head(out[t]) = "save"
         /\ \A e \in Execs : store'[e] = IF e = rec[t].id THEN rec[t] ELSE store[e]
  BY <1>0 DEF DbWrite, TypeOK
<1>3. failures' = 0 => failures = 0
  BY <1>0, <1>2, BoundsAssumption DEF TypeOK
<1>4. ASSUME NEW q \in Copies' PROVE q \in Copies
  <2>1. /\ q # NoRec
        /\ \/ \E e \in Execs : q = store'[e]
           \/ \E u \in Threads : q = rec'[u]
           \/ \E u \in Threads : q \in todo'[u]
    BY DEF Copies
  <2> QED BY <1>0, <1>1, <1>2, <2>1, CopiesMembers
<1>5. CASE mode = "up"
  BY <1>0, <1>1, <1>3, <1>4, <1>5, MoveCopies
<1>6. CASE mode = "boot"
  <2>1. t = Boot
    BY <1>1, <1>6 DEF RecInv, Alone
  <2>2. Places' /\ PidsFree' /\ Alone' /\ UpOK'
    BY <1>1, <1>4, <1>6 DEF RecInv, Places, PidsFree, PidFree, Alone, UpOK
  <2>3. ASSUME failures' = 0
        PROVE  /\ Settled(rec[Boot])
               /\ \A e \in Execs :
                    store'[e] # NoRec =>
                      Settled(store'[e]) \/ store'[e] \in todo[Boot] \/ AboutToSave(e)'
    <3>1. /\ failures = 0 /\ Settled(rec[Boot])
          /\ \A e \in Execs :
               store[e] # NoRec =>
                 Settled(store[e]) \/ store[e] \in todo[Boot] \/ AboutToSave(e)
      BY <1>1, <1>3, <1>6, <2>1, <2>3 DEF RecInv, BootOK
    <3>2. CASE Head(out[t]) = "save"
      <4>1. \A e \in Execs : store'[e] = IF e = rec[t].id THEN rec[t] ELSE store[e]
        BY <1>0, <1>2, <2>3, <3>1, <3>2
      <4>2. \A e \in Execs : e # rec[t].id => ~AboutToSave(e)
        BY <2>1 DEF AboutToSave
      <4> QED BY <2>1, <3>1, <4>1, <4>2
    <3>3. CASE Head(out[t]) # "save"
      <4>1. \A e \in Execs : ~AboutToSave(e) /\ store'[e] = store[e]
        BY <1>2, <2>1, <3>3 DEF AboutToSave
      <4> QED BY <3>1, <4>1
    <3> QED BY <3>2, <3>3
  <2>4. BootOK'
    BY <1>1, <2>3 DEF BootOK, Settled
  <2> QED BY <2>2, <2>4 DEF RecInv
<1> QED BY <1>0, <1>1, <1>5, <1>6 DEF TypeOK
-----------------------------------------------------------------------------
(* Crash, restart, bootstrap. *)

LEMMA CrashRecovered ==
  ASSUME IInv, TypeInv', RecInv, Crash
  PROVE  RecInv'
<1>0. TypeInv
  BY DEF IInv
<1>1. /\ UNCHANGED store /\ mode' = "down"
      /\ \A u \in Threads : /\ rec'[u] = NoRec /\ todo'[u] = {}
                            /\ pc'[u] \in {"none", "past", "idle"}
  BY DEF Crash, db
<1>2. ASSUME NEW q \in Copies' PROVE PidFree(q)
  <2>1. /\ q # NoRec
        /\ \/ \E e \in Execs : q = store'[e]
           \/ \E u \in Threads : q = rec'[u]
           \/ \E u \in Threads : q \in todo'[u]
    BY DEF Copies
  <2>2. q \in Copies
    BY <1>0, <1>1, <2>1, CopiesMembers
  <2> QED BY <2>2 DEF RecInv, PidsFree
<1>3. Places' /\ Alone'
  BY <1>1 DEF Places, PlaceOK, Alone, Threads
<1>4. PidsFree' /\ UpOK' /\ BootOK'
  BY <1>1, <1>2 DEF PidsFree, PidFree, UpOK, BootOK
<1> QED BY <1>3, <1>4 DEF RecInv

(* What the bootstrap does not list is closed. *)
LEMMA RestartRecovered ==
  ASSUME IInv, TypeInv', RecInv, Restart
  PROVE  RecInv'
<1>0. Boot \in Threads /\ Boot \notin Execs /\ TypeInv /\ TypeOK
  BY ThreadsAssumption DEF Threads, IInv, TypeInv
<1>1. /\ UNCHANGED <<store, rec, crashes, failures>> /\ mode = "down" /\ mode' = "boot"
      /\ \A u \in Threads :
           /\ pc'[u] = IF u = Boot THEN "recover" ELSE pc[u]
           /\ todo'[u] = IF u = Boot THEN {store[e] : e \in Recoverable} ELSE todo[u]
  BY <1>0 DEF Restart, db, TypeOK
<1>2. ASSUME NEW q \in Copies' PROVE PidFree(q)
  <2>1. /\ q # NoRec
        /\ \/ \E e \in Execs : q = store'[e]
           \/ \E u \in Threads : q = rec'[u]
           \/ \E u \in Threads : q \in todo'[u]
    BY DEF Copies
  <2>2. \A x \in {store[e] : e \in Recoverable} : \E e \in Execs : x = store[e]
    BY DEF Recoverable, Recorded
  <2>3. q \in Copies
    BY <1>0, <1>1, <2>1, <2>2, CopiesMembers
  <2> QED BY <2>3 DEF RecInv, PidsFree
<1>3. Places' /\ PidsFree' /\ Alone' /\ UpOK'
  <2>1. Places'
    BY <1>0, <1>1 DEF RecInv, Places, Threads
  <2>2. Alone' /\ UpOK'
    BY <1>1 DEF RecInv, Alone, UpOK
  <2> QED BY <1>2, <2>1, <2>2 DEF PidsFree, PidFree
<1>4. BootOK'
  <2>1. rec'[Boot] = NoRec
    BY <1>0, <1>1 DEF RecInv, Alone
  <2>2. ASSUME NEW e \in Execs, store[e] # NoRec
        PROVE  Settled(store[e]) \/ store[e] \in todo'[Boot]
    <3>1. CASE store[e].state \in TerminalStates
      BY <1>1, <3>1 DEF Settled, TerminalStates, MidFlight
    <3>2. CASE store[e].state \notin TerminalStates
      <4>1. e \in Recoverable
        BY <1>1, <2>2, <3>2 DEF Recoverable, Recorded
      <4> QED BY <1>0, <1>1, <4>1
    <3> QED BY <3>1, <3>2
  <2> QED BY <1>1, <2>1, <2>2 DEF BootOK, Settled
<1> QED BY <1>3, <1>4 DEF RecInv

LEMMA RecoverRecovered ==
  ASSUME IInv, TypeInv', RecInv, NEW r \in todo[Boot], RecoverExecution(r)
  PROVE  RecInv'
<1>0. Boot \in Threads /\ Boot \notin Execs /\ TypeInv /\ TypeOK
  BY ThreadsAssumption DEF Threads, IInv, TypeInv
<1>1. r \in LaunchRecord /\ r \in Copies
  <2>1. r \in LaunchRecord
    BY <1>0 DEF TypeOK
  <2> QED BY <1>0, <2>1, CopiesMembers, RecAssumption
<1>2. PICK n \in LaunchRecord, ev \in EventTypes :
        /\ Step(Boot, "recover", "recover", n, <<"save", ev>>)
        /\ n.id = r.id /\ Settled(n) /\ PidFree(n)
  BY <1>0, <1>1, RecoverSettles DEF RecInv, PidsFree
<1>3. /\ UNCHANGED <<store, mode, crashes, failures>> /\ mode # "down" /\ out[Boot] = <<>>
      /\ \A u \in Threads :
           /\ todo'[u] = IF u = Boot THEN todo[Boot] \ {r} ELSE todo[u]
           /\ rec'[u] = IF u = Boot THEN n ELSE rec[u]
           /\ pc'[u] = IF u = Boot THEN "recover" ELSE pc[u]
           /\ out'[u] = IF u = Boot THEN <<"save", ev>> ELSE out[u]
  BY <1>0, <1>2 DEF RecoverExecution, Step, db, TypeOK
<1>4. ASSUME NEW q \in Copies' PROVE q \in Copies \/ q = n
  <2>1. \A u \in Threads : todo'[u] \subseteq todo[u]
    BY <1>3
  <2> QED BY <1>0, <1>2, <1>3, <2>1, StepCopies
<1>5. Places'
  BY <1>0, <1>3 DEF RecInv, Places, Threads
<1>6. PidsFree'
  BY <1>2, <1>4 DEF RecInv, PidsFree, PidFree
<1>7. Alone'
  BY <1>0, <1>3 DEF RecInv, Alone
<1>8. ASSUME mode = "up", failures = 0, NEW q \in Copies', pc'[q.id] = "past"
      PROVE  Settled(q)
  <2>1. q.id \in Execs
    BY CopiesMembers, <1>1, <1>2, <1>4, <1>0 DEF LaunchRecord
  <2>2. pc[q.id] = "past"
    BY <1>0, <1>3, <1>8, <2>1 DEF Threads
  <2> QED BY <1>2, <1>4, <1>8, <2>2 DEF RecInv, UpOK
<1>9. UpOK'
  BY <1>3, <1>8 DEF UpOK, Settled
<1>10. BootOK'
  <2> SUFFICES ASSUME mode = "boot", failures = 0
               PROVE  /\ Settled(n)
                      /\ \A e \in Execs :
                           store[e] # NoRec =>
                             \/ Settled(store[e])
                             \/ store[e] \in todo'[Boot]
                             \/ AboutToSave(e)'
    BY <1>0, <1>3 DEF BootOK, Settled
  <2> SUFFICES ASSUME NEW e \in Execs, store[e] # NoRec, store[e] \in todo[Boot]
               PROVE  store[e] \in todo'[Boot] \/ AboutToSave(e)'
    BY <1>2, <1>3 DEF RecInv, BootOK, AboutToSave
  <2>1. CASE store[e] # r
    BY <1>0, <1>3, <2>1
  <2>2. CASE store[e] = r
    <3>1. n # NoRec /\ n.id = e
      BY <1>0, <1>2, <2>2, RecAssumption DEF TypeOK
    <3> QED BY <1>0, <1>3, <3>1 DEF AboutToSave
  <2> QED BY <2>1, <2>2
<1> QED BY <1>5, <1>6, <1>7, <1>9, <1>10 DEF RecInv

(* The server starts when every row has been settled. *)
LEMMA ServeRecovered ==
  ASSUME IInv, TypeInv', RecInv, Serve
  PROVE  RecInv'
<1>0. Boot \in Threads /\ Boot \notin Execs /\ TypeInv /\ TypeOK
  BY ThreadsAssumption DEF Threads, IInv, TypeInv
<1>1. /\ UNCHANGED <<store, todo, crashes, failures>> /\ mode # "down" /\ mode' = "up"
      /\ out[Boot] = <<>> /\ todo[Boot] = {}
      /\ \A u \in Threads : /\ rec'[u] = IF u = Boot THEN NoRec ELSE rec[u]
                            /\ pc'[u] = IF u = Boot THEN "idle" ELSE pc[u]
  BY <1>0 DEF Serve, Step, db, TypeOK
<1>2. Step(Boot, "recover", "idle", NoRec, <<>>)
  BY DEF Serve
<1>3. ASSUME NEW q \in Copies' PROVE q \in Copies
  <2>1. \A u \in Threads : todo'[u] \subseteq todo[u]
    BY <1>1
  <2> QED BY <1>0, <1>1, <1>2, <2>1, StepCopies
<1>4. Places' /\ PidsFree' /\ Alone' /\ BootOK'
  <2>1. Places'
    BY <1>0, <1>1 DEF RecInv, Places, Threads
  <2>2. PidsFree'
    BY <1>3 DEF RecInv, PidsFree, PidFree
  <2>3. Alone' /\ BootOK'
    BY <1>1 DEF Alone, BootOK
  <2> QED BY <2>1, <2>2, <2>3
<1>5. ASSUME failures = 0, NEW q \in Copies', pc'[q.id] = "past"
      PROVE  Settled(q)
  <2>1. CASE mode = "up"
    <3>1. q.id \in Execs
      BY <1>0, <1>3, CopiesMembers DEF LaunchRecord
    <3>2. pc[q.id] = "past"
      BY <1>0, <1>1, <1>5, <3>1 DEF Threads
    <3> QED BY <1>3, <1>5, <2>1, <3>2 DEF RecInv, UpOK
  <2>2. CASE mode = "boot"
    <3>1. /\ q # NoRec
          /\ \/ \E e \in Execs : q = store'[e]
             \/ \E u \in Threads : q = rec'[u]
             \/ \E u \in Threads : q \in todo'[u]
      BY DEF Copies
    <3>2. \A u \in Threads : rec'[u] = NoRec /\ todo'[u] = {}
      BY <1>1, <2>2 DEF RecInv, Alone
    <3>3. PICK e \in Execs : q = store[e]
      BY <1>1, <3>1, <3>2
    <3>4. ~AboutToSave(e) /\ store[e] \notin todo[Boot]
      BY <1>1 DEF AboutToSave
    <3> QED BY <1>5, <2>2, <3>1, <3>3, <3>4 DEF RecInv, BootOK
  <2> QED BY <1>0, <1>1, <2>1, <2>2 DEF TypeOK
<1>6. UpOK'
  BY <1>1, <1>5 DEF UpOK, Settled
<1> QED BY <1>4, <1>6 DEF RecInv

LEMMA QuietRecovered ==
  ASSUME RecInv, UNCHANGED <<db, thread, mode, crashes>>
  PROVE  RecInv'
<1>1. Copies' = Copies
  BY DEF Copies, db, thread
<1>2. Places' /\ PidsFree' /\ Alone'
  BY <1>1 DEF RecInv, Places, PidsFree, PidFree, Alone, thread
<1>3. UpOK' /\ BootOK'
  BY <1>1 DEF RecInv, UpOK, BootOK, AboutToSave, Settled, db, thread
<1> QED BY <1>2, <1>3 DEF RecInv

LEMMA HostRecovered ==
  ASSUME RecInv, Host
  PROVE  RecInv'
<1>1. UNCHANGED <<db, thread, mode, crashes>>
  BY DEF Host, CreateSocket, Exit, ForeignStart, DeadlinePasses
<1> QED BY <1>1, QuietRecovered

LEMMA InitRecovered == Init => RecInv
<1> SUFFICES ASSUME Init PROVE RecInv
  OBVIOUS
<1>1. Copies = {}
  BY DEF Init, Copies
<1>2. \A t \in Threads : pc[t] \in {"none", "idle"}
  BY DEF Init
<1>3. Places
  BY <1>2 DEF Places, PlaceOK, Threads
<1> QED BY <1>1, <1>2, <1>3 DEF Init, RecInv, PidsFree, Alone, UpOK, BootOK

LEMMA NextRecovered == IInv /\ RecInv /\ [Next]_vars => (IInv /\ RecInv)'
<1> SUFFICES ASSUME IInv, RecInv, [Next]_vars PROVE (IInv /\ RecInv)'
  OBVIOUS
<1>1. IInv' /\ TypeInv'
  BY NextIInv DEF IInv
<1>2. CASE UNCHANGED vars
  BY <1>1, <1>2, QuietRecovered DEF vars, db, thread
<1>3. CASE Next
  <2>1. CASE Bootstrap
    BY <1>1, <2>1, RecoverRecovered, ServeRecovered DEF Bootstrap
  <2>2. CASE ~Bootstrap
    BY <1>1, <1>3, <2>2, LaunchRecovered, RequestRecovered, ServingRecovered, ReturnRecovered,
       WriteRecovered, CrashRecovered, RestartRecovered, HostRecovered
    DEF Next
  <2> QED BY <2>1, <2>2
<1> QED BY <1>2, <1>3

-----------------------------------------------------------------------------
(* Once the server runs after a bootstrap and as long as no write fails,   *)
(* nobody, not even a request that read its copy long ago, holds a record  *)
(* of an earlier control plane with a launch in progress or, if it is open,*)
(* with an old epoch (bootstrap.go:45-127).                                *)
THEOREM RecoveredHolds == Spec => []Recovered
<1>1. Init => IInv /\ RecInv
  BY InitIInv, InitRecovered
<1>2. IInv /\ RecInv /\ [Next]_vars => (IInv /\ RecInv)'
  BY NextRecovered
<1>3. IInv /\ RecInv => Recovered
  BY DEF RecInv, UpOK, Recovered, Settled
<1> QED BY <1>1, <1>2, <1>3, PTL DEF Spec
=============================================================================
