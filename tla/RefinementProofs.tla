-------------------------- MODULE RefinementProofs --------------------------
(***************************************************************************)
(* ControlPlane implements ManagedExecution, for any constants.  The save  *)
(* of a record is the step that needs an argument: the thread read its     *)
(* record long ago, and the row it overwrites has moved on.                *)
(***************************************************************************)
EXTENDS ControlPlaneProofs, ControlPlaneRefines

-----------------------------------------------------------------------------
(* What a copy of a record owes to the launch of its execution and to the  *)
(* saved row.  After a crash the copies are of saved records, and their    *)
(* PIDs never change again.                                                *)

BegunIn(r, c, st) ==
  /\ c[r.id] # "none"
  /\ c[r.id] = "past" => st[r.id] # NoRec /\ r.pid = st[r.id].pid

BegunInv == \A r \in Copies : BegunIn(r, pc, store)

(* r is a version of a record that somebody had already. *)
Known(r) == \E q \in Copies : q.id = r.id /\ q.pid = r.pid

(* Launches only move on. *)
Onward ==
  \A e \in Execs : pc[e] # "none" => pc'[e] # "none" /\ (pc'[e] = "past" => pc[e] = "past")

LEMMA KnownBegun ==
  ASSUME IInv, BegunInv, Onward, UNCHANGED store,
         NEW r \in LaunchRecord, Known(r)
  PROVE  BegunIn(r, pc', store')
<1>1. PICK q \in Copies : q.id = r.id /\ q.pid = r.pid
  BY DEF Known
<1>2. BegunIn(q, pc, store) /\ q.id \in Execs
  BY <1>1 DEF BegunInv, LaunchRecord
<1> QED BY <1>1, <1>2 DEF BegunIn, Onward

(* A step of a thread that hands on a known record, or that of a launch of *)
(* its own which goes on.                                                  *)
LEMMA StepBegun ==
  ASSUME IInv, TypeInv', BegunInv,
         NEW t \in Threads, NEW from, NEW to, NEW r \in LaunchRecord \cup {NoRec}, NEW w,
         Step(t, from, to, r, w), UNCHANGED store,
         \A u \in Threads : todo'[u] \subseteq todo[u],
         t \in Execs => to \notin {"none", "past"},
         r # NoRec => Known(r) \/ (t \in Execs /\ r.id = t)
  PROVE  BegunInv'
<1>0. TypeInv
  BY DEF IInv
<1>1. \A u \in Threads : pc'[u] = IF u = t THEN to ELSE pc[u]
  BY <1>0 DEF Step, TypeInv, TypeOK
<1>2. Onward
  BY <1>1 DEF Onward, Threads
<1>3. ASSUME NEW q \in Copies' PROVE BegunIn(q, pc', store')
  <2>1. q \in Copies \/ (q = r /\ r # NoRec)
    BY <1>0, StepCopies
  <2>2. CASE q \in Copies
    BY <1>0, <1>2, <2>2, CopiesMembers, KnownBegun DEF Known
  <2>3. CASE q = r /\ r # NoRec /\ Known(r)
    BY <1>2, <2>3, KnownBegun
  <2>4. CASE q = r /\ r # NoRec /\ t \in Execs /\ r.id = t
    BY <1>1, <2>4 DEF BegunIn
  <2> QED BY <2>1, <2>2, <2>3, <2>4
<1> QED BY <1>3 DEF BegunInv

(* Steps that only move records. *)
LEMMA QuietBegun ==
  ASSUME IInv, TypeInv', BegunInv, Onward, UNCHANGED store,
         \A q \in Copies' : q \in Copies
  PROVE  BegunInv'
<1> USE DEF IInv
<1>1. ASSUME NEW q \in Copies' PROVE BegunIn(q, pc', store')
  BY CopiesMembers, KnownBegun DEF Known
<1> QED BY <1>1 DEF BegunInv

(* A record derived from a copy is known. *)
LEMMA DerivedKnown ==
  ASSUME TypeInv, NEW r \in Copies, NEW n, n.id = r.id, n.pid = r.pid
  PROVE  Known(n)
BY DEF Known

(* The steps of StartLaunch before the spawn, as far as they show. *)
LaunchProceeds(e) ==
  \E to \in (Launching \ {"validate"}) \cup {"return"} :
    /\ mode # "down"
    /\ pc[e] \in Launching
    /\ pc' = [pc EXCEPT ![e] = to]
    /\ UNCHANGED <<store, owner, pst, mode>>

LEMMA ProceedShows ==
  ASSUME NEW e \in Execs, Launch(e), ~InitializeRecord(e), ~\E p \in Pids : Spawn(e, p)
  PROVE  LaunchProceeds(e)
BY DEF Launch, ValidationFails, ValidationPasses, PreparationFails, PreparationPasses,
       RecordLaunching, CompleteDryRun, SpawnFails, Step, LaunchProceeds, Launching, db, host

LEMMA LaunchBegun ==
  ASSUME IInv, TypeInv', BegunInv, NEW e \in Execs, Launch(e)
  PROVE  BegunInv'
<1>0. e \in Threads /\ TypeInv
  BY DEF Threads, IInv
<1>1. CASE InitializeRecord(e)
  <2>1. /\ Step(e, "none", "validate", NewRecord(e), <<"ExecutionCreated", "save">>)
        /\ UNCHANGED <<store, todo>>
    BY <1>1 DEF InitializeRecord, db
  <2> QED BY <1>0, <2>1, NewRecordFacts, StepBegun
<1>2. CASE \E p \in Pids : Spawn(e, p)
  <2>1. PICK p \in Pids : Spawn(e, p)
    BY <1>2
  <2> DEFINE n == TransitionTo([rec[e] EXCEPT !.pid = p], "Starting")
  <2>2. /\ Step(e, "execute", "return", n, <<"save", "RuntimeSpawned">>)
        /\ UNCHANGED <<store, todo>>
    BY <2>1 DEF Spawn, db
  <2>3. rec[e] \in LaunchRecord /\ rec[e].id = e
    BY <1>0, <2>2 DEF Step, TypeInv, HoldsRec, TypeOK, Launching
  <2>4. n \in LaunchRecord /\ n.id = e
    <3>1. /\ [rec[e] EXCEPT !.pid = p] \in LaunchRecord
          /\ [rec[e] EXCEPT !.pid = p].id = e
          /\ "Starting" \in LaunchStates
      BY <2>3 DEF LaunchRecord, LaunchStates
    <3> QED BY <3>1, TransitionFacts
  <2> HIDE DEF n
  <2> QED BY <1>0, <2>2, <2>4, StepBegun
<1>3. CASE Proceed(e) /\ ~InitializeRecord(e) /\ ~\E p \in Pids : Spawn(e, p)
  <2>1. PICK from \in Launching, to \in PCs, r \in LaunchRecord, w \in Seq(Writes) :
          /\ Step(e, from, to, r, w)
          /\ Derived(r, rec[e])
          /\ UNCHANGED <<todo, db, host, mode, crashes>>
    BY <1>3 DEF Proceed
  <2>2. rec[e] \in LaunchRecord /\ rec[e].id = e
    BY <1>0, <2>1 DEF Step, TypeInv, HoldsRec, TypeOK
  <2>3. to \notin {"none", "past"}
    <3>1. pc'[e] = to
      BY <1>0, <2>1 DEF Step, TypeInv, TypeOK
    <3>2. pc'[e] \notin {"none", "past"}
      BY <1>0, <1>3, ProceedShows DEF LaunchProceeds, Launching, TypeInv, TypeOK
    <3> QED BY <3>1, <3>2
  <2> QED BY <1>0, <2>1, <2>2, <2>3, StepBegun DEF Derived, db
<1> QED BY <1>0, <1>1, <1>2, <1>3, LaunchShape

LEMMA RequestBegun ==
  ASSUME IInv, TypeInv', BegunInv, NEW h \in Handlers, Request(h)
  PROVE  BegunInv'
<1>0. h \in Threads /\ h \notin Execs /\ TypeInv
  BY ThreadsAssumption DEF Threads, IInv
<1>1. ASSUME NEW es \in SUBSET Recorded, BeginGet(h, es)
      PROVE  BegunInv'
  <2>1. /\ UNCHANGED store
        /\ \A u \in Threads : /\ rec'[u] = IF u = h THEN NoRec ELSE rec[u]
                              /\ pc'[u] = IF u = h THEN "reconcile" ELSE pc[u]
                              /\ todo'[u] = IF u = h THEN {store[e] : e \in es} ELSE todo[u]
    BY <1>0, <1>1 DEF BeginGet, Step, db, TypeInv, TypeOK
  <2>2. Onward
    BY <1>0, <2>1 DEF Onward, Threads
  <2>3. ASSUME NEW q \in Copies' PROVE q \in Copies
    <3>1. /\ q # NoRec
          /\ \/ \E e \in Execs : q = store'[e]
             \/ \E u \in Threads : q = rec'[u]
             \/ \E u \in Threads : q \in todo'[u]
      BY DEF Copies
    <3>2. \A x \in {store[e] : e \in es} : \E e \in Execs : x = store[e]
      BY DEF Recorded
    <3> QED BY <1>0, <2>1, <3>1, <3>2, CopiesMembers
  <2> QED BY <2>1, <2>2, <2>3, QuietBegun
<1>2. ASSUME NEW e \in Execs, TerminateLaunch(h, e)
      PROVE  BegunInv'
  <2> DEFINE n == TransitionTo(store[e], "Terminating")
  <2>1. /\ Step(h, "idle", "kill", n, <<"save", "TerminationRequested">>)
        /\ UNCHANGED <<store, todo>>
        /\ store[e] # NoRec
    BY <1>2 DEF TerminateLaunch, Terminable, Recorded, db
  <2>2. store[e] \in Copies /\ store[e] \in LaunchRecord /\ "Terminating" \in LaunchStates
    BY <1>0, <2>1, CopiesMembers DEF LaunchStates
  <2>3. n \in LaunchRecord /\ Known(n)
    BY <1>0, <2>2, TransitionFacts, DerivedKnown
  <2> HIDE DEF n
  <2> QED BY <1>0, <2>1, <2>3, StepBegun
<1>3. ASSUME NEW e \in Execs, GetOne(h, e) PROVE BegunInv'
  BY <1>1, <1>3 DEF GetOne
<1>4. ASSUME GetAll(h) PROVE BegunInv'
  BY <1>1, <1>4 DEF GetAll
<1> QED BY <1>2, <1>3, <1>4 DEF Request

LEMMA ServingBegun ==
  ASSUME IInv, TypeInv', BegunInv, NEW h \in Handlers, Serving(h)
  PROVE  BegunInv'
<1>0. h \in Threads /\ h \notin Execs /\ TypeInv /\ TypeOK
  BY ThreadsAssumption DEF Threads, IInv, TypeInv
<1>1. ASSUME NEW r \in todo[h], ReconcileExecution(h, r)
      PROVE  BegunInv'
  <2>1. r \in LaunchRecord
    BY <1>0 DEF TypeOK
  <2> DEFINE n == Reconcile(r, Observed(r), r.id \in late).rec
  <2>2. Observed(r) \in Observation /\ (r.id \in late) \in BOOLEAN
    BY ObservedType
  <2>3. n \in LaunchRecord /\ n.id = r.id /\ n.pid = r.pid
    BY <2>1, <2>2, ReconcileFacts
  <2> HIDE DEF n
  <2>4. Known(n)
    BY <1>0, <2>1, <2>3, CopiesMembers, RecAssumption, DerivedKnown
  <2>5. UNCHANGED store /\ \A u \in Threads : todo'[u] \subseteq todo[u]
    BY <1>0, <1>1 DEF ReconcileExecution, db, TypeOK
  <2> QED BY <1>0, <1>1, <2>3, <2>4, <2>5, ReconcileStep, StepBegun DEF n
<1>2. CASE EndGet(h)
  <2>1. Step(h, "reconcile", "idle", NoRec, <<>>) /\ UNCHANGED <<store, todo>>
    BY <1>2 DEF EndGet, db
  <2> QED BY <1>0, <2>1, StepBegun
<1>3. CASE TerminateWithoutRuntime(h) \/ KillRuntime(h) \/ KillFails(h)
  <2>1. /\ UNCHANGED <<store, todo>> /\ pc[h] = "kill"
        /\ \/ Step(h, "kill", "return", Killed(rec[h]), <<"save", "Terminated">>)
           \/ Step(h, "kill", "return", rec[h], <<"save", "TerminationFailed">>)
    BY <1>3 DEF TerminateWithoutRuntime, KillRuntime, KillFails, db
  <2>2. rec[h] \in LaunchRecord /\ rec[h] \in Copies
    BY <1>0, <2>1, CopiesMembers DEF TypeInv, HoldsRec, TypeOK
  <2>3. /\ Known(rec[h]) /\ Known(Killed(rec[h]))
        /\ Killed(rec[h]) \in LaunchRecord
    BY <1>0, <2>2, KilledDerived, DerivedKnown DEF Derived
  <2>4. CASE Step(h, "kill", "return", Killed(rec[h]), <<"save", "Terminated">>)
    BY <1>0, <2>1, <2>3, <2>4, StepBegun
  <2>5. CASE Step(h, "kill", "return", rec[h], <<"save", "TerminationFailed">>)
    BY <1>0, <2>1, <2>2, <2>3, <2>5, StepBegun
  <2> QED BY <2>1, <2>4, <2>5
<1> QED BY <1>1, <1>2, <1>3 DEF Serving

(* A save changes the row into the thread's copy, whose PID, once the      *)
(* launch is past, is the row's.                                           *)
LEMMA WriteBegun ==
  ASSUME IInv, TypeInv', BegunInv, NEW t \in Threads, DbWrite(t) \/ Return(t)
  PROVE  BegunInv'
<1>0. TypeInv
  BY DEF IInv
<1>1. CASE DbWrite(t)
  <2>1. rec[t] \in LaunchRecord /\ rec[t] \in Copies /\ rec[t] # NoRec
    BY <1>0, <1>1, CopiesMembers DEF DbWrite, TypeInv, TypeOK, HoldsRec
  <2>2. /\ UNCHANGED <<pc, rec, todo>>
        /\ \/ store' = store
           \/ \A e \in Execs : store'[e] = IF e = rec[t].id THEN rec[t] ELSE store[e]
    BY <1>0, <1>1 DEF DbWrite, TypeInv, TypeOK
  <2>3. ASSUME NEW q \in Copies' PROVE q \in Copies
    <3>1. /\ q # NoRec
          /\ \/ \E e \in Execs : q = store'[e]
             \/ \E u \in Threads : q = rec'[u]
             \/ \E u \in Threads : q \in todo'[u]
      BY DEF Copies
    <3> QED BY <1>0, <2>2, <3>1, CopiesMembers
  <2>4. ASSUME NEW q \in Copies' PROVE BegunIn(q, pc', store')
    <3>1. BegunIn(q, pc, store) /\ BegunIn(rec[t], pc, store) /\ q.id \in Execs
      BY <1>0, <2>1, <2>3, CopiesMembers DEF BegunInv, LaunchRecord
    <3> QED BY <2>1, <2>2, <3>1 DEF BegunIn
  <2> QED BY <2>4 DEF BegunInv
<1>2. CASE Return(t)
  <2>1. PICK to \in {"done", "idle"} :
          Step(t, "return", to, NoRec, <<>>) /\ UNCHANGED <<store, todo>>
    BY <1>2 DEF Return, db
  <2> QED BY <2>1, StepBegun
<1> QED BY <1>1, <1>2

LEMMA RecoveryBegun ==
  ASSUME IInv, TypeInv', BegunInv, Crash \/ Restart \/ Bootstrap
  PROVE  BegunInv'
<1>0. Boot \in Threads /\ Boot \notin Execs /\ TypeInv /\ TypeOK
  BY ThreadsAssumption DEF Threads, IInv, TypeInv
<1>1. CASE Crash
  <2>1. /\ UNCHANGED store
        /\ \A u \in Threads : rec'[u] = NoRec /\ todo'[u] = {}
        /\ \A e \in Execs : pc'[e] = IF pc[e] = "none" THEN "none" ELSE "past"
    BY <1>1 DEF Crash, db, Threads
  <2>2. ASSUME NEW q \in Copies' PROVE BegunIn(q, pc', store')
    <3>1. q # NoRec /\ \E e \in Execs : q = store[e]
      BY <2>1 DEF Copies
    <3>2. PICK e \in Execs : q = store[e]
      BY <3>1
    <3>3. q.id = e /\ q \in Copies
      BY <1>0, <3>1, <3>2, CopiesMembers DEF TypeOK
    <3>4. pc[e] # "none"
      BY <3>3 DEF BegunInv, BegunIn
    <3> QED BY <2>1, <3>1, <3>2, <3>3, <3>4 DEF BegunIn
  <2> QED BY <2>2 DEF BegunInv
<1>2. CASE Restart
  <2>1. /\ UNCHANGED <<store, rec>>
        /\ \A e \in Execs : pc'[e] = pc[e]
        /\ \A u \in Threads :
             todo'[u] = IF u = Boot THEN {store[e] : e \in Recoverable} ELSE todo[u]
    BY <1>0, <1>2 DEF Restart, db, TypeOK, Threads
  <2>2. ASSUME NEW q \in Copies' PROVE q \in Copies
    <3>1. /\ q # NoRec
          /\ \/ \E e \in Execs : q = store'[e]
             \/ \E u \in Threads : q = rec'[u]
             \/ \E u \in Threads : q \in todo'[u]
      BY DEF Copies
    <3>2. \A x \in {store[e] : e \in Recoverable} : \E e \in Execs : x = store[e]
      BY DEF Recoverable, Recorded
    <3> QED BY <1>0, <2>1, <3>1, <3>2, CopiesMembers
  <2> QED BY <2>1, <2>2, QuietBegun DEF Onward
<1>3. ASSUME NEW r \in todo[Boot], RecoverExecution(r)
      PROVE  BegunInv'
  <2>1. PICK n \in LaunchRecord, w \in Seq(Writes) :
          Step(Boot, "recover", "recover", n, w) /\ Derived(n, r)
    BY <1>0, <1>3, RecoverShape
  <2>2. r \in Copies
    <3>1. r \in LaunchRecord
      BY <1>0 DEF TypeOK
    <3> QED BY <1>0, <3>1, CopiesMembers, RecAssumption
  <2>3. Known(n)
    BY <1>0, <2>1, <2>2, DerivedKnown DEF Derived
  <2>4. UNCHANGED store /\ \A u \in Threads : todo'[u] \subseteq todo[u]
    BY <1>0, <1>3 DEF RecoverExecution, db, TypeOK
  <2> QED BY <1>0, <2>1, <2>3, <2>4, StepBegun
<1>4. CASE Serve
  <2>1. Step(Boot, "recover", "idle", NoRec, <<>>) /\ UNCHANGED <<store, todo>>
    BY <1>4 DEF Serve, db
  <2> QED BY <1>0, <2>1, StepBegun
<1> QED BY <1>1, <1>2, <1>3, <1>4 DEF Bootstrap

LEMMA HostBegun ==
  ASSUME IInv, TypeInv', BegunInv, Host
  PROVE  BegunInv'
<1>1. UNCHANGED <<store, rec, todo, pc>>
  BY DEF Host, CreateSocket, Exit, ForeignStart, DeadlinePasses, db, thread
<1>2. \A q \in Copies' : q \in Copies
  BY <1>1 DEF Copies
<1> QED BY <1>1, <1>2, QuietBegun DEF Onward

RInv == IInv /\ BegunInv

LEMMA InitRInv == Init => RInv
<1>1. Init => Copies = {}
  BY DEF Init, Copies
<1> QED BY <1>1, InitIInv DEF RInv, BegunInv

LEMMA NextRInv == RInv /\ [Next]_vars => RInv'
<1> SUFFICES ASSUME RInv, [Next]_vars PROVE RInv'
  OBVIOUS
<1>1. IInv' /\ TypeInv'
  BY NextIInv DEF RInv, IInv
<1>2. CASE UNCHANGED vars
  BY <1>1, <1>2 DEF vars, RInv, BegunInv, Copies
<1>3. CASE Next
  BY <1>1, <1>3, LaunchBegun, RequestBegun, ServingBegun, WriteBegun, RecoveryBegun, HostBegun
  DEF Next, RInv
<1> QED BY <1>1, <1>2, <1>3

-----------------------------------------------------------------------------
(* The refinement: a step of ControlPlane is a step of ManagedExecution, or*)
(* none.                                                                   *)

(* Where a launch stands, as the abstract specification sees it. *)
LEMMA StageFacts ==
  /\ \A e \in Execs : /\ LaunchStages[e] \in {"new", "active", "over", "past"}
                      /\ LaunchStages[e] = "new" <=> pc[e] = "none"
                      /\ LaunchStages[e] = "past" <=> pc[e] = "past"
                      /\ LaunchStages[e] = "over" <=> pc[e] \in {"return", "done"}
  /\ \A e \in Execs : /\ LaunchStages'[e] \in {"new", "active", "over", "past"}
                      /\ LaunchStages'[e] = "new" <=> pc'[e] = "none"
                      /\ LaunchStages'[e] = "past" <=> pc'[e] = "past"
                      /\ LaunchStages'[e] = "over" <=> pc'[e] \in {"return", "done"}
  /\ LaunchStages = [e \in Execs |-> LaunchStages[e]]
  /\ LaunchStages' = [e \in Execs |-> LaunchStages'[e]]
BY DEF LaunchStages

LEMMA RowFacts ==
  ASSUME NEW r \in LaunchRecord
  PROVE  /\ RowOf(r) \in Managed!Rows
         /\ RowOf(r) # NoRec
         /\ RowOf(r).pid = r.pid
         /\ RowOf(r).status = "closed" <=> r.state \in {"Terminated", "Exited"}
BY RowAssumption DEF RowOf, RowStatus, Managed!Rows, LaunchRecord

LEMMA RowsFollow ==
  /\ UNCHANGED store => UNCHANGED SavedRows
  /\ UNCHANGED pc => UNCHANGED LaunchStages
BY DEF SavedRows, LaunchStages

(* Steps of the other threads show nothing, unless they touch a process. *)
LEMMA ThreadHidden ==
  ASSUME TypeInv, NEW t \in Threads, t \notin Execs, UNCHANGED <<store, owner, pst, mode>>,
         NEW to, pc' = [pc EXCEPT ![t] = to]
  PROVE  UNCHANGED Managed!managed
<1>1. \A e \in Execs : pc'[e] = pc[e]
  BY DEF TypeInv, TypeOK, Threads
<1>2. UNCHANGED LaunchStages
  BY <1>1 DEF LaunchStages
<1> QED BY <1>2, RowsFollow DEF Managed!managed

LEMMA LaunchRefines ==
  ASSUME RInv, NEW e \in Execs, Launch(e)
  PROVE  [Managed!ManagedNext]_(Managed!managed)
<1>0. TypeInv /\ e \in Threads
  BY DEF RInv, IInv, Threads
<1>1. ASSUME NEW to, pc' = [pc EXCEPT ![e] = to],
             NEW s, s = LaunchStages'[e]
      PROVE  LaunchStages' = [LaunchStages EXCEPT ![e] = s]
  <2>1. \A x \in Execs : x # e => pc'[x] = pc[x]
    BY <1>0, <1>1 DEF TypeInv, TypeOK
  <2>2. \A x \in Execs : x # e => LaunchStages'[x] = LaunchStages[x]
    BY <2>1 DEF LaunchStages
  <2> QED BY <1>1, <2>2 DEF LaunchStages
<1>2. ASSUME NEW to, pc' = [pc EXCEPT ![e] = to] PROVE pc'[e] = to
  BY <1>0, <1>2 DEF TypeInv, TypeOK
<1>3. CASE InitializeRecord(e)
  <2>1. /\ mode = "up" /\ pc[e] = "none" /\ pc' = [pc EXCEPT ![e] = "validate"]
        /\ UNCHANGED <<store, owner, pst, mode>>
    BY <1>3 DEF InitializeRecord, Step, db, host
  <2>2. LaunchStages[e] = "new" /\ LaunchStages'[e] = "active"
    BY <1>2, <2>1 DEF LaunchStages
  <2>3. Managed!BeginLaunch(e)
    BY <1>1, <2>1, <2>2, RowsFollow DEF Managed!BeginLaunch
  <2> QED BY <2>3 DEF Managed!ManagedNext, Managed!ManagedStep
<1>4. CASE LaunchProceeds(e)
  <2>1. PICK to \in (Launching \ {"validate"}) \cup {"return"} :
          /\ mode # "down" /\ pc[e] \in Launching /\ pc' = [pc EXCEPT ![e] = to]
          /\ UNCHANGED <<store, owner, pst, mode>>
    BY <1>4 DEF LaunchProceeds
  <2>2. LaunchStages[e] = "active"
    BY <2>1 DEF LaunchStages, Launching
  <2>3. CASE to = "return"
    <3>1. LaunchStages'[e] = "over"
      BY <1>2, <2>1, <2>3 DEF LaunchStages
    <3>2. Managed!EndLaunch(e)
      BY <1>1, <2>1, <2>2, <3>1, RowsFollow DEF Managed!EndLaunch
    <3> QED BY <3>2 DEF Managed!ManagedNext, Managed!ManagedStep
  <2>4. CASE to # "return"
    <3>1. LaunchStages'[e] = "active"
      BY <1>2, <2>1, <2>4 DEF LaunchStages, Launching
    <3>2. UNCHANGED LaunchStages
      BY <1>1, <2>1, <2>2, <3>1, StageFacts
    <3> QED BY <2>1, <3>2, RowsFollow DEF Managed!managed
  <2> QED BY <2>3, <2>4
<1>5. ASSUME NEW p \in Pids, Spawn(e, p)
      PROVE  Managed!ManagedNext
  <2>1. /\ mode # "down" /\ pc[e] = "execute" /\ pc' = [pc EXCEPT ![e] = "return"]
        /\ pst[p] = "free" /\ owner' = [owner EXCEPT ![p] = e]
        /\ pst' = [pst EXCEPT ![p] = "child"] /\ UNCHANGED <<store, mode>>
    BY <1>5 DEF Spawn, Step, db
  <2>2. LaunchStages[e] = "active" /\ LaunchStages'[e] = "over"
    BY <1>2, <2>1 DEF LaunchStages
  <2>3. Managed!SpawnRuntime(e, p)
    BY <1>1, <2>1, <2>2, RowsFollow DEF Managed!SpawnRuntime
  <2> QED BY <2>3 DEF Managed!ManagedNext, Managed!ManagedStep
<1> QED BY <1>3, <1>4, <1>5, ProceedShows

(* A kill or an exit is the death of a process, or hits a zombie. *)
Dies(p) ==
  /\ p \in Pids /\ pst[p] # "free"
  /\ pst' = [pst EXCEPT ![p] = IF Reaped(p) THEN "free" ELSE "zombie"]
  /\ owner' = [owner EXCEPT ![p] = IF Reaped(p) THEN NoOne ELSE @]

LEMMA DeathRefines ==
  ASSUME TypeInv, NEW p, Dies(p), UNCHANGED <<SavedRows, LaunchStages, mode>>
  PROVE  [Managed!ManagedNext]_(Managed!managed)
<1>1. /\ pst \in [Pids -> {"free", "child", "adopted", "zombie"}]
      /\ owner \in [Pids -> Execs \cup {NoOne, Outsider}]
  BY DEF TypeInv, TypeOK
<1>2. CASE pst[p] = "zombie"
  <2>1. pst' = pst /\ owner' = owner
    BY <1>1, <1>2 DEF Dies, Reaped
  <2> QED BY <2>1 DEF Managed!managed
<1>3. CASE pst[p] \in {"child", "adopted"}
  <2>1. Managed!Die(p)
    BY <1>1, <1>3 DEF Dies, Reaped, Managed!Die, Managed!Alive
  <2> QED BY <2>1 DEF Dies, Managed!ManagedNext, Managed!ManagedStep
<1> QED BY <1>1, <1>2, <1>3 DEF Dies

LEMMA HandlerRefines ==
  ASSUME RInv, NEW h \in Handlers, Request(h) \/ Serving(h)
  PROVE  [Managed!ManagedNext]_(Managed!managed)
<1>0. TypeInv /\ TypeOK /\ h \in Threads /\ h \notin Execs
  BY ThreadsAssumption DEF RInv, IInv, TypeInv, Threads
<1>1. CASE KillRuntime(h)
  <2>1. /\ pc[h] = "kill" /\ HasRuntime(rec[h]) /\ pst[rec[h].pid] # "free"
        /\ pc' = [pc EXCEPT ![h] = "return"] /\ UNCHANGED <<store, mode>>
    BY <1>1 DEF KillRuntime, Step, db
  <2>2. rec[h].pid \in Pids
    <3>1. rec[h] \in LaunchRecord
      BY <1>0, <2>1 DEF TypeInv, HoldsRec, TypeOK
    <3> QED BY <2>1, <3>1 DEF HasRuntime, LaunchRecord
  <2>3. Dies(rec[h].pid)
    BY <1>1, <2>1, <2>2 DEF KillRuntime, Dies
  <2>4. \A e \in Execs : pc'[e] = pc[e]
    BY <1>0, <2>1 DEF TypeOK, Threads
  <2>5. UNCHANGED LaunchStages
    BY <2>4 DEF LaunchStages
  <2> QED BY <1>0, <2>1, <2>3, <2>5, RowsFollow, DeathRefines
<1>2. CASE ~KillRuntime(h)
  <2>1. /\ \E to : pc' = [pc EXCEPT ![h] = to]
        /\ UNCHANGED <<store, owner, pst, mode>>
    BY <1>2 DEF Request, Serving, GetOne, GetAll, BeginGet, TerminateLaunch, ReconcileExecution,
                EndGet, TerminateWithoutRuntime, KillFails, Step, db, host
  <2> QED BY <1>0, <2>1, ThreadHidden
<1> QED BY <1>1, <1>2

(* The save: what the thread holds may be written, whatever was saved      *)
(* since it read it.                                                       *)
LEMMA SaveRefines ==
  ASSUME RInv, NEW t \in Threads, DbWrite(t)
  PROVE  [Managed!ManagedNext]_(Managed!managed)
<1>0. TypeInv /\ TypeOK /\ NoPid \notin Pids
  BY PidAssumption DEF RInv, IInv, TypeInv
<1> DEFINE r == rec[t]
           e == rec[t].id
<1>1. r \in LaunchRecord /\ e \in Execs /\ r \in Copies
  <2>1. r \in LaunchRecord /\ r # NoRec
    BY <1>0 DEF DbWrite, TypeInv, TypeOK, HoldsRec
  <2> QED BY <1>0, <2>1, CopiesMembers DEF LaunchRecord
<1>2. UNCHANGED <<LaunchStages, owner, pst, mode>> /\ mode # "down"
  BY RowsFollow DEF DbWrite, host
<1>3. CASE UNCHANGED store
  BY <1>2, <1>3, RowsFollow DEF Managed!managed
<1>4. CASE store' = [store EXCEPT ![e] = r]
  <2>1. SavedRows' = [SavedRows EXCEPT ![e] = RowOf(r)]
    <3>1. \A x \in Execs : store'[x] = IF x = e THEN r ELSE store[x]
      BY <1>0, <1>4 DEF TypeOK
    <3>2. r # NoRec
      BY <1>1, RecAssumption
    <3> HIDE DEF r, e
    <3> QED BY <1>1, <3>1, <3>2 DEF SavedRows
  <2>2. BegunIn(r, pc, store) /\ CopyOK(r)
    BY <1>1 DEF RInv, IInv, BegunInv
  <2>3. LaunchStages[e] = "past" => SavedRows[e] # NoRec /\ r.pid = SavedRows[e].pid
    <3>1. pc[e] = "past" => store[e] \in LaunchRecord /\ store[e] # NoRec /\ r.pid = store[e].pid
      BY <1>0, <1>1, <2>2 DEF BegunIn, TypeOK
    <3> QED BY <1>1, <3>1, RowFacts, StageFacts DEF SavedRows
  <2>4. Managed!Saveable(e, RowOf(r))
    <3>1. LaunchStages[e] # "new"
      BY <1>1, <2>2, StageFacts DEF BegunIn
    <3>2. LaunchStages[e] # "past" /\ r.pid # NoPid => owner[r.pid] = e
      BY <1>1, <2>2, StageFacts DEF CopyOK, CopyIn
    <3>3. RowOf(r).status = "closed" /\ r.pid # NoPid => ~Managed!Living(e)
      BY <1>1, <2>2, RowFacts DEF CopyOK, CopyIn, Managed!Living, Managed!Alive
    <3> HIDE DEF r, e
    <3> QED BY <1>1, <2>3, <3>1, <3>2, <3>3, RowFacts DEF Managed!Saveable
  <2>5. Managed!SaveRow(e, RowOf(r))
    BY <1>2, <2>1, <2>4 DEF Managed!SaveRow
  <2> HIDE DEF r, e
  <2> QED BY <1>1, <2>5, RowFacts DEF Managed!ManagedNext, Managed!ManagedStep
<1> QED BY <1>3, <1>4 DEF DbWrite

LEMMA ReturnRefines ==
  ASSUME RInv, NEW t \in Threads, Return(t)
  PROVE  UNCHANGED Managed!managed
<1>0. TypeInv /\ TypeOK
  BY DEF RInv, IInv, TypeInv
<1>1. /\ pc[t] = "return" /\ UNCHANGED <<store, owner, pst, mode>>
      /\ pc' = [pc EXCEPT ![t] = IF t \in Execs THEN "done" ELSE "idle"]
  BY DEF Return, Step, db, host
<1>2. CASE t \notin Execs
  BY <1>0, <1>1, <1>2, ThreadHidden
<1>3. CASE t \in Execs
  <2>1. \A e \in Execs : pc'[e] = IF e = t THEN "done" ELSE pc[e]
    BY <1>0, <1>1, <1>3 DEF TypeOK, Threads
  <2>2. UNCHANGED LaunchStages
    BY <1>1, <2>1 DEF LaunchStages
  <2> QED BY <1>1, <2>2, RowsFollow DEF Managed!managed
<1> QED BY <1>2, <1>3

LEMMA RecoveryRefines ==
  ASSUME RInv, Crash \/ Restart \/ Bootstrap
  PROVE  [Managed!ManagedNext]_(Managed!managed)
<1>0. TypeInv /\ TypeOK /\ Boot \in Threads /\ Boot \notin Execs
  BY ThreadsAssumption DEF RInv, IInv, TypeInv, Threads
<1>1. CASE Crash
  <2>1. \A e \in Execs : pc'[e] = IF pc[e] = "none" THEN "none" ELSE "past"
    BY <1>1 DEF Crash, Threads
  <2>2. LaunchStages' = [e \in Execs |-> IF LaunchStages[e] = "new" THEN "new" ELSE "past"]
    BY <2>1 DEF LaunchStages
  <2>3. Managed!ManagerCrash
    BY <1>1, <2>2, RowsFollow DEF Crash, Managed!ManagerCrash, db
  <2> QED BY <2>3 DEF Managed!ManagedNext
<1>2. CASE Restart
  <2>1. \A e \in Execs : pc'[e] = pc[e]
    BY <1>0, <1>2 DEF Restart, TypeOK, Threads
  <2>2. UNCHANGED LaunchStages
    BY <2>1 DEF LaunchStages
  <2>3. Managed!ManagerRestart
    BY <1>2, <2>2, RowsFollow DEF Restart, Managed!ManagerRestart, db, host
  <2> QED BY <2>3 DEF Managed!ManagedNext, Managed!ManagedStep
<1>3. ASSUME NEW r \in todo[Boot], RecoverExecution(r)
      PROVE  UNCHANGED Managed!managed
  <2>1. /\ UNCHANGED <<store, owner, pst, mode>>
        /\ pc' = [pc EXCEPT ![Boot] = "recover"]
    BY <1>3 DEF RecoverExecution, Step, db, host
  <2> QED BY <1>0, <2>1, ThreadHidden
<1>4. CASE Serve
  <2>1. /\ UNCHANGED <<store, owner, pst>> /\ mode \in {"up", "boot"} /\ mode' = "up"
        /\ pc' = [pc EXCEPT ![Boot] = "idle"]
    BY <1>0, <1>4 DEF Serve, Step, db, host, TypeOK
  <2>2. CASE mode = "up"
    BY <1>0, <2>1, <2>2, ThreadHidden
  <2>3. CASE mode = "boot"
    <3>1. \A e \in Execs : pc'[e] = pc[e]
      BY <1>0, <2>1 DEF TypeOK, Threads
    <3>2. UNCHANGED LaunchStages
      BY <3>1 DEF LaunchStages
    <3>3. Managed!ManagerServes
      BY <2>1, <2>3, <3>2, RowsFollow DEF Managed!ManagerServes
    <3> QED BY <3>3 DEF Managed!ManagedNext, Managed!ManagedStep
  <2> QED BY <2>1, <2>2, <2>3
<1> QED BY <1>1, <1>2, <1>3, <1>4 DEF Bootstrap

LEMMA HostRefines ==
  ASSUME RInv, Host
  PROVE  [Managed!ManagedNext]_(Managed!managed)
<1>0. TypeInv /\ UNCHANGED <<store, pc, mode>> /\ UNCHANGED <<SavedRows, LaunchStages>>
  BY RowsFollow DEF RInv, IInv, Host, CreateSocket, Exit, ForeignStart, DeadlinePasses, db, thread
<1>1. ASSUME NEW p \in Pids, Exit(p) PROVE [Managed!ManagedNext]_(Managed!managed)
  <2>1. Dies(p)
    BY <1>1 DEF Exit, Alive, Dies
  <2> QED BY <1>0, <2>1, DeathRefines
<1>2. ASSUME NEW p \in Pids, ForeignStart(p) PROVE Managed!ManagedNext
  <2>1. Managed!OutsiderStarts(Outsider, p)
    BY <1>0, <1>2 DEF ForeignStart, Managed!OutsiderStarts
  <2> QED BY <2>1 DEF Managed!ManagedNext, Managed!ManagedStep
<1>3. ASSUME UNCHANGED <<owner, pst>> PROVE UNCHANGED Managed!managed
  BY <1>0, <1>3 DEF Managed!managed
<1>4. \/ \E p \in Pids : Exit(p) \/ ForeignStart(p)
      \/ UNCHANGED <<owner, pst>>
  BY DEF Host, CreateSocket, DeadlinePasses
<1> QED BY <1>1, <1>2, <1>3, <1>4

LEMMA InitRefines == Init => Managed!ManagedInit
<1> SUFFICES ASSUME Init PROVE Managed!ManagedInit
  OBVIOUS
<1>1. SavedRows = [e \in Execs |-> NoRec]
  BY DEF Init, SavedRows
<1>2. \A e \in Execs : pc[e] = "none"
  BY DEF Init, Threads
<1>3. LaunchStages = [e \in Execs |-> "new"]
  BY <1>2 DEF LaunchStages
<1> QED BY <1>1, <1>3 DEF Init, Managed!ManagedInit

LEMMA NextRefines == RInv /\ [Next]_vars => [Managed!ManagedNext]_(Managed!managed)
<1> SUFFICES ASSUME RInv, [Next]_vars PROVE [Managed!ManagedNext]_(Managed!managed)
  OBVIOUS
<1>1. CASE UNCHANGED vars
  BY <1>1, RowsFollow DEF vars, Managed!managed
<1>2. CASE Next
  BY <1>2, LaunchRefines, HandlerRefines, SaveRefines, ReturnRefines, RecoveryRefines, HostRefines
  DEF Next
<1> QED BY <1>1, <1>2

(* Whatever the number of executions, requests, crashes and failed writes, *)
(* the control plane keeps the promise of ManagedExecution about the saved *)
(* rows and the processes (orchestrator.go:111-241, reconcile.go:12-128,   *)
(* bootstrap.go:45-127).                                                   *)
THEOREM KeepsPromiseHolds == Spec => KeepsPromise
<1> QED
  BY InitRInv, NextRInv, InitRefines, NextRefines, PTL
  DEF Spec, KeepsPromise, Managed!ManagedSpec
=============================================================================
