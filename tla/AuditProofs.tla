---------------------------- MODULE AuditProofs ----------------------------
(***************************************************************************)
(* The events run ahead of the states, for any constants: AuditAhead.  A   *)
(* goroutine that holds a record nobody was told of has the announcement   *)
(* first among its writes, so that no save of the record can precede it.   *)
(***************************************************************************)
EXTENDS ControlPlaneProofs

-----------------------------------------------------------------------------
(* Pending writes.                                                         *)

Occurs(x, w) == \E i \in 1..Len(w) : w[i] = x

(* x is the next write. *)
First(x, w) == w # <<>> /\ Head(w) = x

LEMMA PairFacts ==
  ASSUME NEW a, NEW b, NEW x
  PROVE  /\ First(x, <<a, b>>) <=> x = a
         /\ Occurs(x, <<a, b>>) <=> x \in {a, b}
BY DEF First, Occurs

LEMMA SingleFacts ==
  ASSUME NEW a, NEW x
  PROVE  /\ First(x, <<a>>) <=> x = a
         /\ Occurs(x, <<a>>) <=> x = a
BY DEF First, Occurs

LEMMA NoWrites ==
  ASSUME NEW w, w = <<>>, NEW x
  PROVE  ~First(x, w) /\ ~Occurs(x, w)
BY DEF First, Occurs

LEMMA TailFacts ==
  ASSUME NEW w \in Seq(Writes), w # <<>>, NEW x
  PROVE  Occurs(x, w) <=> x = Head(w) \/ Occurs(x, Tail(w))
<1>1. Len(w) \in Nat \ {0} /\ Head(w) = w[1] /\ Len(Tail(w)) = Len(w) - 1
  OBVIOUS
<1>2. \A i \in 1..(Len(w) - 1) : Tail(w)[i] = w[i + 1]
  BY <1>1
<1>3. ASSUME Occurs(x, w), x # Head(w) PROVE Occurs(x, Tail(w))
  <2>1. PICK i \in 1..Len(w) : w[i] = x
    BY <1>3 DEF Occurs
  <2>2. i - 1 \in 1..(Len(w) - 1) /\ Tail(w)[i - 1] = x
    BY <1>1, <1>2, <1>3, <2>1
  <2> QED BY <1>1, <2>2 DEF Occurs
<1>4. ASSUME x = Head(w) \/ Occurs(x, Tail(w)) PROVE Occurs(x, w)
  <2>1. CASE x = Head(w)
    BY <1>1, <2>1 DEF Occurs
  <2>2. CASE Occurs(x, Tail(w))
    <3>1. PICK i \in 1..(Len(w) - 1) : Tail(w)[i] = x
      BY <1>1, <2>2 DEF Occurs
    <3>2. i + 1 \in 1..Len(w) /\ w[i + 1] = x
      BY <1>1, <1>2, <3>1
    <3> QED BY <3>2 DEF Occurs
  <2> QED BY <1>4, <2>1, <2>2
<1> QED BY <1>3, <1>4

-----------------------------------------------------------------------------
(* The invariant.  A record that is saved or was read is accounted for in  *)
(* the events; one in a goroutine's hands is, or is about to be.           *)

Audited(r, ev) ==
  /\ "ExecutionCreated" \in ev[r.id]
  /\ r.state \in {"Running", "Exited"} => "ReconcileStateChanged" \in ev[r.id]

(* The record r of thread t, which is at c and has the writes w to make. *)
HeldIn(t, r, c, w, ev) ==
  /\ "ExecutionCreated" \in ev[r.id] \/ First("ExecutionCreated", w)
  /\ r.state \in {"Running", "Exited"} =>
       "ReconcileStateChanged" \in ev[r.id] \/ First("ReconcileStateChanged", w)
  /\ Occurs("Terminated", w) => "TerminationRequested" \in ev[r.id]
  /\ t \in Handlers /\ c = "kill" =>
       "TerminationRequested" \in ev[r.id] \/ Occurs("TerminationRequested", w)

StoreAudited ==
  /\ \A e \in Execs : store[e] # NoRec => Audited(store[e], events)
  /\ \A e \in Execs : "Terminated" \in events[e] => "TerminationRequested" \in events[e]

TodoAudited == \A t \in Threads : \A r \in todo[t] : Audited(r, events)

HeldAudited ==
  \A t \in Threads : rec[t] # NoRec => HeldIn(t, rec[t], pc[t], out[t], events)

AInv == failures = 0 => StoreAudited /\ TodoAudited /\ HeldAudited

LEMMA DerivedAudited ==
  ASSUME NEW r, NEW n, Derived(n, r), Audited(r, events)
  PROVE  Audited(n, events)
BY DEF Derived, Audited, RuntimeStates

(* A thread with no write left holds an audited record. *)
LEMMA AtStep ==
  ASSUME AInv, failures = 0, NEW t \in Threads, rec[t] # NoRec, out[t] = <<>>
  PROVE  /\ Audited(rec[t], events)
         /\ t \in Handlers /\ pc[t] = "kill" => "TerminationRequested" \in events[rec[t].id]
<1>1. HeldIn(t, rec[t], pc[t], out[t], events)
  BY DEF AInv, HeldAudited
<1>2. \A x : ~First(x, out[t]) /\ ~Occurs(x, out[t])
  BY NoWrites
<1> QED BY <1>1, <1>2 DEF HeldIn, Audited

(* A step of a thread, which changes no table. *)
LEMMA StepAudit ==
  ASSUME TypeInv, AInv,
         NEW t \in Threads, NEW from, NEW to, NEW r, NEW w,
         Step(t, from, to, r, w), UNCHANGED db,
         failures = 0 => TodoAudited',
         failures = 0 /\ r # NoRec => HeldIn(t, r, to, w, events)
  PROVE  AInv'
<1> SUFFICES ASSUME failures = 0 PROVE (StoreAudited /\ TodoAudited /\ HeldAudited)'
  BY DEF AInv, db
<1>1. \A u \in Threads : /\ rec'[u] = IF u = t THEN r ELSE rec[u]
                         /\ pc'[u] = IF u = t THEN to ELSE pc[u]
                         /\ out'[u] = IF u = t THEN w ELSE out[u]
  BY DEF Step, TypeInv, TypeOK
<1>2. UNCHANGED <<store, events, failures>>
  BY DEF db
<1>3. HeldAudited'
  BY <1>1, <1>2 DEF AInv, HeldAudited
<1> QED BY <1>2, <1>3 DEF AInv, StoreAudited

LEMMA TodoKept ==
  ASSUME AInv, UNCHANGED db, \A u \in Threads : todo'[u] \subseteq todo[u]
  PROVE  failures = 0 => TodoAudited'
BY DEF AInv, TodoAudited, db

(* A thread hands on an audited record and has nothing urgent to announce. *)
LEMMA HandsOn ==
  ASSUME NEW t, NEW r, NEW c, NEW w, Audited(r, events),
         ~Occurs("Terminated", w), t \notin Handlers \/ c # "kill"
  PROVE  HeldIn(t, r, c, w, events)
BY DEF HeldIn, Audited
-----------------------------------------------------------------------------
(* StartLaunch. *)

(* What a launch has to write after it has created the record. *)
LaunchWrites ==
  {<<"save">>} \cup {<<"save", ev>> : ev \in EventTypes \ {"Terminated"}}

LEMMA LaunchWritten ==
  ASSUME TypeInv, NEW e \in Execs, Launch(e), ~InitializeRecord(e)
  PROVE  out'[e] \in LaunchWrites
<1>1. PICK w \in LaunchWrites : out' = [out EXCEPT ![e] = w]
  BY DEF Launch, ValidationFails, ValidationPasses, PreparationFails, PreparationPasses,
         RecordLaunching, CompleteDryRun, SpawnFails, Spawn, Step, LaunchWrites, EventTypes
<1> QED BY <1>1 DEF TypeInv, TypeOK, Threads

LEMMA LaunchWritesFacts ==
  ASSUME NEW w \in LaunchWrites
  PROVE  ~Occurs("Terminated", w)
<1>1. ~Occurs("Terminated", <<"save">>)
  BY SingleFacts
<1>2. ASSUME NEW ev \in EventTypes \ {"Terminated"} PROVE ~Occurs("Terminated", <<"save", ev>>)
  <2>1. "Terminated" \notin {"save", ev}
    BY <1>2
  <2> QED BY <2>1, PairFacts
<1> QED BY <1>1, <1>2 DEF LaunchWrites

LEMMA LaunchAudit ==
  ASSUME TypeInv, AInv, NEW e \in Execs, Launch(e)
  PROVE  AInv'
<1>0. e \in Threads /\ e \notin Handlers /\ TypeOK
  BY ThreadsAssumption DEF Threads, TypeInv
<1>1. CASE InitializeRecord(e)
  <2>1. /\ Step(e, "none", "validate", NewRecord(e), <<"ExecutionCreated", "save">>)
        /\ UNCHANGED db /\ UNCHANGED todo
    BY <1>1 DEF InitializeRecord
  <2>2. HeldIn(e, NewRecord(e), "validate", <<"ExecutionCreated", "save">>, events)
    <3>1. /\ First("ExecutionCreated", <<"ExecutionCreated", "save">>)
          /\ ~Occurs("Terminated", <<"ExecutionCreated", "save">>)
      <4>1. "Terminated" \notin {"ExecutionCreated", "save"}
        OBVIOUS
      <4> QED BY <4>1, PairFacts
    <3>2. NewRecord(e).state = "Pending"
      BY DEF NewRecord
    <3> QED BY <1>0, <3>1, <3>2 DEF HeldIn
  <2> QED BY <1>0, <2>1, <2>2, TodoKept, StepAudit
<1>2. ASSUME NEW from, NEW to, NEW r, NEW w, Step(e, from, to, r, w),
             ~InitializeRecord(e), UNCHANGED db, UNCHANGED todo,
             failures = 0 => Audited(r, events)
      PROVE  AInv'
  <2>1. w = out'[e]
    BY <1>0, <1>2 DEF Step, TypeOK
  <2>2. ~Occurs("Terminated", w)
    BY <1>2, <2>1, LaunchWritten, LaunchWritesFacts
  <2>3. failures = 0 => HeldIn(e, r, to, w, events)
    BY <1>0, <1>2, <2>2, HandsOn
  <2> QED BY <1>0, <1>2, <2>3, TodoKept, StepAudit
<1>3. CASE \E p \in Pids : Spawn(e, p)
  <2>1. PICK p \in Pids : Spawn(e, p)
    BY <1>3
  <2> DEFINE q == [rec[e] EXCEPT !.pid = p]
             n == TransitionTo(q, "Starting")
  <2>2. /\ Step(e, "execute", "return", n, <<"save", "RuntimeSpawned">>)
        /\ UNCHANGED db /\ UNCHANGED todo /\ ~InitializeRecord(e)
    BY <2>1 DEF Spawn, InitializeRecord, Step
  <2>3. rec[e] \in LaunchRecord /\ rec[e] # NoRec /\ out[e] = <<>>
    BY <1>0, <2>2 DEF Step, TypeInv, HoldsRec, TypeOK, Launching
  <2>4. q \in LaunchRecord /\ q.id = rec[e].id /\ q.state = rec[e].state
        /\ "Starting" \in LaunchStates
    BY <2>3 DEF LaunchRecord, LaunchStates
  <2>5. n.id = rec[e].id /\ n.state \in {rec[e].state, "Starting"}
    BY <2>4, TransitionFacts
  <2> HIDE DEF n, q
  <2>6. failures = 0 => Audited(n, events)
    BY <1>0, <2>3, <2>5, AtStep DEF Audited
  <2> QED BY <1>2, <2>2, <2>6
<1>4. CASE Proceed(e) /\ ~InitializeRecord(e)
  <2>1. PICK from \in Launching, to \in PCs, r \in LaunchRecord, w \in Seq(Writes) :
          /\ Step(e, from, to, r, w)
          /\ Derived(r, rec[e])
          /\ UNCHANGED db /\ UNCHANGED todo
    BY <1>4 DEF Proceed
  <2>2. rec[e] # NoRec /\ out[e] = <<>>
    BY <1>0, <2>1 DEF Step, TypeInv, HoldsRec
  <2>3. failures = 0 => Audited(r, events)
    BY <1>0, <2>1, <2>2, AtStep, DerivedAudited
  <2> QED BY <1>2, <1>4, <2>1, <2>3
<1> QED BY <1>1, <1>3, <1>4, LaunchShape
-----------------------------------------------------------------------------
(* Requests. *)

LEMMA RequestAudit ==
  ASSUME TypeInv, AInv, NEW h \in Handlers, Request(h)
  PROVE  AInv'
<1>0. h \in Threads /\ h \notin Execs /\ TypeOK
  BY ThreadsAssumption DEF Threads, TypeInv
<1>1. ASSUME NEW es \in SUBSET Recorded, BeginGet(h, es)
      PROVE  AInv'
  <2>1. Step(h, "idle", "reconcile", NoRec, <<>>) /\ UNCHANGED db
    BY <1>1 DEF BeginGet
  <2>2. \A u \in Threads : todo'[u] = IF u = h THEN {store[e] : e \in es} ELSE todo[u]
    BY <1>0, <1>1 DEF BeginGet, TypeOK
  <2>3. ASSUME failures = 0 PROVE TodoAudited'
    <3>1. \A x \in {store[e] : e \in es} : Audited(x, events)
      BY <2>3 DEF AInv, StoreAudited, Recorded
    <3> QED BY <2>1, <2>2, <2>3, <3>1 DEF AInv, TodoAudited, db
  <2> QED BY <1>0, <2>1, <2>3, StepAudit
<1>2. ASSUME NEW e \in Execs, TerminateLaunch(h, e)
      PROVE  AInv'
  <2> DEFINE n == TransitionTo(store[e], "Terminating")
             w == <<"save", "TerminationRequested">>
  <2>1. /\ Step(h, "idle", "kill", n, w)
        /\ UNCHANGED db /\ UNCHANGED todo
        /\ store[e] # NoRec
    BY <1>2 DEF TerminateLaunch, Terminable, Recorded
  <2>2. store[e] \in LaunchRecord /\ "Terminating" \in LaunchStates \ RuntimeStates
    BY <1>0, <2>1 DEF TypeOK, LaunchStates, RuntimeStates
  <2>3. failures = 0 => Audited(n, events)
    BY <2>1, <2>2, TransitionDerived, DerivedAudited DEF AInv, StoreAudited
  <2>4. Occurs("TerminationRequested", w) /\ ~Occurs("Terminated", w)
    <3>1. "Terminated" \notin {"save", "TerminationRequested"}
      OBVIOUS
    <3> QED BY <3>1, PairFacts
  <2> HIDE DEF n, w
  <2>5. failures = 0 => HeldIn(h, n, "kill", w, events)
    BY <2>3, <2>4 DEF HeldIn, Audited
  <2> QED BY <1>0, <2>1, <2>5, TodoKept, StepAudit
<1>3. ASSUME NEW e \in Execs, GetOne(h, e) PROVE AInv'
  BY <1>1, <1>3 DEF GetOne
<1>4. ASSUME GetAll(h) PROVE AInv'
  BY <1>1, <1>4 DEF GetAll
<1> QED BY <1>2, <1>3, <1>4 DEF Request

(* What reconcileExecution saves it has announced, if it is a change of    *)
(* the state.                                                              *)
LEMMA ReconcileAudit ==
  ASSUME TypeInv, AInv, NEW h \in Handlers, NEW r \in todo[h], ReconcileExecution(h, r)
  PROVE  AInv'
<1>0. h \in Threads /\ h \notin Execs /\ TypeOK
  BY ThreadsAssumption DEF Threads, TypeInv
<1> DEFINE n == Reconcile(r, Observed(r), r.id \in late).rec
<1>1. r \in LaunchRecord
  BY <1>0 DEF TypeOK
<1>2. Observed(r) \in Observation /\ (r.id \in late) \in BOOLEAN
  BY ObservedType
<1>3. n.id = r.id
  BY <1>1, <1>2, ReconcileFacts
<1>4. failures = 0 => Audited(r, events)
  BY <1>0 DEF AInv, TodoAudited
<1>5. /\ UNCHANGED db /\ \A u \in Threads : todo'[u] \subseteq todo[u]
  BY <1>0 DEF ReconcileExecution, TypeOK
<1>6. \/ Step(h, "reconcile", "reconcile", NoRec, <<>>)
      \/ Step(h, "reconcile", "reconcile", n, ReconcileWrites)
      \/ n.state = r.state /\ Step(h, "reconcile", "reconcile", n, <<"save">>)
  BY DEF ReconcileExecution
<1> HIDE DEF n
<1>7. CASE Step(h, "reconcile", "reconcile", NoRec, <<>>)
  BY <1>0, <1>5, <1>7, TodoKept, StepAudit
<1>8. CASE Step(h, "reconcile", "reconcile", n, ReconcileWrites)
  <2>1. First("ReconcileStateChanged", ReconcileWrites) /\ ~Occurs("Terminated", ReconcileWrites)
    <3>1. "Terminated" \notin {"ReconcileStateChanged", "save"}
      OBVIOUS
    <3> QED BY <3>1, PairFacts DEF ReconcileWrites
  <2>2. failures = 0 => HeldIn(h, n, "reconcile", ReconcileWrites, events)
    BY <1>3, <1>4, <2>1 DEF HeldIn, Audited
  <2> QED BY <1>0, <1>5, <1>8, <2>2, TodoKept, StepAudit
<1>9. CASE n.state = r.state /\ Step(h, "reconcile", "reconcile", n, <<"save">>)
  <2>1. ~Occurs("Terminated", <<"save">>)
    BY SingleFacts
  <2>2. failures = 0 => HeldIn(h, n, "reconcile", <<"save">>, events)
    BY <1>3, <1>4, <1>9, <2>1 DEF HeldIn, Audited
  <2> QED BY <1>0, <1>5, <1>9, <2>2, TodoKept, StepAudit
<1> QED BY <1>6, <1>7, <1>8, <1>9

LEMMA ServingAudit ==
  ASSUME TypeInv, AInv, NEW h \in Handlers, Serving(h)
  PROVE  AInv'
<1>0. h \in Threads /\ h \notin Execs /\ TypeOK
  BY ThreadsAssumption DEF Threads, TypeInv
<1>1. CASE EndGet(h)
  <2>1. Step(h, "reconcile", "idle", NoRec, <<>>) /\ UNCHANGED db /\ UNCHANGED todo
    BY <1>1 DEF EndGet
  <2> QED BY <1>0, <2>1, TodoKept, StepAudit
<1>2. CASE TerminateWithoutRuntime(h) \/ KillRuntime(h) \/ KillFails(h)
  <2>1. /\ UNCHANGED db /\ UNCHANGED todo /\ pc[h] = "kill" /\ out[h] = <<>>
        /\ \/ Step(h, "kill", "return", Killed(rec[h]), <<"save", "Terminated">>)
           \/ Step(h, "kill", "return", rec[h], <<"save", "TerminationFailed">>)
    BY <1>2 DEF TerminateWithoutRuntime, KillRuntime, KillFails, Step, db
  <2>2. rec[h] \in LaunchRecord /\ rec[h] # NoRec
    BY <1>0, <2>1 DEF TypeInv, HoldsRec, TypeOK
  <2>3. Killed(rec[h]).id = rec[h].id
    BY <2>2, KilledDerived DEF Derived
  <2>4. failures = 0 => /\ Audited(rec[h], events) /\ Audited(Killed(rec[h]), events)
                        /\ "TerminationRequested" \in events[rec[h].id]
    BY <1>0, <2>1, <2>2, AtStep, KilledDerived, DerivedAudited
  <2>5. failures = 0 =>
          /\ HeldIn(h, Killed(rec[h]), "return", <<"save", "Terminated">>, events)
          /\ HeldIn(h, rec[h], "return", <<"save", "TerminationFailed">>, events)
    <3>1. "Terminated" \notin {"save", "TerminationFailed"}
      OBVIOUS
    <3>2. ~Occurs("Terminated", <<"save", "TerminationFailed">>)
      BY <3>1, PairFacts
    <3> QED BY <2>3, <2>4, <3>2 DEF HeldIn, Audited
  <2> QED BY <1>0, <2>1, <2>5, TodoKept, StepAudit
<1> QED BY <1>1, <1>2, ReconcileAudit DEF Serving
-----------------------------------------------------------------------------
(* Writes: a save finds nothing left to announce before it, an event only  *)
(* adds.                                                                   *)

EventsGrow == \A e \in Execs : events[e] \subseteq events'[e]

LEMMA HeldGrows ==
  ASSUME EventsGrow, NEW t, NEW r \in LaunchRecord, NEW c, NEW w, HeldIn(t, r, c, w, events)
  PROVE  HeldIn(t, r, c, w, events')
<1>1. events[r.id] \subseteq events'[r.id]
  BY DEF EventsGrow, LaunchRecord
<1> QED BY <1>1 DEF HeldIn

LEMMA AuditedGrows ==
  ASSUME EventsGrow, NEW r \in LaunchRecord, Audited(r, events)
  PROVE  Audited(r, events')
<1>1. events[r.id] \subseteq events'[r.id]
  BY DEF EventsGrow, LaunchRecord
<1> QED BY <1>1 DEF Audited

(* The thread's own record, one write later. *)
LEMMA HeldAfterWrite ==
  ASSUME NEW t, NEW r, NEW c, NEW w \in Seq(Writes), w # <<>>, NEW ev, NEW ev2,
         HeldIn(t, r, c, w, ev), ev[r.id] \subseteq ev2[r.id],
         Head(w) # "save" => Head(w) \in ev2[r.id]
  PROVE  HeldIn(t, r, c, Tail(w), ev2)
<1>1. \A x : Occurs(x, w) <=> x = Head(w) \/ Occurs(x, Tail(w))
  BY TailFacts
<1>2. \A x : x # "save" /\ First(x, w) => x \in ev2[r.id]
  BY DEF First
<1> QED BY <1>1, <1>2 DEF HeldIn

LEMMA WriteAudit ==
  ASSUME TypeInv, AInv, NEW t \in Threads, DbWrite(t)
  PROVE  AInv'
<1>0. TypeOK
  BY DEF TypeInv
<1> DEFINE r == rec[t]
           k == Head(out[t])
<1>1. /\ r \in LaunchRecord /\ r # NoRec /\ r.id \in Execs
      /\ out[t] \in Seq(Writes) /\ out[t] # <<>>
      /\ UNCHANGED <<pc, rec, todo>>
      /\ \A u \in Threads : out'[u] = IF u = t THEN Tail(out[t]) ELSE out[u]
  BY <1>0 DEF DbWrite, TypeInv, HoldsRec, TypeOK, LaunchRecord
<1>2. CASE failures' = failures + 1
  BY <1>0, <1>2, BoundsAssumption DEF TypeOK, AInv
<1>3. CASE UNCHANGED failures
  <2> SUFFICES ASSUME failures = 0 PROVE (StoreAudited /\ TodoAudited /\ HeldAudited)'
    BY <1>3 DEF AInv
  <2>1. StoreAudited /\ TodoAudited /\ HeldAudited
    BY <1>3 DEF AInv
  <2>2. HeldIn(t, r, pc[t], out[t], events)
    BY <1>1, <2>1 DEF HeldAudited
  <2>3. \/ /\ k = "save" /\ UNCHANGED events
           /\ \A e \in Execs : store'[e] = IF e = r.id THEN r ELSE store[e]
        \/ /\ k # "save" /\ UNCHANGED store
           /\ \A e \in Execs : events'[e] = IF e = r.id THEN events[e] \cup {k} ELSE events[e]
    <3>1. failures' # failures + 1
      BY <1>0, <1>3, BoundsAssumption DEF TypeOK
    <3> QED BY <1>0, <3>1 DEF DbWrite, TypeOK
  <2>4. EventsGrow /\ (k # "save" => k \in events'[r.id])
    BY <1>1, <2>3 DEF EventsGrow
  <2>5. HeldAudited'
    <3>1. ASSUME NEW u \in Threads, rec'[u] # NoRec
          PROVE  HeldIn(u, rec'[u], pc'[u], out'[u], events')
      <4>1. CASE u = t
        <5>1. events[r.id] \subseteq events'[r.id]
          BY <1>1, <2>4 DEF EventsGrow
        <5> QED BY <1>1, <2>2, <2>4, <4>1, <5>1, HeldAfterWrite
      <4>2. CASE u # t
        <5>1. rec[u] \in LaunchRecord /\ HeldIn(u, rec[u], pc[u], out[u], events)
          BY <1>0, <1>1, <2>1, <3>1 DEF HeldAudited, TypeOK
        <5> QED BY <1>1, <2>4, <4>2, <5>1, HeldGrows
      <4> QED BY <4>1, <4>2
    <3> QED BY <3>1 DEF HeldAudited
  <2>6. TodoAudited'
    <3>1. ASSUME NEW u \in Threads, NEW q \in todo[u] PROVE Audited(q, events')
      <4>1. q \in LaunchRecord /\ Audited(q, events)
        BY <1>0, <2>1 DEF TodoAudited, TypeOK
      <4> QED BY <2>4, <4>1, AuditedGrows
    <3> QED BY <1>1, <3>1 DEF TodoAudited
  <2>7. ASSUME NEW e \in Execs, store'[e] # NoRec PROVE Audited(store'[e], events')
    <3>1. CASE k = "save" /\ e = r.id
      <4>1. ~First("ExecutionCreated", out[t]) /\ ~First("ReconcileStateChanged", out[t])
        BY <3>1 DEF First
      <4>2. Audited(r, events)
        BY <2>2, <4>1 DEF HeldIn, Audited
      <4> QED BY <2>3, <3>1, <4>2
    <3>2. CASE ~(k = "save" /\ e = r.id)
      <4>1. store'[e] = store[e]
        BY <2>3, <3>2
      <4>2. store[e] \in LaunchRecord /\ Audited(store[e], events)
        BY <1>0, <2>1, <2>7, <4>1 DEF StoreAudited, TypeOK
      <4> QED BY <2>4, <4>1, <4>2, AuditedGrows
    <3> QED BY <3>1, <3>2
  <2>8. ASSUME NEW e \in Execs, "Terminated" \in events'[e]
        PROVE  "TerminationRequested" \in events'[e]
    <3>1. CASE "Terminated" \in events[e]
      BY <2>1, <2>4, <3>1 DEF StoreAudited, EventsGrow
    <3>2. CASE "Terminated" \notin events[e]
      <4>1. e = r.id /\ k = "Terminated"
        BY <2>3, <2>8, <3>2
      <4>2. \A x : x = Head(out[t]) => Occurs(x, out[t])
        BY <1>1, TailFacts
      <4>3. Occurs("Terminated", out[t])
        BY <4>1, <4>2
      <4> QED BY <1>1, <2>2, <2>4, <4>1, <4>3 DEF HeldIn, EventsGrow
    <3> QED BY <3>1, <3>2
  <2> QED BY <2>5, <2>6, <2>7, <2>8 DEF StoreAudited
<1> QED BY <1>2, <1>3 DEF DbWrite

LEMMA ReturnAudit ==
  ASSUME TypeInv, AInv, NEW t \in Threads, Return(t)
  PROVE  AInv'
<1>1. PICK to \in {"done", "idle"} :
        Step(t, "return", to, NoRec, <<>>) /\ UNCHANGED db /\ UNCHANGED todo
  BY DEF Return
<1> QED BY <1>1, TodoKept, StepAudit

-----------------------------------------------------------------------------
(* Crash, restart, bootstrap, host. *)

LEMMA RecoveryAudit ==
  ASSUME TypeInv, AInv, Crash \/ Restart \/ Bootstrap
  PROVE  AInv'
<1>0. Boot \in Threads /\ Boot \notin Execs \cup Handlers /\ TypeOK
  BY ThreadsAssumption DEF Threads, TypeInv
<1>1. CASE Crash
  <2>1. /\ UNCHANGED <<store, events, failures>>
        /\ \A u \in Threads : rec'[u] = NoRec /\ todo'[u] = {}
    BY <1>1 DEF Crash, db
  <2> QED BY <2>1 DEF AInv, StoreAudited, TodoAudited, HeldAudited
<1>2. CASE Restart
  <2>1. /\ UNCHANGED <<store, events, failures, rec, out>>
        /\ \A u \in Threads :
             /\ pc'[u] = IF u = Boot THEN "recover" ELSE pc[u]
             /\ todo'[u] = IF u = Boot THEN {store[e] : e \in Recoverable} ELSE todo[u]
    BY <1>0, <1>2 DEF Restart, db, TypeOK
  <2>2. ASSUME failures = 0 PROVE (StoreAudited /\ TodoAudited)'
    <3>1. \A x \in {store[e] : e \in Recoverable} : Audited(x, events)
      BY <2>2 DEF AInv, StoreAudited, Recoverable, Recorded
    <3> QED BY <2>1, <2>2, <3>1 DEF AInv, StoreAudited, TodoAudited
  <2>3. ASSUME failures = 0 PROVE HeldAudited'
    <3>1. \A u \in Threads : u \in Handlers => pc'[u] = pc[u]
      BY <1>0, <2>1
    <3> QED BY <2>1, <2>3, <3>1 DEF AInv, HeldAudited, HeldIn
  <2> QED BY <2>1, <2>2, <2>3 DEF AInv
<1>3. ASSUME NEW r \in todo[Boot], RecoverExecution(r)
      PROVE  AInv'
  <2>1. PICK n \in LaunchRecord, w \in Seq(Writes) :
          Step(Boot, "recover", "recover", n, w) /\ Derived(n, r)
    BY <1>0, <1>3, RecoverShape
  <2>2. failures = 0 => Audited(n, events)
    BY <1>0, <2>1, DerivedAudited DEF AInv, TodoAudited
  <2>3. UNCHANGED db /\ \A u \in Threads : todo'[u] \subseteq todo[u]
    BY <1>0, <1>3 DEF RecoverExecution, TypeOK
  <2>4. w \in LaunchWrites
    <3>1. PICK ev \in {"ExecutionRehydrated", "ExecutionRecoveryUnknown"} :
            out' = [out EXCEPT ![Boot] = <<"save", ev>>]
      BY <1>3 DEF RecoverExecution, Step
    <3>2. w = <<"save", ev>>
      BY <1>0, <2>1, <3>1 DEF Step, TypeOK
    <3> QED BY <3>2 DEF LaunchWrites, EventTypes
  <2>5. failures = 0 => HeldIn(Boot, n, "recover", w, events)
    BY <1>0, <2>2, <2>4, LaunchWritesFacts, HandsOn
  <2> QED BY <1>0, <2>1, <2>3, <2>5, TodoKept, StepAudit
<1>4. CASE Serve
  <2>1. Step(Boot, "recover", "idle", NoRec, <<>>) /\ UNCHANGED db /\ UNCHANGED todo
    BY <1>4 DEF Serve
  <2> QED BY <1>0, <2>1, TodoKept, StepAudit
<1> QED BY <1>1, <1>2, <1>3, <1>4 DEF Bootstrap

LEMMA QuietAudit ==
  ASSUME AInv, UNCHANGED <<db, thread>>
  PROVE  AInv'
BY DEF AInv, StoreAudited, TodoAudited, HeldAudited, db, thread

LEMMA HostAudit ==
  ASSUME AInv, Host
  PROVE  AInv'
<1>1. UNCHANGED <<db, thread>>
  BY DEF Host, CreateSocket, Exit, ForeignStart, DeadlinePasses
<1> QED BY <1>1, QuietAudit

LEMMA InitAudit == Init => AInv
BY DEF Init, AInv, StoreAudited, TodoAudited, HeldAudited

LEMMA NextAudit == TypeInv /\ AInv /\ [Next]_vars => AInv'
<1> SUFFICES ASSUME TypeInv, AInv, [Next]_vars PROVE AInv'
  OBVIOUS
<1>1. CASE UNCHANGED vars
  BY <1>1, QuietAudit DEF vars, db, thread
<1>2. CASE Next
  BY <1>2, LaunchAudit, RequestAudit, ServingAudit, WriteAudit, ReturnAudit,
     RecoveryAudit, HostAudit
  DEF Next
<1> QED BY <1>1, <1>2

-----------------------------------------------------------------------------
(* As long as no write fails, the event of a creation is in the table      *)
(* before the record, that of a state only Reconcile enters before the     *)
(* state, and a Terminated event after the TerminationRequested event,     *)
(* whatever the interleaving and wherever a crash falls                    *)
(* (launch_handlers.go:214-237, orchestrator.go:49-51).                    *)
THEOREM AuditAheadHolds == Spec => []AuditAhead
<1>1. Init => TypeInv /\ AInv
  BY TypeInit, InitAudit
<1>2. TypeInv /\ AInv /\ [Next]_vars => (TypeInv /\ AInv)'
  BY TypeNext, NextAudit
<1>3. TypeInv /\ AInv => AuditAhead
  <2> SUFFICES ASSUME TypeInv, AInv, failures = 0, NEW e \in Execs
               PROVE  /\ e \in Recorded => "ExecutionCreated" \in events[e]
                      /\ e \in Recorded /\ store[e].state \in {"Running", "Exited"} =>
                           "ReconcileStateChanged" \in events[e]
                      /\ "Terminated" \in events[e] => "TerminationRequested" \in events[e]
    BY DEF AuditAhead
  <2>1. store[e] # NoRec => store[e].id = e
    BY DEF TypeInv, TypeOK
  <2> QED BY <2>1 DEF AInv, StoreAudited, Audited, Recorded
<1> QED BY <1>1, <1>2, <1>3, PTL DEF Spec
=============================================================================
