---------------------------- MODULE SerialProofs ----------------------------
(***************************************************************************)
(* What clients that wait for each other can rely on, for any constants:   *)
(* TerminalStable, HistoryExtends and TerminatedMeansDead.  The argument   *)
(* is one of exclusion: the code has no lock, but under SerialClients the  *)
(* order of the requests is one.  Only one thread at a time has a record   *)
(* of an execution in its hands, so what it writes is the row it read, gone*)
(* on.                                                                     *)
(***************************************************************************)
EXTENDS RecoveryProofs

-----------------------------------------------------------------------------
(* The invariant.                                                          *)

(* n is o gone on; a closed record does not go on. *)
GoneOn(n, o) ==
  /\ BeginsWith(n.trace, o.trace)
  /\ o.pid # NoPid => n.pid = o.pid
  /\ o.state \in TerminalStates => n = o

(* The launch of e has come to its end, or was lost in a crash. *)
Over(e) == pc[e] \in {"done", "past"}

(* Who serves nothing has nothing. *)
AtRest ==
  /\ \A h \in Handlers : /\ pc[h] = "idle" => rec[h] = NoRec
                         /\ pc[h] # "reconcile" => todo[h] = {}
  /\ \A e \in Execs : todo[e] = {} /\ (pc[e] = "none" \/ Over(e) => rec[e] = NoRec)
  /\ mode = "up" => rec[Boot] = NoRec /\ todo[Boot] = {}

OneServed ==
  \A h, k \in Handlers : pc[h] # "idle" /\ pc[k] # "idle" => h = k

(* Requests and the bootstrap deal with launches that are over. *)
LaunchesOver ==
  \A t \in Handlers \cup {Boot} :
    /\ rec[t] # NoRec => Over(rec[t].id)
    /\ \A r \in todo[t] : Over(r.id)

(* A record that was read and not yet treated is what the row still holds, *)
(* and the bootstrap reads no closed one.                                  *)
Fresh ==
  \A t \in Threads : \A r \in todo[t] :
    /\ store[r.id] = r
    /\ t = Boot => r.state \notin TerminalStates
    /\ rec[t] # NoRec => rec[t].id # r.id

(* A record in a thread's hands is its row gone on. *)
Ahead ==
  \A t \in Threads :
    rec[t] # NoRec /\ store[rec[t].id] # NoRec => GoneOn(rec[t], store[rec[t].id])

(* Nobody kills for a closed record. *)
KillsOpen ==
  \A h \in Handlers : pc[h] = "kill" => rec[h].state \notin TerminalStates

(* A launch is no handler, and one that has not begun has saved nothing. *)
Unsaved == \A e \in Execs : pc[e] # "idle" /\ (pc[e] = "none" => store[e] = NoRec)

SerialInv ==
  AtRest /\ OneServed /\ LaunchesOver /\ Fresh /\ Ahead /\ KillsOpen /\ Unsaved

(* Until a crash or a failed write loses it, the PID of an execution's     *)
(* process is saved, or its launch is about to save it.                    *)
PidKnown ==
  crashes = 0 /\ failures = 0 =>
    \A p \in Pids : owner[p] \in Execs =>
      LET e == owner[p]
      IN  \/ store[e] # NoRec /\ store[e].pid = p
          \/ /\ rec[e] # NoRec /\ rec[e].pid = p
             /\ out[e] # <<>> /\ Head(out[e]) = "save"

-----------------------------------------------------------------------------
(* Records.                                                                *)

LEMMA SameGoneOn ==
  ASSUME NEW r \in LaunchRecord
  PROVE  GoneOn(r, r)
BY SameTrace DEF GoneOn

(* What an open record that is its row gone on becomes is the row gone on. *)
LEMMA OpenGoneOn ==
  ASSUME NEW o \in LaunchRecord, NEW r \in LaunchRecord, NEW n \in LaunchRecord,
         GoneOn(r, o), r.state \notin TerminalStates,
         BeginsWith(n.trace, r.trace), r.pid # NoPid => n.pid = r.pid
  PROVE  GoneOn(n, o)
<1>1. n.trace \in Seq(LaunchStates) /\ r.trace \in Seq(LaunchStates) /\ o.trace \in Seq(LaunchStates)
  BY DEF LaunchRecord
<1>2. BeginsWith(n.trace, o.trace)
  BY <1>1 DEF GoneOn, BeginsWith
<1> QED BY <1>2 DEF GoneOn

LEMMA ReconcileBegins ==
  ASSUME NEW r \in LaunchRecord, NEW obs \in Observation, NEW late0 \in BOOLEAN
  PROVE  BeginsWith(Reconcile(r, obs, late0).rec.trace, r.trace)
<1>1. PICK q \in LaunchRecord, s \in LaunchStates :
           /\ SameButHealth(q, r)
           /\ Reconcile(r, obs, late0).rec \in {q, TransitionTo(q, s)}
  BY ReconcileShape
<1>2. BeginsWith(q.trace, q.trace) /\ BeginsWith(TransitionTo(q, s).trace, q.trace)
  BY <1>1, SameTrace, TransitionFacts
<1> QED BY <1>1, <1>2 DEF SameButHealth

-----------------------------------------------------------------------------
(* Exclusion.                                                              *)

(* Nobody else has a record of the execution whose record t holds. *)
LEMMA Exclusive ==
  ASSUME TypeInv, Alone, SerialInv, mode # "down",
         NEW t \in Threads, NEW u \in Threads, t # u, rec[t] # NoRec,
         NEW r, r \in todo[u] \/ (r = rec[u] /\ r # NoRec)
  PROVE  r.id # rec[t].id
<1>1. ASSUME NEW x \in Threads, rec[x] # NoRec \/ todo[x] # {}
      PROVE  /\ x \in Handlers => pc[x] # "idle" /\ mode = "up"
             /\ x \in Execs => ~Over(x) /\ rec[x] # NoRec /\ rec[x].id = x /\ todo[x] = {} /\ mode = "up"
             /\ x = Boot => mode = "boot"
  BY <1>1, ThreadsAssumption DEF SerialInv, AtRest, Alone, TypeInv, TypeOK, HoldsRec
<1>2. CASE t \in Execs /\ u \in Execs
  BY <1>1, <1>2
<1>3. CASE t \in Execs /\ u \notin Execs
  <2>1. Over(r.id)
    BY <1>3 DEF SerialInv, LaunchesOver, Threads
  <2> QED BY <1>1, <1>3, <2>1
<1>4. CASE t \notin Execs /\ u \in Execs
  <2>1. Over(rec[t].id)
    BY <1>4 DEF SerialInv, LaunchesOver, Threads
  <2> QED BY <1>1, <1>4, <2>1
<1>5. CASE t \in Handlers /\ u \in Handlers
  BY <1>1, <1>5 DEF SerialInv, OneServed
<1>6. CASE (t = Boot /\ u \in Handlers) \/ (t \in Handlers /\ u = Boot)
  BY <1>1, <1>6
<1> QED BY <1>2, <1>3, <1>4, <1>5, <1>6 DEF Threads

(* What a thread may take up with its next step. *)
TakesUp(t, to, r, next) ==
  /\ t \in Handlers =>
       /\ \A h \in Handlers \ {t} : pc[h] = "idle"
       /\ to = "idle" => r = NoRec
       /\ to # "reconcile" => next = {}
       /\ to = "kill" => r.state \notin TerminalStates
  /\ t \in Execs =>
       /\ ~Over(t) /\ to \notin {"none", "idle"} /\ next = {}
       /\ to \in {"done", "past"} => r = NoRec
  /\ t = Boot /\ mode' = "up" => r = NoRec /\ next = {}
  /\ t \notin Execs /\ r # NoRec => Over(r.id)
  /\ r # NoRec /\ store[r.id] # NoRec => GoneOn(r, store[r.id])
  /\ \A q \in next :
       /\ Over(q.id)
       /\ store[q.id] = q
       /\ t = Boot => q.state \notin TerminalStates
       /\ r # NoRec => r.id # q.id

LEMMA StepSerial ==
  ASSUME TypeInv, TypeInv', SerialInv,
         NEW t \in Threads, NEW from, NEW to, NEW r, NEW w,
         Step(t, from, to, r, w), UNCHANGED store,
         mode' = mode \/ t = Boot,
         \A u \in Threads : u # t => todo'[u] = todo[u],
         TakesUp(t, to, r, todo'[t])
  PROVE  SerialInv'
<1>1. \A u \in Threads : /\ rec'[u] = IF u = t THEN r ELSE rec[u]
                         /\ pc'[u] = IF u = t THEN to ELSE pc[u]
  BY DEF Step, TypeInv, TypeOK
<1>2. \A e \in Execs : pc[e] \in {"done", "past"} => pc'[e] \in {"done", "past"}
  BY <1>1 DEF TakesUp, Over, Threads
<1>3. AtRest'
  <2>1. \A h \in Handlers : /\ pc'[h] = "idle" => rec'[h] = NoRec
                            /\ pc'[h] # "reconcile" => todo'[h] = {}
    BY <1>1 DEF SerialInv, AtRest, TakesUp, Threads
  <2>2. \A e \in Execs :
          todo'[e] = {} /\ (pc'[e] \in {"none", "done", "past"} => rec'[e] = NoRec)
    BY <1>1 DEF SerialInv, AtRest, TakesUp, Over, Threads
  <2>3. mode' = "up" => rec'[Boot] = NoRec /\ todo'[Boot] = {}
    BY <1>1 DEF SerialInv, AtRest, TakesUp, Threads
  <2> QED BY <2>1, <2>2, <2>3 DEF AtRest, Over
<1>4. OneServed'
  BY <1>1 DEF SerialInv, OneServed, TakesUp, Threads
<1>5. LaunchesOver'
  <2>1. ASSUME NEW u \in Handlers \cup {Boot}, rec'[u] # NoRec
        PROVE  pc'[rec'[u].id] \in {"done", "past"}
    <3>1. rec'[u].id \in Execs /\ u \notin Execs /\ u \in Threads
      BY <2>1, ThreadsAssumption DEF TypeInv, TypeOK, LaunchRecord, Threads
    <3>2. Over(rec'[u].id)
      BY <1>1, <2>1, <3>1 DEF SerialInv, LaunchesOver, TakesUp
    <3> QED BY <1>2, <3>1, <3>2 DEF Over
  <2>2. ASSUME NEW u \in Handlers \cup {Boot}, NEW q \in todo'[u]
        PROVE  pc'[q.id] \in {"done", "past"}
    <3>1. q.id \in Execs /\ u \in Threads
      BY <2>2 DEF TypeInv, TypeOK, LaunchRecord, Threads
    <3>2. Over(q.id)
      BY <2>2, <3>1 DEF SerialInv, LaunchesOver, TakesUp
    <3> QED BY <1>2, <3>1, <3>2 DEF Over
  <2> QED BY <2>1, <2>2 DEF LaunchesOver, Over
<1>6. Fresh'
  BY <1>1 DEF SerialInv, Fresh, TakesUp
<1>7. Ahead'
  BY <1>1 DEF SerialInv, Ahead, TakesUp
<1>8. KillsOpen' /\ Unsaved'
  BY <1>1 DEF SerialInv, KillsOpen, Unsaved, TakesUp, Threads
<1> QED BY <1>3, <1>4, <1>5, <1>6, <1>7, <1>8 DEF SerialInv

-----------------------------------------------------------------------------
(* Launches. *)

LEMMA LaunchSerial ==
  ASSUME IInv, TypeInv', RecInv, SerialInv, NEW e \in Execs, Launch(e)
  PROVE  SerialInv'
<1>0. e \in Threads /\ e \notin Handlers /\ e # Boot /\ TypeInv /\ TypeOK
  BY ThreadsAssumption DEF Threads, IInv, TypeInv
<1>1. todo[e] = {}
  BY DEF SerialInv, AtRest
<1>2. CASE InitializeRecord(e)
  <2>1. /\ Step(e, "none", "validate", NewRecord(e), <<"ExecutionCreated", "save">>)
        /\ UNCHANGED <<store, todo, mode>> /\ pc[e] = "none"
    BY <1>2 DEF InitializeRecord, Step, db
  <2>2. store[e] = NoRec /\ NewRecord(e).id = e /\ ~Over(e)
    BY <2>1 DEF SerialInv, Unsaved, NewRecord, Over
  <2>3. TakesUp(e, "validate", NewRecord(e), todo'[e])
    BY <1>0, <1>1, <2>1, <2>2 DEF TakesUp
  <2> QED BY <1>0, <2>1, <2>3, StepSerial
<1>3. ASSUME NEW from \in Launching, NEW to \in Launching \cup {"return"},
             NEW n \in LaunchRecord, NEW w, Step(e, from, to, n, w),
             UNCHANGED <<store, todo, mode>>, n.id = e,
             BeginsWith(n.trace, rec[e].trace), rec[e].pid # NoPid => n.pid = rec[e].pid
      PROVE  SerialInv'
  <2>1. pc[e] \in Launching /\ ~Over(e)
    BY <1>3 DEF Step, Launching, Over
  <2>2. rec[e] \in LaunchRecord /\ rec[e].id = e /\ rec[e] # NoRec
    BY <1>0, <2>1, OwnRecord DEF TypeInv, HoldsRec
  <2>3. rec[e].state \notin TerminalStates
    BY <2>1 DEF RecInv, Places, PlaceOK, Launching, TerminalStates
  <2>4. ASSUME store[e] # NoRec PROVE GoneOn(n, store[e])
    <3>1. GoneOn(rec[e], store[e]) /\ store[e] \in LaunchRecord
      BY <1>0, <2>2, <2>4 DEF SerialInv, Ahead, TypeOK
    <3> QED BY <1>3, <2>2, <2>3, <3>1, OpenGoneOn
  <2>5. TakesUp(e, to, n, todo'[e])
    BY <1>0, <1>1, <1>3, <2>1, <2>4 DEF TakesUp, Launching
  <2> QED BY <1>0, <1>3, <2>5, StepSerial
<1>4. CASE Proceed(e)
  <2>1. PICK from \in Launching, to \in PCs, n \in LaunchRecord, w \in Seq(Writes) :
          /\ Step(e, from, to, n, w)
          /\ Derived(n, rec[e])
          /\ to \in Launching \cup {"return"}
          /\ UNCHANGED <<store, todo, mode>>
    BY <1>4 DEF Proceed, db
  <2>2. pc[e] \in Launching
    BY <2>1 DEF Step
  <2>3. rec[e].id = e
    BY <2>2, OwnRecord
  <2> QED BY <1>3, <2>1, <2>3 DEF Derived
<1>5. ASSUME NEW p \in Pids, Spawn(e, p)
      PROVE  SerialInv'
  <2> DEFINE q == [rec[e] EXCEPT !.pid = p]
             n == TransitionTo(q, "Starting")
  <2>1. /\ Step(e, "execute", "return", n, <<"save", "RuntimeSpawned">>)
        /\ UNCHANGED <<store, todo, mode>> /\ pc[e] \in Launching
    BY <1>5 DEF Spawn, Step, Launching, db
  <2>2. rec[e] \in LaunchRecord /\ rec[e].id = e /\ rec[e].pid = NoPid
    BY <2>1, OwnRecord
  <2>3. q \in LaunchRecord /\ q.id = e /\ q.trace = rec[e].trace /\ "Starting" \in LaunchStates
    BY <2>2 DEF LaunchRecord, LaunchStates
  <2> HIDE DEF q
  <2>4. n \in LaunchRecord /\ n.id = e /\ BeginsWith(n.trace, rec[e].trace)
    BY <2>3, TransitionFacts
  <2> HIDE DEF n
  <2>5. "execute" \in Launching /\ "return" \in Launching \cup {"return"}
    BY DEF Launching
  <2> QED BY <1>3, <2>1, <2>2, <2>4, <2>5
<1> QED BY <1>0, <1>2, <1>4, <1>5, LaunchShape

-----------------------------------------------------------------------------
(* Requests: SerialClients is what lets them in one at a time. *)

LEMMA RequestSerial ==
  ASSUME SerialClients, IInv, TypeInv', SerialInv, NEW h \in Handlers, Request(h)
  PROVE  SerialInv'
<1>0. h \in Threads /\ h \notin Execs /\ h # Boot /\ TypeInv /\ TypeOK
  BY ThreadsAssumption DEF Threads, IInv, TypeInv
<1>1. ASSUME NEW es \in SUBSET Recorded, BeginGet(h, es)
      PROVE  SerialInv'
  <2>1. /\ Step(h, "idle", "reconcile", NoRec, <<>>)
        /\ UNCHANGED <<store, mode>>
        /\ \A u \in Threads : todo'[u] = IF u = h THEN {store[e] : e \in es} ELSE todo[u]
    BY <1>0, <1>1 DEF BeginGet, db, TypeOK
  <2>2. \A k \in Handlers : pc[k] = "idle"
    BY <1>1 DEF BeginGet, Clear
  <2>3. ASSUME NEW q \in todo'[h] PROVE Over(q.id) /\ store[q.id] = q
    <3>1. PICK e \in es : q = store[e]
      BY <1>0, <2>1, <2>3
    <3>2. e \in Execs /\ store[e] # NoRec /\ pc[e] \in {"done", "past"}
      BY <1>1 DEF Recorded, BeginGet, Clear
    <3>3. q.id = e
      BY <1>0, <3>1, <3>2 DEF TypeOK
    <3> QED BY <3>1, <3>2, <3>3 DEF Over
  <2>4. TakesUp(h, "reconcile", NoRec, todo'[h])
    BY <1>0, <2>2, <2>3 DEF TakesUp
  <2> QED BY <1>0, <2>1, <2>4, StepSerial
<1>2. ASSUME NEW e \in Execs, TerminateLaunch(h, e)
      PROVE  SerialInv'
  <2> DEFINE n == TransitionTo(store[e], "Terminating")
  <2>1. /\ Step(h, "idle", "kill", n, <<"save", "TerminationRequested">>)
        /\ UNCHANGED <<store, todo, mode>>
        /\ store[e] # NoRec /\ store[e].state \notin TerminalStates
        /\ Clear({e}) /\ pc[h] = "idle"
    BY <1>2 DEF TerminateLaunch, Terminable, Recorded, Step, db
  <2>2. /\ \A k \in Handlers : pc[k] = "idle"
        /\ Over(e) /\ todo[h] = {}
    BY <2>1 DEF Clear, Over, SerialInv, AtRest
  <2>3. store[e] \in LaunchRecord /\ store[e].id = e /\ "Terminating" \in LaunchStates
    BY <1>0, <2>1 DEF TypeOK, LaunchStates
  <2>4. /\ n \in LaunchRecord /\ n.id = e /\ n.pid = store[e].pid
        /\ n.state \in {store[e].state, "Terminating"} /\ BeginsWith(n.trace, store[e].trace)
    BY <2>3, TransitionFacts
  <2> HIDE DEF n
  <2>5. n.state \notin TerminalStates
    BY <2>1, <2>4 DEF TerminalStates
  <2>6. GoneOn(n, store[e])
    BY <2>1, <2>3, <2>4, SameGoneOn, OpenGoneOn
  <2>7. TakesUp(h, "kill", n, todo'[h])
    BY <1>0, <2>1, <2>2, <2>4, <2>5, <2>6 DEF TakesUp
  <2> QED BY <1>0, <2>1, <2>7, StepSerial
<1>3. ASSUME NEW e \in Execs, GetOne(h, e) PROVE SerialInv'
  BY <1>1, <1>3 DEF GetOne
<1>4. ASSUME GetAll(h) PROVE SerialInv'
  BY <1>1, <1>4 DEF GetAll
<1> QED BY <1>2, <1>3, <1>4 DEF Request

(* A thread has treated the record r it had read; n is what it became. *)
LEMMA TreatedSerial ==
  ASSUME IInv, TypeInv', SerialInv, NEW t \in Handlers \cup {Boot}, NEW r \in todo[t],
         r.state \notin TerminalStates, mode' = mode, t = Boot => mode = "boot",
         UNCHANGED store, todo' = [todo EXCEPT ![t] = @ \ {r}],
         NEW from, from # "idle", NEW to, t \in Handlers => to = "reconcile",
         NEW n \in LaunchRecord, NEW w, Step(t, from, to, n, w), n.id = r.id,
         BeginsWith(n.trace, r.trace), n.pid = r.pid
  PROVE  SerialInv'
<1>0. t \in Threads /\ t \notin Execs /\ TypeInv /\ TypeOK
  BY ThreadsAssumption DEF Threads, IInv, TypeInv
<1>1. /\ \A u \in Threads : todo'[u] = IF u = t THEN todo[t] \ {r} ELSE todo[u]
      /\ pc[t] = from
  BY <1>0 DEF TypeOK, Step
<1>2. r \in LaunchRecord /\ store[r.id] = r /\ Over(r.id)
  BY <1>0 DEF TypeOK, SerialInv, Fresh, LaunchesOver
<1>3. GoneOn(n, store[r.id])
  BY <1>2, SameGoneOn, OpenGoneOn
<1>4. \A q \in todo[t] : store[q.id] = q /\ Over(q.id) /\ (t = Boot => q.state \notin TerminalStates)
  BY <1>0 DEF SerialInv, Fresh, LaunchesOver
<1>5. t \in Handlers => \A h \in Handlers \ {t} : pc[h] = "idle"
  BY <1>1 DEF SerialInv, OneServed
<1>6. \A q \in todo'[t] : n.id # q.id
  BY <1>0, <1>1, <1>2, <1>4
<1>7. TakesUp(t, to, n, todo'[t])
  BY <1>0, <1>1, <1>2, <1>3, <1>4, <1>5, <1>6, ThreadsAssumption DEF TakesUp
<1> QED BY <1>0, <1>1, <1>7, StepSerial

LEMMA ServingSerial ==
  ASSUME IInv, TypeInv', RecInv, SerialInv, NEW h \in Handlers, Serving(h)
  PROVE  SerialInv'
<1>0. h \in Threads /\ h \notin Execs /\ h # Boot /\ TypeInv /\ TypeOK
  BY ThreadsAssumption DEF Threads, IInv, TypeInv
<1>1. pc[h] # "idle" => \A k \in Handlers \ {h} : pc[k] = "idle"
  BY DEF SerialInv, OneServed
<1>2. ASSUME NEW r \in todo[h], ReconcileExecution(h, r)
      PROVE  SerialInv'
  <2> DEFINE n == Reconcile(r, Observed(r), r.id \in late).rec
  <2>1. r \in LaunchRecord /\ Observed(r) \in Observation /\ (r.id \in late) \in BOOLEAN
    BY <1>0, ObservedType DEF TypeOK
  <2>2. /\ n \in LaunchRecord /\ n.id = r.id /\ n.pid = r.pid
        /\ BeginsWith(n.trace, r.trace)
    BY <2>1, ReconcileFacts, ReconcileBegins
  <2>3. /\ UNCHANGED <<store, mode>> /\ todo' = [todo EXCEPT ![h] = @ \ {r}]
        /\ \/ Step(h, "reconcile", "reconcile", NoRec, <<>>)
           \/ /\ r.state \notin TerminalStates
              /\ \E w : Step(h, "reconcile", "reconcile", n, w)
    BY <1>2 DEF ReconcileExecution, db
  <2> HIDE DEF n
  <2>4. CASE Step(h, "reconcile", "reconcile", NoRec, <<>>)
    <3>1. /\ \A u \in Threads : todo'[u] = IF u = h THEN todo[h] \ {r} ELSE todo[u]
          /\ pc[h] # "idle"
      BY <1>0, <2>3, <2>4 DEF TypeOK, Step
    <3>2. \A q \in todo[h] : Over(q.id) /\ store[q.id] = q
      BY <1>0 DEF SerialInv, Fresh, LaunchesOver
    <3>3. TakesUp(h, "reconcile", NoRec, todo'[h])
      BY <1>0, <1>1, <3>1, <3>2 DEF TakesUp
    <3> QED BY <1>0, <2>3, <2>4, <3>1, <3>3, StepSerial
  <2>5. CASE /\ r.state \notin TerminalStates
             /\ \E w : Step(h, "reconcile", "reconcile", n, w)
    BY <1>0, <2>2, <2>3, <2>5, TreatedSerial
  <2> QED BY <2>3, <2>4, <2>5
<1>3. CASE EndGet(h)
  <2>1. /\ Step(h, "reconcile", "idle", NoRec, <<>>) /\ UNCHANGED <<store, mode, todo>>
        /\ todo[h] = {} /\ pc[h] # "idle"
    BY <1>3 DEF EndGet, Step, db
  <2>2. TakesUp(h, "idle", NoRec, todo'[h])
    BY <1>0, <1>1, <2>1 DEF TakesUp
  <2> QED BY <1>0, <2>1, <2>2, StepSerial
<1>4. CASE TerminateWithoutRuntime(h) \/ KillRuntime(h) \/ KillFails(h)
  <2>1. /\ UNCHANGED <<store, mode, todo>> /\ pc[h] = "kill"
        /\ \E m, w : /\ Step(h, "kill", "return", m, w)
                     /\ m = Killed(rec[h]) \/ m = rec[h]
    BY <1>4 DEF TerminateWithoutRuntime, KillRuntime, KillFails, db
  <2>2. /\ rec[h] \in LaunchRecord /\ rec[h] # NoRec /\ rec[h].id \in Execs
        /\ rec[h].state \notin TerminalStates /\ Over(rec[h].id)
    BY <1>0, <2>1 DEF TypeInv, HoldsRec, TypeOK, LaunchRecord, SerialInv, KillsOpen, LaunchesOver
  <2>3. PICK m, w : /\ Step(h, "kill", "return", m, w)
                    /\ m = Killed(rec[h]) \/ m = rec[h]
    BY <2>1
  <2>4. Derived(Killed(rec[h]), rec[h]) /\ BeginsWith(rec[h].trace, rec[h].trace)
    BY <2>2, KilledDerived, SameTrace
  <2>5. /\ m \in LaunchRecord /\ m.id = rec[h].id /\ m.pid = rec[h].pid
        /\ BeginsWith(m.trace, rec[h].trace)
    BY <2>2, <2>3, <2>4 DEF Derived
  <2>6. ASSUME store[m.id] # NoRec PROVE GoneOn(m, store[m.id])
    <3>1. GoneOn(rec[h], store[m.id]) /\ store[m.id] \in LaunchRecord
      BY <1>0, <2>2, <2>5, <2>6 DEF SerialInv, Ahead, TypeOK
    <3> QED BY <2>2, <2>5, <3>1, OpenGoneOn
  <2>7. todo[h] = {}
    BY <2>1 DEF SerialInv, AtRest
  <2>8. TakesUp(h, "return", m, todo'[h])
    BY <1>0, <1>1, <2>1, <2>2, <2>5, <2>6, <2>7 DEF TakesUp
  <2> QED BY <1>0, <2>1, <2>3, <2>8, StepSerial
<1> QED BY <1>2, <1>3, <1>4 DEF Serving

LEMMA ReturnSerial ==
  ASSUME IInv, TypeInv', SerialInv, NEW t \in Threads, Return(t)
  PROVE  SerialInv'
<1>0. TypeInv
  BY DEF IInv
<1> DEFINE to == IF t \in Execs THEN "done" ELSE "idle"
<1>1. /\ Step(t, "return", to, NoRec, <<>>) /\ t # Boot /\ pc[t] = "return"
      /\ UNCHANGED <<store, mode, todo>>
  BY DEF Return, Step, db
<1>2. todo[t] = {} /\ (t \in Execs => ~Over(t))
  BY <1>1 DEF SerialInv, AtRest, Over, Threads
<1>3. t \in Handlers => \A k \in Handlers \ {t} : pc[k] = "idle"
  BY <1>1 DEF SerialInv, OneServed
<1>4. TakesUp(t, to, NoRec, todo'[t])
  BY <1>1, <1>2, <1>3 DEF TakesUp
<1> QED BY <1>0, <1>1, <1>4, StepSerial

-----------------------------------------------------------------------------
(* Crash, restart, bootstrap. *)

LEMMA CrashSerial ==
  ASSUME IInv, TypeInv', SerialInv, Crash
  PROVE  SerialInv'
<1>1. /\ UNCHANGED store /\ mode' = "down"
      /\ \A u \in Threads : rec'[u] = NoRec /\ todo'[u] = {}
      /\ \A h \in Handlers : pc'[h] = "idle"
      /\ \A e \in Execs : pc'[e] # "idle" /\ (pc'[e] = "none" => pc[e] = "none")
  BY ThreadsAssumption DEF Crash, db, Threads
<1>2. AtRest' /\ OneServed' /\ LaunchesOver'
  BY <1>1 DEF AtRest, OneServed, LaunchesOver, Threads
<1>3. Fresh' /\ Ahead' /\ KillsOpen'
  BY <1>1 DEF Fresh, Ahead, KillsOpen
<1>4. Unsaved'
  BY <1>1 DEF SerialInv, Unsaved
<1> QED BY <1>2, <1>3, <1>4 DEF SerialInv

LEMMA RestartSerial ==
  ASSUME IInv, TypeInv', RecInv, SerialInv, Restart
  PROVE  SerialInv'
<1>0. Boot \in Threads /\ Boot \notin Execs /\ Boot \notin Handlers /\ TypeOK
  BY ThreadsAssumption DEF Threads, IInv, TypeInv
<1>1. /\ UNCHANGED <<store, rec>> /\ mode = "down" /\ mode' = "boot"
      /\ \A u \in Threads :
           /\ pc'[u] = IF u = Boot THEN "recover" ELSE pc[u]
           /\ todo'[u] = IF u = Boot THEN {store[e] : e \in Recoverable} ELSE todo[u]
  BY <1>0 DEF Restart, db, TypeOK
<1>2. \A u \in Threads : rec'[u] = NoRec /\ (u # Boot => todo'[u] = {} /\ pc'[u] = pc[u])
  BY <1>1 DEF RecInv, Alone
<1>3. ASSUME NEW q \in todo'[Boot]
      PROVE  store[q.id] = q /\ pc'[q.id] \in {"done", "past"} /\ q.state \notin TerminalStates
  <2>1. PICK e \in Execs : q = store[e] /\ store[e] # NoRec /\ store[e].state \notin TerminalStates
    BY <1>0, <1>1, <1>3 DEF Recoverable, Recorded
  <2>2. q.id = e /\ pc[e] \in {"none", "past", "idle"}
    BY <1>0, <1>1, <2>1 DEF TypeOK, RecInv, Alone, Threads
  <2>3. pc[e] = "past" /\ pc'[e] = pc[e]
    BY <1>0, <1>2, <2>1, <2>2 DEF SerialInv, Unsaved, Threads
  <2> QED BY <2>1, <2>2, <2>3
<1>4. AtRest' /\ OneServed'
  BY <1>0, <1>1, <1>2 DEF SerialInv, AtRest, OneServed, Over, Threads
<1>5. LaunchesOver'
  BY <1>2, <1>3 DEF LaunchesOver, Over, Threads
<1>6. Fresh' /\ Ahead'
  BY <1>1, <1>2, <1>3 DEF Fresh, Ahead
<1>7. KillsOpen' /\ Unsaved'
  BY <1>0, <1>1, <1>2 DEF SerialInv, KillsOpen, Unsaved, Threads
<1> QED BY <1>4, <1>5, <1>6, <1>7 DEF SerialInv

(* The bootstrap runs before the server, alone. *)
LEMMA BootMode ==
  ASSUME IInv, SerialInv, mode # "down", NEW r \in todo[Boot]
  PROVE  mode = "boot"
BY DEF SerialInv, AtRest, IInv, TypeInv, TypeOK

LEMMA BootstrapSerial ==
  ASSUME IInv, TypeInv', RecInv, SerialInv, Bootstrap
  PROVE  SerialInv'
<1>0. /\ Boot \in Threads /\ Boot \notin Execs /\ Boot \notin Handlers
      /\ TypeInv /\ TypeOK
  BY ThreadsAssumption DEF Threads, IInv, TypeInv
<1>1. ASSUME NEW r \in todo[Boot], RecoverExecution(r)
      PROVE  SerialInv'
  <2>1. PICK n \in LaunchRecord, w \in Seq(Writes) :
          Step(Boot, "recover", "recover", n, w) /\ Derived(n, r)
    BY <1>0, <1>1, RecoverShape
  <2>2. /\ UNCHANGED <<store, mode>> /\ todo' = [todo EXCEPT ![Boot] = @ \ {r}]
        /\ mode # "down"
    BY <1>1, <2>1 DEF RecoverExecution, Step, db
  <2>3. r.state \notin TerminalStates /\ mode = "boot"
    BY <1>0, <1>1, <2>2, BootMode DEF SerialInv, Fresh
  <2> QED BY <1>0, <2>1, <2>2, <2>3, TreatedSerial DEF Derived
<1>2. CASE Serve
  <2>1. /\ Step(Boot, "recover", "idle", NoRec, <<>>)
        /\ UNCHANGED <<store, todo>> /\ todo[Boot] = {}
    BY <1>2 DEF Serve, db
  <2>2. TakesUp(Boot, "idle", NoRec, todo'[Boot])
    BY <1>0, <2>1 DEF TakesUp
  <2> QED BY <1>0, <2>1, <2>2, StepSerial
<1> QED BY <1>1, <1>2 DEF Bootstrap

-----------------------------------------------------------------------------
(* Writes. *)

(* What a write may do to the table: the row of the record in t's hands,   *)
(* which is that row gone on.                                              *)
Saves(t) ==
  \A e \in Execs :
    store'[e] = IF e = rec[t].id THEN rec[t] ELSE store[e]

LEMMA WriteShape ==
  ASSUME TypeInv, NEW t \in Threads, DbWrite(t)
  PROVE  /\ rec[t] \in LaunchRecord /\ rec[t] # NoRec /\ mode # "down"
         /\ UNCHANGED <<pc, rec, todo, mode, crashes, owner, pst>>
         /\ \A u \in Threads : out'[u] = IF u = t THEN Tail(out[t]) ELSE out[u]
         /\ \/ UNCHANGED <<store, failures>> /\ Head(out[t]) # "save"
            \/ UNCHANGED store /\ failures' = failures + 1
            \/ UNCHANGED failures /\ Saves(t)
BY DEF DbWrite, TypeInv, TypeOK, HoldsRec, Saves, host

LEMMA WriteSerial ==
  ASSUME IInv, TypeInv', RecInv, SerialInv, NEW t \in Threads, DbWrite(t)
  PROVE  SerialInv'
<1>0. TypeInv /\ Alone
  BY DEF IInv, RecInv
<1>1. /\ rec[t] \in LaunchRecord /\ rec[t] # NoRec /\ mode # "down"
      /\ UNCHANGED <<pc, rec, todo, mode>>
      /\ UNCHANGED store \/ Saves(t)
  BY <1>0, WriteShape
<1>2. AtRest' /\ OneServed' /\ LaunchesOver' /\ KillsOpen'
  BY <1>1 DEF SerialInv, AtRest, OneServed, LaunchesOver, KillsOpen, Over
<1>3. CASE UNCHANGED store
  BY <1>1, <1>2, <1>3 DEF SerialInv, Fresh, Ahead, Unsaved
<1>4. CASE Saves(t)
  <2>1. ASSUME NEW u \in Threads, NEW r \in todo[u]
        PROVE  r.id # rec[t].id /\ r.id \in Execs
    <3>1. u = t => r.id # rec[t].id
      BY <1>1, <2>1 DEF SerialInv, Fresh
    <3>2. r.id \in Execs
      BY <1>0, <2>1 DEF TypeInv, TypeOK, LaunchRecord
    <3> QED BY <1>0, <1>1, <2>1, <3>1, <3>2, Exclusive
  <2>2. Fresh'
    BY <1>1, <1>4, <2>1 DEF SerialInv, Fresh, Saves
  <2>3. ASSUME NEW u \in Threads, rec[u] # NoRec, store'[rec[u].id] # NoRec
        PROVE  GoneOn(rec[u], store'[rec[u].id])
    <3>0. rec[u].id \in Execs
      BY <1>0, <2>3 DEF TypeInv, TypeOK, LaunchRecord
    <3>1. CASE u = t
      BY <1>1, <1>4, <3>0, <3>1, SameGoneOn DEF Saves
    <3>2. CASE u # t
      <4>1. rec[u].id # rec[t].id
        BY <1>0, <1>1, <2>3, <3>2, Exclusive
      <4> QED BY <1>4, <2>3, <3>0, <4>1 DEF SerialInv, Ahead, Saves
    <3> QED BY <3>1, <3>2
  <2>4. Ahead'
    BY <1>1, <2>3 DEF Ahead
  <2>5. Unsaved'
    <3>1. ASSUME pc[rec[t].id] = "none" PROVE FALSE
      <4>1. CASE t \in Execs
        BY <1>0, <1>1, <3>1, <4>1 DEF TypeInv, HoldsRec, SerialInv, AtRest
      <4>2. CASE t \notin Execs
        BY <1>1, <3>1, <4>2 DEF SerialInv, LaunchesOver, Over, Threads
      <4> QED BY <4>1, <4>2
    <3> QED BY <1>1, <1>4, <3>1 DEF SerialInv, Unsaved, Saves
  <2> QED BY <1>2, <2>2, <2>4, <2>5 DEF SerialInv
<1> QED BY <1>1, <1>3, <1>4

LEMMA QuietSerial ==
  ASSUME SerialInv, UNCHANGED <<store, pc, rec, todo, mode>>
  PROVE  SerialInv'
<1>1. AtRest' /\ OneServed' /\ LaunchesOver' /\ KillsOpen'
  BY DEF SerialInv, AtRest, OneServed, LaunchesOver, KillsOpen, Over
<1>2. Fresh' /\ Ahead' /\ Unsaved'
  BY DEF SerialInv, Fresh, Ahead, Unsaved
<1> QED BY <1>1, <1>2 DEF SerialInv

LEMMA HostSerial ==
  ASSUME SerialInv, Host
  PROVE  SerialInv'
<1>1. UNCHANGED <<store, pc, rec, todo, mode>>
  BY DEF Host, CreateSocket, Exit, ForeignStart, DeadlinePasses, db, thread
<1> QED BY <1>1, QuietSerial

LEMMA InitSerial == Init => SerialInv
<1> SUFFICES ASSUME Init PROVE SerialInv
  OBVIOUS
<1>1. \A t \in Threads : rec[t] = NoRec /\ todo[t] = {}
  BY DEF Init
<1>2. \A t \in Threads : pc[t] = IF t \in Execs THEN "none" ELSE "idle"
  BY DEF Init
<1>3. AtRest /\ OneServed /\ LaunchesOver
  BY <1>1, <1>2, ThreadsAssumption DEF AtRest, OneServed, LaunchesOver, Threads
<1>4. Fresh /\ Ahead /\ KillsOpen /\ Unsaved
  BY <1>1, <1>2, ThreadsAssumption DEF Init, Fresh, Ahead, KillsOpen, Unsaved, Threads
<1> QED BY <1>3, <1>4 DEF SerialInv

SInv == IInv /\ RecInv /\ SerialInv

LEMMA NextSerial ==
  ASSUME SerialClients
  PROVE  SInv /\ [Next]_vars => SInv'
<1> SUFFICES ASSUME IInv, RecInv, SerialInv, [Next]_vars PROVE SInv'
  BY DEF SInv
<1>1. IInv' /\ RecInv' /\ TypeInv'
  BY NextRecovered DEF IInv
<1>2. CASE UNCHANGED vars
  BY <1>1, <1>2, QuietSerial DEF vars, SInv
<1>3. CASE Next
  BY <1>1, <1>3, LaunchSerial, RequestSerial, ServingSerial, ReturnSerial, WriteSerial,
     CrashSerial, RestartSerial, BootstrapSerial, HostSerial
  DEF Next, SInv
<1> QED BY <1>2, <1>3

LEMMA SerialInductive ==
  ASSUME SerialClients
  PROVE  Spec => []SInv
<1>1. Init => SInv
  BY InitIInv, InitRecovered, InitSerial DEF SInv
<1>2. SInv /\ [Next]_vars => SInv'
  BY NextSerial
<1> QED BY <1>1, <1>2, PTL DEF Spec

-----------------------------------------------------------------------------
(* The table as clients that wait for each other see it.                   *)

(* What any step may do to a row. *)
LEMMA RowsGoOn ==
  ASSUME SInv, [Next]_vars, NEW e \in Execs, store[e] # NoRec
  PROVE  store'[e] \in LaunchRecord /\ store[e] \in LaunchRecord /\ GoneOn(store'[e], store[e])
<1>0. TypeInv /\ store[e] \in LaunchRecord
  BY DEF SInv, IInv, TypeInv, TypeOK
<1>1. CASE UNCHANGED store
  BY <1>0, <1>1, SameGoneOn
<1>2. ASSUME NEW t \in Threads, DbWrite(t)
      PROVE  store'[e] \in LaunchRecord /\ GoneOn(store'[e], store[e])
  <2>1. rec[t] \in LaunchRecord /\ rec[t] # NoRec /\ (UNCHANGED store \/ Saves(t))
    BY <1>0, <1>2, WriteShape
  <2>2. CASE Saves(t) /\ e = rec[t].id
    BY <2>1, <2>2 DEF Saves, SInv, SerialInv, Ahead
  <2>3. CASE UNCHANGED store \/ (Saves(t) /\ e # rec[t].id)
    BY <1>0, <2>3, SameGoneOn DEF Saves
  <2> QED BY <2>1, <2>2, <2>3
<1>3. CASE Next /\ ~\E t \in Threads : DbWrite(t)
  <2>1. UNCHANGED store
    BY <1>3 DEF Next, Launch, InitializeRecord, ValidationFails, ValidationPasses,
       PreparationFails, PreparationPasses, RecordLaunching, CompleteDryRun, SpawnFails, Spawn,
       Request, GetOne, GetAll, BeginGet, TerminateLaunch, Serving, ReconcileExecution, EndGet,
       TerminateWithoutRuntime, KillRuntime, KillFails, Return, Bootstrap, RecoverExecution,
       Serve, Crash, Restart, Host, CreateSocket, Exit, ForeignStart, DeadlinePasses, db
  <2> QED BY <1>1, <2>1
<1> QED BY <1>0, <1>1, <1>2, <1>3 DEF vars

(* If clients wait for each other, a terminal record is never modified     *)
(* again (state.go:19), whatever is polled, terminated, crashes or fails   *)
(* to be written.                                                          *)
THEOREM TerminalStableHolds ==
  ASSUME SerialClients
  PROVE  Spec => TerminalStable
<1>1. SInv /\ [Next]_vars =>
        [\A e \in Recorded :
           store[e].state \in TerminalStates => store'[e] = store[e]]_vars
  BY RowsGoOn DEF Recorded, GoneOn
<1> QED BY <1>1, SerialInductive, PTL DEF Spec, TerminalStable

(* If clients wait for each other, no saved history is rewritten and no    *)
(* saved PID forgotten (state.go:50).                                      *)
THEOREM HistoryExtendsHolds ==
  ASSUME SerialClients
  PROVE  Spec => HistoryExtends
<1>1. ASSUME SInv, [Next]_vars, NEW e \in Recorded
      PROVE  /\ Len(store[e].trace) <= Len(store'[e].trace)
             /\ SubSeq(store'[e].trace, 1, Len(store[e].trace)) = store[e].trace
             /\ store[e].pid # NoPid => store'[e].pid = store[e].pid
  <2>1. GoneOn(store'[e], store[e]) /\ store'[e] \in LaunchRecord /\ store[e] \in LaunchRecord
    BY <1>1, RowsGoOn DEF Recorded
  <2> DEFINE a == store'[e].trace
             b == store[e].trace
  <2>2. a \in Seq(LaunchStates) /\ b \in Seq(LaunchStates) /\ BeginsWith(a, b)
    BY <2>1 DEF GoneOn, LaunchRecord
  <2> HIDE DEF a, b
  <2>3. Len(b) <= Len(a) /\ SubSeq(a, 1, Len(b)) = b
    <3>1. Len(b) \in Nat /\ Len(a) \in Nat /\ Len(b) <= Len(a) /\ \A i \in 1..Len(b) : a[i] = b[i]
      BY <2>2 DEF BeginsWith
    <3>2. /\ SubSeq(a, 1, Len(b)) \in Seq(LaunchStates)
          /\ Len(SubSeq(a, 1, Len(b))) = Len(b)
          /\ \A i \in 1..Len(b) : SubSeq(a, 1, Len(b))[i] = a[i]
      BY <2>2, <3>1
    <3> QED BY <2>2, <3>1, <3>2
  <2> QED BY <2>1, <2>3 DEF GoneOn, a, b
<1>2. SInv /\ [Next]_vars =>
        [\A e \in Recorded :
           LET old == store[e]  new == store'[e]
           IN /\ Len(old.trace) <= Len(new.trace)
              /\ SubSeq(new.trace, 1, Len(old.trace)) = old.trace
              /\ old.pid # NoPid => new.pid = old.pid]_vars
  BY <1>1
<1> QED BY <1>2, SerialInductive, PTL DEF Spec, HistoryExtends

-----------------------------------------------------------------------------
(* Terminated executions.                                                  *)

(* A step of a thread leaves the saved PIDs alone, and drops its own record*)
(* only when it has been written.                                          *)
LEMMA StepPids ==
  ASSUME TypeInv, PidKnown, NEW t \in Threads, NEW from, NEW to, NEW r, NEW w,
         Step(t, from, to, r, w), UNCHANGED <<store, crashes, failures>>,
         \A p \in Pids : owner'[p] \in Execs => owner'[p] = owner[p]
  PROVE  PidKnown'
<1> SUFFICES ASSUME crashes = 0, failures = 0, NEW p \in Pids, NEW e \in Execs, owner'[p] = e
             PROVE  \/ store[e] # NoRec /\ store[e].pid = p
                    \/ /\ rec'[e] # NoRec /\ rec'[e].pid = p
                       /\ out'[e] # <<>> /\ Head(out'[e]) = "save"
  BY DEF PidKnown
<1>1. e \in Threads /\ owner[p] = e
  BY DEF Threads
<1>2. e # t => rec'[e] = rec[e] /\ out'[e] = out[e]
  BY <1>1 DEF Step, TypeInv, TypeOK
<1>3. out[t] = <<>>
  BY DEF Step
<1> QED BY <1>1, <1>2, <1>3 DEF PidKnown

LEMMA LaunchPids ==
  ASSUME IInv, PidKnown, NEW e \in Execs, Launch(e)
  PROVE  PidKnown'
<1>0. e \in Threads /\ TypeInv /\ TypeOK
  BY DEF Threads, IInv, TypeInv
<1>1. CASE InitializeRecord(e)
  <2>1. /\ Step(e, "none", "validate", NewRecord(e), <<"ExecutionCreated", "save">>)
        /\ UNCHANGED <<store, crashes, failures, owner>>
    BY <1>1 DEF InitializeRecord, db, host
  <2> QED BY <1>0, <2>1, StepPids
<1>2. CASE Proceed(e)
  <2>1. PICK from, to, r, w : /\ Step(e, from, to, r, w)
                              /\ UNCHANGED <<store, crashes, failures, owner>>
    BY <1>2 DEF Proceed, db, host
  <2> QED BY <1>0, <2>1, StepPids
<1>3. ASSUME NEW p \in Pids, Spawn(e, p)
      PROVE  PidKnown'
  <2> DEFINE q == [rec[e] EXCEPT !.pid = p]
             n == TransitionTo(q, "Starting")
  <2>1. /\ Step(e, "execute", "return", n, <<"save", "RuntimeSpawned">>)
        /\ UNCHANGED <<store, crashes, failures>> /\ pc[e] = "execute"
        /\ \A x \in Pids : owner'[x] = IF x = p THEN e ELSE owner[x]
    BY <1>0, <1>3 DEF Spawn, Step, db, TypeOK
  <2>2. rec[e] \in LaunchRecord
    BY <2>1, OwnRecord DEF Launching
  <2>3. q \in LaunchRecord /\ q.pid = p /\ "Starting" \in LaunchStates
    BY <2>2 DEF LaunchRecord, LaunchStates
  <2> HIDE DEF q
  <2>4. n \in LaunchRecord /\ n.pid = p
    BY <2>3, TransitionFacts
  <2> HIDE DEF n
  <2>5. \A u \in Threads : /\ rec'[u] = IF u = e THEN n ELSE rec[u]
                           /\ out'[u] = IF u = e THEN <<"save", "RuntimeSpawned">> ELSE out[u]
    BY <1>0, <2>1 DEF Step, TypeOK
  <2>6. n # NoRec /\ <<"save", "RuntimeSpawned">> # <<>> /\ Head(<<"save", "RuntimeSpawned">>) = "save"
    BY <2>4, RecAssumption
  <2>7. \A x \in Pids : owner[x] # e
    BY <2>1 DEF IInv, HostOK, Spawned
  <2> SUFFICES ASSUME crashes = 0, failures = 0, NEW x \in Pids, NEW d \in Execs, owner'[x] = d
               PROVE  \/ store[d] # NoRec /\ store[d].pid = x
                      \/ /\ rec'[d] # NoRec /\ rec'[d].pid = x
                         /\ out'[d] # <<>> /\ Head(out'[d]) = "save"
    BY <2>1 DEF PidKnown
  <2>8. CASE x = p
    BY <1>0, <2>1, <2>4, <2>5, <2>6, <2>8
  <2>9. CASE x # p
    <3>1. owner[x] = d /\ d # e /\ d \in Threads
      BY <2>1, <2>7, <2>9 DEF Threads
    <3> QED BY <2>5, <3>1 DEF PidKnown
  <2> QED BY <2>8, <2>9
<1> QED BY <1>0, <1>1, <1>2, <1>3, LaunchShape

LEMMA HandlerPids ==
  ASSUME IInv, PidKnown, NEW h \in Handlers, Request(h) \/ Serving(h)
  PROVE  PidKnown'
<1>0. h \in Threads /\ TypeInv /\ TypeOK
  BY DEF Threads, IInv, TypeInv
<1>1. /\ \E from, to, r, w : Step(h, from, to, r, w)
      /\ UNCHANGED <<store, crashes, failures>>
  BY DEF Request, GetOne, GetAll, BeginGet, TerminateLaunch, Serving, ReconcileExecution,
         EndGet, TerminateWithoutRuntime, KillRuntime, KillFails, db
<1>2. \A p \in Pids : owner'[p] \in Execs => owner'[p] = owner[p]
  <2>1. CASE KillRuntime(h)
    <3>1. \A p \in Pids : owner'[p] \in {owner[p], NoOne}
      BY <1>0, <2>1 DEF KillRuntime, TypeOK
    <3> QED BY <3>1, OwnerAssumption
  <2>2. CASE ~KillRuntime(h)
    <3>1. UNCHANGED owner
      BY <2>2 DEF Request, GetOne, GetAll, BeginGet, TerminateLaunch, Serving,
                  ReconcileExecution, EndGet, TerminateWithoutRuntime, KillFails, host
    <3> QED BY <3>1
  <2> QED BY <2>1, <2>2
<1> QED BY <1>0, <1>1, <1>2, StepPids

LEMMA BootstrapPids ==
  ASSUME IInv, PidKnown, Bootstrap
  PROVE  PidKnown'
<1>0. Boot \in Threads /\ TypeInv
  BY DEF Threads, IInv
<1>1. /\ \E from, to, r, w : Step(Boot, from, to, r, w)
      /\ UNCHANGED <<store, crashes, failures, owner>>
  BY DEF Bootstrap, RecoverExecution, Serve, db, host
<1> QED BY <1>0, <1>1, StepPids

LEMMA ReturnPids ==
  ASSUME IInv, PidKnown, NEW t \in Threads, Return(t)
  PROVE  PidKnown'
<1>0. TypeInv
  BY DEF IInv
<1>1. /\ \E from, to, r, w : Step(t, from, to, r, w)
      /\ UNCHANGED <<store, crashes, failures, owner>>
  BY DEF Return, db, host
<1> QED BY <1>0, <1>1, StepPids

(* A save keeps the PID its row has; the launch's own save gives it one. *)
LEMMA WritePids ==
  ASSUME SInv, PidKnown, NEW t \in Threads, DbWrite(t)
  PROVE  PidKnown'
<1>0. TypeInv /\ TypeOK /\ SerialInv
  BY DEF SInv, IInv, TypeInv
<1>1. /\ rec[t] \in LaunchRecord /\ rec[t] # NoRec
      /\ UNCHANGED <<pc, rec, crashes, owner>>
      /\ \A u \in Threads : out'[u] = IF u = t THEN Tail(out[t]) ELSE out[u]
      /\ \/ UNCHANGED <<store, failures>> /\ Head(out[t]) # "save"
         \/ UNCHANGED store /\ failures' = failures + 1
         \/ UNCHANGED failures /\ Saves(t)
  BY <1>0, WriteShape
<1> SUFFICES ASSUME crashes = 0, failures' = 0, NEW p \in Pids, NEW e \in Execs, owner[p] = e
             PROVE  \/ store'[e] # NoRec /\ store'[e].pid = p
                    \/ /\ rec[e] # NoRec /\ rec[e].pid = p
                       /\ out'[e] # <<>> /\ Head(out'[e]) = "save"
  BY <1>1 DEF PidKnown
<1>2. failures = 0 /\ failures' # failures + 1
  BY <1>0, <1>1, BoundsAssumption DEF TypeOK
<1>3. e \in Threads
  BY DEF Threads
<1>4. CASE store[e] # NoRec /\ store[e].pid = p
  <2>1. p # NoPid
    BY PidAssumption
  <2>2. CASE Saves(t) /\ e = rec[t].id
    <3>1. GoneOn(rec[t], store[e])
      BY <1>0, <1>1, <1>4, <2>2 DEF SerialInv, Ahead
    <3> QED BY <1>1, <1>4, <2>1, <2>2, <3>1 DEF GoneOn, Saves
  <2>3. CASE UNCHANGED store \/ (Saves(t) /\ e # rec[t].id)
    BY <1>4, <2>3 DEF Saves
  <2> QED BY <1>1, <2>2, <2>3
<1>5. CASE /\ rec[e] # NoRec /\ rec[e].pid = p
           /\ out[e] # <<>> /\ Head(out[e]) = "save"
  <2>1. CASE t = e
    <3>1. Saves(t)
      BY <1>1, <1>2, <1>5, <2>1
    <3>2. rec[t].id = e
      BY <1>0, <1>5, <2>1 DEF TypeInv, HoldsRec
    <3> QED BY <1>1, <1>5, <2>1, <3>1, <3>2 DEF Saves
  <2>2. CASE t # e
    BY <1>1, <1>3, <1>5, <2>2
  <2> QED BY <2>1, <2>2
<1> QED BY <1>2, <1>4, <1>5 DEF PidKnown

LEMMA NextPids ==
  ASSUME SInv, PidKnown, [Next]_vars
  PROVE  PidKnown'
<1>0. IInv /\ TypeInv /\ TypeOK
  BY DEF SInv, IInv, TypeInv
<1>1. ASSUME UNCHANGED <<store, rec, out, crashes, failures>>,
             \A p \in Pids : owner'[p] \in Execs => owner'[p] = owner[p]
      PROVE  PidKnown'
  BY <1>1 DEF PidKnown
<1>2. CASE UNCHANGED vars
  BY <1>1, <1>2 DEF vars
<1>3. CASE Crash
  BY <1>0, <1>3, BoundsAssumption DEF Crash, TypeOK, PidKnown
<1>4. CASE Restart
  BY <1>1, <1>4 DEF Restart, db, host
<1>5. CASE Host
  <2>1. UNCHANGED <<store, rec, out, crashes, failures>>
    BY <1>5 DEF Host, CreateSocket, Exit, ForeignStart, DeadlinePasses, db, thread
  <2>2. \A p \in Pids : owner'[p] \in {owner[p], NoOne, Outsider}
    BY <1>0, <1>5 DEF Host, CreateSocket, Exit, ForeignStart, DeadlinePasses, TypeOK
  <2> QED BY <1>1, <2>1, <2>2, OwnerAssumption
<1> QED BY <1>0, <1>2, <1>3, <1>4, <1>5, LaunchPids, HandlerPids, BootstrapPids, ReturnPids, WritePids
        DEF Next

(* If clients wait for each other and no crash or failed write has lost a  *)
(* PID, a Terminated execution has no live process (state-machine.md:23,   *)
(* orchestrator.go:204-241): the row's PID is the process's, or the launch *)
(* that knows it would have saved it before anyone terminated it.          *)
THEOREM TerminatedMeansDeadHolds ==
  ASSUME SerialClients
  PROVE  Spec => []TerminatedMeansDead
<1>1. Init => SInv /\ PidKnown
  BY InitIInv, InitRecovered, InitSerial, OwnerAssumption DEF SInv, Init, PidKnown
<1>2. SInv /\ PidKnown /\ [Next]_vars => (SInv /\ PidKnown)'
  BY NextSerial, NextPids
<1>3. SInv /\ PidKnown => TerminatedMeansDead
  <2> SUFFICES ASSUME SInv, PidKnown, crashes = 0, failures = 0, NEW e \in Recorded,
                      store[e].state = "Terminated", NEW p \in Pids, owner[p] = e, Alive(p)
               PROVE  FALSE
    BY DEF TerminatedMeansDead
  <2>1. e \in Execs /\ store[e] # NoRec /\ e \in Threads
    BY DEF Recorded, Threads
  <2>2. CopyOK(store[e]) /\ store[e].id = e /\ p # NoPid
    BY <2>1, PidAssumption DEF SInv, IInv, Copies, TypeInv, TypeOK
  <2>3. store[e].pid = p
    <3>1. CASE rec[e] # NoRec /\ rec[e].pid = p
      <4>1. rec[e].id = e
        BY <2>1, <3>1 DEF SInv, IInv, TypeInv, HoldsRec
      <4>2. GoneOn(rec[e], store[e])
        BY <2>1, <3>1, <4>1 DEF SInv, SerialInv, Ahead
      <4> QED BY <3>1, <4>2 DEF GoneOn, TerminalStates
    <3> QED BY <2>1, <3>1 DEF PidKnown
  <2> QED BY <2>2, <2>3 DEF CopyOK, CopyIn, Alive
<1> QED BY <1>1, <1>2, <1>3, PTL DEF Spec
=============================================================================
