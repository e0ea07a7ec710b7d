-------------------------- MODULE AdmissionProofs --------------------------
(***************************************************************************)
(* What holds of the node store and of the plans for any set of nodes, any *)
(* conditions of their hosts, any clock skew, any life of a capability and *)
(* any requests.  The argument is one inductive invariant: everything that *)
(* is written down, half a report, an envelope in flight or in the store,  *)
(* was real on its node no earlier than it says, up to the node's skew.    *)
(***************************************************************************)
EXTENDS Admission, FiniteSetTheorems, TLAPS

SystemReports == {SystemReport(h) : h \in Hosts}
VirtualizationReports == {VirtualizationReport(h) : h \in Hosts}

Probes == [report : SystemReports, at : Int]
Envelopes == [node : Nodes, system : SystemReports, systemAt : Int,
              virt : VirtualizationReports, ts : Int]

Shape ==
  /\ clock \in Nat
  /\ host \in [Nodes -> Hosts]
  /\ held \in [Nodes -> SUBSET (Hosts \X Int)]
  /\ probed \in [Nodes -> Probes \cup {NoProbe}]
  /\ wire \subseteq Envelopes
  /\ envelopes \in [Nodes -> Envelopes \cup {NoRecord}]
  /\ nodes \in [Nodes -> Records \cup {NoRecord}]

Probed(n) ==
  probed[n] # NoProbe =>
    /\ probed[n] \in Probes
    /\ probed[n].at <= Local(n)
    /\ SystemReal(n, probed[n].report, probed[n].at - Skew[n])

True(env) ==
  /\ env \in Envelopes
  /\ env.systemAt <= env.ts
  /\ env.ts <= Local(env.node)
  /\ SystemReal(env.node, env.system, env.systemAt - Skew[env.node])
  /\ VirtualizationReal(env.node, env.virt, env.ts - Skew[env.node])

(* The record was projected from its envelope at a. *)
ProjectedAt(n, a) ==
  /\ nodes[n] = Project(envelopes[n], a)
  /\ envelopes[n].ts <= a + Skew[n]

Stored(n) ==
  nodes[n] # NoRecord =>
    /\ envelopes[n].node = n
    /\ True(envelopes[n])
    /\ \E a \in 0 .. clock : ProjectedAt(n, a)

Launchable(r) == "kvm_vm_launch" \notin r.staleCaps

Selected ==
  plan.stage = "Selected" =>
    /\ plan.node \in Known
    /\ plan.req \in Requests
    /\ plan.at \in Nat /\ plan.at <= clock
    /\ Launchable(nodes[plan.node]) =>
         envelopes[plan.node].ts >= plan.at - Larger(plan.req.intent.maxAge, Life)

-----------------------------------------------------------------------------
(* Versions: the comparison is a total order, so that raising a minimum    *)
(* never admits a binary that the lower one refused.                       *)

Versions == [major : Nat, minor : Nat, patch : Nat]

LEMMA CompareMeaning ==
  ASSUME NEW a \in Versions, NEW b \in Versions
  PROVE  CompareVersions(a, b) =
           CASE a = b -> 0
             [] \/ a.major < b.major
                \/ a.major = b.major /\ a.minor < b.minor
                \/ a.major = b.major /\ a.minor = b.minor /\ a.patch < b.patch -> -1
             [] OTHER -> 1
  <1>1. a = b <=> a.major = b.major /\ a.minor = b.minor /\ a.patch = b.patch
    BY DEF Versions
  <1>2. \A f \in {"major", "minor", "patch"} : a[f] \in Nat /\ b[f] \in Nat
    BY DEF Versions
  <1> QED BY <1>1, <1>2 DEF CompareVersions

(* The order of versions is antisymmetric and transitive.                  *)
THEOREM VersionsOrdered ==
  ASSUME NEW a \in Versions, NEW b \in Versions, NEW c \in Versions
  PROVE  /\ CompareVersions(a, b) = 0 <=> a = b
         /\ CompareVersions(a, b) = - CompareVersions(b, a)
         /\ CompareVersions(a, b) >= 0 /\ CompareVersions(b, c) >= 0
              => CompareVersions(a, c) >= 0
  <1>1. \A v \in {a, b, c} : v.major \in Nat /\ v.minor \in Nat /\ v.patch \in Nat
    BY DEF Versions
  <1>2. CompareVersions(a, b) = 0 <=> a = b
    BY <1>1, CompareMeaning
  <1>3. CompareVersions(a, b) = - CompareVersions(b, a)
    BY <1>1 DEF CompareVersions
  <1>4. CompareVersions(a, b) >= 0 /\ CompareVersions(b, c) >= 0
          => CompareVersions(a, c) >= 0
    BY <1>1 DEF CompareVersions
  <1> QED BY <1>2, <1>3, <1>4

-----------------------------------------------------------------------------
(* What was real stays real. *)

LEMMA Clocks == Skew \in [Nodes -> Int] /\ Life \in Nat
  BY NodeAssumption

(* Only the passing of time and a change of a host touch what is real.     *)
LEMMA RealSteps ==
  ASSUME [Next]_vars
  PROVE  \/ UNCHANGED <<clock, host, held>>
         \/ Tick
         \/ \E m \in Nodes : HostChanges(m)
  <1>1. ASSUME TruthNext
        PROVE  \/ UNCHANGED <<clock, host, held>>
               \/ Tick
               \/ \E m \in Nodes : HostChanges(m)
    BY <1>1 DEF TruthNext, CollectSystem, CollectVirtualization, Ingest, Lose
  <1>2. ControlPlaneRestart => UNCHANGED <<clock, host, held>>
    BY DEF ControlPlaneRestart, Restart
  <1>3. (\E q \in Requests : BuildLaunchPlan(q)) => UNCHANGED <<clock, host, held>>
    BY DEF BuildLaunchPlan, truthVars
  <1>4. PlanLaunch \/ PrepareOnNode \/ Done \/ UNCHANGED vars
          => UNCHANGED <<clock, host, held>>
    BY DEF PlanLaunch, PrepareOnNode, Done, vars, truthVars
  <1> QED BY <1>1, <1>2, <1>3, <1>4 DEF Next

LEMMA SeenKept ==
  ASSUME Shape, [Next]_vars, NEW n \in Nodes, NEW s \in Seen(n)
  PROVE  \E t \in Seen(n)' : t[1] = s[1] /\ t[2] >= s[2]
  <1>1. s \in Hosts \X Int /\ s[2] >= s[2]
    BY DEF Seen, Shape
  <1>2. CASE UNCHANGED <<clock, host, held>>
    BY <1>1, <1>2 DEF Seen
  <1>3. CASE Tick
    <2>1. CASE s \in held[n]
      BY <1>1, <1>3, <2>1 DEF Tick, Seen
    <2>2. CASE s = <<host[n], clock>>
      <3>1. <<host[n], clock + 1>> \in Seen(n)'
        BY <1>3 DEF Tick, Seen
      <3> QED BY <2>2, <3>1 DEF Shape
    <2> QED BY <2>1, <2>2 DEF Seen
  <1>4. ASSUME NEW m \in Nodes, HostChanges(m) PROVE s \in Seen(n)'
    <2>1. held[n] \subseteq held'[n]
      BY <1>4 DEF HostChanges, Shape
    <2>2. n = m => <<host[n], clock>> \in held'[n]
      BY <1>4 DEF HostChanges, Shape
    <2>3. n # m => <<host[n], clock>> = <<host'[n], clock'>>
      BY <1>4 DEF HostChanges, Shape
    <2> QED BY <2>1, <2>2, <2>3 DEF Seen
  <1> QED BY <1>1, <1>2, <1>3, <1>4, RealSteps

LEMMA RealShape ==
  ASSUME Shape, [Next]_vars
  PROVE  /\ clock' \in Nat /\ clock' >= clock
         /\ (host \in [Nodes -> Hosts])'
         /\ (held \in [Nodes -> SUBSET (Hosts \X Int)])'
  <1>1. CASE UNCHANGED <<clock, host, held>>
    BY <1>1 DEF Shape
  <1>2. CASE Tick
    BY <1>2 DEF Tick, Shape
  <1>3. ASSUME NEW m \in Nodes, HostChanges(m)
        PROVE  /\ clock' = clock
               /\ (host \in [Nodes -> Hosts])'
               /\ (held \in [Nodes -> SUBSET (Hosts \X Int)])'
    <2>1. <<host[m], clock>> \in Hosts \X Int
      BY DEF Shape
    <2> QED BY <1>3, <2>1 DEF HostChanges, Shape
  <1> QED BY <1>1, <1>2, <1>3, RealSteps DEF Shape

LEMMA RealKept ==
  ASSUME Shape, [Next]_vars, NEW n \in Nodes, NEW r, NEW since \in Int
  PROVE  /\ SystemReal(n, r, since) => SystemReal(n, r, since)'
         /\ VirtualizationReal(n, r, since) => VirtualizationReal(n, r, since)'
  <1>1. \A s \in Seen(n) : s[2] \in Int
    BY DEF Seen, Shape
  <1>2. \A s \in Seen(n)' : s[2] \in Int
    BY RealShape DEF Seen
  <1>3. \A s \in Seen(n) : \E t \in Seen(n)' : t[1] = s[1] /\ t[2] >= s[2]
    BY SeenKept
  <1>4. ASSUME SystemReal(n, r, since) PROVE SystemReal(n, r, since)'
    BY <1>1, <1>2, <1>3, <1>4 DEF SystemReal
  <1>5. ASSUME VirtualizationReal(n, r, since) PROVE VirtualizationReal(n, r, since)'
    BY <1>1, <1>2, <1>3, <1>5 DEF VirtualizationReal
  <1> QED BY <1>4, <1>5

LEMMA TrueKept ==
  ASSUME Shape, [Next]_vars, NEW env, True(env)
  PROVE  True(env)'
  <1>1. env \in Envelopes /\ env.node \in Nodes
    BY DEF True, Envelopes
  <1>2. env.systemAt - Skew[env.node] \in Int /\ env.ts - Skew[env.node] \in Int
    BY <1>1, Clocks DEF Envelopes
  <1>3. SystemReal(env.node, env.system, env.systemAt - Skew[env.node])'
    BY <1>1, <1>2, RealKept DEF True
  <1>4. VirtualizationReal(env.node, env.virt, env.ts - Skew[env.node])'
    BY <1>1, <1>2, RealKept DEF True
  <1>5. env.ts <= Local(env.node)'
    BY <1>1, RealShape, Clocks DEF True, Local, Shape, Envelopes
  <1> QED BY <1>1, <1>3, <1>4, <1>5 DEF True

(* A host's present condition is real now.                                 *)
LEMMA RealNow ==
  ASSUME Shape, NEW n \in Nodes
  PROVE  /\ SystemReal(n, SystemReport(host[n]), clock)
         /\ VirtualizationReal(n, VirtualizationReport(host[n]), clock)
  <1>1. <<host[n], clock>> \in Seen(n) /\ clock >= clock
    BY DEF Seen, Shape
  <1> QED BY <1>1 DEF SystemReal, VirtualizationReal

-----------------------------------------------------------------------------
(* The shape of what is reported and of what the store makes of it. *)

LEMMA SystemReportTyped ==
  ASSUME NEW s \in SystemReports
  PROVE  /\ s.arch \in {h.arch : h \in Hosts}
         /\ s.class \in {"ArmProduction", "X86HoldingPool", "Unsupported"}
         /\ s.health = "Healthy"
         /\ s.alarms = {}
         /\ s.constraints \in SUBSET {"CONSTRAINT_NO_KVM"}
         /\ DOMAIN s.caps = SystemFeatures
         /\ \A f \in SystemFeatures : s.caps[f] \in {"Supported", "Unsupported", "Unknown"}
  <1>1. PICK h \in Hosts : s = SystemReport(h)
    BY DEF SystemReports
  <1>2. Class(h) \in {"ArmProduction", "X86HoldingPool", "Unsupported"}
    BY DEF Class
  <1> QED BY <1>1, <1>2 DEF SystemReport, SystemFeatures, Has

LEMMA VirtualizationReportTyped ==
  ASSUME NEW v \in VirtualizationReports
  PROVE  /\ v.version \in {h.version : h \in Hosts}
         /\ DOMAIN v.caps = VirtualizationFeatures
         /\ \A f \in VirtualizationFeatures :
              v.caps[f] \in {"Supported", "Unsupported", "Unavailable"}
  <1>1. PICK h \in Hosts : v = VirtualizationReport(h)
    BY DEF VirtualizationReports
  <1>2. KvmLaunch(h) \in {"Supported", "Unsupported", "Unavailable"}
    BY DEF KvmLaunch
  <1>3. \A thing : Has(h, thing) \in {"Supported", "Unsupported"}
    BY DEF Has
  <1> QED BY <1>1, <1>2, <1>3 DEF VirtualizationReport, VirtualizationFeatures

LEMMA ProjectTyped ==
  ASSUME NEW env \in Envelopes, NEW a \in Nat
  PROVE  Project(env, a) \in Records
  <1>1. /\ env.system \in SystemReports /\ env.virt \in VirtualizationReports
        /\ env.ts \in Int
    BY DEF Envelopes
  <1> DEFINE caps == [f \in DOMAIN env.system.caps \cup DOMAIN env.virt.caps |->
                        IF f \in DOMAIN env.system.caps THEN env.system.caps[f]
                                                        ELSE env.virt.caps[f]]
  <1>2. caps \in [Features -> {"Supported", "Unsupported", "Unavailable", "Unknown"}]
    BY <1>1, SystemReportTyped, VirtualizationReportTyped DEF Features
  <1>3. StaleCaps(env, a) \in SUBSET Features
    BY <1>1, SystemReportTyped, VirtualizationReportTyped DEF Features, StaleCaps
  <1>4. (StaleCaps(env, a) # {} \/ a - env.ts > Life) \in BOOLEAN
    OBVIOUS
  <1>5. Project(env, a).caps = caps /\ Project(env, a).ts = env.ts
    BY DEF Project, LastCollectionTime
  <1> HIDE DEF caps
  <1> QED BY <1>1, <1>2, <1>3, <1>4, <1>5, SystemReportTyped, VirtualizationReportTyped
          DEF Project, Records, LastCollectionTime

-----------------------------------------------------------------------------
(* The invariant, action by action. *)

Truth ==
  /\ Shape
  /\ \A n \in Nodes : Probed(n) /\ Stored(n)
  /\ \A env \in wire : True(env)

(* What a step does not write keeps what is known of it.                   *)
LEMMA ProbedKept ==
  ASSUME Truth, [Next]_vars, NEW n \in Nodes, probed'[n] = probed[n]
  PROVE  Probed(n)'
  <1> SUFFICES ASSUME probed[n] # NoProbe PROVE Probed(n)'
    BY DEF Probed
  <1>1. probed[n] \in Probes /\ probed[n].at <= Local(n)
        /\ SystemReal(n, probed[n].report, probed[n].at - Skew[n])
    BY DEF Truth, Probed
  <1>2. PICK p : p = probed[n]
    OBVIOUS
  <1>3. p.at \in Int /\ p.at - Skew[n] \in Int
    BY <1>1, <1>2, Clocks DEF Probes
  <1>4. SystemReal(n, p.report, p.at - Skew[n])'
    BY <1>1, <1>2, <1>3, RealKept DEF Truth
  <1>5. p.at <= Local(n)'
    BY <1>1, <1>2, <1>3, RealShape, Clocks DEF Local, Truth, Shape
  <1> QED BY <1>1, <1>2, <1>4, <1>5 DEF Probed, SystemReal

LEMMA StoredKept ==
  ASSUME Truth, [Next]_vars, NEW n \in Nodes,
         nodes'[n] = nodes[n], envelopes'[n] = envelopes[n]
  PROVE  Stored(n)'
  <1> SUFFICES ASSUME nodes[n] # NoRecord PROVE Stored(n)'
    BY DEF Stored
  <1>1. PICK env : env = envelopes[n]
    OBVIOUS
  <1>2. env.node = n /\ True(env) /\ \E a \in 0 .. clock : ProjectedAt(n, a)
    BY <1>1 DEF Truth, Stored
  <1>3. True(env)'
    BY <1>2, TrueKept DEF Truth
  <1>4. \A a \in 0 .. clock : a \in 0 .. clock'
    BY RealShape DEF Truth, Shape
  <1>5. \A a \in 0 .. clock : ProjectedAt(n, a) => ProjectedAt(n, a)'
    BY DEF ProjectedAt
  <1> QED BY <1>1, <1>2, <1>3, <1>4, <1>5 DEF Stored, True

LEMMA WireKept ==
  ASSUME Truth, [Next]_vars, wire' \subseteq wire
  PROVE  \A env \in wire' : True(env)'
  BY TrueKept DEF Truth

LEMMA TruthUnchanged ==
  ASSUME Truth, [Next]_vars, UNCHANGED truthVars
  PROVE  Truth'
  <1>1. Shape'
    BY DEF Truth, Shape, truthVars
  <1>2. \A n \in Nodes : Probed(n)' /\ Stored(n)'
    BY ProbedKept, StoredKept DEF truthVars
  <1>3. \A env \in wire' : True(env)'
    BY WireKept DEF truthVars
  <1> QED BY <1>1, <1>2, <1>3 DEF Truth

LEMMA CollectSystemKeeps ==
  ASSUME Truth, [Next]_vars, NEW n \in Nodes, CollectSystem(n)
  PROVE  Truth'
  <1> DEFINE p == [report |-> SystemReport(host[n]), at |-> Local(n)]
  <1>1. p \in Probes /\ Local(n) - Skew[n] = clock /\ Local(n) <= Local(n)
    BY Clocks DEF Truth, Shape, Probes, SystemReports, Local
  <1>2. probed' = [probed EXCEPT ![n] = p]
    BY DEF CollectSystem
  <1>3. Shape'
    BY <1>1, <1>2 DEF CollectSystem, Truth, Shape
  <1>4. SystemReal(n, SystemReport(host[n]), clock)'
    BY RealNow, <1>3 DEF CollectSystem, Truth, SystemReal, Seen
  <1>5. Probed(n)'
    <2>1. probed'[n] = p
      BY <1>2 DEF Truth, Shape
    <2>2. Local(n)' = Local(n)
      BY DEF Local, CollectSystem
    <2>3. clock' = clock /\ host' = host /\ held' = held
      BY DEF CollectSystem
    <2> QED BY <1>1, <1>4, <2>1, <2>2, <2>3 DEF Probed, SystemReal, Seen
  <1>6. \A m \in Nodes : Probed(m)'
    <2>1. \A m \in Nodes \ {n} : probed'[m] = probed[m]
      BY <1>2 DEF Truth, Shape
    <2> QED BY <1>5, <2>1, ProbedKept
  <1>7. \A m \in Nodes : Stored(m)'
    BY StoredKept DEF CollectSystem
  <1>8. \A env \in wire' : True(env)'
    BY WireKept DEF CollectSystem
  <1> QED BY <1>3, <1>6, <1>7, <1>8 DEF Truth

LEMMA CollectVirtualizationKeeps ==
  ASSUME Truth, [Next]_vars, NEW n \in Nodes, CollectVirtualization(n)
  PROVE  Truth'
  <1> DEFINE e == [node     |-> n,
                   system   |-> probed[n].report,
                   systemAt |-> probed[n].at,
                   virt     |-> VirtualizationReport(host[n]),
                   ts       |-> Local(n)]
  <1>1. /\ probed[n] \in Probes
        /\ probed[n].at <= Local(n)
        /\ SystemReal(n, probed[n].report, probed[n].at - Skew[n])
    BY DEF CollectVirtualization, Truth, Probed
  <1>2. Local(n) \in Int /\ Local(n) - Skew[n] = clock /\ Local(n) <= Local(n)
    BY Clocks DEF Truth, Shape, Local
  <1>3. e \in Envelopes
    BY <1>1, <1>2 DEF Truth, Shape, Probes, Envelopes, VirtualizationReports
  <1>4. True(e)
    BY <1>1, <1>2, <1>3, RealNow DEF True, Truth
  <1>5. wire' = wire \cup {e}
    BY DEF CollectVirtualization
  <1>6. Shape'
    BY <1>3, <1>5 DEF CollectVirtualization, Truth, Shape
  <1>7. \A m \in Nodes : Probed(m)'
    <2>1. \A m \in Nodes \ {n} : probed'[m] = probed[m]
      BY DEF CollectVirtualization, Truth, Shape
    <2>2. probed'[n] = NoProbe
      BY DEF CollectVirtualization, Truth, Shape
    <2> QED BY <2>1, <2>2, ProbedKept DEF Probed
  <1>8. \A m \in Nodes : Stored(m)'
    BY StoredKept DEF CollectVirtualization
  <1>9. \A env \in wire' : True(env)'
    <2>1. PICK d : d = e
      OBVIOUS
    <2>2. wire' = wire \cup {d}
      BY <1>5, <2>1
    <2>3. True(d)
      BY <1>4, <2>1
    <2> QED BY <2>2, <2>3, TrueKept DEF Truth
  <1> QED BY <1>6, <1>7, <1>8, <1>9 DEF Truth

LEMMA IngestKeeps ==
  ASSUME Truth, [Next]_vars, NEW env, Ingest(env)
  PROVE  Truth'
  <1>1. env \in wire /\ True(env) /\ env \in Envelopes /\ env.node \in Nodes
    BY DEF Ingest, Truth, True, Envelopes
  <1>2. /\ envelopes' = [envelopes EXCEPT ![env.node] = env]
        /\ nodes' = [nodes EXCEPT ![env.node] = Project(env, clock)]
        /\ UNCHANGED <<clock, host, held, probed>>
        /\ wire' \subseteq wire
    BY DEF Ingest, SaveNodeState
  <1>3. Shape'
    <2>1. Project(env, clock) \in Records
      BY <1>1, ProjectTyped DEF Truth, Shape
    <2> QED BY <1>1, <1>2, <2>1 DEF Truth, Shape
  <1>4. \A m \in Nodes : Probed(m)'
    BY <1>2, ProbedKept
  <1>5. Stored(env.node)'
    <2>1. envelopes'[env.node] = env /\ nodes'[env.node] = Project(env, clock)
      BY <1>1, <1>2 DEF Truth, Shape
    <2>2. True(env)'
      BY <1>1, TrueKept DEF Truth
    <2>3. clock \in 0 .. clock' /\ env.ts <= clock + Skew[env.node]
      BY <1>1, <1>2 DEF Truth, Shape, True, Local
    <2> QED BY <2>1, <2>2, <2>3 DEF Stored, True, ProjectedAt
  <1>6. \A m \in Nodes : Stored(m)'
    <2>1. \A m \in Nodes \ {env.node} : nodes'[m] = nodes[m] /\ envelopes'[m] = envelopes[m]
      BY <1>2 DEF Truth, Shape
    <2> QED BY <1>5, <2>1, StoredKept
  <1>7. \A e \in wire' : True(e)'
    BY <1>2, WireKept
  <1> QED BY <1>3, <1>4, <1>6, <1>7 DEF Truth

(* What only moves time, changes a host or loses an envelope.              *)
LEMMA SurroundingsKeep ==
  ASSUME Truth, [Next]_vars,
         \/ Tick
         \/ \E n \in Nodes : HostChanges(n)
         \/ \E env \in wire : Lose(env)
  PROVE  Truth'
  <1>1. UNCHANGED <<probed, envelopes, nodes>> /\ wire' \subseteq wire
    BY DEF Tick, HostChanges, Lose
  <1>2. Shape'
    BY <1>1, RealShape DEF Truth, Shape
  <1>3. \A n \in Nodes : Probed(n)' /\ Stored(n)'
    BY <1>1, ProbedKept, StoredKept
  <1> QED BY <1>1, <1>2, <1>3, WireKept DEF Truth

LEMMA RestartKeeps ==
  ASSUME Truth, [Next]_vars, ControlPlaneRestart
  PROVE  Truth'
  <1>1. /\ UNCHANGED <<clock, host, held, probed, wire>>
        /\ envelopes' = [n \in Nodes |-> NoRecord]
        /\ nodes' = [n \in Nodes |-> NoRecord]
    BY DEF ControlPlaneRestart, Restart
  <1>2. Shape'
    BY <1>1 DEF Truth, Shape
  <1>3. \A n \in Nodes : Probed(n)' /\ Stored(n)'
    BY <1>1, ProbedKept DEF Stored
  <1> QED BY <1>1, <1>2, <1>3, WireKept DEF Truth

LEMMA TruthStep ==
  ASSUME Truth, [Next]_vars
  PROVE  Truth'
  <1>1. CASE TruthNext
    BY <1>1, CollectSystemKeeps, CollectVirtualizationKeeps, IngestKeeps, SurroundingsKeep
       DEF TruthNext
  <1>2. CASE ControlPlaneRestart
    BY <1>2, RestartKeeps
  <1>3. CASE \/ \E q \in Requests : BuildLaunchPlan(q)
             \/ PlanLaunch \/ PrepareOnNode \/ Done
             \/ UNCHANGED vars
    <2>1. UNCHANGED truthVars
      BY <1>3 DEF BuildLaunchPlan, PlanLaunch, PrepareOnNode, Done, vars
    <2> QED BY <2>1, TruthUnchanged
  <1> QED BY <1>1, <1>2, <1>3 DEF Next

LEMMA TruthAtFirst ==
  ASSUME Init
  PROVE  Truth
  <1>1. /\ clock = 0 /\ host = InitHost /\ wire = {}
        /\ held = [n \in Nodes |-> {}]
        /\ probed = [n \in Nodes |-> NoProbe]
        /\ envelopes = [n \in Nodes |-> NoRecord]
        /\ nodes = [n \in Nodes |-> NoRecord]
    BY DEF Init, TruthInit
  <1>2. Shape
    BY <1>1, NodeAssumption DEF Shape
  <1>3. \A n \in Nodes : Probed(n) /\ Stored(n)
    BY <1>1 DEF Probed, Stored
  <1> QED BY <1>1, <1>2, <1>3 DEF Truth

-----------------------------------------------------------------------------
(* The request in progress. *)

(* A record taken in whose launch capability is not stale is not old.      *)
LEMMA LaunchableIsYoung ==
  ASSUME NEW env \in Envelopes, NEW now \in Int, Launchable(Project(env, now))
  PROVE  env.ts + Life >= now
  <1>1. env.virt \in VirtualizationReports /\ env.ts \in Int
    BY DEF Envelopes
  <1>2. "kvm_vm_launch" \in DOMAIN env.virt.caps
    BY <1>1, VirtualizationReportTyped DEF VirtualizationFeatures
  <1>3. "kvm_vm_launch" \notin StaleCaps(env, now)
    BY DEF Launchable, Project
  <1> QED BY <1>1, <1>2, <1>3, Clocks DEF StaleCaps

(* A node the scheduler may choose reported within the age asked for.      *)
LEMMA EligibleIsYoung ==
  ASSUME Truth, NEW q \in Requests, NEW n \in Eligible(q.intent)
  PROVE  /\ n \in Known
         /\ envelopes[n].ts \in Int
         /\ clock - envelopes[n].ts <= q.intent.maxAge
  <1>1. n \in Known /\ n \in Nodes /\ clock - nodes[n].ts <= q.intent.maxAge
    BY DEF Eligible, Known, Evaluate
  <1>2. True(envelopes[n]) /\ \E a \in 0 .. clock : ProjectedAt(n, a)
    BY <1>1 DEF Truth, Stored, Known
  <1>3. nodes[n].ts = envelopes[n].ts
    BY <1>2 DEF ProjectedAt, Project, LastCollectionTime
  <1> QED BY <1>1, <1>2, <1>3 DEF True, Envelopes

Requested == plan.stage \in Stages /\ Selected

LEMMA PlanBuilt ==
  ASSUME Truth, NEW q \in Requests, BuildLaunchPlan(q)
  PROVE  Requested'
  <1>1. UNCHANGED <<clock, envelopes, nodes>>
    BY DEF BuildLaunchPlan, truthVars
  <1>2. CASE PlanConflict(q) \/ PlanRejected(q) \/ PlanContradicted(q)
    BY <1>2 DEF PlanConflict, PlanRejected, PlanContradicted, Answer, Requested, Stages, Selected
  <1>3. CASE PlanSelected(q)
    <2>1. PICK n \in SelectNode(q.intent) :
            plan' = [stage |-> "Selected", req |-> q, node |-> n, spec |-> PlannedSpec(q),
                     at |-> clock]
      BY <1>3 DEF PlanSelected
    <2>2. n \in Eligible(q.intent)
      BY DEF SelectNode
    <2>3. n \in Known' /\ clock \in Nat /\ clock <= clock'
      BY <1>1, <2>2, EligibleIsYoung DEF Known, Truth, Shape
    <2>4. envelopes'[n].ts >= clock - Larger(q.intent.maxAge, Life)
      BY <1>1, <2>2, <2>3, EligibleIsYoung, RequestAssumption, Clocks DEF Larger
    <2>5. /\ plan'.stage = "Selected" /\ plan'.req = q /\ plan'.node = n /\ plan'.at = clock
      BY <2>1
    <2> QED BY <2>3, <2>4, <2>5 DEF Requested, Stages, Selected
  <1> QED BY <1>2, <1>3 DEF BuildLaunchPlan

LEMMA PlanAnswered ==
  ASSUME PlanLaunch \/ PrepareOnNode \/ Done
  PROVE  Requested'
  <1>1. CASE PlanLaunch
    <2> DEFINE backend == ValidateLaunch(plan.spec, nodes[plan.node])
    <2>1. plan' = IF backend = "" THEN Answer("ValidationFail", "FixValidation")
                                  ELSE Ready(plan, backend)
      BY <1>1 DEF PlanLaunch
    <2> HIDE DEF backend
    <2>2. plan'.stage \in {"Answered", "Ready"}
      BY <2>1 DEF Answer, Ready
    <2> QED BY <2>2 DEF Requested, Stages, Selected
  <1>2. CASE PrepareOnNode
    <2>1. plan'.stage = "Prepared"
      BY <1>2 DEF PrepareOnNode
    <2> QED BY <2>1 DEF Requested, Stages, Selected
  <1>3. CASE Done
    BY <1>3 DEF Done, NoPlan, Requested, Stages, Selected
  <1> QED BY <1>1, <1>2, <1>3

(* The truth moves on under a request: what replaces the chosen node's     *)
(* record is either young or not fit to launch on.                         *)
LEMMA SelectedKept ==
  ASSUME Truth, Requested, TruthNext, UNCHANGED plan
  PROVE  Requested'
  <1> SUFFICES ASSUME plan.stage = "Selected" PROVE Selected'
    BY DEF Requested, Selected
  <1>1. /\ plan.node \in Known /\ plan.node \in Nodes /\ plan.req \in Requests
        /\ plan.at \in Nat /\ plan.at <= clock
        /\ Launchable(nodes[plan.node]) =>
             envelopes[plan.node].ts >= plan.at - Larger(plan.req.intent.maxAge, Life)
    BY DEF Requested, Selected, Known
  <1>2. [Next]_vars
    BY DEF Next
  <1>3. plan.at <= clock'
    BY <1>1, <1>2, RealShape DEF Truth, Shape
  <1>4. CASE UNCHANGED <<envelopes, nodes>>
    BY <1>1, <1>3, <1>4 DEF Selected, Known, Launchable
  <1>5. ASSUME NEW env, Ingest(env) PROVE Selected'
    <2>1. env \in Envelopes /\ env.node \in Nodes
      BY <1>5 DEF Ingest, Truth, True, Envelopes
    <2>2. /\ envelopes' = [envelopes EXCEPT ![env.node] = env]
          /\ nodes' = [nodes EXCEPT ![env.node] = Project(env, clock)]
      BY <1>5 DEF Ingest, SaveNodeState
    <2>3. CASE env.node = plan.node
      <3>1. nodes'[plan.node] = Project(env, clock) /\ envelopes'[plan.node] = env
        BY <1>1, <2>2, <2>3 DEF Truth, Shape
      <3>2. plan.node \in Known'
        BY <1>1, <2>1, <3>1, ProjectTyped, NodeAssumption DEF Known, Truth, Shape
      <3>3. Launchable(nodes'[plan.node]) =>
              envelopes'[plan.node].ts >= plan.at - Larger(plan.req.intent.maxAge, Life)
        <4>1. Launchable(Project(env, clock)) => env.ts + Life >= clock
          BY <2>1, LaunchableIsYoung DEF Truth, Shape
        <4>2. env.ts \in Int /\ clock \in Int
          BY <2>1 DEF Envelopes, Truth, Shape
        <4> QED BY <1>1, <3>1, <4>1, <4>2, RequestAssumption, Clocks DEF Larger
      <3> QED BY <1>1, <1>3, <3>2, <3>3 DEF Selected, Launchable
    <2>4. CASE env.node # plan.node
      <3>1. nodes'[plan.node] = nodes[plan.node] /\ envelopes'[plan.node] = envelopes[plan.node]
        BY <1>1, <2>2, <2>4 DEF Truth, Shape
      <3> QED BY <1>1, <1>3, <3>1 DEF Selected, Known, Launchable
    <2> QED BY <2>3, <2>4
  <1> QED BY <1>4, <1>5
          DEF TruthNext, CollectSystem, CollectVirtualization, HostChanges, Lose, Tick

LEMMA RequestedStep ==
  ASSUME Truth, Requested, [Next]_vars
  PROVE  Requested'
  <1>1. CASE ControlPlaneRestart
    <2>1. plan' = IF plan.stage = "Selected" THEN NoPlan ELSE plan
      BY <1>1 DEF ControlPlaneRestart
    <2> QED BY <2>1 DEF Requested, Stages, Selected, NoPlan
  <1>2. CASE UNCHANGED vars
    BY <1>2 DEF vars, truthVars, Requested, Selected, Known
  <1> QED BY <1>1, <1>2, PlanBuilt, PlanAnswered, SelectedKept DEF Next

(* The whole invariant. *)
LEMMA Invariance == Spec => [](Truth /\ Requested)
  <1>1. Init => Truth /\ Requested
    BY TruthAtFirst DEF Init, Requested, Stages, Selected, NoPlan
  <1>2. Truth /\ Requested /\ [Next]_vars => (Truth /\ Requested)'
    BY TruthStep, RequestedStep
  <1> QED BY <1>1, <1>2, PTL DEF Spec

-----------------------------------------------------------------------------
(* The shape of the store and of a request, whatever the requests and the  *)
(* hosts (memory.go:45-52, projector.go:59-160, plan_handlers.go:25-88).   *)
THEOREM AdmissionTypeCorrect == Spec => []AdmissionTypeOK
  <1>1. Truth /\ Requested => AdmissionTypeOK
    <2> SUFFICES ASSUME Truth, Requested PROVE AdmissionTypeOK
      OBVIOUS
    <2>1. clock \in Nat /\ host \in [Nodes -> Hosts] /\ nodes \in [Nodes -> Records \cup {NoRecord}]
      BY DEF Truth, Shape
    <2>2. \A n \in Nodes :
            nodes[n] # NoRecord =>
              /\ envelopes[n].node = n
              /\ \E a \in 0 .. clock : nodes[n] = Project(envelopes[n], a)
                                       /\ envelopes[n].ts <= a + Skew[n]
      BY DEF Truth, Stored, ProjectedAt
    <2>3. plan.stage \in Stages /\ (plan.stage = "Selected" => plan.node \in Known)
      BY DEF Requested, Selected
    <2> QED BY <2>1, <2>2, <2>3 DEF AdmissionTypeOK
  <1> QED BY <1>1, Invariance, PTL

-----------------------------------------------------------------------------
(* What a decision rests on. *)

(* Only the plan handler's first part selects a node.                      *)
LEMMA OnlyPlanSelected ==
  ASSUME [Next]_vars, plan.stage = "None", plan'.stage = "Selected"
  PROVE  \E q \in Requests : PlanSelected(q) /\ UNCHANGED truthVars
  <1>1. ~ UNCHANGED plan
    OBVIOUS
  <1>2. ~ ControlPlaneRestart
    BY DEF ControlPlaneRestart, NoPlan
  <1>3. ~ PlanLaunch /\ ~ PrepareOnNode /\ ~ Done
    BY DEF PlanLaunch, PrepareOnNode, Done
  <1>4. PICK q \in Requests : BuildLaunchPlan(q)
    BY <1>1, <1>2, <1>3 DEF Next, vars
  <1>5. ~ PlanConflict(q) /\ ~ PlanRejected(q) /\ ~ PlanContradicted(q)
    BY DEF PlanConflict, PlanRejected, PlanContradicted, Answer
  <1> QED BY <1>4, <1>5 DEF BuildLaunchPlan

LEMMA ChosenReally ==
  ASSUME Truth, NEW q \in Requests, NEW n \in Eligible(q.intent)
  PROVE  LET oldest == clock - q.intent.maxAge - Skew[n]
         IN  /\ VirtualizationReal(n, envelopes[n].virt, oldest)
             /\ SystemReal(n, envelopes[n].system, oldest - Life - Skew[n])
  <1>1. PICK env : env = envelopes[n]
    OBVIOUS
  <1>2. /\ n \in Nodes /\ nodes[n] # NoRecord
        /\ env.ts \in Int /\ clock - env.ts <= q.intent.maxAge
    BY <1>1, EligibleIsYoung DEF Known
  <1>3. PICK a \in 0 .. clock : ProjectedAt(n, a)
    BY <1>2 DEF Truth, Stored
  <1>4. env.node = n /\ True(env) /\ env.systemAt \in Int
    BY <1>1, <1>2 DEF Truth, Stored, True, Envelopes
  <1>5. env.ts <= a + Skew[n] /\ nodes[n] = Project(env, a)
    BY <1>1, <1>3 DEF ProjectedAt
  <1>6. env.systemAt + Life >= a
    <2>1. ~ nodes[n].isStale
      BY DEF Eligible, Evaluate
    <2>2. StaleCaps(env, a) = {}
      <3>1. Project(env, a).isStale = (StaleCaps(env, a) # {} \/ a - env.ts > Life)
        BY DEF Project
      <3> QED BY <1>5, <2>1, <3>1
    <2>3. "dpu_offload" \in DOMAIN env.system.caps
      BY <1>4, SystemReportTyped DEF True, Envelopes, SystemFeatures
    <2> QED BY <1>4, <2>2, <2>3, Clocks DEF StaleCaps, Truth, Shape
  <1>7. \A s \in Seen(n) : s[2] \in Int
    BY <1>2 DEF Seen, Truth, Shape
  <1>8. clock \in Nat /\ Skew[n] \in Int /\ Life \in Nat /\ q.intent.maxAge \in Nat
    BY <1>2, Clocks, RequestAssumption DEF Truth, Shape
  <1>9. VirtualizationReal(n, env.virt, clock - q.intent.maxAge - Skew[n])
    BY <1>2, <1>4, <1>7, <1>8 DEF True, VirtualizationReal
  <1>10. SystemReal(n, env.system, clock - q.intent.maxAge - Skew[n] - Life - Skew[n])
    <2>1. env.systemAt - Skew[n] >= clock - q.intent.maxAge - Skew[n] - Life - Skew[n]
      BY <1>2, <1>4, <1>5, <1>6, <1>8
    <2> QED BY <1>4, <1>7, <1>8, <2>1 DEF True, SystemReal
  <1> QED BY <1>1, <1>9, <1>10

(* A node is chosen on facts it really had, none older than the intent     *)
(* allows, whatever was late, lost or overtaken (evaluate.go:27-111,       *)
(* scheduler.go:22-77, projector.go:97-133).                               *)
THEOREM ChosenOnFactsHolds == Spec => ChosenOnFacts
  <1> DEFINE Chosen ==
        (plan.stage = "None" /\ plan'.stage = "Selected") =>
          LET n      == plan'.node
              oldest == clock - plan'.req.intent.maxAge - Skew[n]
          IN  /\ VirtualizationReal(n, envelopes[n].virt, oldest)
              /\ SystemReal(n, envelopes[n].system, oldest - Life - Skew[n])
  <1>1. ASSUME Truth, [Next]_vars PROVE Chosen
    <2> SUFFICES ASSUME plan.stage = "None", plan'.stage = "Selected" PROVE Chosen
      OBVIOUS
    <2>1. PICK q \in Requests : PlanSelected(q)
      BY <1>1, OnlyPlanSelected
    <2>2. PICK n \in SelectNode(q.intent) :
            plan' = [stage |-> "Selected", req |-> q, node |-> n, spec |-> PlannedSpec(q),
                     at |-> clock]
      BY <2>1 DEF PlanSelected
    <2>3. n \in Eligible(q.intent)
      BY DEF SelectNode
    <2>4. plan'.node = n /\ plan'.req = q
      BY <2>2
    <2> QED BY <1>1, <2>3, <2>4, ChosenReally
  <1>2. Truth /\ [Next]_vars => [Chosen]_vars
    BY <1>1
  <1> QED BY <1>2, Invariance, PTL DEF Spec, ChosenOnFacts

(* What is valid has a backend, and every backend needs the KVM launch     *)
(* capability, still fresh.                                                *)
LEMMA ValidIsLaunchable ==
  ASSUME NEW spec, NEW record, ValidateLaunch(spec, record) # ""
  PROVE  Launchable(record)
  <1>1. SelectBackend(spec, record) # ""
    BY DEF ValidateLaunch
  <1>2. PICK b : Accepts(b, spec, record)
    BY <1>1 DEF SelectBackend, FirstFit
  <1>3. "kvm_vm_launch" \in Needs(b)
    BY DEF Needs
  <1>4. Trusted(record, "kvm_vm_launch")
    BY <1>2, <1>3 DEF Accepts
  <1> QED BY <1>4 DEF Trusted, Launchable

(* A plan is ready on facts that the node really had, although the second  *)
(* reading of the store asks no age (plan_handlers.go:51-88,               *)
(* runtime_select.go:43-229).                                              *)
THEOREM ReadyOnFactsHolds == Spec => ReadyOnFacts
  <1> DEFINE OnFacts ==
        (plan.stage = "Selected" /\ plan'.stage = "Ready") =>
          VirtualizationReal(plan.node, plan'.facts,
            plan.at - Larger(plan.req.intent.maxAge, Life) - Skew[plan.node])
  <1>1. ASSUME Truth, Requested, [Next]_vars PROVE OnFacts
    <2> SUFFICES ASSUME plan.stage = "Selected", plan'.stage = "Ready" PROVE OnFacts
      OBVIOUS
    <2>1. PlanLaunch
      <3>1. ~ UNCHANGED plan /\ ~ PrepareOnNode /\ ~ Done
        BY DEF PrepareOnNode, Done
      <3>2. ~ ControlPlaneRestart
        BY DEF ControlPlaneRestart, NoPlan
      <3>3. \A q \in Requests : ~ BuildLaunchPlan(q)
        BY DEF BuildLaunchPlan
      <3> QED BY <1>1, <3>1, <3>2, <3>3 DEF Next, vars
    <2> DEFINE n       == plan.node
               backend == ValidateLaunch(plan.spec, nodes[n])
    <2>2. backend # "" /\ plan'.facts = envelopes[n].virt
      <3>1. plan' = IF backend = "" THEN Answer("ValidationFail", "FixValidation")
                                    ELSE Ready(plan, backend)
        BY <2>1 DEF PlanLaunch
      <3> HIDE DEF backend
      <3> QED BY <3>1 DEF Answer, Ready
    <2>3. Launchable(nodes[n])
      BY <2>2, ValidIsLaunchable
    <2>4. /\ n \in Nodes /\ nodes[n] # NoRecord /\ plan.req \in Requests /\ plan.at \in Nat
          /\ envelopes[n].ts >= plan.at - Larger(plan.req.intent.maxAge, Life)
      BY <1>1, <2>3 DEF Requested, Selected, Known
    <2>5. PICK env : env = envelopes[n]
      OBVIOUS
    <2>6. env.node = n /\ env.ts \in Int
          /\ VirtualizationReal(n, env.virt, env.ts - Skew[n])
      BY <1>1, <2>4, <2>5 DEF Truth, Stored, True, Envelopes
    <2>7. \A s \in Seen(n) : s[2] \in Int
      BY <1>1, <2>4 DEF Seen, Truth, Shape
    <2>8. Skew[n] \in Int /\ Larger(plan.req.intent.maxAge, Life) \in Int
      BY <2>4, Clocks, RequestAssumption DEF Larger
    <2>9. VirtualizationReal(n, env.virt,
            plan.at - Larger(plan.req.intent.maxAge, Life) - Skew[n])
      BY <2>4, <2>5, <2>6, <2>7, <2>8 DEF VirtualizationReal
    <2> QED BY <2>2, <2>5, <2>9
  <1>2. Truth /\ Requested /\ [Next]_vars => [OnFacts]_vars
    BY <1>1
  <1> QED BY <1>2, Invariance, PTL DEF Spec, ReadyOnFacts

-----------------------------------------------------------------------------
(* What the store answers. *)

(* The choice among nodes is the same whatever order the store lists them  *)
(* in: ids break every tie (scheduler.go:63-69).                           *)
THEOREM ChoiceDeterminedHolds == Spec => []ChoiceDetermined
  <1>1. ChoiceDetermined
    <2> SUFFICES ASSUME NEW q \in Requests,
                        NEW m \in SelectNode(q.intent), NEW n \in SelectNode(q.intent)
                 PROVE  m = n
      BY DEF ChoiceDetermined
    <2>1. m \in Eligible(q.intent) /\ n \in Eligible(q.intent)
          /\ ~ RanksBefore(q.intent, m, n) /\ ~ RanksBefore(q.intent, n, m)
      BY DEF SelectNode
    <2>2. m \in Nat /\ n \in Nat
      BY <2>1, NodeAssumption DEF Eligible, Known
    <2>3. ASSUME NEW r PROVE Score(q.intent, r, clock) \in Int
      <3>1. PICK len \in Nat : DOMAIN q.intent.preferred = 1 .. len
        BY RequestAssumption
      <3>2. Matched(q.intent, r) \subseteq 1 .. len /\ IsFiniteSet(1 .. len)
        BY <3>1, FS_Interval DEF Matched
      <3>3. Cardinality(Matched(q.intent, r)) \in Nat
        BY <3>2, FS_Subset, FS_CardinalityType
      <3> QED BY <3>3 DEF Score
    <2>4. PICK a \in Int, b \in Int :
            a = Score(q.intent, nodes[m], clock) /\ b = Score(q.intent, nodes[n], clock)
      BY <2>3
    <2> QED BY <2>1, <2>2, <2>4 DEF RanksBefore
  <1> QED BY <1>1, PTL

(* A node the store offers for a runtime is not among those it lists as    *)
(* stale (memory.go:77-118): its system capabilities, which the query      *)
(* looks at, were probed first and go stale first.                         *)
THEOREM PoolsTrustedHolds == Spec => []PoolsTrusted
  <1>1. ASSUME Truth, NEW n \in Known, CanRunKVMVMs(nodes[n])
        PROVE  ~ nodes[n].isStale
    <2>1. PICK env : env = envelopes[n]
      OBVIOUS
    <2>2. PICK a \in 0 .. clock : nodes[n] = Project(env, a)
      BY <1>1, <2>1 DEF Truth, Stored, ProjectedAt, Known
    <2>3. True(env) /\ env.ts \in Int /\ env.systemAt \in Int /\ env.systemAt <= env.ts
          /\ env.system \in SystemReports
      BY <1>1, <2>1 DEF Truth, Stored, Known, True, Envelopes
    <2>4. "kvm_virtualization" \notin StaleCaps(env, a)
      <3>1. Project(env, a).staleCaps = StaleCaps(env, a)
        BY DEF Project
      <3> QED BY <1>1, <2>2, <3>1 DEF CanRunKVMVMs
    <2>5. "kvm_virtualization" \in DOMAIN env.system.caps
      BY <2>3, SystemReportTyped DEF SystemFeatures
    <2>6. a \in Int /\ Life \in Int
      BY <1>1, Clocks DEF Truth, Shape
    <2>7. env.systemAt + Life >= a
      BY <2>3, <2>4, <2>5, <2>6 DEF StaleCaps
    <2>8. StaleCaps(env, a) = {} /\ ~ (a - env.ts > Life)
      BY <2>3, <2>6, <2>7 DEF StaleCaps
    <2>9. Project(env, a).isStale = (StaleCaps(env, a) # {} \/ a - env.ts > Life)
      BY DEF Project
    <2> QED BY <2>2, <2>8, <2>9
  <1>2. ASSUME Truth, NEW runtime \in {"kvm", "firecracker", "arm-prod"},
               NEW n \in ListNodesEligibleFor(runtime)
        PROVE  n \notin ListStaleNodes
    <2>1. n \in Known /\ (CanRunKVMVMs(nodes[n]) \/ ~ nodes[n].isStale)
      BY <1>2 DEF ListNodesEligibleFor, CanRunFirecrackerMicroVMs, CanJoinArmProductionPool
    <2>2. ~ nodes[n].isStale
      BY <1>1, <1>2, <2>1
    <2> QED BY <2>2 DEF ListStaleNodes
  <1>3. Truth => PoolsTrusted
    BY <1>2 DEF PoolsTrusted
  <1> QED BY <1>3, Invariance, PTL
=============================================================================
