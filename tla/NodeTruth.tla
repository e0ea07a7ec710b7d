----------------------------- MODULE NodeTruth -----------------------------
(***************************************************************************)
(* How the control plane comes to know its nodes.  The agent's inspect     *)
(* command probes the host twice, first the system and then what           *)
(* virtualization needs, stamps the result and prints it.  Something that  *)
(* is not in this repository posts it to the intake, which may lose it or  *)
(* let a younger report overtake it.  The intake projects the envelope and *)
(* replaces the node's record, whatever record was there, and a restart of *)
(* the control plane forgets them all.                                     *)
(*                                                                         *)
(* Time is in seconds of the control plane's clock; Skew[n] is how far the *)
(* clock of node n runs ahead of it.  Every capability of a collector goes *)
(* stale Life seconds after that collector started.                        *)
(***************************************************************************)
EXTENDS Integers, FiniteSets

CONSTANTS
  Nodes,             \* node ids, as numbers in the order of the ids
  Hosts,             \* conditions a host can be in: [arch, has, path, version, files]
  InitHost,          \* each node's condition at first
  Skew,              \* each node's clock minus the control plane's
  Life,              \* 300 s in the code
  NoProbe, NoRecord, \* nothing probed yet, a node that never reported
  MaxClock,          \* bound on the clock
  MaxUpsets,         \* bound on the changes of hosts and restarts, together
  MaxInspection,     \* bound on how long an inspection takes
  MaxInFlight        \* bound on the reports being made or in flight

SystemFeatures == {"kvm_virtualization", "hardware_tpm", "dpu_offload"}

VirtualizationFeatures ==
  {"kvm_vm_launch", "qemu_binary_present", "cloud_hypervisor_binary_present",
   "firecracker_binary_present", "firecracker_tun_ready", "firecracker_cgroups_ready",
   "kernel_seccomp_supported", "kernel_namespaces_supported"}

Features == SystemFeatures \cup VirtualizationFeatures

(* What the store keeps of a node: the state projected from its envelope.  *)
Records ==
  [arch        : {h.arch : h \in Hosts},
   class       : {"ArmProduction", "X86HoldingPool", "Unsupported"},
   health      : {"Healthy"},
   alarms      : {{}},
   constraints : SUBSET {"CONSTRAINT_NO_KVM"},
   caps        : [Features -> {"Supported", "Unsupported", "Unavailable", "Unknown"}],
   version     : {h.version : h \in Hosts},
   staleCaps   : SUBSET Features,
   isStale     : BOOLEAN,
   ts          : Int]

ASSUME NodeAssumption ==
  /\ Nodes \subseteq Nat
  /\ NoRecord \notin Records
  /\ InitHost \in [Nodes -> Hosts]
  /\ Skew \in [Nodes -> Int]
  /\ Life \in Nat
  /\ {MaxClock, MaxUpsets, MaxInspection, MaxInFlight} \subseteq Nat

VARIABLES
  clock,             \* the control plane's clock
  host,              \* each node's present condition
  held,              \* history: <<h, t>> when a node last left condition h at t
  probed,            \* the first half of an inspection under way on a node
  wire,              \* envelopes printed and not yet taken in or lost
  envelopes,         \* the store's rawEnvelopes
  nodes,             \* the store's nodes, projected from them
  upsets             \* how often a host changed or the control plane restarted

truthVars == <<clock, host, held, probed, wire, envelopes, nodes, upsets>>

Local(n) == clock + Skew[n]

-----------------------------------------------------------------------------
(* The agent's collectors.  What a host has is what they look for: devices *)
(* and kernel features, and hypervisors in /usr/bin and /usr/local/bin.    *)

Has(h, thing) == IF thing \in h.has THEN "Supported" ELSE "Unsupported"

Class(h) ==
  CASE "kvm" \in h.has /\ h.arch \in {"aarch64", "arm"} -> "ArmProduction"
    [] "kvm" \in h.has /\ h.arch = "x86_64"             -> "X86HoldingPool"
    [] OTHER                                            -> "Unsupported"

SystemReport(h) ==
  [arch        |-> h.arch,
   class       |-> Class(h),
   health      |-> "Healthy",
   alarms      |-> {},
   constraints |-> IF "kvm" \in h.has THEN {} ELSE {"CONSTRAINT_NO_KVM"},
   caps        |-> [kvm_virtualization |-> Has(h, "kvm"),
                    hardware_tpm       |-> Has(h, "tpm"),
                    dpu_offload        |-> "Unknown"]]

(* /dev/kvm that opens, that exists without opening, that does not exist. *)
KvmLaunch(h) ==
  CASE "kvm_opens" \in h.has                        -> "Supported"
    [] "kvm" \in h.has /\ "kvm_opens" \notin h.has  -> "Unavailable"
    [] OTHER                                        -> "Unsupported"

VirtualizationReport(h) ==
  [caps |-> [kvm_vm_launch                   |-> KvmLaunch(h),
             qemu_binary_present             |->
               IF h.arch \in {"x86_64", "aarch64"} THEN Has(h, "kvm_qemu") ELSE "Unsupported",
             cloud_hypervisor_binary_present |-> Has(h, "cloud_hypervisor"),
             firecracker_binary_present      |-> Has(h, "firecracker"),
             firecracker_tun_ready           |-> Has(h, "tun"),
             firecracker_cgroups_ready       |-> Has(h, "cgroups"),
             kernel_seccomp_supported        |-> Has(h, "seccomp"),
             kernel_namespaces_supported     |-> Has(h, "namespaces")],
   version |-> h.version]

UnderWay == Cardinality(wire) + Cardinality({n \in Nodes : probed[n] # NoProbe})

CollectSystem(n) ==
  /\ probed[n] = NoProbe
  /\ UnderWay < MaxInFlight
  /\ probed' = [probed EXCEPT ![n] = [report |-> SystemReport(host[n]), at |-> Local(n)]]
  /\ UNCHANGED <<clock, host, held, wire, envelopes, nodes, upsets>>

(* The second collector, the stamp and the printing.  The versions' probes *)
(* are given at most a second each, which is not counted.                  *)
CollectVirtualization(n) ==
  /\ probed[n] # NoProbe
  /\ wire' = wire \cup {[node     |-> n,
                         system   |-> probed[n].report,
                         systemAt |-> probed[n].at,
                         virt     |-> VirtualizationReport(host[n]),
                         ts       |-> Local(n)]}
  /\ probed' = [probed EXCEPT ![n] = NoProbe]
  /\ UNCHANGED <<clock, host, held, envelopes, nodes, upsets>>

-----------------------------------------------------------------------------
(* The intake. *)

(* A mutant: the age of a record counts from its arrival. *)
ArrivalTime(env, now) == now

LastCollectionTime(env, now) == env.ts

(* A mutant: a late envelope makes the node stale, not its capabilities. *)
NothingStale(env, now) == {}

(* A mutant: each collector's capabilities expire with the other one's. *)
StaleCrossed(env, now) ==
  {f \in DOMAIN env.system.caps : env.ts + Life < now} \cup
  {f \in DOMAIN env.virt.caps : env.systemAt + Life < now}

(* The capabilities whose stale_after is past when the envelope arrives. *)
StaleCaps(env, now) ==
  {f \in DOMAIN env.system.caps : env.systemAt + Life < now} \cup
  {f \in DOMAIN env.virt.caps : env.ts + Life < now}

Project(env, now) ==
  [arch        |-> env.system.arch,
   class       |-> env.system.class,
   health      |-> env.system.health,
   alarms      |-> env.system.alarms,
   constraints |-> env.system.constraints,
   caps        |-> [f \in DOMAIN env.system.caps \cup DOMAIN env.virt.caps |->
                      IF f \in DOMAIN env.system.caps THEN env.system.caps[f]
                                                      ELSE env.virt.caps[f]],
   version     |-> env.virt.version,
   staleCaps   |-> StaleCaps(env, now),
   isStale     |-> StaleCaps(env, now) # {} \/ now - env.ts > Life,
   ts          |-> LastCollectionTime(env, now)]

(* Mutants: the first record of a node is kept, with its envelope or not. *)
SaveFirst(env, record) ==
  LET known == nodes[env.node] # NoRecord
  IN  /\ envelopes' = [envelopes EXCEPT ![env.node] = IF known THEN @ ELSE env]
      /\ nodes' = [nodes EXCEPT ![env.node] = IF known THEN @ ELSE record]

SaveEnvelope(env, record) ==
  /\ envelopes' = [envelopes EXCEPT ![env.node] = env]
  /\ nodes' = [nodes EXCEPT ![env.node] = IF @ = NoRecord THEN record ELSE @]

SaveNodeState(env, record) ==
  /\ envelopes' = [envelopes EXCEPT ![env.node] = env]
  /\ nodes' = [nodes EXCEPT ![env.node] = record]

Ingest(env) ==
  /\ env \in wire
  /\ SaveNodeState(env, Project(env, clock))
  /\ wire' = wire \ {env}
  /\ UNCHANGED <<clock, host, held, probed, upsets>>

-----------------------------------------------------------------------------
(* The queries of the node store. *)

Known == {n \in Nodes : nodes[n] # NoRecord}

CanRunKVMVMs(r) ==
  /\ "kvm_virtualization" \in DOMAIN r.caps
  /\ r.caps["kvm_virtualization"] = "Supported"
  /\ "kvm_virtualization" \notin r.staleCaps

CanRunFirecrackerMicroVMs(r) == CanRunKVMVMs(r)

CanJoinArmProductionPool(r) ==
  r.class = "ArmProduction" /\ r.health = "Healthy" /\ ~ r.isStale

IsOnlyEligibleForHoldingPool(r) ==
  r.class = "X86HoldingPool" /\ r.health = "Healthy"

ListNodesEligibleFor(runtime) ==
  {n \in Known : CASE runtime = "kvm"         -> CanRunKVMVMs(nodes[n])
                   [] runtime = "firecracker" -> CanRunFirecrackerMicroVMs(nodes[n])
                   [] runtime = "arm-prod"    -> CanJoinArmProductionPool(nodes[n])
                   [] runtime = "x86-holding" -> IsOnlyEligibleForHoldingPool(nodes[n])}

ListStaleNodes == {n \in Known : nodes[n].isStale}

-----------------------------------------------------------------------------
(* The surroundings: hosts, the way to the intake, time and restarts. *)

HostChanges(n) ==
  /\ upsets < MaxUpsets
  /\ \E h \in Hosts \ {host[n]} :
       /\ h.arch = host[n].arch
       /\ host' = [host EXCEPT ![n] = h]
  /\ held' = [held EXCEPT ![n] = @ \cup {<<host[n], clock>>}]
  /\ upsets' = upsets + 1
  /\ UNCHANGED <<clock, probed, wire, envelopes, nodes>>

Lose(env) ==
  /\ env \in wire
  /\ wire' = wire \ {env}
  /\ UNCHANGED <<clock, host, held, probed, envelopes, nodes, upsets>>

Tick ==
  /\ clock < MaxClock
  /\ \A n \in Nodes : probed[n] # NoProbe => Local(n) - probed[n].at < MaxInspection
  /\ clock' = clock + 1
  /\ UNCHANGED <<host, held, probed, wire, envelopes, nodes, upsets>>

Restart ==
  /\ upsets < MaxUpsets
  /\ upsets' = upsets + 1
  /\ envelopes' = [n \in Nodes |-> NoRecord]
  /\ nodes' = [n \in Nodes |-> NoRecord]
  /\ UNCHANGED <<clock, host, held, probed, wire>>

TruthInit ==
  /\ clock = 0
  /\ host = InitHost
  /\ held = [n \in Nodes |-> {}]
  /\ probed = [n \in Nodes |-> NoProbe]
  /\ wire = {}
  /\ envelopes = [n \in Nodes |-> NoRecord]
  /\ nodes = [n \in Nodes |-> NoRecord]
  /\ upsets = 0

(* Every step but a restart, which also ends the requests in progress. *)
TruthNext ==
  \/ \E n \in Nodes : CollectSystem(n) \/ CollectVirtualization(n) \/ HostChanges(n)
  \/ \E env \in wire : Ingest(env) \/ Lose(env)
  \/ Tick

-----------------------------------------------------------------------------
(* What was real: the conditions of a node with the last time of each. *)

Seen(n) == held[n] \cup {<<host[n], clock>>}

SystemReal(n, report, since) ==
  \E s \in Seen(n) : SystemReport(s[1]) = report /\ s[2] >= since

VirtualizationReal(n, report, since) ==
  \E s \in Seen(n) : VirtualizationReport(s[1]) = report /\ s[2] >= since

(* A node the store offers for a runtime is not at the same time among     *)
(* those it lists as stale: the system collector runs first, so its        *)
(* capabilities are never the last to go stale.  The holding pool is not   *)
(* included; its query does not ask.                                       *)
PoolsTrusted ==
  \A runtime \in {"kvm", "firecracker", "arm-prod"} :
     ListNodesEligibleFor(runtime) \cap ListStaleNodes = {}

(* The store ends up with what every node is.                              *)
Informed(n) ==
  /\ envelopes[n] # NoRecord
  /\ envelopes[n].system = SystemReport(host[n])
  /\ envelopes[n].virt = VirtualizationReport(host[n])
=============================================================================
