----------------------------- MODULE Admission -----------------------------
(***************************************************************************)
(* From an intent to a launch that a node can prepare: the plan handler,   *)
(* which schedules on one reading of the node store and validates on a     *)
(* second, then what a client does with a ready plan: have the agent of    *)
(* the chosen node prepare its spec, or the control plane dry-run it.      *)
(* Reports keep arriving, hosts keep changing and the control plane may    *)
(* restart between any two of these steps.                                 *)
(*                                                                         *)
(* One request is followed at a time: the handlers write nothing that they *)
(* share.  The schedule handlers answer with what SelectNode returns.      *)
(***************************************************************************)
EXTENDS NodeTruth, LaunchRules

CONSTANTS
  Requests,          \* [intent, template, mode, target] records
  LocalFiles,        \* the paths that exist where the control plane runs
  FreshWithin,       \* 30 s in the code
  NoNode             \* a node that is not named

ASSUME RequestAssumption ==
  /\ FreshWithin \in Nat
  /\ NoNode \notin Nodes
  /\ \A q \in Requests : /\ q.intent.maxAge \in Nat \ {0}
                          /\ q.intent.preferred \in Seq(STRING)

ASSUME SpecAssumption ==
  \A q \in Requests : \A m \in {"Validate", "DryRun"} :
     [q.template.spec EXCEPT !.mode = m] \in Specs

VARIABLE plan        \* the request in progress, and its answers

vars == <<truthVars, plan>>

NoPlan == [stage |-> "None"]

-----------------------------------------------------------------------------
(* The scheduler. *)

Evaluate(intent, r, now) ==
  /\ r.health \in {"Healthy", "Warning"}
  /\ now - r.ts <= intent.maxAge
  /\ ~ r.isStale
  /\ intent.arch \in {"any", r.arch}
  /\ r.class \in intent.classes
  /\ intent.kvm => "kvm_vm_launch" \in DOMAIN r.caps /\ r.caps["kvm_vm_launch"] = "Supported"
  /\ intent.tpm => "hardware_tpm" \in DOMAIN r.caps /\ r.caps["hardware_tpm"] = "Supported"
  /\ intent.forbidden \cap r.constraints = {}

(* Where in the list of preferences a supported feature is named. *)
Matched(intent, r) ==
  LET Supports(f) == f \in DOMAIN r.caps /\ r.caps[f] = "Supported"
  IN  {i \in DOMAIN intent.preferred : Supports(intent.preferred[i])}

Score(intent, r, now) ==
  (IF now - r.ts < FreshWithin THEN 30 ELSE 0) + (IF r.alarms = {} THEN 20 ELSE 0)
    + 10 * Cardinality(Matched(intent, r))

(* A mutant: by score alone. *)
ScoresAbove(intent, m, n) == Score(intent, nodes[m], clock) > Score(intent, nodes[n], clock)

(* The order in which candidates are ranked: by score, then by id. *)
RanksBefore(intent, m, n) ==
  LET a == Score(intent, nodes[m], clock)
      b == Score(intent, nodes[n], clock)
  IN  a > b \/ (a = b /\ m < n)

Eligible(intent) == {n \in Known : Evaluate(intent, nodes[n], clock)}

(* The nodes that may come first when the store lists its map in any order. *)
SelectNode(intent) ==
  {n \in Eligible(intent) : \A m \in Eligible(intent) : ~ RanksBefore(intent, m, n)}

-----------------------------------------------------------------------------
(* The plan handler. *)

Mismatch(q) ==
  \/ q.intent.workload # q.template.workload
  \/ q.intent.tenant # q.template.tenant
  \/ q.intent.class # q.template.class
  \/ q.intent.arch # "any" /\ q.intent.arch # q.template.arch

(* The template hydrated: what it says of the workload, and the mode. *)
PlannedSpec(q) ==
  [q.template.spec EXCEPT !.mode = IF q.mode = "dry_run" THEN "DryRun" ELSE "Validate"]

Answer(status, next) == [stage |-> "Answered", status |-> status, next |-> next]

Contradicts(q, n) ==
  (q.target # NoNode /\ q.target # n) \/ (q.template.node # NoNode /\ q.template.node # n)

(* The first reading, and BuildLaunchPlan. *)
PlanConflict(q) ==
  /\ Mismatch(q)
  /\ plan' = Answer("Conflict", "None")

PlanRejected(q) ==
  /\ ~ Mismatch(q)
  /\ Eligible(q.intent) = {}
  /\ plan' = Answer("Rejected", "RetryLater")

PlanContradicted(q) ==
  /\ ~ Mismatch(q)
  /\ \E n \in SelectNode(q.intent) : Contradicts(q, n)
  /\ plan' = Answer("Conflict", "None")

PlanSelected(q) ==
  /\ ~ Mismatch(q)
  /\ \E n \in SelectNode(q.intent) :
       /\ ~ Contradicts(q, n)
       /\ plan' = [stage |-> "Selected", req |-> q, node |-> n, spec |-> PlannedSpec(q),
                   at |-> clock]

BuildLaunchPlan(q) ==
  /\ plan.stage = "None"
  /\ PlanConflict(q) \/ PlanRejected(q) \/ PlanContradicted(q) \/ PlanSelected(q)
  /\ UNCHANGED truthVars

NextAction(q) == IF q.mode = "dry_run" THEN "PrepareOnNode" ELSE "SubmitLaunch"

Ready(p, backend) ==
  [stage |-> "Ready", node |-> p.node, spec |-> p.spec, backend |-> backend,
   next |-> NextAction(p.req), facts |-> envelopes[p.node].virt]

(* The second reading, and ValidateLaunch.  GetNode finds the node: no     *)
(* record is ever removed while the process that serves the request lives. *)
PlanLaunch ==
  /\ plan.stage = "Selected"
  /\ LET backend == ValidateLaunch(plan.spec, nodes[plan.node])
     IN  plan' = IF backend = "" THEN Answer("ValidationFail", "FixValidation")
                                 ELSE Ready(plan, backend)
  /\ UNCHANGED truthVars

-----------------------------------------------------------------------------
(* What a client does with a spec. *)

(* The dry-run handler, which writes nothing: its answer for a spec and    *)
(* the record of that moment.                                              *)
DryRunLaunch(spec, record) ==
  LET dry == [spec EXCEPT !.mode = "DryRun"]
  IN  Prepare(ValidateLaunch(dry, record), dry, LocalFiles)

(* The agent's prepare command, run on the chosen node as a plan advises.  *)
PrepareOnNode ==
  /\ plan.stage = "Ready"
  /\ plan.next = "PrepareOnNode"
  /\ plan' = [stage |-> "Prepared", result |-> AgentPrepare(plan.spec, host[plan.node])]
  /\ UNCHANGED truthVars

(* The client has what it wanted, and may ask again. *)
Done ==
  /\ plan.stage \in {"Answered", "Ready", "Prepared"}
  /\ plan' = NoPlan
  /\ UNCHANGED truthVars

(* A restart ends the request that is being served; an answer is kept. *)
ControlPlaneRestart ==
  /\ Restart
  /\ plan' = IF plan.stage = "Selected" THEN NoPlan ELSE plan

Init == TruthInit /\ plan = NoPlan

Next ==
  \/ TruthNext /\ UNCHANGED plan
  \/ ControlPlaneRestart
  \/ \E q \in Requests : BuildLaunchPlan(q)
  \/ PlanLaunch
  \/ PrepareOnNode
  \/ Done

Spec == Init /\ [][Next]_vars

(* Inspections are run again and again and their envelopes posted: each    *)
(* one in flight arrives, or is lost while others are not.                 *)
Reporting ==
  /\ \A n \in Nodes : SF_vars(CollectSystem(n) /\ UNCHANGED plan)
                      /\ WF_vars(CollectVirtualization(n) /\ UNCHANGED plan)
                      /\ SF_vars(\E env \in wire : env.node = n /\ Ingest(env) /\ UNCHANGED plan)

FairSpec == Spec /\ Reporting

-----------------------------------------------------------------------------
(* Properties. *)

Larger(a, b) == IF a > b THEN a ELSE b

Stages == {"None", "Answered", "Selected", "Ready", "Prepared"}

(* The shape of the store and of a request: a record is the projection of  *)
(* the envelope kept with it, made at some time since that was printed,    *)
(* and a request under way names a node the store knows.                   *)
AdmissionTypeOK ==
  /\ clock \in Nat
  /\ host \in [Nodes -> Hosts]
  /\ nodes \in [Nodes -> Records \cup {NoRecord}]
  /\ \A n \in Nodes :
       nodes[n] # NoRecord =>
         /\ envelopes[n].node = n
         /\ \E a \in 0 .. clock : nodes[n] = Project(envelopes[n], a)
                                  /\ envelopes[n].ts <= a + Skew[n]
  /\ plan.stage \in Stages
  /\ plan.stage = "Selected" => plan.node \in Known

(* A node is chosen on facts it really had.  However late or out of order  *)
(* its envelope came: what a launch needs, within the age the intent       *)
(* allows before the decision; its architecture and class, which are       *)
(* probed earlier, within that age and the life of a capability.           *)
ChosenOnFacts ==
  [][(plan.stage = "None" /\ plan'.stage = "Selected") =>
       LET n      == plan'.node
           oldest == clock - plan'.req.intent.maxAge - Skew[n]
       IN  /\ VirtualizationReal(n, envelopes[n].virt, oldest)
           /\ SystemReal(n, envelopes[n].system, oldest - Life - Skew[n])]_vars

(* A plan becomes ready on facts the node really had, although no one asks *)
(* the age of the second reading: none older than the intent's age or the  *)
(* life of a capability before the decision.                               *)
ReadyOnFacts ==
  [][(plan.stage = "Selected" /\ plan'.stage = "Ready") =>
       VirtualizationReal(plan.node, plan'.facts,
         plan.at - Larger(plan.req.intent.maxAge, Life) - Skew[plan.node])]_vars

(* The choice does not depend on the order in which a map lists the nodes. *)
ChoiceDetermined ==
  \A q \in Requests : \A m, n \in SelectNode(q.intent) : m = n

(* A spec that validation, executors and agent read alike: of a virtual    *)
(* machine, one that asks no version, which the agent would not look at    *)
(* when it picks a backend; of a microVM, one root and one kernel disk,    *)
(* named either the new way or the old one but not both.                   *)
PlainMicroVM(spec) ==
  \/ spec.storage = << >>
  \/ /\ spec.kernel = "" /\ spec.rootfs = ""
     /\ \E r, k \in {1, 2} :
          /\ DOMAIN spec.storage = {r, k}
          /\ r # k
          /\ spec.storage[r].mount = "/"
          /\ spec.storage[k] = Disk(spec.storage[k].path, "raw", TRUE, "/boot/vmlinux")

Plain(spec) ==
  IF spec.class = "MicroVM" THEN PlainMicroVM(spec)
                            ELSE spec.min = << >> /\ spec.exact = << >>

(* The agent's PATH leads to no hypervisor that the collector, which looks *)
(* into two directories only, does not report.                             *)
PathReported(spec, h) == \A b \in DOMAIN BinaryCap : OnPath(b, spec, h) => b \in h.has

(* The agent prepares what was planned: when the node still is what it was *)
(* validated as, and has the artifacts and the planned hypervisor, on a    *)
(* PATH with none but reported ones, a plain spec is prepared for the      *)
(* backend the plan named (plan_handlers.go:72-88, prepare.rs:194-261).    *)
AgentFollowsPlan ==
  [][ ( /\ PrepareOnNode
        /\ Plain(plan.spec) /\ plan.spec.safeId
        /\ plan.facts = VirtualizationReport(host[plan.node])
        /\ OnPath(plan.backend, plan.spec, host[plan.node])
        /\ PathReported(plan.spec, host[plan.node])
        /\ Artifacts(plan.backend, AgentDisks(plan.backend, plan.spec))
             \subseteq host[plan.node].files )
      => plan'.result.backend = plan.backend ]_vars

(* The agent and the dry run resolve a spec's disks each in its own way,   *)
(* and hand the same disks to the backend whenever both prepare the same   *)
(* one.                                                                    *)
PreparersAgree ==
  [][ ( /\ PrepareOnNode
        /\ plan.node \in Known
        /\ Plain(plan.spec)
        /\ plan'.result.backend = DryRunLaunch(plan.spec, nodes[plan.node]).backend )
      => plan'.result = DryRunLaunch(plan.spec, nodes[plan.node]) ]_vars

(* Once hosts and control plane are left alone, the store comes to hold    *)
(* what each node is, and keeps it, whatever was still in flight.          *)
StoreConverges == \A n \in Nodes : <>[]Informed(n)
=============================================================================
