------------------------- MODULE PreparationProofs -------------------------
(***************************************************************************)
(* What a client gets who does as a plan says: the agent of the chosen     *)
(* node, which has no record of the node and no rule about versions, picks *)
(* the backend that was planned, and gives it the disks that the dry run   *)
(* of the control plane names.  For any plain spec and any node.           *)
(*                                                                         *)
(* The three of them walk the same short list of backends and stop at the  *)
(* first that fits.  So it is enough that the planned one fits the agent,  *)
(* and that nothing before it does.                                        *)
(***************************************************************************)
EXTENDS AdmissionProofs

Backends == {"cloud_hypervisor", "kvm_qemu", "firecracker"}

Lists ==
  { << >>, <<"firecracker">>, <<"cloud_hypervisor">>, <<"kvm_qemu">>,
    <<"cloud_hypervisor", "kvm_qemu">>, <<"kvm_qemu", "cloud_hypervisor">> }

-----------------------------------------------------------------------------
(* Walking the list. *)

LEMMA MinIndex ==
  ASSUME NEW S \in SUBSET {1, 2}, S # {}
  PROVE  Min(S) \in S /\ \A y \in S : Min(S) <= y
  <1>1. \E x \in S : \A y \in S : x <= y
    <2>1. CASE 1 \in S
      BY <2>1
    <2>2. CASE 1 \notin S
      <3>1. S = {2}
        BY <2>2
      <3> QED BY <3>1
    <2> QED BY <2>1, <2>2
  <1> QED BY <1>1 DEF Min

LEMMA IndicesOrdered == \A x, y \in {1, 2} : x <= y /\ y <= x => x = y
  OBVIOUS

LEMMA SingleIndex ==
  ASSUME NEW x \in Int
  PROVE  Min({x}) = x /\ Max({x}) = x
  BY DEF Min, Max

LEMMA ListShape ==
  ASSUME NEW list \in Lists
  PROVE  /\ DOMAIN list \in SUBSET {1, 2}
         /\ \A i \in DOMAIN list : list[i] \in Backends
  <1>1. \A a, b \in Backends : /\ DOMAIN <<a>> = {1} /\ <<a>>[1] = a
                              /\ DOMAIN <<a, b>> = {1, 2}
                              /\ <<a, b>>[1] = a /\ <<a, b>>[2] = b
    OBVIOUS
  <1>2. DOMAIN << >> = {}
    OBVIOUS
  <1>3. list = << >> \/ (\E a \in Backends : list = <<a>>)
                    \/ (\E a, b \in Backends : list = <<a, b>>)
    BY DEF Lists, Backends
  <1>4. CASE list = << >>
    BY <1>2, <1>4
  <1>5. ASSUME NEW a \in Backends, list = <<a>>
        PROVE  DOMAIN list \in SUBSET {1, 2} /\ \A i \in DOMAIN list : list[i] \in Backends
    BY <1>1, <1>5
  <1>6. ASSUME NEW a \in Backends, NEW b \in Backends, list = <<a, b>>
        PROVE  DOMAIN list \in SUBSET {1, 2} /\ \A i \in DOMAIN list : list[i] \in Backends
    BY <1>1, <1>6
  <1> QED BY <1>3, <1>4, <1>5, <1>6

(* The first of a list that is in S.                                       *)
FirstIn(list, S) ==
  LET hits == {i \in DOMAIN list : list[i] \in S}
  IN  IF hits = {} THEN "" ELSE list[Min(hits)]

LEMMA FirstInMeaning ==
  ASSUME NEW list \in Lists, NEW S, FirstIn(list, S) # ""
  PROVE  /\ FirstIn(list, S) \in Backends \cap S
         /\ FirstIn(list, S) \in {list[i] : i \in DOMAIN list}
  <1> DEFINE hits == {i \in DOMAIN list : list[i] \in S}
  <1>1. hits # {} /\ FirstIn(list, S) = list[Min(hits)]
    BY DEF FirstIn
  <1>2. hits \in SUBSET {1, 2}
    BY ListShape
  <1>3. \A i \in DOMAIN list : list[i] \in Backends
    BY ListShape
  <1>4. Min(hits) \in hits
    BY <1>1, <1>2, MinIndex
  <1> HIDE DEF hits
  <1>5. Min(hits) \in DOMAIN list /\ list[Min(hits)] \in S
    BY <1>4 DEF hits
  <1> QED BY <1>1, <1>3, <1>5

(* Two that agree on the one the first of them takes, and of which the     *)
(* second takes nothing else that the first does not, take the same.       *)
LEMMA SameFirst ==
  ASSUME NEW list \in Lists, NEW S, NEW T, FirstIn(list, S) # "",
         FirstIn(list, S) \in T,
         \A i \in DOMAIN list : list[i] \in T => list[i] \in S
  PROVE  FirstIn(list, T) = FirstIn(list, S)
  <1> DEFINE inS == {i \in DOMAIN list : list[i] \in S}
             inT == {i \in DOMAIN list : list[i] \in T}
  <1>1. inS \in SUBSET {1, 2} /\ inT \in SUBSET {1, 2} /\ inT \subseteq inS
    BY ListShape
  <1>2. inS # {} /\ FirstIn(list, S) = list[Min(inS)]
    BY DEF FirstIn
  <1>3. Min(inS) \in inS /\ \A i \in inS : Min(inS) <= i
    BY <1>1, <1>2, MinIndex
  <1>4. Min(inS) \in inT
    BY <1>2, <1>3
  <1>5. Min(inT) \in inT /\ \A i \in inT : Min(inT) <= i
    BY <1>1, <1>4, MinIndex
  <1>6. FirstIn(list, T) = list[Min(inT)]
    BY <1>4 DEF FirstIn
  <1> HIDE DEF inS, inT
  <1>7. Min(inS) <= Min(inT) /\ Min(inT) <= Min(inS)
    BY <1>1, <1>3, <1>4, <1>5
  <1>8. Min(inS) \in {1, 2} /\ Min(inT) \in {1, 2}
    BY <1>1, <1>3, <1>5
  <1>9. Min(inS) = Min(inT)
    BY <1>7, <1>8, IndicesOrdered
  <1> QED BY <1>2, <1>6, <1>9

(* Both sides list the same backends for a spec the intake lets through.   *)
LEMMA SameCandidates ==
  ASSUME NEW spec \in Specs
  PROVE  /\ AgentCandidates(spec) = Candidates(spec)
         /\ Candidates(spec) \in Lists
         /\ spec.class # "MicroVM" =>
              \A i \in DOMAIN Candidates(spec) : Candidates(spec)[i] # "firecracker"
         /\ spec.class = "MicroVM" =>
              \A i \in DOMAIN Candidates(spec) : Candidates(spec)[i] = "firecracker"
  <1>1. spec.class \in {"VirtualMachine", "MicroVM"} /\ spec.fallback \in BOOLEAN
    BY DEF Specs
  <1>2. /\ Preferred(spec) \in Lists
        /\ \A i \in DOMAIN Preferred(spec) : Preferred(spec)[i] # "firecracker"
    <2>1. CASE spec.pref = ""
      <3>1. Preferred(spec) = <<"cloud_hypervisor", "kvm_qemu">>
        BY <2>1 DEF Preferred, VmBackends
      <3> QED BY <3>1 DEF Lists
    <2>2. CASE spec.pref = "cloud_hypervisor"
      BY <1>1, <2>2 DEF Preferred, Lists
    <2>3. CASE spec.pref = "kvm_qemu"
      BY <1>1, <2>3 DEF Preferred, Lists
    <2>4. CASE spec.pref \notin {"", "cloud_hypervisor", "kvm_qemu"}
      <3>1. Preferred(spec) = << >>
        BY <2>4 DEF Preferred
      <3> QED BY <3>1 DEF Lists
    <2> QED BY <2>1, <2>2, <2>3, <2>4
  <1>3. CASE spec.class = "MicroVM"
    BY <1>3 DEF AgentCandidates, Candidates, Lists
  <1>4. CASE spec.class = "VirtualMachine"
    <2>1. AgentCandidates(spec) = Preferred(spec) /\ Candidates(spec) = Preferred(spec)
      BY <1>4 DEF AgentCandidates, Candidates
    <2> QED BY <1>2, <1>4, <2>1
  <1> QED BY <1>1, <1>3, <1>4

(* Those of the backends that the record, or the agent's host, allows.     *)
Accepted(spec, record) == {b \in Backends : Accepts(b, spec, record)}
Preparable(spec, h) == {b \in Backends : AgentCanPrepare(b, spec, h)}

LEMMA SelectIsFirst ==
  ASSUME NEW spec \in Specs, NEW record
  PROVE  SelectBackend(spec, record) = FirstIn(Candidates(spec), Accepted(spec, record))
  <1>1. \A i \in DOMAIN Candidates(spec) : Candidates(spec)[i] \in Backends
    BY SameCandidates DEF Lists, Backends
  <1>2. {i \in DOMAIN Candidates(spec) : Accepts(Candidates(spec)[i], spec, record)}
          = {i \in DOMAIN Candidates(spec) : Candidates(spec)[i] \in Accepted(spec, record)}
    BY <1>1 DEF Accepted
  <1> QED BY <1>2 DEF SelectBackend, FirstFit, FirstIn

LEMMA AgentTakesFirst ==
  ASSUME NEW spec \in Specs, NEW h
  PROVE  LET b == FirstIn(Candidates(spec), Preparable(spec, h))
         IN  /\ b = "" \/ ~ spec.safeId => AgentPrepare(spec, h) = Unprepared
             /\ b # "" /\ spec.safeId =>
                  AgentPrepare(spec, h) = [backend |-> b, disks |-> AgentDisks(b, spec)]
  <1>1. \A i \in DOMAIN Candidates(spec) : Candidates(spec)[i] \in Backends
    BY SameCandidates DEF Lists, Backends
  <1>2. {i \in DOMAIN Candidates(spec) : AgentCanPrepare(Candidates(spec)[i], spec, h)}
          = {i \in DOMAIN Candidates(spec) : Candidates(spec)[i] \in Preparable(spec, h)}
    BY <1>1 DEF Preparable
  <1>3. AgentCandidates(spec) = Candidates(spec)
    BY SameCandidates
  <1>4. FirstFit(AgentCandidates(spec), LAMBDA c : AgentCanPrepare(c, spec, h))
          = FirstIn(Candidates(spec), Preparable(spec, h))
    BY <1>2, <1>3 DEF FirstFit, FirstIn
  <1> QED BY <1>4 DEF AgentPrepare

-----------------------------------------------------------------------------
(* The record and the host. *)

(* What the launch capability does for the others of its collector: they   *)
(* go stale together, so once it is trusted, a feature of theirs is        *)
(* trusted exactly when it was reported.                                   *)
LEMMA TrustedTogether ==
  ASSUME NEW env \in Envelopes, NEW a \in Nat,
         Trusted(Project(env, a), "kvm_vm_launch"),
         NEW f \in VirtualizationFeatures
  PROVE  Trusted(Project(env, a), f) <=> env.virt.caps[f] = "Supported"
  <1> DEFINE r == Project(env, a)
  <1>1. /\ DOMAIN env.system.caps = SystemFeatures
        /\ DOMAIN env.virt.caps = VirtualizationFeatures
        /\ env.ts \in Int
    BY SystemReportTyped, VirtualizationReportTyped DEF Envelopes
  <1>2. "kvm_vm_launch" \in VirtualizationFeatures /\ f \notin SystemFeatures
    BY DEF VirtualizationFeatures, SystemFeatures
  <1>3. /\ r.staleCaps = StaleCaps(env, a)
        /\ r.caps = [g \in SystemFeatures \cup VirtualizationFeatures |->
                       IF g \in SystemFeatures THEN env.system.caps[g] ELSE env.virt.caps[g]]
    BY <1>1 DEF Project
  <1>4. f \notin StaleCaps(env, a)
    <2>1. "kvm_vm_launch" \notin StaleCaps(env, a)
      BY <1>3 DEF Trusted
    <2>2. ~ (env.ts + Life < a)
      BY <1>1, <1>2, <2>1 DEF StaleCaps
    <2> QED BY <1>1, <1>2, <2>2 DEF StaleCaps
  <1>5. f \in DOMAIN r.caps /\ r.caps[f] = env.virt.caps[f]
    BY <1>2, <1>3
  <1> QED BY <1>3, <1>4, <1>5 DEF Trusted

LEMMA BinaryReported ==
  ASSUME NEW h, NEW b \in Backends
  PROVE  /\ BinaryCap[b] \in VirtualizationFeatures
         /\ VirtualizationReport(h).caps[BinaryCap[b]] = "Supported" =>
              b \in h.has
         /\ b \in h.has /\ (b = "kvm_qemu" => h.arch \in {"x86_64", "aarch64"}) =>
              VirtualizationReport(h).caps[BinaryCap[b]] = "Supported"
  <1>1. CASE b = "cloud_hypervisor"
    BY <1>1 DEF BinaryCap, VirtualizationFeatures, VirtualizationReport, Has
  <1>2. CASE b = "kvm_qemu"
    BY <1>2 DEF BinaryCap, VirtualizationFeatures, VirtualizationReport, Has
  <1>3. CASE b = "firecracker"
    BY <1>3 DEF BinaryCap, VirtualizationFeatures, VirtualizationReport, Has
  <1> QED BY <1>1, <1>2, <1>3 DEF Backends

(* What a valid spec tells of the record.                                  *)
LEMMA ValidMeans ==
  ASSUME NEW spec \in Specs, NEW record, ValidateLaunch(spec, record) # ""
  PROVE  /\ ValidateLaunch(spec, record)
              = FirstIn(Candidates(spec), Accepted(spec, record))
         /\ ValidateLaunch(spec, record) \in Backends
         /\ Accepts(ValidateLaunch(spec, record), spec, record)
         /\ ValidateLaunch(spec, record)
              \in {Candidates(spec)[i] : i \in DOMAIN Candidates(spec)}
         /\ spec.arch = record.arch
  <1>1. /\ ValidateLaunch(spec, record) = SelectBackend(spec, record)
        /\ spec.arch = record.arch
    BY DEF ValidateLaunch
  <1>2. ValidateLaunch(spec, record) = FirstIn(Candidates(spec), Accepted(spec, record))
    BY <1>1, SelectIsFirst
  <1>3. Candidates(spec) \in Lists
    BY SameCandidates
  <1>4. /\ ValidateLaunch(spec, record) \in Backends \cap Accepted(spec, record)
        /\ ValidateLaunch(spec, record)
             \in {Candidates(spec)[i] : i \in DOMAIN Candidates(spec)}
    BY <1>2, <1>3, FirstInMeaning
  <1> QED BY <1>1, <1>2, <1>4 DEF Accepted

(* The agent of a host that is what the record says, and whose PATH leads  *)
(* to the planned hypervisor and to none the record does not know, picks   *)
(* the backend that the record was found to allow.                         *)
LEMMA AgentFollows ==
  ASSUME NEW spec \in Specs, NEW env \in Envelopes, NEW a \in Nat, NEW h,
         NEW b, b = ValidateLaunch(spec, Project(env, a)), b # "",
         env.virt = VirtualizationReport(h), spec.arch = h.arch,
         Plain(spec), spec.safeId, OnPath(b, spec, h), PathReported(spec, h),
         Artifacts(b, AgentDisks(b, spec)) \subseteq h.files
  PROVE  AgentPrepare(spec, h).backend = b
  <1> DEFINE r    == Project(env, a)
             list == Candidates(spec)
  <1>1. /\ b = FirstIn(list, Accepted(spec, r))
        /\ b \in Backends /\ Accepts(b, spec, r)
        /\ b \in {list[i] : i \in DOMAIN list}
    BY ValidMeans
  <1>2. Trusted(r, "kvm_vm_launch") /\ Trusted(r, BinaryCap[b])
        /\ NormalizedStorage(spec) # << >>
    <2>1. \A f \in Needs(b) : Trusted(r, f)
      BY <1>1 DEF Accepts
    <2>2. "kvm_vm_launch" \in Needs(b) /\ BinaryCap[b] \in Needs(b)
      BY DEF Needs
    <2> QED BY <1>1, <2>1, <2>2 DEF Accepts
  <1>3. \A c \in Backends : Trusted(r, BinaryCap[c])
                              <=> VirtualizationReport(h).caps[BinaryCap[c]] = "Supported"
    <2>1. ASSUME NEW c \in Backends
          PROVE  Trusted(r, BinaryCap[c]) <=> env.virt.caps[BinaryCap[c]] = "Supported"
      <3>1. BinaryCap[c] \in VirtualizationFeatures
        BY BinaryReported
      <3> HIDE DEF BinaryCap
      <3> QED BY <1>2, <3>1, TrustedTogether
    <2> QED BY <2>1
  <1>4. b \in Preparable(spec, h)
    BY <1>1 DEF Preparable, AgentCanPrepare
  <1>5. ASSUME NEW c \in Backends, spec.class # "MicroVM", c # "firecracker",
               c \in Preparable(spec, h)
        PROVE  c \in Accepted(spec, r)
    <2>1. c \in h.has /\ h.arch \in {"x86_64", "aarch64"}
      <3>1. c \in DOMAIN BinaryCap
        BY DEF Backends, BinaryCap
      <3> QED BY <1>5, <3>1 DEF Preparable, AgentCanPrepare, PathReported, Specs
    <2>2. Trusted(r, BinaryCap[c])
      BY <1>3, <2>1, BinaryReported
    <2>3. \A f \in Needs(c) : Trusted(r, f)
      BY <1>2, <1>5, <2>2 DEF Needs
    <2>4. MeetsRequirement(r.version[c], spec)
      BY <1>5 DEF Plain, MeetsRequirement
    <2> QED BY <1>2, <1>5, <2>3, <2>4 DEF Accepted, Accepts
  <1>6. \A i \in DOMAIN list :
          list[i] \in Preparable(spec, h) => list[i] \in Accepted(spec, r)
    <2>1. CASE spec.class = "MicroVM"
      <3>1. \A i \in DOMAIN list : list[i] = "firecracker"
        BY <2>1, SameCandidates
      <3>2. b \in Accepted(spec, r)
        BY <1>1 DEF Accepted
      <3> QED BY <1>1, <3>1, <3>2
    <2>2. CASE spec.class # "MicroVM"
      <3>1. \A i \in DOMAIN list : list[i] # "firecracker" /\ list[i] \in Backends
        BY <2>2, SameCandidates, ListShape
      <3> QED BY <1>5, <2>2, <3>1
    <2> QED BY <2>1, <2>2
  <1>7. list \in Lists
    BY SameCandidates
  <1> HIDE DEF r, list
  <1>8. FirstIn(list, Preparable(spec, h)) = b
    BY <1>1, <1>4, <1>6, <1>7, SameFirst
  <1>9. FirstIn(Candidates(spec), Preparable(spec, h)) = b
    BY <1>8 DEF list
  <1>10. AgentPrepare(spec, h) = [backend |-> b, disks |-> AgentDisks(b, spec)]
    BY <1>9, AgentTakesFirst
  <1>11. [backend |-> b, disks |-> AgentDisks(b, spec)].backend = b
    OBVIOUS
  <1> QED BY <1>10, <1>11

-----------------------------------------------------------------------------
(* The disks. *)

LEMMA AnswerFields ==
  /\ Unprepared.backend = ""
  /\ \A b, d : [backend |-> b, disks |-> d].backend = b
  /\ \A b \in Backends : \A d : [backend |-> b, disks |-> d].backend # ""
  BY DEF Unprepared, Backends

BothGiven(disks) == disks[1] # "" /\ disks[2] # ""

(* A dry run is not prepared, or prepared with the disks of the spec that  *)
(* it was asked about: setting the mode touches none of them.              *)
LEMMA DryRunMeans ==
  ASSUME NEW spec \in Specs, NEW record
  PROVE  \/ DryRunLaunch(spec, record) = Unprepared
         \/ DryRunLaunch(spec, record) =
              [backend |-> "kvm_qemu", disks |-> PrimaryDisk(spec)]
         \/ DryRunLaunch(spec, record) =
              [backend |-> "cloud_hypervisor", disks |-> <<PrimaryDisk(spec)[1]>>]
         \/ /\ BothGiven(FirecrackerDisks(spec))
            /\ DryRunLaunch(spec, record) =
                 [backend |-> "firecracker", disks |-> FirecrackerDisks(spec)]
  <1> DEFINE dry == [spec EXCEPT !.mode = "DryRun"]
             v   == ValidateLaunch(dry, record)
  <1>1. /\ dry.storage = spec.storage /\ dry.image = spec.image
        /\ dry.kernel = spec.kernel /\ dry.rootfs = spec.rootfs
    BY DEF Specs
  <1>2. DryRunLaunch(spec, record) = Prepare(v, dry, LocalFiles)
    BY DEF DryRunLaunch
  <1> HIDE DEF dry, v
  <1>3. PrimaryDisk(dry) = PrimaryDisk(spec) /\ FirecrackerDisks(dry) = FirecrackerDisks(spec)
    <2>1. PrimaryDisk(dry) = PrimaryDisk(spec)
      BY <1>1, Zenon DEF PrimaryDisk, Matching
    <2>2. FirecrackerDisks(dry) = FirecrackerDisks(spec)
      BY <1>1, SMT DEF FirecrackerDisks, Matching
    <2> QED BY <2>1, <2>2
  <1>4. \/ Prepare(v, dry, LocalFiles) = Unprepared
        \/ Prepare(v, dry, LocalFiles) = QemuPrepare(dry, LocalFiles)
        \/ Prepare(v, dry, LocalFiles) = CloudHypervisorPrepare(dry, LocalFiles)
        \/ Prepare(v, dry, LocalFiles) = FirecrackerPrepare(dry)
    BY DEF Prepare
  <1>5. \/ QemuPrepare(dry, LocalFiles) = Unprepared
        \/ QemuPrepare(dry, LocalFiles) =
             [backend |-> "kvm_qemu", disks |-> PrimaryDisk(dry)]
    BY DEF QemuPrepare
  <1>6. \/ CloudHypervisorPrepare(dry, LocalFiles) = Unprepared
        \/ CloudHypervisorPrepare(dry, LocalFiles) =
             [backend |-> "cloud_hypervisor", disks |-> <<PrimaryDisk(dry)[1]>>]
    BY DEF CloudHypervisorPrepare
  <1>7. \/ FirecrackerPrepare(dry) = Unprepared
        \/ /\ BothGiven(FirecrackerDisks(dry))
           /\ FirecrackerPrepare(dry) =
                [backend |-> "firecracker", disks |-> FirecrackerDisks(dry)]
    BY DEF FirecrackerPrepare, BothGiven
  <1> QED BY <1>2, <1>3, <1>4, <1>5, <1>6, <1>7

(* A virtual machine's primary disk: the first that is mounted at the root *)
(* or not said where, the first of all if there is none, the image that a  *)
(* spec without disks names.                                               *)
LEMMA SamePrimary ==
  ASSUME NEW spec \in Specs
  PROVE  AgentPrimaryDisk(spec) = PrimaryDisk(spec)
  <1> DEFINE root == Matching(spec.storage, LAMBDA d : d.mount \in {"/", ""})
  <1>1. CASE spec.storage = << >>
    <2>1. AgentPrimaryDisk(spec) = <<spec.image, "qcow2">>
      BY <1>1 DEF AgentPrimaryDisk
    <2>2. root = {}
      BY <1>1 DEF Matching
    <2>3. PrimaryDisk(spec) = <<spec.image, "qcow2">>
      BY <1>1, <2>2 DEF PrimaryDisk
    <2> QED BY <2>1, <2>3
  <1>2. CASE spec.storage # << >> /\ root # {}
    <2>1. PrimaryDisk(spec) = Resolved(spec.storage[Min(root)])
      BY <1>2 DEF PrimaryDisk
    <2> QED BY <1>2, <2>1 DEF AgentPrimaryDisk
  <1>3. CASE spec.storage # << >> /\ root = {}
    <2>1. PrimaryDisk(spec) = Resolved(spec.storage[1])
      BY <1>3 DEF PrimaryDisk
    <2> QED BY <1>3, <2>1 DEF AgentPrimaryDisk
  <1> QED BY <1>1, <1>2, <1>3

(* A plain microVM's two disks: the fields of old, or the one that is      *)
(* mounted at the root and the one that can only be the kernel, once both  *)
(* have a path.                                                            *)
LEMMA SameMicroDisks ==
  ASSUME NEW spec \in Specs, PlainMicroVM(spec),
         BothGiven(FirecrackerDisks(spec))
  PROVE  AgentFirecrackerDisks(spec) = FirecrackerDisks(spec)
  <1> DEFINE roots    == {i \in DOMAIN spec.storage : spec.storage[i].mount = "/"}
             kernels  == {i \in DOMAIN spec.storage :
                            /\ spec.storage[i].mount # "/"
                            /\ spec.storage[i].mount = "/boot/vmlinux"
                               \/ (spec.storage[i].format = "raw" /\ spec.storage[i].ro)}
             aRoots   == {i \in DOMAIN spec.storage : spec.storage[i].mount = "/"
                                                      \/ spec.storage[i].format = "ext4"}
             aKernels == {i \in DOMAIN spec.storage :
                            /\ ~ (spec.storage[i].mount = "/" \/ spec.storage[i].format = "ext4")
                            /\ spec.storage[i].format = "raw" /\ spec.storage[i].ro}
             Path(legacy, hits) == IF legacy # "" \/ hits = {} THEN legacy
                                   ELSE spec.storage[Min(hits)].path
             kernel == IF kernels = {} THEN "" ELSE spec.storage[Max(kernels)].path
             root   == IF roots = {} THEN "" ELSE spec.storage[Max(roots)].path
  <1>1. FirecrackerDisks(spec) =
          IF kernel # "" /\ root # "" THEN <<kernel, root>> ELSE <<spec.kernel, spec.rootfs>>
    BY DEF FirecrackerDisks, Matching
  <1>2. AgentFirecrackerDisks(spec) = <<Path(spec.kernel, aKernels), Path(spec.rootfs, aRoots)>>
    BY DEF AgentFirecrackerDisks, Matching
  <1>3. CASE spec.storage = << >>
    <2>1. roots = {} /\ aRoots = {} /\ aKernels = {}
      BY <1>3
    <2>2. FirecrackerDisks(spec) = <<spec.kernel, spec.rootfs>>
      BY <1>1, <2>1
    <2> HIDE DEF roots, kernels, aRoots, aKernels
    <2> QED BY <1>2, <2>1, <2>2
  <1>4. ASSUME spec.kernel = "", spec.rootfs = "",
               NEW r \in {1, 2}, NEW k \in {1, 2},
               DOMAIN spec.storage = {r, k}, r # k,
               spec.storage[r].mount = "/",
               spec.storage[k] = Disk(spec.storage[k].path, "raw", TRUE, "/boot/vmlinux")
        PROVE  AgentFirecrackerDisks(spec) = FirecrackerDisks(spec)
    <2>1. /\ spec.storage[k].mount = "/boot/vmlinux"
          /\ spec.storage[k].format = "raw"
          /\ spec.storage[k].ro = TRUE
      <3>1. PICK p : p = spec.storage[k].path
        OBVIOUS
      <3>2. spec.storage[k] = Disk(p, "raw", TRUE, "/boot/vmlinux")
        BY <1>4, <3>1
      <3>3. /\ Disk(p, "raw", TRUE, "/boot/vmlinux").mount = "/boot/vmlinux"
            /\ Disk(p, "raw", TRUE, "/boot/vmlinux").format = "raw"
            /\ Disk(p, "raw", TRUE, "/boot/vmlinux").ro = TRUE
        BY DEF Disk
      <3> QED BY <3>2, <3>3
    <2>2. roots = {r} /\ kernels = {k} /\ aRoots = {r} /\ aKernels = {k}
      BY <1>4, <2>1
    <2>3. Min({r}) = r /\ Max({r}) = r /\ Min({k}) = k /\ Max({k}) = k
      <3>1. \A i \in {1, 2} : i \in Int
        OBVIOUS
      <3> QED BY <3>1, SingleIndex
    <2> HIDE DEF roots, kernels, aRoots, aKernels
    <2>4. FirecrackerDisks(spec) = <<spec.storage[k].path, spec.storage[r].path>>
      <3>1. kernel = spec.storage[k].path /\ root = spec.storage[r].path
        BY <2>2, <2>3
      <3> HIDE DEF kernel, root
      <3>2. kernel # "" /\ root # ""
        <4>1. FirecrackerDisks(spec) # <<"", "">>
          <5>1. ~ BothGiven(<<"", "">>)
            BY DEF BothGiven
          <5> QED BY <5>1
        <4> QED BY <1>1, <1>4, <4>1
      <3> QED BY <1>1, <3>1, <3>2
    <2>5. AgentFirecrackerDisks(spec) = <<spec.storage[k].path, spec.storage[r].path>>
      BY <1>2, <1>4, <2>2, <2>3
    <2> QED BY <2>4, <2>5
  <1> QED BY <1>3, <1>4 DEF PlainMicroVM

LEMMA DisksAgree ==
  ASSUME NEW spec \in Specs, Plain(spec), NEW h, NEW record,
         AgentPrepare(spec, h).backend = DryRunLaunch(spec, record).backend
  PROVE  AgentPrepare(spec, h) = DryRunLaunch(spec, record)
  <1> DEFINE b   == FirstIn(Candidates(spec), Preparable(spec, h))
             dry == DryRunLaunch(spec, record)
  <1>1. CASE b = "" \/ ~ spec.safeId
    <2>1. AgentPrepare(spec, h) = Unprepared
      BY <1>1, AgentTakesFirst
    <2> HIDE DEF b, dry
    <2>2. dry.backend = ""
      BY <2>1, AnswerFields DEF dry
    <2>3. dry = Unprepared
      <3>1. \A c \in Backends : \A d : dry # [backend |-> c, disks |-> d]
        BY <2>2, AnswerFields
      <3>2. {"kvm_qemu", "cloud_hypervisor", "firecracker"} \subseteq Backends
        BY DEF Backends
      <3> QED BY <3>1, <3>2, DryRunMeans DEF dry
    <2> QED BY <2>1, <2>3 DEF dry
  <1>2. CASE b # "" /\ spec.safeId
    <2>1. AgentPrepare(spec, h) = [backend |-> b, disks |-> AgentDisks(b, spec)]
      BY <1>2, AgentTakesFirst
    <2>2. b \in {Candidates(spec)[i] : i \in DOMAIN Candidates(spec)}
      BY <1>2, SameCandidates, FirstInMeaning
    <2>3. b = "firecracker" => spec.class = "MicroVM"
      BY <2>2, SameCandidates
    <2> HIDE DEF b, dry
    <2>4. dry.backend = b /\ dry # Unprepared
      BY <1>2, <2>1, AnswerFields DEF dry
    <2>5. CASE dry = [backend |-> "kvm_qemu",
                      disks   |-> PrimaryDisk(spec)]
      <3>1. b = "kvm_qemu"
        BY <2>4, <2>5, AnswerFields
      <3>2. AgentDisks(b, spec) = PrimaryDisk(spec)
        BY <3>1, SamePrimary DEF AgentDisks
      <3> QED BY <2>1, <2>5, <3>1, <3>2 DEF dry
    <2>6. CASE dry = [backend |-> "cloud_hypervisor", disks |-> <<PrimaryDisk(spec)[1]>>]
      <3>1. b = "cloud_hypervisor"
        BY <2>4, <2>6, AnswerFields
      <3>2. AgentDisks(b, spec) = <<PrimaryDisk(spec)[1]>>
        BY <3>1, SamePrimary DEF AgentDisks
      <3> QED BY <2>1, <2>6, <3>1, <3>2 DEF dry
    <2>7. CASE /\ BothGiven(FirecrackerDisks(spec))
               /\ dry = [backend |-> "firecracker", disks |-> FirecrackerDisks(spec)]
      <3>1. b = "firecracker"
        BY <2>4, <2>7, AnswerFields
      <3>2. PlainMicroVM(spec)
        BY <2>3, <3>1 DEF Plain
      <3>3. AgentDisks(b, spec) = FirecrackerDisks(spec)
        BY <2>7, <3>1, <3>2, SameMicroDisks DEF AgentDisks
      <3> QED BY <2>1, <2>7, <3>1, <3>3 DEF dry
    <2> QED BY <2>4, <2>5, <2>6, <2>7, DryRunMeans DEF dry
  <1> QED BY <1>1, <1>2

-----------------------------------------------------------------------------
(* The plan in hand: what made it valid, kept while it is. *)

(* A host changes what it has, never what it is.                           *)
SameArch == \A n \in Nodes : \A s \in held[n] : s[1].arch = host[n].arch

SpecKept ==
  plan.stage \in {"Selected", "Ready"} => plan.spec \in Specs /\ plan.node \in Nodes

(* A ready plan was valid for a record that an envelope projected to, and  *)
(* for the machine its node is, whatever became of either since.           *)
Validated ==
  plan.stage = "Ready" =>
    /\ plan.backend # ""
    /\ \E env \in Envelopes, a \in Nat :
         /\ plan.facts = env.virt
         /\ plan.backend = ValidateLaunch(plan.spec, Project(env, a))
    /\ plan.spec.arch = host[plan.node].arch

Planned == SameArch /\ SpecKept /\ Validated

LEMMA SameArchStep ==
  ASSUME Truth, SameArch, [Next]_vars
  PROVE  /\ SameArch'
         /\ \A n \in Nodes : host'[n].arch = host[n].arch
  <1>1. CASE UNCHANGED <<clock, host, held>>
    BY <1>1 DEF SameArch
  <1>2. CASE Tick
    BY <1>2 DEF Tick, SameArch
  <1>3. ASSUME NEW m \in Nodes, HostChanges(m)
        PROVE  SameArch' /\ \A n \in Nodes : host'[n].arch = host[n].arch
    <2>1. PICK h \in Hosts : h.arch = host[m].arch /\ host' = [host EXCEPT ![m] = h]
      BY <1>3 DEF HostChanges
    <2>2. held' = [held EXCEPT ![m] = @ \cup {<<host[m], clock>>}]
      BY <1>3 DEF HostChanges
    <2>3. \A n \in Nodes : host'[n].arch = host[n].arch
      BY <2>1 DEF Truth, Shape
    <2>4. \A n \in Nodes : \A s \in held'[n] : s \in held[n] \/ (n = m /\ s = <<host[m], clock>>)
      BY <2>2 DEF Truth, Shape
    <2>5. <<host[m], clock>>[1] = host[m]
      OBVIOUS
    <2> QED BY <2>3, <2>4, <2>5 DEF SameArch
  <1> QED BY <1>1, <1>2, <1>3, RealSteps

(* A record's architecture is the node's, however old the record is.       *)
LEMMA ArchReal ==
  ASSUME Truth, SameArch, NEW n \in Known
  PROVE  nodes[n].arch = host[n].arch
  <1>1. /\ n \in Nodes /\ envelopes[n].node = n /\ True(envelopes[n])
        /\ \E a \in 0 .. clock : ProjectedAt(n, a)
    BY DEF Truth, Stored, Known
  <1>2. nodes[n].arch = envelopes[n].system.arch
    BY <1>1 DEF ProjectedAt, Project
  <1>3. PICK s \in Seen(n) : SystemReport(s[1]) = envelopes[n].system
    BY <1>1 DEF True, SystemReal
  <1>4. envelopes[n].system.arch = s[1].arch
    <2>1. SystemReport(s[1]).arch = s[1].arch
      BY DEF SystemReport
    <2> QED BY <1>3, <2>1
  <1>5. s[1].arch = host[n].arch
    BY <1>1 DEF Seen, SameArch
  <1> QED BY <1>2, <1>4, <1>5

LEMMA PlannedSpecTyped ==
  ASSUME NEW q \in Requests
  PROVE  PlannedSpec(q) \in Specs
  <1>1. /\ [q.template.spec EXCEPT !.mode = "Validate"] \in Specs
        /\ [q.template.spec EXCEPT !.mode = "DryRun"] \in Specs
    BY SpecAssumption
  <1>2. CASE q.mode = "dry_run"
    BY <1>1, <1>2, Zenon DEF PlannedSpec
  <1>3. CASE q.mode # "dry_run"
    BY <1>1, <1>3, Zenon DEF PlannedSpec
  <1> QED BY <1>2, <1>3

LEMMA PlanReady ==
  ASSUME Truth, Requested, SameArch, SpecKept, PlanLaunch
  PROVE  (SpecKept /\ Validated)'
  <1> DEFINE n == plan.node
             b == ValidateLaunch(plan.spec, nodes[n])
  <1>1. /\ plan.stage = "Selected"
        /\ plan' = IF b = "" THEN Answer("ValidationFail", "FixValidation") ELSE Ready(plan, b)
        /\ UNCHANGED truthVars
    BY DEF PlanLaunch
  <1>2. plan.spec \in Specs /\ n \in Nodes /\ n \in Known
    BY <1>1 DEF SpecKept, Requested, Selected
  <1>3. CASE b = ""
    <2>1. plan'.stage = "Answered"
      BY <1>1, <1>3 DEF Answer
    <2> QED BY <2>1 DEF SpecKept, Validated
  <1>4. CASE b # ""
    <2>1. PICK env : env = envelopes[n]
      OBVIOUS
    <2>2. env \in Envelopes /\ \E a \in 0 .. clock : nodes[n] = Project(env, a)
      BY <1>2, <2>1 DEF Truth, Stored, Known, True, ProjectedAt
    <2>3. PICK a \in Nat : nodes[n] = Project(env, a)
      BY <2>2
    <2>4. plan.spec.arch = host[n].arch
      BY <1>2, <1>4, ValidMeans, ArchReal
    <2>5. b = ValidateLaunch(plan.spec, Project(env, a))
      BY <2>3
    <2> HIDE DEF b, n
    <2>6. /\ plan'.stage = "Ready" /\ plan'.node = n /\ plan'.spec = plan.spec
          /\ plan'.backend = b /\ plan'.facts = env.virt
      BY <1>1, <1>4, <2>1 DEF Ready, n
    <2>7. host' = host
      BY <1>1 DEF truthVars
    <2> QED BY <1>2, <1>4, <2>2, <2>4, <2>5, <2>6, <2>7 DEF SpecKept, Validated
  <1> QED BY <1>3, <1>4

LEMMA PlannedStep ==
  ASSUME Truth, Requested, Planned, [Next]_vars
  PROVE  Planned'
  <1>1. SameArch' /\ \A n \in Nodes : host'[n].arch = host[n].arch
    BY SameArchStep DEF Planned
  <1>2. CASE UNCHANGED plan
    BY <1>1, <1>2 DEF Planned, SpecKept, Validated
  <1>3. CASE ControlPlaneRestart
    <2>1. plan' = plan \/ plan' = NoPlan
      BY <1>3 DEF ControlPlaneRestart
    <2>2. plan' = NoPlan => (SpecKept /\ Validated)'
      BY DEF NoPlan, SpecKept, Validated
    <2> QED BY <1>1, <1>2, <2>1, <2>2 DEF Planned
  <1>4. ASSUME NEW q \in Requests, BuildLaunchPlan(q)
        PROVE  (SpecKept /\ Validated)'
    <2>1. CASE PlanConflict(q) \/ PlanRejected(q) \/ PlanContradicted(q)
      <3>1. plan'.stage = "Answered"
        BY <2>1 DEF PlanConflict, PlanRejected, PlanContradicted, Answer
      <3> QED BY <3>1 DEF SpecKept, Validated
    <2>2. CASE PlanSelected(q)
      <3>1. PICK n \in SelectNode(q.intent) :
              plan' = [stage |-> "Selected", req |-> q, node |-> n, spec |-> PlannedSpec(q),
                       at |-> clock]
        BY <2>2 DEF PlanSelected
      <3>2. n \in Nodes
        BY DEF SelectNode, Eligible, Known
      <3>3. plan'.stage = "Selected" /\ plan'.node = n /\ plan'.spec = PlannedSpec(q)
        BY <3>1
      <3> QED BY <3>2, <3>3, PlannedSpecTyped DEF SpecKept, Validated
    <2> QED BY <1>4, <2>1, <2>2 DEF BuildLaunchPlan
  <1>5. CASE PlanLaunch
    BY <1>1, <1>5, PlanReady DEF Planned
  <1>6. CASE PrepareOnNode
    <2>1. plan'.stage = "Prepared"
      BY <1>6 DEF PrepareOnNode
    <2> QED BY <1>1, <2>1 DEF Planned, SpecKept, Validated
  <1>7. CASE Done
    BY <1>1, <1>7 DEF Done, NoPlan, Planned, SpecKept, Validated
  <1> QED BY <1>1, <1>2, <1>3, <1>4, <1>5, <1>6, <1>7 DEF Next, vars, Planned

LEMMA PlannedAlways == Spec => [](Truth /\ Requested /\ Planned)
  <1>1. Init => Planned
    <2> SUFFICES ASSUME Init PROVE Planned
      OBVIOUS
    <2>1. SameArch
      BY DEF Init, TruthInit, SameArch
    <2>2. plan.stage = "None"
      BY DEF Init, NoPlan
    <2> QED BY <2>1, <2>2 DEF Planned, SpecKept, Validated
  <1>2. Truth /\ Requested /\ Planned /\ [Next]_vars => Planned'
    BY PlannedStep
  <1> QED BY <1>1, <1>2, Invariance, PTL DEF Spec

-----------------------------------------------------------------------------
(* The agent of the chosen node, which knows neither the record nor the    *)
(* validation, still picks the backend the plan named, whenever the node   *)
(* is what it was, has the artifacts, and its PATH leads to the planned    *)
(* hypervisor and to none the collector misses (plan_handlers.go:51-88,    *)
(* runtime_select.go:43-229 against prepare.rs:157-299).                   *)
THEOREM AgentFollowsPlanHolds == Spec => AgentFollowsPlan
  <1> DEFINE Follows ==
        ( /\ PrepareOnNode
          /\ Plain(plan.spec) /\ plan.spec.safeId
          /\ plan.facts = VirtualizationReport(host[plan.node])
          /\ OnPath(plan.backend, plan.spec, host[plan.node])
          /\ PathReported(plan.spec, host[plan.node])
          /\ Artifacts(plan.backend, AgentDisks(plan.backend, plan.spec))
               \subseteq host[plan.node].files )
        => plan'.result.backend = plan.backend
  <1>1. ASSUME Planned PROVE Follows
    <2> SUFFICES ASSUME PrepareOnNode, Plain(plan.spec), plan.spec.safeId,
                        plan.facts = VirtualizationReport(host[plan.node]),
                        OnPath(plan.backend, plan.spec, host[plan.node]),
                        PathReported(plan.spec, host[plan.node]),
                        Artifacts(plan.backend, AgentDisks(plan.backend, plan.spec))
                          \subseteq host[plan.node].files
                 PROVE  plan'.result.backend = plan.backend
      OBVIOUS
    <2>1. plan.stage = "Ready"
          /\ plan' = [stage |-> "Prepared", result |-> AgentPrepare(plan.spec, host[plan.node])]
      BY DEF PrepareOnNode
    <2>2. /\ plan.spec \in Specs /\ plan.backend # ""
          /\ plan.spec.arch = host[plan.node].arch
      BY <1>1, <2>1 DEF Planned, SpecKept, Validated
    <2>3. PICK env \in Envelopes, a \in Nat :
            /\ plan.facts = env.virt
            /\ plan.backend = ValidateLaunch(plan.spec, Project(env, a))
      BY <1>1, <2>1 DEF Planned, Validated
    <2>4. AgentPrepare(plan.spec, host[plan.node]).backend = plan.backend
      <3>1. PICK spec \in Specs : spec = plan.spec
        BY <2>2
      <3>2. PICK h, b : h = host[plan.node] /\ b = plan.backend
        OBVIOUS
      <3>3. /\ Plain(spec) /\ spec.safeId /\ spec.arch = h.arch
            /\ b = ValidateLaunch(spec, Project(env, a)) /\ b # ""
            /\ env.virt = VirtualizationReport(h)
            /\ OnPath(b, spec, h) /\ PathReported(spec, h)
            /\ Artifacts(b, AgentDisks(b, spec)) \subseteq h.files
        BY <2>2, <2>3, <3>1, <3>2
      <3>4. AgentPrepare(spec, h).backend = b
        BY <3>3, AgentFollows
      <3> QED BY <3>1, <3>2, <3>4
    <2>5. plan'.result = AgentPrepare(plan.spec, host[plan.node])
      BY <2>1
    <2> QED BY <2>4, <2>5
  <1>2. Planned /\ [Next]_vars => [Follows]_vars
    BY <1>1
  <1> QED BY <1>2, PlannedAlways, PTL DEF Spec, AgentFollowsPlan

(* The agent and the dry run, each with its own way from a spec to its     *)
(* disks, give the backend they both prepare the same ones                 *)
(* (prepare.rs:302-333, 441-455 against storage.go:5-42).                  *)
THEOREM PreparersAgreeHolds == Spec => PreparersAgree
  <1> DEFINE Agree ==
        ( /\ PrepareOnNode
          /\ plan.node \in Known
          /\ Plain(plan.spec)
          /\ plan'.result.backend = DryRunLaunch(plan.spec, nodes[plan.node]).backend )
        => plan'.result = DryRunLaunch(plan.spec, nodes[plan.node])
  <1>1. ASSUME Planned PROVE Agree
    <2> SUFFICES ASSUME PrepareOnNode, Plain(plan.spec),
                        plan'.result.backend = DryRunLaunch(plan.spec, nodes[plan.node]).backend
                 PROVE  plan'.result = DryRunLaunch(plan.spec, nodes[plan.node])
      OBVIOUS
    <2>1. plan.stage = "Ready"
          /\ plan' = [stage |-> "Prepared", result |-> AgentPrepare(plan.spec, host[plan.node])]
      BY DEF PrepareOnNode
    <2>2. plan.spec \in Specs
      BY <1>1, <2>1 DEF Planned, SpecKept
    <2>3. plan'.result = AgentPrepare(plan.spec, host[plan.node])
      BY <2>1
    <2> QED BY <2>2, <2>3, DisksAgree
  <1>2. Planned /\ [Next]_vars => [Agree]_vars
    BY <1>1
  <1> QED BY <1>2, PlannedAlways, PTL DEF Spec, PreparersAgree
=============================================================================
