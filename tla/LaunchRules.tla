---------------------------- MODULE LaunchRules ----------------------------
(***************************************************************************)
(* What a launch needs of a node, three times over: the control plane's    *)
(* validation and choice of a backend, its executors' Prepare, and the     *)
(* node agent's own prepare command.  Pure operators, no state.            *)
(*                                                                         *)
(* A version is the sequence of the numbers of its first dotted group, an  *)
(* absent one the empty sequence; "" is an absent string, as in Go, where  *)
(* every optional field of a spec is omitted from the JSON when empty.     *)
(*                                                                         *)
(* spec: [class, arch, safeId, seccomp, storage, image, kernel, rootfs,    *)
(*        pref, fallback, min, exact, mode]                                *)
(* record: a node's record of NodeTruth.                                   *)
(* host: [arch, has, path, version, files], the host an agent runs on.     *)
(***************************************************************************)
EXTENDS Integers, Sequences, FiniteSetsExt

-----------------------------------------------------------------------------
(* Versions. *)

Parses(raw) == Len(raw) >= 2

ParseVersion(raw) ==
  [major |-> raw[1], minor |-> raw[2], patch |-> IF Len(raw) > 2 THEN raw[3] ELSE 0]

CompareVersions(a, b) ==
  LET Sign(x, y) == IF x < y THEN -1 ELSE 1
  IN  IF a.major # b.major THEN Sign(a.major, b.major)
      ELSE IF a.minor # b.minor THEN Sign(a.minor, b.minor)
      ELSE IF a.patch # b.patch THEN Sign(a.patch, b.patch)
      ELSE 0

MeetsRequirement(observed, spec) ==
  \/ spec.min = << >> /\ spec.exact = << >>
  \/ /\ Parses(observed)
     /\ spec.exact # << >> =>
          /\ Parses(spec.exact)
          /\ CompareVersions(ParseVersion(observed), ParseVersion(spec.exact)) = 0
     /\ spec.min # << >> =>
          /\ Parses(spec.min)
          /\ CompareVersions(ParseVersion(observed), ParseVersion(spec.min)) >= 0

-----------------------------------------------------------------------------
(* The control plane: which backend a node's record allows. *)

Disk(path, format, ro, mount) ==
  [path |-> path, format |-> format, ro |-> ro, mount |-> mount]

Disks == [path : STRING, format : STRING, ro : BOOLEAN, mount : STRING]

(* The specs the API takes: class, architecture and mode are among those   *)
(* its bindings name, the rest is of its type; what the elements of a list *)
(* bind is not looked at.                                                  *)
Specs ==
  [class : {"VirtualMachine", "MicroVM"}, arch : {"aarch64", "x86_64"},
   safeId : BOOLEAN, seccomp : BOOLEAN, storage : Seq(Disks),
   image : STRING, kernel : STRING, rootfs : STRING,
   pref : STRING, fallback : BOOLEAN, min : Seq(Nat), exact : Seq(Nat),
   mode : {"Validate", "DryRun", "Execute"}]

NormalizedStorage(spec) ==
  CASE spec.storage # << >> -> spec.storage
    [] spec.storage = << >> /\ spec.class = "MicroVM"
                            /\ spec.kernel # "" /\ spec.rootfs # "" ->
         << Disk(spec.rootfs, "ext4", FALSE, "/"),
            Disk(spec.kernel, "raw", TRUE, "/boot/vmlinux") >>
    [] spec.storage = << >> /\ spec.class # "MicroVM" /\ spec.image # "" ->
         << Disk(spec.image, "qcow2", FALSE, "") >>
    [] OTHER -> << >>

VmBackends == <<"cloud_hypervisor", "kvm_qemu">>

(* The virtual machine backends in the order a spec asks for. *)
Preferred(spec) ==
  LET other == [cloud_hypervisor |-> "kvm_qemu", kvm_qemu |-> "cloud_hypervisor"]
      known == spec.pref \in DOMAIN other
  IN  CASE spec.pref = ""            -> VmBackends
        [] known /\ spec.fallback    -> <<spec.pref, other[spec.pref]>>
        [] known /\ ~ spec.fallback  -> <<spec.pref>>
        [] OTHER                     -> << >>

Candidates(spec) ==
  CASE spec.class = "MicroVM"        -> <<"firecracker">>
    [] spec.class = "VirtualMachine" -> Preferred(spec)
    [] OTHER                         -> << >>

BinaryCap == [cloud_hypervisor |-> "cloud_hypervisor_binary_present",
              kvm_qemu         |-> "qemu_binary_present",
              firecracker      |-> "firecracker_binary_present"]

Needs(b) ==
  {"kvm_vm_launch", BinaryCap[b]} \cup
    (IF b = "firecracker" THEN {"firecracker_tun_ready", "firecracker_cgroups_ready"}
                          ELSE {})

Trusted(record, feature) ==
  /\ feature \in DOMAIN record.caps
  /\ record.caps[feature] = "Supported"
  /\ feature \notin record.staleCaps

Accepts(b, spec, record) ==
  /\ \A f \in Needs(b) : Trusted(record, f)
  /\ MeetsRequirement(record.version[b], spec)
  /\ NormalizedStorage(spec) # << >>
  /\ b = "firecracker" =>
       \A i \in DOMAIN NormalizedStorage(spec) :
          NormalizedStorage(spec)[i].format # "qcow2"

(* The first of the candidates that fits, "" if none does. *)
FirstFit(candidates, Fits(_)) ==
  LET hits == {i \in DOMAIN candidates : Fits(candidates[i])}
  IN  IF hits = {} THEN "" ELSE candidates[Min(hits)]

SelectBackend(spec, record) ==
  FirstFit(Candidates(spec), LAMBDA b : Accepts(b, spec, record))

(* The backend ValidateLaunch recommends, "" if the spec is not valid. *)
ValidateLaunch(spec, record) ==
  LET generic == /\ spec.arch = record.arch
                 /\ spec.seccomp => Trusted(record, "kernel_seccomp_supported")
      backend == SelectBackend(spec, record)
  IN  IF generic /\ ~ (backend = "firecracker" /\ spec.mode = "Execute")
        THEN backend ELSE ""

-----------------------------------------------------------------------------
(* Prepare, in the control plane's executors: files are the paths that     *)
(* exist where the control plane runs.                                     *)

Unprepared == [backend |-> "", disks |-> << >>]

Matching(storage, P(_)) == {i \in DOMAIN storage : P(storage[i])}

(* A disk as it is handed over: its path, and its format, raw if not said. *)
Resolved(disk) == <<disk.path, IF disk.format = "" THEN "raw" ELSE disk.format>>

PrimaryDisk(spec) ==
  LET root == Matching(spec.storage, LAMBDA d : d.mount \in {"/", ""})
  IN  CASE root # {}                               -> Resolved(spec.storage[Min(root)])
        [] root = {} /\ spec.storage # << >>       -> Resolved(spec.storage[1])
        [] spec.storage = << >>                    -> <<spec.image, "qcow2">>

FirecrackerDisks(spec) ==
  LET roots   == Matching(spec.storage, LAMBDA d : d.mount = "/")
      kernels == Matching(spec.storage,
                   LAMBDA d : /\ d.mount # "/"
                              /\ d.mount = "/boot/vmlinux" \/ (d.format = "raw" /\ d.ro))
      Last(hits) == IF hits = {} THEN "" ELSE spec.storage[Max(hits)].path
  IN  IF Last(kernels) # "" /\ Last(roots) # ""
        THEN <<Last(kernels), Last(roots)>>
        ELSE <<spec.kernel, spec.rootfs>>

QemuPrepare(spec, files) ==
  LET disk == PrimaryDisk(spec)
  IN  IF disk[1] # "" /\ disk[1] \in files /\ spec.safeId
        THEN [backend |-> "kvm_qemu", disks |-> disk]
        ELSE Unprepared

CloudHypervisorPrepare(spec, files) ==
  LET disk == PrimaryDisk(spec)
  IN  IF disk[1] # "" /\ disk[1] \in files /\ spec.safeId
        THEN [backend |-> "cloud_hypervisor", disks |-> <<disk[1]>>]
        ELSE Unprepared

FirecrackerPrepare(spec) ==
  LET disks == FirecrackerDisks(spec)
  IN  IF disks[1] # "" /\ disks[2] # "" /\ spec.safeId
        THEN [backend |-> "firecracker", disks |-> disks]
        ELSE Unprepared

Prepare(b, spec, files) ==
  CASE b = "kvm_qemu"         -> QemuPrepare(spec, files)
    [] b = "cloud_hypervisor" -> CloudHypervisorPrepare(spec, files)
    [] b = "firecracker"      -> FirecrackerPrepare(spec)
    [] OTHER                  -> Unprepared

-----------------------------------------------------------------------------
(* Prepare, in the node agent: no version, capability or record, but the   *)
(* binaries on the PATH and the artifacts of the node itself.              *)

(* A mutant: the first disk of the list is the primary one. *)
AgentFirstDisk(spec) ==
  IF spec.storage # << >> THEN Resolved(spec.storage[1]) ELSE <<spec.image, "qcow2">>

AgentPrimaryDisk(spec) ==
  LET root == Matching(spec.storage, LAMBDA d : d.mount \in {"/", ""})
      disk == spec.storage[IF root # {} THEN Min(root) ELSE 1]
  IN  IF spec.storage # << >> THEN Resolved(disk) ELSE <<spec.image, "qcow2">>

AgentFirecrackerDisks(spec) ==
  LET roots   == Matching(spec.storage, LAMBDA d : d.mount = "/" \/ d.format = "ext4")
      kernels == Matching(spec.storage,
                   LAMBDA d : /\ ~ (d.mount = "/" \/ d.format = "ext4")
                              /\ d.format = "raw" /\ d.ro)
      Path(legacy, hits) == IF legacy # "" \/ hits = {} THEN legacy
                            ELSE spec.storage[Min(hits)].path
  IN  <<Path(spec.kernel, kernels), Path(spec.rootfs, roots)>>

(* The agent walks its PATH; the collector that reported the binaries      *)
(* looked into /usr/bin and /usr/local/bin.                                *)
Binary(b, spec) ==
  [cloud_hypervisor |-> "cloud-hypervisor",
   kvm_qemu         |-> IF spec.arch = "aarch64" THEN "qemu-system-aarch64"
                                                 ELSE "qemu-system-x86_64",
   firecracker      |-> "firecracker"][b]

OnPath(b, spec, host) == Binary(b, spec) \in host.path

AgentDisks(b, spec) ==
  CASE b = "firecracker"      -> AgentFirecrackerDisks(spec)
    [] b = "kvm_qemu"         -> AgentPrimaryDisk(spec)
    [] b = "cloud_hypervisor" -> <<AgentPrimaryDisk(spec)[1]>>

(* What must exist: both disks of a microVM, the primary disk of a VM. *)
Artifacts(b, disks) == IF b = "firecracker" THEN {disks[1], disks[2]} ELSE {disks[1]}

AgentCanPrepare(b, spec, host) ==
  OnPath(b, spec, host) /\ Artifacts(b, AgentDisks(b, spec)) \subseteq host.files

(* A mutant: qemu comes first. *)
AgentQemuFirst(spec) ==
  IF spec.class = "MicroVM" THEN <<"firecracker">>
  ELSE IF spec.pref = "" THEN <<"kvm_qemu", "cloud_hypervisor">> ELSE Preferred(spec)

(* Any class but MicroVM is taken for a virtual machine. *)
AgentCandidates(spec) ==
  IF spec.class = "MicroVM" THEN <<"firecracker">> ELSE Preferred(spec)

AgentPrepare(spec, host) ==
  LET b == FirstFit(AgentCandidates(spec), LAMBDA c : AgentCanPrepare(c, spec, host))
  IN  IF b = "" \/ ~ spec.safeId THEN Unprepared
      ELSE [backend |-> b, disks |-> AgentDisks(b, spec)]
=============================================================================
