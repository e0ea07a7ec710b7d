---------------------------- MODULE MCAdmission ----------------------------
EXTENDS Admission

All == {"kvm", "kvm_opens", "cloud_hypervisor", "kvm_qemu", "firecracker", "tun",
        "cgroups", "seccomp", "namespaces", "tpm"}

HostWith(arch, things, binaries) ==
  [arch |-> arch, has |-> things, path |-> binaries, files |-> {"data", "root", "kernel"},
   version |-> [cloud_hypervisor |-> <<38, 0>>, kvm_qemu |-> <<8, 2, 1>>,
                firecracker |-> <<1, 7, 0>>]]

Binaries == {"cloud-hypervisor", "qemu-system-aarch64", "firecracker"}

(* A host with everything; the same when /dev/kvm no longer opens and the  *)
(* TPM is gone, without /dev/kvm, or with cloud-hypervisor on the PATH but *)
(* in another directory; and another machine, with qemu alone.             *)
Full == HostWith("aarch64", All, Binaries)
Closed == HostWith("aarch64", All \ {"kvm_opens", "tpm"}, Binaries)
Down == HostWith("aarch64", All \ {"kvm", "kvm_opens"}, Binaries)
Elsewhere == HostWith("aarch64", All \ {"cloud_hypervisor"}, Binaries)
Lean == HostWith("x86_64", {"kvm", "kvm_opens", "kvm_qemu", "seccomp"}, {"qemu-system-x86_64"})

MCHosts == {Full, Closed, Elsewhere, Lean}
ReportHosts == {Full, Closed, Down, Lean}
MCInitHost == [n \in Nodes |-> IF n = 1 THEN Full ELSE Lean]
MCSkew == [n \in Nodes |-> IF n = 1 THEN 0 ELSE 1]

Intent(class, age, kvm) ==
  [workload |-> "w", tenant |-> "t", class |-> class, arch |-> "any", maxAge |-> age,
   kvm |-> kvm, tpm |-> FALSE, forbidden |-> {}, classes |-> {"ArmProduction", "X86HoldingPool"},
   preferred |-> IF kvm THEN <<"cloud_hypervisor_binary_present">> ELSE << >>]

SpecOf(class, storage, pref, min) ==
  [class |-> class, arch |-> "aarch64", safeId |-> TRUE, seccomp |-> TRUE,
   storage |-> storage, image |-> "", kernel |-> "", rootfs |-> "",
   pref |-> pref, fallback |-> TRUE, min |-> min, exact |-> << >>, mode |-> ""]

Request(intent, class, spec, mode, target) ==
  [intent |-> intent, mode |-> mode, target |-> target,
   template |-> [workload |-> "w", tenant |-> "t", class |-> class, arch |-> "aarch64",
                 node |-> NoNode, spec |-> spec]]

TwoDisks == << Disk("data", "raw", FALSE, "/data"), Disk("root", "qcow2", FALSE, "/") >>
MicroDisks == << Disk("root", "ext4", FALSE, "/"), Disk("kernel", "raw", TRUE, "/boot/vmlinux") >>

VM == "VirtualMachine"

MCRequests ==
  { Request(Intent(VM, 1, TRUE), VM, SpecOf(VM, TwoDisks, "", << >>), "dry_run", 1),
    Request(Intent("MicroVM", 1, FALSE), "MicroVM",
            SpecOf("MicroVM", MicroDisks, "", <<1, 5>>), "dry_run", NoNode),
    Request(Intent(VM, 2, FALSE), VM, SpecOf(VM, TwoDisks, "kvm_qemu", <<8, 2>>), "validate", NoNode),
    Request(Intent("Container", 1, FALSE), VM, SpecOf(VM, TwoDisks, "", << >>), "validate", NoNode) }
=============================================================================
