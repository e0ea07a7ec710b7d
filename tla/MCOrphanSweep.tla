--------------------------- MODULE MCOrphanSweep ---------------------------
EXTENDS OrphanSweep

CONSTANTS w1, qemu, c1

(* The outsider runs what the launch of the managed workload runs. *)
MCCommandOf == [o \in Processes |-> c1]
MCHintOf == [o \in Processes |-> w1]
MCBackendOf == [o \in Processes |-> qemu]
=============================================================================
