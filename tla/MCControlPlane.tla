-------------------------- MODULE MCControlPlane --------------------------
EXTENDS ControlPlaneRefines, TLC

OneWorkload == [e \in Execs |-> CHOOSE w \in Workloads : TRUE]

Symmetric == Permutations(Handlers) \cup Permutations(Pids)
=============================================================================
