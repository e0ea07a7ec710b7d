-------------------------- MODULE ManagedExecution --------------------------
(***************************************************************************)
(* What the control plane promises about executions and their processes,   *)
(* without the threads, the records and the writes that keep the promise:  *)
(* an execution's launch spawns at most one process; the row saved of it   *)
(* names no process or the one its launch spawned, and after a crash never *)
(* another PID than before; a row is closed with a PID only when that      *)
(* process is dead; a dead child keeps its PID until its parent is gone.   *)
(*                                                                         *)
(* ControlPlane implements this specification (ControlPlaneRefines), and   *)
(* OrphanSweep is modelled next to it.                                     *)
(***************************************************************************)
CONSTANTS
  Execs,      \* execution ids
  Pids,       \* process ids of the host
  Outsiders,  \* unmanaged processes
  NoPid,      \* the nil PID pointer of a row
  NoRow,      \* an execution without a row
  NoOne       \* owner of a free pid

VARIABLES
  row,    \* the row saved of each execution: its PID and whether it is closed
  stage,  \* where the launch of each execution is
  owner,  \* whose process holds each pid
  pst,    \* state of each pid in the process table
  mode    \* the control plane's process

managed == <<row, stage, owner, pst, mode>>

Stages == {"new", "active", "over", "past"}

(* "open" is any state that is not terminal; "failed" claims nothing of the *)
(* process.                                                                 *)
Rows == [pid : Pids \cup {NoPid}, status : {"open", "failed", "closed"}]

ManagedTypeOK ==
  /\ row \in [Execs -> Rows \cup {NoRow}]
  /\ stage \in [Execs -> Stages]
  /\ owner \in [Pids -> Execs \cup Outsiders \cup {NoOne}]
  /\ pst \in [Pids -> {"free", "child", "adopted", "zombie"}]
  /\ mode \in {"up", "down", "boot"}

ManagedInit ==
  /\ row = [e \in Execs |-> NoRow]
  /\ stage = [e \in Execs |-> "new"]
  /\ owner = [p \in Pids |-> NoOne]
  /\ pst = [p \in Pids |-> "free"]
  /\ mode = "up"

-----------------------------------------------------------------------------
Alive(p) == pst[p] \in {"child", "adopted"}

Living(e) == \E p \in Pids : owner[p] = e /\ Alive(p)

BeginLaunch(e) ==
  /\ mode = "up"
  /\ stage[e] = "new"
  /\ stage' = [stage EXCEPT ![e] = "active"]
  /\ UNCHANGED <<row, owner, pst, mode>>

(* The launch ends without a process: a failure, or a dry run. *)
EndLaunch(e) ==
  /\ mode # "down"
  /\ stage[e] = "active"
  /\ stage' = [stage EXCEPT ![e] = "over"]
  /\ UNCHANGED <<row, owner, pst, mode>>

SpawnRuntime(e, p) ==
  /\ mode # "down"
  /\ stage[e] = "active"
  /\ pst[p] = "free"
  /\ stage' = [stage EXCEPT ![e] = "over"]
  /\ owner' = [owner EXCEPT ![p] = e]
  /\ pst' = [pst EXCEPT ![p] = "child"]
  /\ UNCHANGED <<row, mode>>

(* The row somebody saves.  While the launch belongs to the running control *)
(* plane a stale copy may take the PID away again; later nothing can.       *)
Saveable(e, r) ==
  /\ stage[e] # "new"
  /\ stage[e] = "past" => row[e] # NoRow /\ r.pid = row[e].pid
  /\ stage[e] # "past" /\ r.pid # NoPid => owner[r.pid] = e
  /\ r.status = "closed" /\ r.pid # NoPid => ~Living(e)

SaveRow(e, r) ==
  /\ mode # "down"
  /\ Saveable(e, r)
  /\ row' = [row EXCEPT ![e] = r]
  /\ UNCHANGED <<stage, owner, pst, mode>>

(* A process exits or is killed.  init reaps what it has adopted; nobody   *)
(* reaps a child of the control plane.                                     *)
Die(p) ==
  /\ Alive(p)
  /\ pst' = [pst EXCEPT ![p] = IF @ = "adopted" THEN "free" ELSE "zombie"]
  /\ owner' = [owner EXCEPT ![p] = IF pst[p] = "adopted" THEN NoOne ELSE @]
  /\ UNCHANGED <<row, stage, mode>>

OutsiderStarts(o, p) ==
  /\ pst[p] = "free"
  /\ pst' = [pst EXCEPT ![p] = "adopted"]
  /\ owner' = [owner EXCEPT ![p] = o]
  /\ UNCHANGED <<row, stage, mode>>

ManagerCrash ==
  /\ mode # "down"
  /\ mode' = "down"
  /\ stage' = [e \in Execs |-> IF stage[e] = "new" THEN "new" ELSE "past"]
  /\ pst' = [p \in Pids |-> CASE pst[p] = "child" -> "adopted"
                              [] pst[p] = "zombie" -> "free"
                              [] OTHER -> pst[p]]
  /\ owner' = [p \in Pids |-> IF pst[p] = "zombie" THEN NoOne ELSE owner[p]]
  /\ UNCHANGED row

ManagerRestart ==
  /\ mode = "down"
  /\ mode' = "boot"
  /\ UNCHANGED <<row, stage, owner, pst>>

(* The bootstrap is over: the control plane serves, and sweeps. *)
ManagerServes ==
  /\ mode = "boot"
  /\ mode' = "up"
  /\ UNCHANGED <<row, stage, owner, pst>>

(* Everything but a crash. *)
ManagedStep ==
  \/ \E e \in Execs :
       \/ BeginLaunch(e) \/ EndLaunch(e)
       \/ \E p \in Pids : SpawnRuntime(e, p)
       \/ \E r \in Rows : SaveRow(e, r)
  \/ \E p \in Pids : Die(p) \/ \E o \in Outsiders : OutsiderStarts(o, p)
  \/ ManagerRestart \/ ManagerServes

ManagedNext == ManagedStep \/ ManagerCrash

ManagedSpec == ManagedInit /\ [][ManagedNext]_managed
=============================================================================
