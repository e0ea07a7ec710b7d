------------------------- MODULE OrphanSweepProofs -------------------------
(***************************************************************************)
(* Proofs about OrphanSweep, for any executions, outsiders, pids, command  *)
(* lines, hints and backends, and any bounds.                              *)
(***************************************************************************)
EXTENDS OrphanSweep, TLAPS

-----------------------------------------------------------------------------
(* Type correctness.  An enumerated process is somebody's only because a   *)
(* live entry of the process table has an owner.                           *)

OwnedAlive == \A p \in Pids : Alive(p) => owner[p] \in Processes

TypeInv == SweepTypeOK /\ OwnedAlive

LEMMA SightingType ==
  ASSUME NEW q \in Unmatched, NEW old \in OrphanRecord \cup {NoOrphan}, now \in 0..MaxClock
  PROVE  Sighting(q, old) \in OrphanRecord
BY DEF Sighting, OrphanRecord, Unmatched

LEMMA MergedType ==
  ASSUME NEW rec \in OrphanRecord, NEW old \in OrphanRecord \cup {NoOrphan}
  PROVE  /\ Merged(old, rec) \in OrphanRecord
         /\ Merged(old, rec).status = rec.status
         /\ Merged(old, rec).class = rec.class
         /\ old # NoOrphan => Merged(old, rec).first = old.first
BY DEF Merged, OrphanRecord

LEMMA ClassType ==
  ASSUME NEW q
  PROVE  ClassifyOrphan(q) \in Classes
BY DEF ClassifyOrphan, Classes

LEMMA CommandType ==
  ASSUME NEW q \in Unmatched
  PROVE  CommandOf[q.who] \in Commands
BY ProcessAssumption DEF Unmatched

(* Steps that leave the managed executions alone. *)
SweepTypes ==
  /\ spc \in {"idle", "enumerate", "report", "upsert"}
  /\ unread \in SUBSET Pids
  /\ procs \in SUBSET Enumerated
  /\ strays \in SUBSET Unmatched
  /\ left \in SUBSET strays
  /\ verdict \in Verdicts \cup {NoOrphan}
  /\ observed \in SUBSET Commands
  /\ orphans \in [Commands -> OrphanRecord \cup {NoOrphan}]
  /\ announced \in [Commands -> SUBSET Classes]
  /\ now \in 0..MaxClock
  /\ crashes \in 0..MaxCrashes
  /\ failures \in 0..MaxDbFailures

LEMMA TypeParts == TypeInv <=> ManagedTypeOK /\ SweepTypes /\ OwnedAlive
BY DEF TypeInv, SweepTypeOK, SweepTypes

LEMMA ManagedSame ==
  ASSUME TypeInv, UNCHANGED managed, SweepTypes'
  PROVE  TypeInv'
BY TypeParts DEF managed, ManagedTypeOK, OwnedAlive, Alive, TypeInv, SweepTypeOK, SweepTypes

LEMMA FailuresType ==
  ASSUME TypeInv, DbFails \/ DbSucceeds
  PROVE  (failures \in 0..MaxDbFailures)'
BY BoundAssumption DEF TypeInv, SweepTypeOK, DbFails, DbSucceeds

(* What the sweep is about to upsert. *)
VerdictReady ==
  spc = "upsert" => verdict \in Verdicts /\ verdict.rec.status = "Active"

SInv == TypeInv /\ VerdictReady

(* A launch, a save, an exit, a crash or a restart. *)
LEMMA ManagedKeepsType ==
  ASSUME ManagedTypeOK, OwnedAlive, ManagedNext
  PROVE  (ManagedTypeOK /\ OwnedAlive)'
<1>1. ASSUME NEW e \in Execs, BeginLaunch(e) \/ EndLaunch(e)
      PROVE  (ManagedTypeOK /\ OwnedAlive)'
  BY <1>1 DEF BeginLaunch, EndLaunch, ManagedTypeOK, OwnedAlive, Alive, Stages
<1>2. ASSUME NEW e \in Execs, NEW p \in Pids, SpawnRuntime(e, p)
      PROVE  (ManagedTypeOK /\ OwnedAlive)'
  <2>1. \A x \in Pids : /\ owner'[x] = IF x = p THEN e ELSE owner[x]
                        /\ pst'[x] = IF x = p THEN "child" ELSE pst[x]
    BY <1>2 DEF SpawnRuntime, ManagedTypeOK
  <2> QED BY <1>2, <2>1 DEF SpawnRuntime, ManagedTypeOK, OwnedAlive, Alive, Stages, Processes
<1>3. ASSUME NEW e \in Execs, NEW r \in Rows, SaveRow(e, r)
      PROVE  (ManagedTypeOK /\ OwnedAlive)'
  BY <1>3 DEF SaveRow, ManagedTypeOK, OwnedAlive, Alive
<1>4. ASSUME NEW p \in Pids, Die(p)
      PROVE  (ManagedTypeOK /\ OwnedAlive)'
  <2>1. \A x \in Pids : /\ x # p => owner'[x] = owner[x] /\ pst'[x] = pst[x]
                        /\ x = p => /\ owner'[x] \in {owner[x], NoOne}
                                    /\ pst'[x] \in {"free", "zombie"}
    BY <1>4 DEF Die, ManagedTypeOK
  <2>2. (owner \in [Pids -> Execs \cup Outsiders \cup {NoOne}])'
    BY <1>4, <2>1 DEF Die, ManagedTypeOK
  <2>3. (pst \in [Pids -> {"free", "child", "adopted", "zombie"}])'
    BY <1>4, <2>1 DEF Die, ManagedTypeOK
  <2> QED BY <1>4, <2>1, <2>2, <2>3 DEF Die, ManagedTypeOK, OwnedAlive, Alive
<1>5. ASSUME NEW p \in Pids, NEW o \in Outsiders, OutsiderStarts(o, p)
      PROVE  (ManagedTypeOK /\ OwnedAlive)'
  <2>1. \A x \in Pids : /\ owner'[x] = IF x = p THEN o ELSE owner[x]
                        /\ pst'[x] = IF x = p THEN "adopted" ELSE pst[x]
    BY <1>5 DEF OutsiderStarts, ManagedTypeOK
  <2> QED BY <1>5, <2>1 DEF OutsiderStarts, ManagedTypeOK, OwnedAlive, Alive, Processes
<1>6. CASE ManagerCrash
  <2>1. \A x \in Pids :
          /\ owner'[x] = IF pst[x] = "zombie" THEN NoOne ELSE owner[x]
          /\ pst[x] \in {"free", "child", "adopted", "zombie"}
          /\ pst[x] = "child" => pst'[x] = "adopted"
          /\ pst[x] = "zombie" => pst'[x] = "free"
          /\ pst[x] \in {"free", "adopted"} => pst'[x] = pst[x]
    BY <1>6 DEF ManagerCrash, ManagedTypeOK
  <2>2. (owner \in [Pids -> Execs \cup Outsiders \cup {NoOne}])'
    BY <1>6, <2>1 DEF ManagerCrash, ManagedTypeOK
  <2>3. (pst \in [Pids -> {"free", "child", "adopted", "zombie"}])'
    BY <1>6, <2>1 DEF ManagerCrash, ManagedTypeOK
  <2>4. (stage \in [Execs -> Stages])'
    BY <1>6 DEF ManagerCrash, ManagedTypeOK, Stages
  <2> QED BY <1>6, <2>1, <2>2, <2>3, <2>4 DEF ManagerCrash, ManagedTypeOK, OwnedAlive, Alive
<1>7. CASE ManagerRestart \/ ManagerServes
  BY <1>7 DEF ManagerRestart, ManagerServes, ManagedTypeOK, OwnedAlive, Alive
<1> QED BY <1>1, <1>2, <1>3, <1>4, <1>5, <1>6, <1>7 DEF ManagedNext, ManagedStep

LEMMA AtRestType ==
  ASSUME AtRest
  PROVE  /\ (/\ spc \in {"idle", "enumerate", "report", "upsert"} /\ unread \in SUBSET Pids
             /\ procs \in SUBSET Enumerated /\ strays \in SUBSET Unmatched
             /\ left \in SUBSET strays /\ verdict \in Verdicts \cup {NoOrphan}
             /\ observed \in SUBSET Commands)'
         /\ VerdictReady'
BY DEF AtRest, VerdictReady

(* The upsert of a verdict, row by row. *)
LEMMA UpsertShape ==
  ASSUME SInv, UpsertOrphan, UNCHANGED failures
  PROVE  /\ verdict.id \in Commands /\ verdict.rec \in OrphanRecord
         /\ observed' = observed \cup {verdict.id}
         /\ \A c \in Commands :
              orphans'[c] = IF c = verdict.id THEN Merged(orphans[c], verdict.rec)
                            ELSE orphans[c]
         /\ (orphans \in [Commands -> OrphanRecord \cup {NoOrphan}])'
<1>1. verdict.id \in Commands /\ verdict.rec \in OrphanRecord
  BY DEF SInv, VerdictReady, UpsertOrphan, Verdicts
<1>2. /\ observed' = observed \cup {verdict.id}
      /\ orphans' = [orphans EXCEPT ![verdict.id] = Merged(orphans[verdict.id], verdict.rec)]
      /\ orphans \in [Commands -> OrphanRecord \cup {NoOrphan}]
      /\ failures \in Nat
  BY BoundAssumption DEF UpsertOrphan, DbFails, SInv, TypeInv, SweepTypeOK
<1>3. Merged(orphans[verdict.id], verdict.rec) \in OrphanRecord
  BY <1>1, <1>2, MergedType
<1> QED BY <1>1, <1>2, <1>3

(* The end of a sweep, row by row. *)
LEMMA MissingShape ==
  ASSUME SInv, MarkMissing
  PROVE  /\ \A c \in Commands :
              \/ orphans'[c] = orphans[c]
              \/ /\ Missing(c)
                 /\ orphans'[c] = [orphans[c] EXCEPT !.status = "Disappeared"]
                 /\ orphans'[c] \in OrphanRecord
                 /\ orphans'[c].first = orphans[c].first
                 /\ orphans'[c].class = orphans[c].class
         /\ (orphans \in [Commands -> OrphanRecord \cup {NoOrphan}])'
<1>1. orphans \in [Commands -> OrphanRecord \cup {NoOrphan}]
  BY DEF SInv, TypeInv, SweepTypeOK
<1>2. ASSUME NEW c \in Commands, Missing(c)
      PROVE  /\ [orphans[c] EXCEPT !.status = "Disappeared"] \in OrphanRecord
             /\ [orphans[c] EXCEPT !.status = "Disappeared"].first = orphans[c].first
             /\ [orphans[c] EXCEPT !.status = "Disappeared"].class = orphans[c].class
  BY <1>1, <1>2 DEF Missing, OrphanRecord
<1>3. CASE UNCHANGED orphans
  BY <1>1, <1>3
<1>4. CASE orphans' = [c \in Commands |->
              IF Missing(c) THEN [orphans[c] EXCEPT !.status = "Disappeared"] ELSE orphans[c]]
  BY <1>1, <1>2, <1>4
<1> QED BY <1>3, <1>4 DEF MarkMissing

LEMMA ReportShape ==
  ASSUME SInv, NEW q \in left, Report(q)
  PROVE  /\ q \in Unmatched /\ CommandOf[q.who] \in Commands
         /\ \E old \in OrphanRecord \cup {NoOrphan} :
              /\ verdict' = [id |-> CommandOf[q.who], rec |-> Sighting(q, old)]
              /\ Sighting(q, old) \in OrphanRecord
         /\ \/ announced' = announced
            \/ announced' = [announced EXCEPT ![CommandOf[q.who]] = @ \cup {q.class}]
<1>1. q \in Unmatched /\ now \in 0..MaxClock
      /\ orphans \in [Commands -> OrphanRecord \cup {NoOrphan}]
  BY DEF SInv, TypeInv, SweepTypeOK
<1>2. CommandOf[q.who] \in Commands
  BY <1>1, CommandType
<1>3. \E old \in OrphanRecord \cup {NoOrphan} :
        verdict' = [id |-> CommandOf[q.who], rec |-> Sighting(q, old)]
  BY <1>1, <1>2 DEF Report
<1>4. \/ announced' = announced
      \/ announced' = [announced EXCEPT ![CommandOf[q.who]] = @ \cup {q.class}]
  BY DEF Report
<1> QED BY <1>1, <1>2, <1>3, <1>4, SightingType

LEMMA SweepKeepsType ==
  ASSUME SInv, Sweep
  PROVE  SInv'
<1>0. TypeInv /\ SweepTypes
  BY TypeParts DEF SInv
<1>1. CASE BeginSweep
  <2>1. SweepTypes' /\ UNCHANGED managed
    BY <1>0, <1>1 DEF BeginSweep, SweepTypes, tables
  <2>2. VerdictReady'
    BY <1>1 DEF BeginSweep, VerdictReady
  <2> QED BY <1>0, <2>1, <2>2, ManagedSame DEF SInv
<1>2. ASSUME NEW p \in Pids, Examine(p) PROVE SInv'
  <2>1. (procs \in SUBSET Enumerated)'
    BY <1>0, <1>2 DEF Examine, TypeInv, SweepTypes, OwnedAlive, Enumerated
  <2>2. SweepTypes' /\ UNCHANGED managed
    BY <1>0, <1>2, <2>1 DEF Examine, SweepTypes, tables
  <2>3. VerdictReady'
    BY <1>2 DEF SInv, Examine, VerdictReady
  <2> QED BY <1>0, <2>2, <2>3, ManagedSame DEF SInv
<1>3. CASE ListExecutions
  <2>1. UNCHANGED <<managed, tables, now, crashes>> /\ (DbFails \/ DbSucceeds)
    BY <1>3 DEF ListExecutions
  <2>2. (failures \in 0..MaxDbFailures)'
    BY <1>0, <2>1, FailuresType
  <2>3. CASE AtRest
    <3>1. SweepTypes'
      BY <1>0, <2>1, <2>2, <2>3, AtRestType DEF SweepTypes, tables
    <3> QED BY <1>0, <2>1, <2>3, <3>1, AtRestType, ManagedSame DEF SInv
  <2>4. CASE ~AtRest
    <3>1. /\ spc' = "report" /\ left' = strays' /\ procs' = {}
          /\ strays' = {[pid |-> q.pid, who |-> q.who, class |-> ClassifyOrphan(q)] :
                          q \in {x \in procs : ~IsMatched(x)}}
          /\ UNCHANGED <<unread, verdict, observed>>
      BY <1>3, <2>4 DEF ListExecutions
    <3>2. \A q \in procs : [pid |-> q.pid, who |-> q.who, class |-> ClassifyOrphan(q)] \in Unmatched
      BY <1>0, ClassType DEF SweepTypes, Enumerated, Unmatched
    <3>3. strays' \subseteq Unmatched
      BY <3>1, <3>2
    <3>4. SweepTypes'
      BY <1>0, <2>1, <2>2, <3>1, <3>3 DEF SweepTypes, tables
    <3>5. VerdictReady'
      BY <3>1 DEF VerdictReady
    <3> QED BY <1>0, <2>1, <3>4, <3>5, ManagedSame DEF SInv
  <2> QED BY <2>3, <2>4
<1>4. ASSUME NEW q \in left, Report(q) PROVE SInv'
  <2>1. /\ spc' = "upsert" /\ left' = left \ {q}
        /\ UNCHANGED <<managed, unread, procs, strays, observed, orphans, now, crashes>>
        /\ DbFails \/ DbSucceeds
    BY <1>4 DEF Report
  <2>2. verdict' \in Verdicts /\ verdict'.rec.status = "Active"
    <3>1. PICK old \in OrphanRecord \cup {NoOrphan} :
            /\ verdict' = [id |-> CommandOf[q.who], rec |-> Sighting(q, old)]
            /\ Sighting(q, old) \in OrphanRecord
      BY <1>4, ReportShape
    <3>2. CommandOf[q.who] \in Commands /\ Sighting(q, old).status = "Active"
      BY <1>4, ReportShape DEF Sighting
    <3> QED BY <3>1, <3>2 DEF Verdicts
  <2>3. (announced \in [Commands -> SUBSET Classes])'
    BY <1>0, <1>4, ReportShape DEF SweepTypes, Unmatched
  <2>4. SweepTypes'
    BY <1>0, <2>1, <2>2, <2>3, FailuresType DEF SweepTypes
  <2> QED BY <1>0, <2>1, <2>2, <2>4, ManagedSame DEF SInv, VerdictReady
<1>5. CASE UpsertOrphan
  <2>1. /\ spc' = "report" /\ verdict' = NoOrphan
        /\ UNCHANGED <<managed, unread, procs, strays, left, announced, now, crashes>>
        /\ DbFails \/ DbSucceeds
        /\ UNCHANGED <<orphans, observed>> \/ UNCHANGED failures
    BY <1>5 DEF UpsertOrphan, DbSucceeds
  <2>2. (orphans \in [Commands -> OrphanRecord \cup {NoOrphan}])' /\ (observed \in SUBSET Commands)'
    BY <1>0, <1>5, <2>1, UpsertShape DEF SweepTypes
  <2>3. SweepTypes'
    BY <1>0, <2>1, <2>2, FailuresType DEF SweepTypes
  <2> QED BY <1>0, <2>1, <2>3, ManagedSame DEF SInv, VerdictReady
<1>6. CASE MarkMissing
  <2>1. AtRest /\ UNCHANGED <<managed, announced, now, crashes>> /\ (DbFails \/ DbSucceeds)
    BY <1>6 DEF MarkMissing
  <2>2. SweepTypes'
    BY <1>0, <1>6, <2>1, MissingShape, FailuresType, AtRestType DEF SweepTypes
  <2> QED BY <1>0, <2>1, <2>2, AtRestType, ManagedSame DEF SInv
<1> QED BY <1>1, <1>2, <1>3, <1>4, <1>5, <1>6 DEF Sweep

LEMMA InitSInv == Init => SInv
<1> SUFFICES ASSUME Init PROVE SInv
  OBVIOUS
<1>1. ManagedTypeOK /\ OwnedAlive
  BY DEF Init, ManagedInit, ManagedTypeOK, OwnedAlive, Alive, Stages
<1>2. SweepTypes /\ VerdictReady
  BY BoundAssumption DEF Init, SweepTypes, VerdictReady
<1> QED BY <1>1, <1>2, TypeParts DEF SInv

LEMMA NextSInv == SInv /\ [Next]_vars => SInv'
<1> SUFFICES ASSUME SInv, [Next]_vars PROVE SInv'
  OBVIOUS
<1>0. ManagedTypeOK /\ OwnedAlive /\ SweepTypes /\ VerdictReady
  BY TypeParts DEF SInv
<1>1. ASSUME UNCHANGED <<sweep, tables, now, crashes, failures>>
      PROVE  SweepTypes' /\ VerdictReady'
  BY <1>0, <1>1 DEF sweep, tables, SweepTypes, VerdictReady
<1>2. CASE ControlPlaneStep
  <2>1. ManagedTypeOK' /\ OwnedAlive'
    BY <1>0, <1>2, ManagedKeepsType DEF ControlPlaneStep, ManagedNext
  <2> QED BY <1>1, <1>2, <2>1, TypeParts DEF ControlPlaneStep, SInv, TypeInv, SweepTypeOK, SweepTypes
<1>3. CASE Crash
  <2>1. ManagedTypeOK' /\ OwnedAlive'
    BY <1>0, <1>3, ManagedKeepsType DEF Crash, ManagedNext
  <2>2. SweepTypes' /\ VerdictReady'
    BY <1>0, <1>3, AtRestType, BoundAssumption DEF Crash, SweepTypes, tables
  <2> QED BY <2>1, <2>2 DEF SInv, TypeInv, SweepTypeOK, SweepTypes
<1>4. CASE Tick
  <2>1. SweepTypes' /\ VerdictReady' /\ UNCHANGED managed
    BY <1>0, <1>4, BoundAssumption DEF Tick, SweepTypes, VerdictReady, sweep, tables
  <2> QED BY <2>1, ManagedSame DEF SInv
<1>5. CASE UNCHANGED vars
  <2>1. SweepTypes' /\ VerdictReady' /\ UNCHANGED managed
    BY <1>1, <1>5 DEF vars
  <2> QED BY <2>1, ManagedSame DEF SInv
<1> QED BY <1>2, <1>3, <1>4, <1>5, SweepKeepsType DEF Next

(* Every variable keeps its type: an enumerated process has an owner, and  *)
(* the sweep never upserts without a verdict.                              *)
THEOREM SweepTypeCorrect == Spec => []SweepTypeOK
<1>1. Spec => []SInv
  BY InitSInv, NextSInv, PTL DEF Spec
<1>2. SInv => SweepTypeOK
  BY DEF SInv, TypeInv
<1> QED BY <1>1, <1>2, PTL

-----------------------------------------------------------------------------
(* Between the reads and the writes of a sweep.                            *)

(* The database has answered so far: the verdict in hand is announced, and *)
(* so is every row.                                                        *)
Announced ==
  failures = 0 =>
    /\ \A c \in Commands : orphans[c] # NoOrphan => orphans[c].class \in announced[c]
    /\ spc = "upsert" => verdict.rec.class \in announced[verdict.id]

(* Every stray is still to be reported, is being upserted, or was observed.*)
Covered ==
  failures = 0 /\ spc \in {"report", "upsert"} =>
    \A q \in strays :
      \/ q \in left
      \/ CommandOf[q.who] \in observed
      \/ spc = "upsert" /\ verdict.id = CommandOf[q.who]

OInv == SInv /\ Announced /\ Covered

(* A failed call ends the premises for good. *)
LEMMA Failed ==
  ASSUME SInv, DbFails
  PROVE  failures' # 0
BY BoundAssumption DEF SInv, TypeInv, SweepTypeOK, DbFails

LEMMA SweepOInv ==
  ASSUME OInv, SInv', Sweep
  PROVE  OInv'
<1>0. SInv
  BY DEF OInv
<1>1. CASE BeginSweep
  BY <1>1 DEF OInv, BeginSweep, Announced, Covered, tables
<1>2. ASSUME NEW p \in Pids, Examine(p) PROVE OInv'
  BY <1>2 DEF OInv, Examine, Announced, Covered, tables
<1>3. CASE ListExecutions
  BY <1>0, <1>3, Failed DEF OInv, ListExecutions, AtRest, DbSucceeds, Announced, Covered, tables
<1>4. ASSUME NEW q \in left, Report(q) PROVE OInv'
  <2> DEFINE c == CommandOf[q.who]
  <2>1. CASE failures' # 0
    BY <2>1 DEF OInv, Announced, Covered
  <2>2. CASE failures' = 0
    <3>1. /\ spc = "report" /\ spc' = "upsert" /\ left' = left \ {q} /\ failures = 0
          /\ verdict' = [id |-> c, rec |-> Sighting(q, orphans[c])]
          /\ announced' = IF Announces(orphans[c], Sighting(q, orphans[c]))
                          THEN [announced EXCEPT ![c] = @ \cup {q.class}] ELSE announced
          /\ UNCHANGED <<strays, observed, orphans>>
      BY <1>0, <1>4, <2>2, Failed DEF Report, DbSucceeds
    <3>2. c \in Commands /\ announced \in [Commands -> SUBSET Classes]
      BY <1>0, <1>4, ReportShape DEF SInv, TypeInv, SweepTypeOK
    <3>3. /\ verdict'.id = c
          /\ verdict'.rec.class = q.class
      BY <3>1 DEF Sighting
    <3>4. q.class \in announced'[c]
      <4>1. CASE Announces(orphans[c], Sighting(q, orphans[c]))
        BY <3>1, <3>2, <4>1
      <4>2. CASE ~Announces(orphans[c], Sighting(q, orphans[c]))
        BY <3>1, <3>2, <4>2 DEF Announces, Sighting, OInv, Announced
      <4> QED BY <4>1, <4>2
    <3>5. \A x \in Commands : announced[x] \subseteq announced'[x]
      BY <3>1, <3>2
    <3> HIDE DEF c
    <3>6. Announced'
      BY <3>1, <3>3, <3>4, <3>5 DEF OInv, Announced
    <3>7. Covered'
      BY <3>1, <3>3 DEF OInv, Covered, c
    <3> QED BY <3>6, <3>7 DEF OInv
  <2> QED BY <2>1, <2>2
<1>5. CASE UpsertOrphan
  <2>1. CASE failures' # 0
    BY <2>1 DEF OInv, Announced, Covered
  <2>2. CASE failures' = 0
    <3>1. /\ spc = "upsert" /\ spc' = "report" /\ UNCHANGED <<strays, left, announced, failures>>
      BY <1>0, <1>5, <2>2, Failed DEF UpsertOrphan, DbSucceeds
    <3>2. /\ verdict.id \in Commands /\ verdict.rec \in OrphanRecord
          /\ observed' = observed \cup {verdict.id}
          /\ \A c \in Commands :
               orphans'[c] = IF c = verdict.id THEN Merged(orphans[c], verdict.rec)
                             ELSE orphans[c]
      BY <1>0, <1>5, <3>1, UpsertShape
    <3>3. orphans[verdict.id] \in OrphanRecord \cup {NoOrphan}
      BY <1>0, <3>2 DEF SInv, TypeInv, SweepTypeOK
    <3>4. Merged(orphans[verdict.id], verdict.rec).class = verdict.rec.class
      BY <3>2, <3>3, MergedType
    <3>5. Announced'
      BY <2>2, <3>1, <3>2, <3>4 DEF OInv, Announced
    <3>6. Covered'
      BY <2>2, <3>1, <3>2 DEF OInv, Covered
    <3> QED BY <3>5, <3>6 DEF OInv
  <2> QED BY <2>1, <2>2
<1>6. CASE MarkMissing
  <2>1. AtRest /\ UNCHANGED announced /\ (failures' = 0 => failures = 0)
    BY <1>0, <1>6, Failed DEF MarkMissing, DbSucceeds
  <2>2. \A c \in Commands : orphans'[c] # NoOrphan =>
          orphans[c] # NoOrphan /\ orphans'[c].class = orphans[c].class
    BY <1>0, <1>6, MissingShape DEF Missing
  <2> QED BY <2>1, <2>2 DEF OInv, AtRest, Announced, Covered
<1> QED BY <1>1, <1>2, <1>3, <1>4, <1>5, <1>6 DEF Sweep

LEMMA InitOInv == Init => OInv
BY InitSInv DEF Init, OInv, Announced, Covered

LEMMA NextOInv == OInv /\ [Next]_vars => OInv'
<1> SUFFICES ASSUME OInv, [Next]_vars PROVE OInv'
  OBVIOUS
<1>1. SInv'
  BY NextSInv DEF OInv
<1>2. CASE UNCHANGED <<sweep, tables, failures>>
  BY <1>1, <1>2 DEF OInv, sweep, tables, Announced, Covered
<1>3. CASE Crash
  BY <1>1, <1>3 DEF OInv, Crash, AtRest, tables, Announced, Covered
<1> QED
  BY <1>1, <1>2, <1>3, SweepOInv DEF Next, ControlPlaneStep, Tick, vars

LEMMA OInvAlways == Spec => []OInv
BY InitOInv, NextOInv, PTL DEF Spec

(* What the orphans table says was announced by an event before, whatever  *)
(* the processes do between the steps of a sweep.                          *)
THEOREM VerdictAnnouncedHolds == Spec => []VerdictAnnounced
<1>1. OInv => VerdictAnnounced
  BY DEF OInv, Announced, VerdictAnnounced
<1> QED BY <1>1, OInvAlways, PTL

(* How a step changes the rows. *)
LEMMA RowSteps ==
  ASSUME SInv, [Next]_vars, NEW c \in Commands, orphans[c] # NoOrphan
  PROVE  /\ orphans'[c] # NoOrphan
         /\ orphans'[c].first = orphans[c].first
         /\ orphans[c].status = "Active" /\ orphans'[c].status = "Disappeared" =>
              MarkMissing /\ Missing(c)
<1>0. orphans[c] \in OrphanRecord
  BY DEF SInv, TypeInv, SweepTypeOK
<1>1. CASE UNCHANGED orphans
  BY <1>1
<1>2. CASE UpsertOrphan /\ UNCHANGED failures
  <2>1. /\ verdict.id \in Commands /\ verdict.rec \in OrphanRecord
        /\ orphans'[c] = IF c = verdict.id THEN Merged(orphans[c], verdict.rec)
                         ELSE orphans[c]
    BY <1>2, UpsertShape
  <2>2. /\ Merged(orphans[c], verdict.rec) \in OrphanRecord
        /\ Merged(orphans[c], verdict.rec).first = orphans[c].first
        /\ Merged(orphans[c], verdict.rec).status = verdict.rec.status
    BY <1>0, <2>1, MergedType
  <2>3. verdict.rec.status = "Active"
    BY <1>2 DEF SInv, VerdictReady, UpsertOrphan
  <2> QED BY <1>0, <2>1, <2>2, <2>3, OrphanAssumption
<1>3. CASE MarkMissing
  BY <1>0, <1>3, MissingShape, OrphanAssumption
<1>4. UNCHANGED orphans \/ (UpsertOrphan /\ UNCHANGED failures) \/ MarkMissing
  BY DEF Next, Sweep, BeginSweep, Examine, ListExecutions, Report, UpsertOrphan, DbSucceeds,
         ControlPlaneStep, Crash, Tick, vars, tables
<1> QED BY <1>1, <1>2, <1>3, <1>4

(* No step forgets when an orphan was first seen.                          *)
THEOREM FirstSeenKeptHolds == Spec => FirstSeenKept
<1>1. SInv /\ [Next]_vars =>
        [\A c \in Commands : orphans[c] # NoOrphan =>
           orphans'[c] # NoOrphan /\ orphans'[c].first = orphans[c].first]_vars
  BY RowSteps
<1>2. OInv => SInv
  BY DEF OInv
<1> QED BY <1>1, <1>2, OInvAlways, PTL DEF Spec, FirstSeenKept

(* An orphan disappears only in a sweep that has seen no stray of its      *)
(* command: none was dropped between the enumeration and the last write.   *)
THEOREM SeenStaysActiveHolds == Spec => SeenStaysActive
<1>1. ASSUME OInv, [Next]_vars, NEW c \in Commands, orphans[c] # NoOrphan,
             orphans[c].status = "Active", orphans'[c].status = "Disappeared", failures' = 0
      PROVE  \A q \in strays : CommandOf[q.who] # c
  <2>1. MarkMissing /\ Missing(c)
    BY <1>1, RowSteps DEF OInv
  <2>2. failures = 0
    BY <1>1, <2>1, Failed DEF OInv, MarkMissing, DbSucceeds
  <2> QED BY <1>1, <2>1, <2>2 DEF MarkMissing, Missing, OInv, Covered
<1>2. OInv /\ [Next]_vars =>
        [\A c \in Commands :
           /\ orphans[c] # NoOrphan
           /\ orphans[c].status = "Active" /\ orphans'[c].status = "Disappeared"
           /\ failures' = 0
           => \A q \in strays : CommandOf[q.who] # c]_vars
  BY <1>1
<1> QED BY <1>2, OInvAlways, PTL DEF Spec, SeenStaysActive
=============================================================================
