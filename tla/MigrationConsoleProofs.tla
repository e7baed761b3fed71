----------------------- MODULE MigrationConsoleProofs -----------------------
(***************************************************************************)
(* Proofs about the migrations page.                                       *)
(*                                                                         *)
(* FailuresReported needs ReportInv only: what the monitor's tracker says  *)
(* of a VM, whatever is deleted or retried.  A tracker of an earlier       *)
(* Migration of the VM is told by Known, the VMs a failure of whose        *)
(* Migration, this one or one before, was reported.                        *)
(*                                                                         *)
(* The other theorems share Inv.  TypeInv is the shape of the state,       *)
(* TurnInv says that the delete dialog with its request groups and the     *)
(* retry drawer with its one run never coexist, and OwnerInv which plan a  *)
(* VM is in: in one at most (OneOwner), only in the plan the dialog, a     *)
(* group or the drawer knows of (OnlyIn), in none once a group patched or  *)
(* a retry took it out; and that what a group or a drawer loaded still     *)
(* says which VMs the plan holds besides (GroupOwns, UpToDate).  All of it *)
(* is lost when a drawer shows cached data, when the operator goes on      *)
(* while a cancelled retry runs or acts on rows that are not current, or   *)
(* when the patch of the flavor fails: Patient rules these four out.       *)
(***************************************************************************)
EXTENDS MigrationConsole, FiniteSetTheorems, TLAPS

(***************************************************************************)
(* The list, the tracker and what was reported.                            *)
(***************************************************************************)
MigrationTyped == migration \in [VMs -> MigrationRecord \cup {None}]
ListTyped == list \in [VMs -> MigrationRecord \cup {None}]
TrackerTyped == tracker \in [VMs -> TrackerRecord \cup {None}]

(* A failure of the VM's Migration was reported, or of an earlier one the   *)
(* tracker may still be of.                                                 *)
Known(v) == v \in reported \cup stale

(* What the monitor knows of a VM: a listed one is tracked, a failure it    *)
(* last reported was reported, and as long as none was, the phase before a  *)
(* failure is only "Failed" where the VM was first seen so.                 *)
Tracks(t, l, done) ==
  /\ l # None => t # None
  /\ t # None /\ t.lastReportedPhase = "Failed" => done
  /\ t # None /\ t.previousPhase = "Failed" /\ ~done => t.lastReportedPhase = None
  /\ l # None /\ l.phase # "Failed" /\ ~done => t.previousPhase # "Failed"

ReportInv ==
  /\ MigrationTyped /\ ListTyped /\ TrackerTyped
  /\ \A v \in VMs : Tracks(tracker[v], list[v], Known(v))
  /\ reported \cup stale \subseteq VMs /\ witnessed \subseteq VMs
  /\ \A v \in witnessed : Known(v) /\ migration[v] # None

LEMMA MarkedTyped ==
  ASSUME MigrationTyped, NEW v, migration[v] # None
  PROVE  /\ Marked(v) \in [VMs -> MigrationRecord \cup {None}]
         /\ \A u \in VMs : migration[u] # None => Marked(v)[u] # None
<1>1. \A m \in MigrationRecord : [m EXCEPT !.deleting = TRUE] \in MigrationRecord
  BY DEF MigrationRecord
<1>2. v \in VMs => [migration[v] EXCEPT !.deleting = TRUE] \in MigrationRecord
  BY <1>1 DEF MigrationTyped
<1>3. Marked(v) = [migration EXCEPT ![v] = [migration[v] EXCEPT !.deleting = TRUE]]
  BY DEF Marked
<1>4. QED
  BY <1>2, <1>3, ConsoleAssumption DEF MigrationTyped

(* A Migration keeps its type, and goes by its finalizer only.              *)
MigrationStays(v) == migration[v] # None => migration'[v] # None \/ RemoveMigration(v)

LEMMA MigrationKept ==
  ASSUME MigrationTyped, [Next]_vars
  PROVE  MigrationTyped' /\ \A v \in VMs : MigrationStays(v)
<1> DEFINE Kept == MigrationTyped' /\ \A u \in VMs : migration[u] # None => migration'[u] # None
<1>1. ASSUME NEW p \in Plans, NEW v \in VMs, CreateMigration(p, v)
      PROVE  Kept
  <2> DEFINE new == [plan |-> p, phase |-> "Running", deleting |-> FALSE]
  <2>1. new \in MigrationRecord
    BY DEF MigrationRecord, Phases
  <2>2. new # None
    BY <2>1, ConsoleAssumption
  <2>3. migration' = migration \/ migration' = [migration EXCEPT ![v] = new]
    BY <1>1 DEF CreateMigration
  <2>4. QED
    BY <2>1, <2>2, <2>3 DEF MigrationTyped
<1>2. ASSUME NEW v \in VMs, NEW phase \in {"Failed", "Succeeded"}, EndMigration(v, phase)
      PROVE  Kept
  <2>1. \A m \in MigrationRecord : [m EXCEPT !.phase = phase] \in MigrationRecord
    BY DEF MigrationRecord, Phases
  <2>2. [migration[v] EXCEPT !.phase = phase] \in MigrationRecord
    BY <1>2, <2>1 DEF EndMigration, MigrationTyped
  <2>3. migration' = [migration EXCEPT ![v] = [migration[v] EXCEPT !.phase = phase]]
    BY <1>2 DEF EndMigration
  <2>4. QED
    BY <2>2, <2>3, ConsoleAssumption DEF MigrationTyped
<1>3. ASSUME NEW v \in VMs, RemoveMigration(v)
      PROVE  MigrationTyped' /\ \A u \in VMs : MigrationStays(u)
  <2>1. migration' = [migration EXCEPT ![v] = None]
    BY <1>3 DEF RemoveMigration
  <2>2. QED
    BY <1>3, <2>1 DEF MigrationTyped, MigrationStays
<1>4. ASSUME NEW v \in VMs, CollectMigration(v)
      PROVE  Kept
  BY <1>4, MarkedTyped DEF CollectMigration, MigrationTyped, Marked
<1>5. ASSUME NEW g \in groups, GroupGet(g) \/ GroupPatch(g) \/ \E v \in g.todo : GroupDelete(g, v)
      PROVE  Kept
  <2>1. CASE GroupGet(g) \/ GroupPatch(g)
    BY <2>1 DEF GroupGet, GroupPatch, MigrationTyped, server
  <2>2. CASE \E v \in g.todo : GroupDelete(g, v)
    BY <2>2, MarkedTyped DEF GroupDelete, MigrationTyped
  <2>3. QED
    BY <1>5, <2>1, <2>2
<1>6. ASSUME NEW v \in bulk, BulkDelete(v)
      PROVE  Kept
  BY <1>6, MarkedTyped DEF BulkDelete, MigrationTyped
<1>7. ASSUME NEW r \in retries, RetryDelete(r)
      PROVE  Kept
  BY <1>7, MarkedTyped DEF RetryDelete, MigrationTyped
<1>8. ASSUME UNCHANGED migration
      PROVE  Kept
  BY <1>8 DEF MigrationTyped
<1>9. ASSUME NEW r \in retries,
             \/ RetryPlan(r) \/ PollUntilGone(r) \/ RetryPost(r) \/ RetryNewPlan(r)
             \/ RetryFlavor(r)
      PROVE  UNCHANGED migration
  BY <1>9 DEF RetryPlan, PollUntilGone, RetryPost, RetryNewPlan, RetryFlavor, server
<1>10. ASSUME Operator \/ Poll \/ DeleteDone \/ PrefillAnswer \/ UNCHANGED vars
      PROVE  UNCHANGED migration
  BY <1>10 DEF Operator, DeleteClose, DeleteConfirm, CancelRetry, HandleEditAndRetry, DeleteClick,
     HandleBulkRetry, OpenRetry, Poll, DeleteDone, PrefillAnswer, vars, server
<1>11. ASSUME NEW p \in Plans, ResetPlan(p) \/ ReadPlan(p) \/ EndReconcile(p)
      PROVE  UNCHANGED migration
  BY <1>11 DEF ResetPlan, ReadPlan, EndReconcile
<1>12. Kept => MigrationTyped' /\ \A v \in VMs : MigrationStays(v)
  BY DEF MigrationStays
<1> HIDE DEF Kept
<1>13. QED
  BY <1>1, <1>2, <1>3, <1>4, <1>5, <1>6, <1>7, <1>8, <1>9, <1>10, <1>11, <1>12
     DEF Next, Controllers, RetryStep

(* Only a poll, or the end of a Migration, changes what is known of it.     *)
LEMMA PageFrame ==
  ASSUME [Next]_vars
  PROVE  Poll \/ (\E v \in VMs : RemoveMigration(v)) \/ UNCHANGED page
<1>1. \A p \in Plans : /\ \A v \in VMs : CreateMigration(p, v) => UNCHANGED page
                       /\ ResetPlan(p) \/ ReadPlan(p) \/ EndReconcile(p) => UNCHANGED page
  BY DEF CreateMigration, ResetPlan, ReadPlan, EndReconcile
<1>2. \A v \in VMs : /\ CollectMigration(v) => UNCHANGED page
                     /\ \A phase \in {"Failed", "Succeeded"} :
                          EndMigration(v, phase) => UNCHANGED page
  BY DEF CollectMigration, EndMigration
<1>3. \A g \in groups : /\ GroupGet(g) => UNCHANGED page
                        /\ GroupPatch(g) => UNCHANGED page
                        /\ \A v \in g.todo : GroupDelete(g, v) => UNCHANGED page
  BY DEF GroupGet, GroupPatch, GroupDelete
<1>4. \A v \in bulk : BulkDelete(v) => UNCHANGED page
  BY DEF BulkDelete
<1>5. \A r \in retries :
        RetryPlan(r) \/ RetryDelete(r) \/ PollUntilGone(r) \/ RetryPost(r) \/ RetryNewPlan(r)
          \/ RetryFlavor(r) => UNCHANGED page
  BY DEF RetryPlan, RetryDelete, PollUntilGone, RetryPost, RetryNewPlan, RetryFlavor
<1>6. Operator \/ DeleteDone \/ PrefillAnswer \/ UNCHANGED vars => UNCHANGED page
  BY DEF Operator, DeleteClose, DeleteConfirm, CancelRetry, HandleEditAndRetry, DeleteClick,
     HandleBulkRetry, OpenRetry, DeleteDone, PrefillAnswer, vars
<1>7. QED
  BY <1>1, <1>2, <1>3, <1>4, <1>5, <1>6 DEF Next, Controllers, RetryStep

LEMMA NextTrackerTracks ==
  ASSUME NEW t \in TrackerRecord \cup {None}, NEW m \in MigrationRecord,
         NEW l \in MigrationRecord \cup {None}, NEW done \in BOOLEAN, Tracks(t, l, done)
  PROVE  /\ NextTracker(t, m.phase) \in TrackerRecord
         /\ Tracks(NextTracker(t, m.phase), m, done \/ Reports(t, m.phase))
         /\ l # None /\ m.phase = "Failed" /\ l.phase # "Failed" => done \/ Reports(t, m.phase)
<1>1. m.phase \in Phases /\ None \notin Phases /\ None \notin TrackerRecord
  BY ConsoleAssumption DEF MigrationRecord
<1>2. m # None
  BY ConsoleAssumption
<1> DEFINE ph == m.phase
<1>3. CASE t = None
  <2>1. NextTracker(t, ph) = [previousPhase |-> ph, lastReportedPhase |-> None]
    BY <1>3 DEF NextTracker
  <2>2. QED
    BY <1>1, <1>2, <1>3, <2>1 DEF Tracks, TrackerRecord, Reports, Phases
<1>4. CASE t # None /\ ph \in {t.previousPhase, t.lastReportedPhase}
  <2>1. NextTracker(t, ph) = t
    BY <1>4 DEF NextTracker
  <2>2. ~Reports(t, ph)
    BY <2>1 DEF Reports
  <2>3. QED
    BY <1>1, <1>2, <1>4, <2>1, <2>2 DEF Tracks, TrackerRecord
<1>5. CASE t # None /\ ph \notin {t.previousPhase, t.lastReportedPhase}
  <2> DEFINE n == [previousPhase |-> ph,
                   lastReportedPhase |-> IF ph = "Running" THEN t.lastReportedPhase ELSE ph]
  <2>1. NextTracker(t, ph) = n
    BY <1>5 DEF NextTracker
  <2>2. n \in TrackerRecord /\ t \in TrackerRecord
    BY <1>1, <1>5 DEF TrackerRecord
  <2>3. ph = "Failed" => Reports(t, ph)
    BY <1>5, <2>1 DEF Reports
  <2>4. ph # "Failed" => n.lastReportedPhase # "Failed" \/ done
    BY <1>5 DEF Tracks
  <2>5. QED
    BY <1>1, <1>2, <1>5, <2>1, <2>2, <2>3, <2>4 DEF Tracks
<1>6. QED
  BY <1>3, <1>4, <1>5

LEMMA ReportInit == Init => ReportInv
  BY ConsoleAssumption DEF Init, ReportInv, MigrationTyped, ListTyped, TrackerTyped, Tracks, Known

LEMMA ReportPoll ==
  ASSUME ReportInv, MigrationTyped', Poll
  PROVE  ReportInv'
<1> DEFINE kept == AutoCleanup(migration)
           shown == Listed(migration)
<1>1. ListTyped' /\ UNCHANGED migration
  BY DEF Poll, ListTyped, ReportInv, MigrationTyped, server
<1>2. ASSUME NEW v \in VMs
      PROVE  /\ kept[v] \in TrackerRecord \cup {None}
             /\ v \in shown => kept[v] = tracker[v] /\ migration[v] \in MigrationRecord
  <2>1. tracker[v] \in TrackerRecord \cup {None} /\ migration[v] \in MigrationRecord \cup {None}
    BY DEF ReportInv, TrackerTyped, MigrationTyped
  <2>2. QED
    BY <2>1 DEF AutoCleanup, Listed
<1>3. ASSUME NEW v \in shown
      PROVE  /\ tracker'[v] \in TrackerRecord
             /\ Tracks(tracker'[v], list'[v], Known(v)')
             /\ v \in witnessed' => Known(v)'
  <2>1. /\ v \in VMs /\ tracker[v] \in TrackerRecord \cup {None}
        /\ migration[v] \in MigrationRecord /\ list[v] \in MigrationRecord \cup {None}
        /\ Known(v) \in BOOLEAN /\ Tracks(tracker[v], list[v], Known(v))
    BY <1>2 DEF Listed, ReportInv, TrackerTyped, ListTyped, Known
  <2>2. tracker'[v] = NextTracker(tracker[v], migration[v].phase) /\ list'[v] = migration[v]
    BY <1>2, <2>1 DEF Poll
  <2>3. Known(v)' <=> (Known(v) \/ Reports(tracker[v], migration[v].phase))
    <3>1. v \in reported' <=> (v \in reported \/ Reports(tracker[v], migration[v].phase))
      BY <1>2, <2>1 DEF Poll
    <3>2. v \in stale' <=> v \in stale
      BY DEF Poll
    <3>3. QED
      BY <3>1, <3>2 DEF Known
  <2>4. /\ NextTracker(tracker[v], migration[v].phase) \in TrackerRecord
        /\ Tracks(NextTracker(tracker[v], migration[v].phase), migration[v],
                  Known(v) \/ Reports(tracker[v], migration[v].phase))
        /\ list[v] # None /\ migration[v].phase = "Failed" /\ list[v].phase # "Failed"
             => Known(v) \/ Reports(tracker[v], migration[v].phase)
    <3>1. /\ tracker[v] \in TrackerRecord \cup {None} /\ migration[v] \in MigrationRecord
          /\ list[v] \in MigrationRecord \cup {None} /\ Tracks(tracker[v], list[v], Known(v))
      BY <2>1 DEF ReportInv, MigrationTyped, ListTyped, TrackerTyped
    <3>2. Known(v) \in BOOLEAN
      BY DEF Known
    <3>3. QED
      BY <3>1, <3>2, NextTrackerTracks
  <2>5. Tracks(tracker'[v], list'[v], Known(v)')
    BY <2>2, <2>3, <2>4 DEF Tracks
  <2>6. v \in witnessed' => Known(v)'
    BY <2>3, <2>4 DEF Poll, ReportInv
  <2>7. QED
    BY <2>2, <2>4, <2>5, <2>6
<1>4. ASSUME NEW v \in VMs \ shown
      PROVE  /\ tracker'[v] \in TrackerRecord \cup {None}
             /\ Tracks(tracker'[v], list'[v], Known(v)')
             /\ v \notin witnessed'
  <2>1. tracker'[v] = kept[v] /\ list'[v] = None
    BY DEF Poll, Listed
  <2>2. v \notin witnessed'
    BY DEF Poll, ReportInv, Listed
  <2>3. CASE shown = {}
    <3>1. kept[v] = tracker[v] /\ (Known(v)' <=> Known(v)) /\ Tracks(tracker[v], list[v], Known(v))
      BY <2>3 DEF AutoCleanup, Poll, Known, ReportInv
    <3>2. QED
      BY <1>2, <2>1, <2>2, <3>1 DEF Tracks
  <2>4. CASE shown # {}
    <3>1. kept[v] = None
      BY <2>4 DEF AutoCleanup, Listed
    <3>2. QED
      BY <2>1, <2>2, <3>1 DEF Tracks
  <2>5. QED
    BY <2>3, <2>4
<1>5. shown \subseteq VMs /\ \A v \in shown : migration[v] # None
  BY DEF Listed
<1>6. (reported \cup stale)' \subseteq VMs /\ witnessed' \subseteq VMs
  BY <1>5 DEF Poll, ReportInv
<1>7. TrackerTyped'
  <2>1. tracker' = [v \in VMs |-> tracker'[v]]
    <3>1. tracker' = [v \in VMs |-> IF v \in shown THEN NextTracker(kept[v], migration[v].phase)
                                    ELSE kept[v]]
      BY DEF Poll
    <3>2. QED
      BY <3>1
  <2>2. \A v \in VMs : tracker'[v] \in TrackerRecord \cup {None}
    BY <1>3, <1>4
  <2>3. QED
    BY <2>1, <2>2 DEF TrackerTyped
<1>8. \A v \in witnessed' : Known(v)' /\ migration'[v] # None
  BY <1>1, <1>3, <1>4, <1>5, <1>6
<1>9. \A v \in VMs : Tracks(tracker'[v], list'[v], Known(v)')
  BY <1>3, <1>4
<1>10. QED
  BY <1>1, <1>6, <1>7, <1>8, <1>9 DEF ReportInv

LEMMA ReportStep ==
  ASSUME ReportInv, [Next]_vars
  PROVE  ReportInv'
<1>1. MigrationTyped' /\ \A v \in VMs : MigrationStays(v)
  BY MigrationKept DEF ReportInv
<1>2. CASE Poll
  BY <1>1, <1>2, ReportPoll
<1>3. ASSUME NEW v \in VMs, RemoveMigration(v)
      PROVE  ReportInv'
  <2>1. UNCHANGED <<list, tracker>> /\ witnessed' = witnessed \ {v}
    BY <1>3 DEF RemoveMigration
  <2>2. reported' \cup stale' = reported \cup stale
    BY <1>3 DEF RemoveMigration
  <2>3. \A u \in VMs : u # v => migration'[u] = migration[u]
    BY <1>3 DEF RemoveMigration, ReportInv, MigrationTyped
  <2>4. \A u : Known(u)' <=> Known(u)
    BY <2>2 DEF Known
  <2>5. ListTyped' /\ TrackerTyped' /\ \A u \in VMs : Tracks(tracker'[u], list'[u], Known(u)')
    BY <2>1, <2>4 DEF ReportInv, ListTyped, TrackerTyped, Tracks
  <2>6. witnessed' \subseteq VMs /\ \A u \in witnessed' : Known(u)' /\ migration'[u] # None
    BY <2>1, <2>3, <2>4 DEF ReportInv
  <2>7. QED
    BY <1>1, <2>2, <2>5, <2>6 DEF ReportInv
<1>4. CASE UNCHANGED page
  <2>1. UNCHANGED <<list, tracker, reported, witnessed, stale>>
    BY <1>4 DEF page
  <2>2. \A u : Known(u)' <=> Known(u)
    BY <2>1 DEF Known
  <2>3. ASSUME NEW u \in witnessed, ~ \E v \in VMs : RemoveMigration(v)
        PROVE  migration'[u] # None
    BY <1>1, <2>3 DEF ReportInv, MigrationStays
  <2>4. ListTyped' /\ TrackerTyped' /\ \A u \in VMs : Tracks(tracker'[u], list'[u], Known(u)')
    BY <2>1, <2>2 DEF ReportInv, ListTyped, TrackerTyped, Tracks
  <2>5. QED
    BY <1>1, <1>3, <2>1, <2>2, <2>3, <2>4 DEF ReportInv
<1>5. QED
  BY <1>2, <1>3, <1>4, PageFrame

(* A failure of a Migration that the page saw happen was reported, for any  *)
(* VMs, plans, polls, deletions and retries, unless the tracker of its name *)
(* may still be that of an earlier Migration a failure of which was         *)
(* reported: useMigrationStatusMonitor keeps its trackers by name and       *)
(* reports each phase of a name once.                                       *)
THEOREM FailuresReported == Spec => []FirstFailureReported
<1>1. ReportInv => FirstFailureReported
  BY DEF ReportInv, FirstFailureReported, Known
<1>2. QED
  BY ReportInit, ReportStep, <1>1, PTL DEF Spec

(***************************************************************************)
(* Batches of a plan.                                                      *)
(***************************************************************************)
LEMMA BatchingFacts ==
  ASSUME NEW b \in Batchings
  PROVE  /\ DOMAIN b \subseteq Numbers
         /\ \A i \in DOMAIN b : b[i] \subseteq VMs
         /\ AllVMs(b) \subseteq VMs
         /\ FirstBatch(b) \subseteq AllVMs(b)
         /\ DOMAIN b \subseteq {1} => FirstBatch(b) = AllVMs(b)
         /\ b # None
<1>1. PICK I \in SUBSET Numbers : b \in [I -> SUBSET VMs]
  BY DEF Batchings
<1>2. DOMAIN b = I
  BY <1>1
<1>3. DOMAIN b \subseteq {1} =>
        {j \in DOMAIN b : \A k \in DOMAIN b : j <= k} = DOMAIN b
  OBVIOUS
<1>4. QED
  BY <1>1, <1>2, <1>3, ConsoleAssumption DEF AllVMs, FirstBatch

LEMMA SingleBatch ==
  ASSUME NEW S \in SUBSET VMs
  PROVE  <<S>> \in Batchings /\ AllVMs(<<S>>) = S /\ DOMAIN <<S>> = {1}
<1>1. DOMAIN <<S>> = {1} /\ <<S>>[1] = S
  OBVIOUS
<1>2. <<S>> \in [{1} -> SUBSET VMs]
  BY <1>1
<1>3. {1} \in SUBSET Numbers
  BY DEF Numbers
<1>4. <<S>> \in Batchings
  BY <1>2, <1>3 DEF Batchings
<1>5. AllVMs(<<S>>) = S
  BY <1>1 DEF AllVMs
<1>6. QED
  BY <1>1, <1>4, <1>5

LEMMA WithoutVMFacts ==
  ASSUME NEW r, r.batches \in Batchings
  PROVE  /\ WithoutVM(r) \in Batchings
         /\ AllVMs(WithoutVM(r)) = AllVMs(r.batches) \ {r.vm}
         /\ DOMAIN WithoutVM(r) \subseteq DOMAIN r.batches
<1> DEFINE b == r.batches
           I == {j \in DOMAIN b : b[j] \ {r.vm} # {}}
<1>1. DOMAIN b \subseteq Numbers /\ \A i \in DOMAIN b : b[i] \subseteq VMs
  BY BatchingFacts
<1>2. WithoutVM(r) = [i \in I |-> b[i] \ {r.vm}]
  BY DEF WithoutVM
<1>3. WithoutVM(r) \in [I -> SUBSET VMs] /\ I \in SUBSET Numbers
  BY <1>1, <1>2
<1>4. AllVMs(WithoutVM(r)) = AllVMs(b) \ {r.vm}
  BY <1>2 DEF AllVMs
<1>5. QED
  BY <1>2, <1>3, <1>4 DEF Batchings

LEMMA OldBatches ==
  ASSUME NEW p \in OldPlans
  PROVE  Batches[p] \in Batchings
<1>1. Batches[p] \in Seq(SUBSET VMs)
  BY ConsoleAssumption
<1>2. Batches[p] \in [DOMAIN Batches[p] -> SUBSET VMs]
  BY <1>1
<1>3. DOMAIN Batches[p] \in SUBSET Numbers
  BY DEF Numbers
<1>4. QED
  BY <1>2, <1>3 DEF Batchings

(***************************************************************************)
(* Types.                                                                  *)
(***************************************************************************)
Selection == [vm : VMs, plan : Plans]
DialogRecord == [sel : SUBSET Selection, pc : {"closed", "asked", "deleting"}]
DrawerRecord == {NoDrawer} \cup [vm : VMs, query : {"loading", "loaded", "error"}]
GroupRecord == [plan : Plans, vms : SUBSET VMs, todo : SUBSET VMs,
                pc : {"get", "patch", "delete"}, rest : SUBSET VMs]
RetryRecord == [vm : VMs, plan : Plans, batches : Batchings,
                pc : {"plan", "migration", "wait", "post", "newPlan", "flavor"},
                mine : BOOLEAN]

PlanTyped == plan \in [Plans -> Batchings \cup {None}]
PrefillTyped == prefill \in [VMs -> PrefillRecord \cup {None}]
PlacesTyped ==
  /\ dialog \in DialogRecord /\ drawer \in DrawerRecord
  /\ bulk \subseteq VMs /\ erased \subseteq VMs
GroupsTyped == groups \subseteq GroupRecord /\ \A g \in groups : g.todo \subseteq g.vms
RetriesTyped == retries \subseteq RetryRecord
BoundsTyped == ops \in 0..MaxOps /\ faults \in 0..MaxFaults

TypeInv ==
  /\ PlanTyped /\ MigrationTyped /\ ListTyped /\ PrefillTyped
  /\ PlacesTyped /\ GroupsTyped /\ RetriesTyped /\ BoundsTyped

LEMMA TypeInit == Init => TypeInv
<1> SUFFICES ASSUME Init PROVE TypeInv
  OBVIOUS
<1>1. PlanTyped
  BY OldBatches DEF Init, PlanTyped
<1>2. MigrationTyped /\ ListTyped /\ PrefillTyped
  BY DEF Init, MigrationTyped, ListTyped, PrefillTyped
<1>3. PlacesTyped
  BY DEF Init, PlacesTyped, NoDialog, DialogRecord, DrawerRecord
<1>4. GroupsTyped /\ RetriesTyped /\ BoundsTyped
  BY ConsoleAssumption DEF Init, GroupsTyped, RetriesTyped, BoundsTyped
<1>5. QED
  BY <1>1, <1>2, <1>3, <1>4 DEF TypeInv

LEMMA FaultTyped ==
  ASSUME BoundsTyped, ops' = ops, NEW kind, NoFault \/ Fault(kind)
  PROVE  BoundsTyped'
  BY ConsoleAssumption DEF BoundsTyped, NoFault, Fault

(* The dialog asks again, or stays.                                         *)
LEMMA AskedTyped ==
  ASSUME PlacesTyped, UNCHANGED <<drawer, bulk, erased>>,
         dialog' = [dialog EXCEPT !.pc = "asked"] \/ dialog' = dialog
  PROVE  PlacesTyped'
<1>1. \A d \in DialogRecord : [d EXCEPT !.pc = "asked"] \in DialogRecord
  BY DEF DialogRecord
<1>2. QED
  BY <1>1 DEF PlacesTyped

LEMMA StepTyped ==
  ASSUME RetriesTyped, NEW r \in retries,
         NEW pc \in {"migration", "wait", "post", "newPlan", "flavor"},
         Step(r, pc) \/ RetryEnds(r)
  PROVE  RetriesTyped'
<1>1. \A s \in RetryRecord : [s EXCEPT !.pc = pc] \in RetryRecord
  BY DEF RetryRecord
<1>2. QED
  BY <1>1 DEF RetriesTyped, Step, RetryEnds

LEMMA ListedOwner ==
  ASSUME TypeInv, NEW v \in VMs, list[v] # None
  PROVE  list[v].plan \in Plans
  BY DEF TypeInv, ListTyped, MigrationRecord

(* What the controllers leave alone.                                        *)
LEMMA ControllersFrame ==
  ASSUME \/ Controllers
         \/ \E v \in VMs, phase \in {"Failed", "Succeeded"} : EndMigration(v, phase)
  PROVE  UNCHANGED <<plan, list, dialog, groups, bulk, drawer, prefill, retries, erased, ops,
                     faults>>
<1>1. CASE \E v \in VMs : RemoveMigration(v) \/ CollectMigration(v)
  BY <1>1 DEF RemoveMigration, CollectMigration, page
<1>2. CASE \E q \in Plans : \/ ResetPlan(q) \/ ReadPlan(q) \/ EndReconcile(q)
                           \/ \E v \in VMs : CreateMigration(q, v)
  BY <1>2 DEF ResetPlan, ReadPlan, EndReconcile, CreateMigration, page
<1>3. CASE \E v \in VMs, phase \in {"Failed", "Succeeded"} : EndMigration(v, phase)
  BY <1>3 DEF EndMigration, page
<1>4. QED
  BY <1>1, <1>2, <1>3 DEF Controllers

LEMMA TypeStep ==
  ASSUME TypeInv, [Next]_vars
  PROVE  TypeInv'
<1> DEFINE Server == PlanTyped /\ MigrationTyped /\ ListTyped
           Rest == PlacesTyped /\ GroupsTyped /\ RetriesTyped /\ BoundsTyped
<1>1. MigrationTyped'
  BY MigrationKept DEF TypeInv
<1>2. CASE \/ Controllers
         \/ \E v \in VMs, phase \in {"Failed", "Succeeded"} : EndMigration(v, phase)
  BY <1>1, <1>2, ControllersFrame DEF TypeInv, PlanTyped, ListTyped, PrefillTyped, PlacesTyped,
     GroupsTyped, RetriesTyped, BoundsTyped
<1>4. CASE Poll
  BY <1>1, <1>4 DEF Poll, server,
     TypeInv, PlanTyped, MigrationTyped, ListTyped, PrefillTyped, PlacesTyped, GroupsTyped,
     RetriesTyped, BoundsTyped
<1>5. ASSUME NEW S \in SUBSET VMs, DeleteClick(S)
      PROVE  TypeInv'
  <2>1. [sel |-> {[vm |-> v, plan |-> list[v].plan] : v \in S}, pc |-> "asked"] \in DialogRecord
    BY <1>5, ListedOwner DEF DeleteClick, Listed, DialogRecord, Selection
  <2>2. PlacesTyped' /\ BoundsTyped'
    BY <1>5, <2>1, ConsoleAssumption DEF DeleteClick, TypeInv, PlacesTyped, BoundsTyped
  <2>3. QED
    BY <1>1, <1>5, <2>2 DEF DeleteClick, server, page,
       TypeInv, PlanTyped, ListTyped, PrefillTyped, GroupsTyped, RetriesTyped
<1>6. CASE DeleteClose
  <2>1. NoDialog \in DialogRecord
    BY DEF NoDialog, DialogRecord
  <2>2. QED
    BY <1>1, <1>6, <2>1 DEF DeleteClose, server, page,
       TypeInv, PlanTyped, ListTyped, PrefillTyped, PlacesTyped, GroupsTyped, RetriesTyped,
       BoundsTyped
<1>7. CASE DeleteConfirm
  <2>1. dialog \in DialogRecord /\ \A d \in DialogRecord : [d EXCEPT !.pc = "deleting"] \in DialogRecord
    BY DEF DialogRecord, TypeInv, PlacesTyped
  <2>2. \A g \in ByPlan(dialog.sel) : g \in GroupRecord /\ g.todo \subseteq g.vms
    BY <2>1 DEF ByPlan, GroupRecord, DialogRecord, Selection
  <2>3. QED
    BY <1>1, <1>7, <2>1, <2>2 DEF DeleteConfirm, server, page,
       TypeInv, PlanTyped, ListTyped, PrefillTyped, PlacesTyped, GroupsTyped, RetriesTyped,
       BoundsTyped
<1>8. ASSUME NEW g \in groups, GroupGet(g)
      PROVE  TypeInv'
  <2>1. g \in GroupRecord /\ g.plan \in Plans
    BY DEF TypeInv, GroupsTyped, GroupRecord
  <2>2. plan[g.plan] # None => FirstBatch(plan[g.plan]) \ g.vms \in SUBSET VMs
    BY <2>1, BatchingFacts DEF TypeInv, PlanTyped
  <2>3. \A S \in SUBSET VMs : LET h == [g EXCEPT !.pc = "patch", !.rest = S]
                              IN  h \in GroupRecord /\ h.todo = g.todo /\ h.vms = g.vms
    BY <2>1 DEF GroupRecord
  <2>4. GroupsTyped'
    BY <1>8, <2>2, <2>3 DEF GroupGet, DeletionFails, TypeInv, GroupsTyped
  <2>5. PlacesTyped'
    BY <1>8, AskedTyped DEF GroupGet, DeletionFails, TypeInv
  <2>6. BoundsTyped'
    BY <1>8, FaultTyped DEF GroupGet, Fails, TypeInv
  <2>7. QED
    BY <1>1, <1>8, <2>4, <2>5, <2>6 DEF GroupGet, server, page,
       TypeInv, PlanTyped, ListTyped, PrefillTyped, RetriesTyped
<1>9. ASSUME NEW g \in groups, GroupPatch(g)
      PROVE  TypeInv'
  <2>1. g \in GroupRecord /\ g.plan \in Plans /\ g.rest \in SUBSET VMs
    BY DEF TypeInv, GroupsTyped, GroupRecord
  <2>2. LET h == [g EXCEPT !.pc = "delete"]
        IN  h \in GroupRecord /\ h.todo = g.todo /\ h.vms = g.vms
    BY <2>1 DEF GroupRecord
  <2>3. GroupsTyped'
    BY <1>9, <2>2 DEF GroupPatch, DeletionFails, TypeInv, GroupsTyped
  <2>4. PlacesTyped'
    BY <1>9, AskedTyped DEF GroupPatch, DeletionFails, TypeInv
  <2>5. BoundsTyped'
    BY <1>9, FaultTyped DEF GroupPatch, Fails, TypeInv
  <2>6. PlanTyped'
    BY <1>9, <2>1, SingleBatch DEF GroupPatch, TypeInv, PlanTyped
  <2>7. QED
    BY <1>1, <1>9, <2>3, <2>4, <2>5, <2>6 DEF GroupPatch, page,
       TypeInv, ListTyped, PrefillTyped, RetriesTyped
<1>10. ASSUME NEW g \in groups, NEW v \in g.todo, GroupDelete(g, v)
       PROVE  TypeInv'
  <2>1. g \in GroupRecord /\ g.todo \subseteq g.vms
    BY DEF TypeInv, GroupsTyped
  <2>2. LET h == [g EXCEPT !.todo = @ \ {v}]
        IN  h \in GroupRecord /\ h.todo \subseteq g.todo /\ h.vms = g.vms
    BY <2>1 DEF GroupRecord
  <2>3. GroupsTyped'
    BY <1>10, <2>1, <2>2 DEF GroupDelete, TypeInv, GroupsTyped
  <2>4. PlacesTyped'
    BY <1>10, AskedTyped DEF GroupDelete, TypeInv
  <2>5. BoundsTyped'
    BY <1>10, FaultTyped DEF GroupDelete, Fails, TypeInv
  <2>6. QED
    BY <1>1, <1>10, <2>3, <2>4, <2>5 DEF GroupDelete, page,
       TypeInv, PlanTyped, ListTyped, PrefillTyped, RetriesTyped
<1>11. CASE DeleteDone
  <2>1. NoDialog \in DialogRecord /\ {m.vm : m \in dialog.sel} \subseteq VMs
    BY DEF NoDialog, DialogRecord, TypeInv, PlacesTyped, Selection
  <2>2. QED
    BY <1>1, <1>11, <2>1 DEF DeleteDone, server, page,
       TypeInv, PlanTyped, ListTyped, PrefillTyped, PlacesTyped, GroupsTyped, RetriesTyped,
       BoundsTyped
<1>12. ASSUME NEW S \in SUBSET VMs, HandleBulkRetry(S)
       PROVE  TypeInv'
  BY <1>1, <1>12, ConsoleAssumption DEF HandleBulkRetry, server, page,
     TypeInv, PlanTyped, ListTyped, PrefillTyped, PlacesTyped, GroupsTyped, RetriesTyped,
     BoundsTyped
<1>13. ASSUME NEW v \in bulk, BulkDelete(v)
       PROVE  TypeInv'
  <2>1. BoundsTyped'
    BY <1>13, FaultTyped DEF BulkDelete, Fails, TypeInv
  <2>2. QED
    BY <1>1, <1>13, <2>1 DEF BulkDelete, page,
       TypeInv, PlanTyped, ListTyped, PrefillTyped, PlacesTyped, GroupsTyped, RetriesTyped
<1>14. ASSUME NEW v \in VMs, OpenRetry(v)
       PROVE  TypeInv'
  <2>1. PlacesTyped'
    BY <1>14 DEF OpenRetry, TypeInv, PlacesTyped, DrawerRecord
  <2>2. PrefillTyped' /\ BoundsTyped'
    BY <1>14, ConsoleAssumption DEF OpenRetry, TypeInv, PrefillTyped, BoundsTyped
  <2>3. QED
    BY <1>1, <1>14, <2>1, <2>2 DEF OpenRetry, server, page,
       TypeInv, PlanTyped, ListTyped, GroupsTyped, RetriesTyped
<1>15. CASE PrefillAnswer
  <2> DEFINE v == drawer.vm
             m == migration[v]
  <2>1. v \in VMs /\ \A q \in {"loaded", "error"} : [drawer EXCEPT !.query = q] \in DrawerRecord
    BY <1>15 DEF PrefillAnswer, TypeInv, PlacesTyped, DrawerRecord, NoDrawer
  <2>2. m # None /\ plan[m.plan] # None =>
          [plan |-> m.plan, batches |-> plan[m.plan]] \in PrefillRecord
    BY <2>1 DEF TypeInv, MigrationTyped, MigrationRecord, PlanTyped, PrefillRecord
  <2>3. PlacesTyped'
    BY <1>15, <2>1 DEF PrefillAnswer, TypeInv, PlacesTyped
  <2>4. PrefillTyped'
    BY <1>15, <2>1, <2>2 DEF PrefillAnswer, TypeInv, PrefillTyped
  <2>5. QED
    BY <1>1, <1>15, <2>3, <2>4 DEF PrefillAnswer, server, page,
       TypeInv, PlanTyped, ListTyped, GroupsTyped, RetriesTyped, BoundsTyped
<1>16. CASE CancelRetry
  <2>1. \A r \in RetryRecord : [r EXCEPT !.mine = FALSE] \in RetryRecord
    BY DEF RetryRecord
  <2>2. RetriesTyped'
    BY <1>16, <2>1 DEF CancelRetry, TypeInv, RetriesTyped
  <2>3. PlacesTyped'
    BY <1>16 DEF CancelRetry, TypeInv, PlacesTyped, DrawerRecord
  <2>4. QED
    BY <1>1, <1>16, <2>2, <2>3 DEF CancelRetry, server, page,
       TypeInv, PlanTyped, ListTyped, PrefillTyped, GroupsTyped, BoundsTyped
<1>17. CASE HandleEditAndRetry
  <2> DEFINE v == drawer.vm
  <2>1. v \in VMs /\ prefill[v] \in PrefillRecord
    BY <1>17 DEF HandleEditAndRetry, TypeInv, PlacesTyped, DrawerRecord, NoDrawer, PrefillTyped
  <2>2. [vm |-> v, plan |-> prefill[v].plan, batches |-> prefill[v].batches,
         pc |-> "plan", mine |-> TRUE] \in RetryRecord
    BY <2>1 DEF PrefillRecord, RetryRecord
  <2>3. RetriesTyped'
    BY <1>17, <2>2 DEF HandleEditAndRetry, TypeInv, RetriesTyped
  <2>4. QED
    BY <1>1, <1>17, <2>3 DEF HandleEditAndRetry, server, page,
       TypeInv, PlanTyped, ListTyped, PrefillTyped, PlacesTyped, GroupsTyped, BoundsTyped
<1>18. ASSUME NEW r \in retries, RetryPlan(r)
       PROVE  TypeInv'
  <2>1. r.plan \in Plans /\ WithoutVM(r) \in Batchings
    BY WithoutVMFacts DEF TypeInv, RetriesTyped, RetryRecord
  <2>2. RetriesTyped'
    BY <1>18, StepTyped DEF RetryPlan, TypeInv
  <2>3. PlanTyped'
    BY <1>18, <2>1 DEF RetryPlan, TypeInv, PlanTyped
  <2>4. BoundsTyped'
    BY <1>18, FaultTyped DEF RetryPlan, Fails, TypeInv
  <2>5. QED
    BY <1>1, <1>18, <2>2, <2>3, <2>4 DEF RetryPlan, page,
       TypeInv, ListTyped, PrefillTyped, PlacesTyped, GroupsTyped
<1>19. ASSUME NEW r \in retries, RetryDelete(r) \/ PollUntilGone(r) \/ RetryPost(r)
       PROVE  TypeInv'
  <2>1. RetriesTyped'
    BY <1>19, StepTyped DEF RetryDelete, PollUntilGone, RetryPost, TypeInv
  <2>2. BoundsTyped'
    BY <1>19, FaultTyped DEF RetryDelete, PollUntilGone, RetryPost, Fails, TypeInv
  <2>3. UNCHANGED <<plan, page, dialog, groups, bulk, drawer, prefill, erased>>
    BY <1>19 DEF RetryDelete, PollUntilGone, RetryPost, server
  <2>4. QED
    BY <1>1, <2>1, <2>2, <2>3 DEF page,
       TypeInv, PlanTyped, ListTyped, PrefillTyped, PlacesTyped, GroupsTyped
<1>20. ASSUME NEW r \in retries, RetryNewPlan(r)
       PROVE  TypeInv'
  <2>1. <<{r.vm}>> \in Batchings /\ NewPlans \subseteq Plans
    BY SingleBatch DEF TypeInv, RetriesTyped, RetryRecord, Plans
  <2>2. RetriesTyped'
    BY <1>20, StepTyped DEF RetryNewPlan, TypeInv
  <2>3. PlanTyped'
    BY <1>20, <2>1 DEF RetryNewPlan, TypeInv, PlanTyped
  <2>4. PlacesTyped'
    BY <1>20 DEF RetryNewPlan, TypeInv, PlacesTyped
  <2>5. BoundsTyped'
    BY <1>20, FaultTyped DEF RetryNewPlan, TypeInv
  <2>6. QED
    BY <1>1, <1>20, <2>2, <2>3, <2>4, <2>5 DEF RetryNewPlan, page,
       TypeInv, ListTyped, PrefillTyped, GroupsTyped
<1>21. ASSUME NEW r \in retries, RetryFlavor(r)
       PROVE  TypeInv'
  <2>1. RetriesTyped'
    BY <1>21 DEF RetryFlavor, RetryEnds, TypeInv, RetriesTyped
  <2>2. PlacesTyped'
    BY <1>21 DEF RetryFlavor, TypeInv, PlacesTyped, DrawerRecord
  <2>3. BoundsTyped'
    BY <1>21, FaultTyped DEF RetryFlavor, TypeInv
  <2>4. QED
    BY <1>1, <1>21, <2>1, <2>2, <2>3 DEF RetryFlavor, server, page,
       TypeInv, PlanTyped, ListTyped, PrefillTyped, GroupsTyped
<1>22. CASE UNCHANGED vars
  BY <1>1, <1>22 DEF vars, server, page,
     TypeInv, PlanTyped, ListTyped, PrefillTyped, PlacesTyped, GroupsTyped, RetriesTyped,
     BoundsTyped
<1>23. QED
  BY <1>2, <1>4, <1>5, <1>6, <1>7, <1>8, <1>9, <1>10, <1>11, <1>12, <1>13, <1>14, <1>15,
     <1>16, <1>17, <1>18, <1>19, <1>20, <1>21, <1>22 DEF Next, Operator, RetryStep

(* The plan controller.                                                     *)
ControlTyped ==
  /\ status \in [Plans -> Statuses]
  /\ reconcile \in [Plans -> (SUBSET VMs) \cup {None}]

LEMMA ControlInit == Init => ControlTyped
  BY DEF Init, ControlTyped, Statuses

LEMMA ControlStep ==
  ASSUME TypeInv, ControlTyped, [Next]_vars
  PROVE  ControlTyped'
<1>1. ASSUME NEW p \in Plans, ResetPlan(p)
      PROVE  ControlTyped'
  BY <1>1 DEF ResetPlan, ControlTyped, Statuses
<1>2. ASSUME NEW p \in Plans, ReadPlan(p)
      PROVE  ControlTyped'
  <2>1. AllVMs(plan[p]) \subseteq VMs
    BY <1>2, BatchingFacts DEF ReadPlan, TypeInv, PlanTyped
  <2>2. QED
    BY <1>2, <2>1 DEF ReadPlan, ControlTyped
<1>3. ASSUME NEW p \in Plans, NEW v \in VMs, CreateMigration(p, v)
      PROVE  ControlTyped'
  <2>1. reconcile[p] \ {v} \in SUBSET VMs
    BY <1>3 DEF CreateMigration, ControlTyped
  <2>2. QED
    BY <1>3, <2>1 DEF CreateMigration, ControlTyped
<1>4. ASSUME NEW p \in Plans, EndReconcile(p)
      PROVE  ControlTyped'
  <2>1. PlanOutcome(p) \in Statuses
    BY DEF PlanOutcome, ControlTyped, Statuses
  <2>2. status' \in [Plans -> Statuses]
    BY <1>4, <2>1 DEF EndReconcile, ControlTyped
  <2>3. QED
    BY <1>4, <2>2 DEF EndReconcile, ControlTyped
<1>5. ASSUME NEW r \in retries, RetryNewPlan(r)
      PROVE  ControlTyped'
  <2>1. status' = status \/ \E q : status' = [status EXCEPT ![q] = "active"]
    BY <1>5 DEF RetryNewPlan
  <2>2. QED
    BY <1>5, <2>1 DEF RetryNewPlan, ControlTyped, Statuses
<1>6. CASE UNCHANGED control
  BY <1>6 DEF control, ControlTyped
<1>7. ASSUME NEW r \in retries,
             RetryPlan(r) \/ RetryDelete(r) \/ PollUntilGone(r) \/ RetryPost(r) \/ RetryFlavor(r)
      PROVE  UNCHANGED control
  BY <1>7 DEF RetryPlan, RetryDelete, PollUntilGone, RetryPost, RetryFlavor, server
<1>8. ASSUME NEW v \in VMs,
             \/ RemoveMigration(v) \/ CollectMigration(v)
             \/ \E phase \in {"Failed", "Succeeded"} : EndMigration(v, phase)
      PROVE  UNCHANGED control
  BY <1>8 DEF RemoveMigration, CollectMigration, EndMigration
<1>9. CASE Operator \/ Poll \/ DeleteDone \/ PrefillAnswer \/ UNCHANGED vars
  <2>1. UNCHANGED control
    BY <1>9 DEF Operator, DeleteClose, DeleteConfirm, CancelRetry, HandleEditAndRetry, DeleteClick,
       HandleBulkRetry, OpenRetry, Poll, DeleteDone, PrefillAnswer, vars, server
  <2>2. QED
    BY <1>6, <2>1
<1>10. CASE \E g \in groups : GroupGet(g) \/ GroupPatch(g) \/ \E v \in g.todo : GroupDelete(g, v)
  <2>1. UNCHANGED control
    BY <1>10 DEF GroupGet, GroupPatch, GroupDelete, server
  <2>2. QED
    BY <1>6, <2>1
<1>11. CASE \E v \in bulk : BulkDelete(v)
  <2>1. UNCHANGED control
    BY <1>11 DEF BulkDelete
  <2>2. QED
    BY <1>6, <2>1
<1>12. QED
  BY <1>1, <1>2, <1>3, <1>4, <1>5, <1>6, <1>7, <1>8, <1>9, <1>10, <1>11
     DEF Next, Controllers, RetryStep

(***************************************************************************)
(* Whose turn it is.                                                       *)
(***************************************************************************)
(* The operator acts on what is the case and waits for what was started,    *)
(* and the last request of a retry, after the new plan, does not fail.      *)
Patient ==
  /\ Cached = FALSE /\ Impatient = FALSE /\ StaleRows = FALSE
  /\ "flavor" \notin Failing

TurnInv ==
  /\ dialog # NoDialog \/ groups # {} => drawer = NoDrawer /\ retries = {}
  /\ \A r, s \in retries : r = s
  /\ \A r \in retries : /\ r.mine <=> drawer # NoDrawer
                        /\ drawer # NoDrawer => r.vm = drawer.vm

LEMMA CalmTurn ==
  ASSUME Impatient = FALSE, Calm
  PROVE  dialog = NoDialog /\ groups = {} /\ drawer = NoDrawer /\ retries = {}
  BY DEF Calm

LEMMA StepTurn ==
  ASSUME TypeInv, TurnInv, NEW r \in retries, NEW pc,
         Step(r, pc) \/ RetryEnds(r), UNCHANGED <<dialog, groups, drawer>>
  PROVE  TurnInv'
<1>1. retries = {r}
  BY DEF TurnInv
<1>2. LET s == [r EXCEPT !.pc = pc] IN s.mine = r.mine /\ s.vm = r.vm
  BY DEF TypeInv, RetriesTyped, RetryRecord
<1>3. retries' \subseteq {[r EXCEPT !.pc = pc]}
  BY <1>1 DEF Step, RetryEnds
<1>4. dialog = NoDialog /\ groups = {}
  BY <1>1 DEF TurnInv
<1>5. QED
  BY <1>1, <1>2, <1>3, <1>4 DEF TurnInv

LEMMA TurnInit == Init => TurnInv
  BY DEF Init, TurnInv

LEMMA TurnStep ==
  ASSUME Impatient = FALSE, TypeInv, TurnInv, [Next]_vars
  PROVE  TurnInv'
<1>1. CASE Poll \/ UNCHANGED vars
  <2>1. UNCHANGED <<dialog, groups, drawer, retries>>
    BY <1>1 DEF Poll, vars
  <2>2. QED
    BY <2>1 DEF TurnInv
<1>2. CASE \/ Controllers
         \/ \E v \in VMs, phase \in {"Failed", "Succeeded"} : EndMigration(v, phase)
  <2>1. UNCHANGED <<dialog, groups, drawer, retries>>
    BY <1>2, ControllersFrame
  <2>2. QED
    BY <2>1 DEF TurnInv
<1>3. ASSUME NEW S \in SUBSET VMs, DeleteClick(S)
      PROVE  TurnInv'
  BY <1>3, CalmTurn DEF DeleteClick, TurnInv
<1>4. CASE DeleteClose
  BY <1>4 DEF DeleteClose, NoDialog, TurnInv
<1>5. CASE DeleteConfirm
  BY <1>5 DEF DeleteConfirm, NoDialog, TurnInv
<1>6. ASSUME NEW g \in groups, GroupGet(g) \/ GroupPatch(g) \/ \E v \in g.todo : GroupDelete(g, v)
      PROVE  TurnInv'
  <2>1. drawer = NoDrawer /\ retries = {}
    BY <1>6 DEF TurnInv
  <2>2. UNCHANGED <<drawer, retries>>
    BY <1>6 DEF GroupGet, GroupPatch, GroupDelete
  <2>3. QED
    BY <2>1, <2>2 DEF TurnInv
<1>7. CASE DeleteDone
  BY <1>7 DEF DeleteDone, NoDialog, TurnInv
<1>8. ASSUME NEW S \in SUBSET VMs, HandleBulkRetry(S)
      PROVE  TurnInv'
  BY <1>8 DEF HandleBulkRetry, TurnInv
<1>9. ASSUME NEW v \in bulk, BulkDelete(v)
      PROVE  TurnInv'
  BY <1>9 DEF BulkDelete, TurnInv
<1>10. ASSUME NEW v \in VMs, OpenRetry(v)
       PROVE  TurnInv'
  BY <1>10, CalmTurn DEF OpenRetry, TurnInv
<1>11. CASE PrefillAnswer
  <2>1. drawer \in [vm : VMs, query : {"loading", "loaded", "error"}]
    BY <1>11 DEF PrefillAnswer, TypeInv, PlacesTyped, DrawerRecord, NoDrawer
  <2>2. drawer # NoDrawer
    BY <2>1 DEF NoDrawer
  <2>3. drawer'.vm = drawer.vm /\ drawer' # NoDrawer
    BY <1>11, <2>1 DEF PrefillAnswer, NoDrawer
  <2>4. UNCHANGED <<dialog, groups, retries>>
    BY <1>11 DEF PrefillAnswer
  <2>5. QED
    BY <2>2, <2>3, <2>4 DEF TurnInv
<1>12. CASE CancelRetry
  <2>1. \A r \in retries : [r EXCEPT !.mine = FALSE].mine = FALSE
    BY DEF TypeInv, RetriesTyped, RetryRecord
  <2>2. QED
    BY <1>12, <2>1 DEF CancelRetry, TurnInv
<1>13. CASE HandleEditAndRetry
  <2>1. drawer # NoDrawer
    BY <1>13 DEF HandleEditAndRetry, NoDrawer
  <2>2. retries = {}
    BY <1>13, <2>1 DEF HandleEditAndRetry, TurnInv
  <2>3. QED
    BY <1>13, <2>1, <2>2 DEF HandleEditAndRetry, TurnInv
<1>14. ASSUME NEW r \in retries,
              RetryPlan(r) \/ RetryDelete(r) \/ PollUntilGone(r) \/ RetryPost(r) \/ RetryNewPlan(r)
       PROVE  TurnInv'
  <2>1. UNCHANGED <<dialog, groups, drawer>>
    BY <1>14 DEF RetryPlan, RetryDelete, PollUntilGone, RetryPost, RetryNewPlan
  <2>2. PICK pc : Step(r, pc) \/ RetryEnds(r)
    BY <1>14 DEF RetryPlan, RetryDelete, PollUntilGone, RetryPost, RetryNewPlan
  <2>3. QED
    BY <2>1, <2>2, StepTurn
<1>15. ASSUME NEW r \in retries, RetryFlavor(r)
       PROVE  TurnInv'
  <2>1. retries' = {}
    BY <1>15 DEF RetryFlavor, RetryEnds, TurnInv
  <2>2. QED
    BY <1>15, <2>1 DEF RetryFlavor, TurnInv
<1>16. QED
  BY <1>1, <1>2, <1>3, <1>4, <1>5, <1>6, <1>7, <1>8, <1>9, <1>10, <1>11, <1>12, <1>13, <1>14,
     <1>15 DEF Next, Operator, RetryStep

LEMMA TypeFollows ==
  ASSUME TypeInv, TurnInv, ReportInv, ControlTyped
  PROVE  TypeOK
<1>1. Cardinality({r \in retries : r.mine}) <= 1
  <2>1. CASE {r \in retries : r.mine} = {}
    BY <2>1, FS_EmptySet
  <2>2. CASE {r \in retries : r.mine} # {}
    <3>1. PICK r \in retries : r.mine
      BY <2>2
    <3>2. {s \in retries : s.mine} = {r}
      BY <3>1 DEF TurnInv
    <3>3. Cardinality({r}) = 1
      BY FS_Singleton
    <3>4. QED
      BY <3>2, <3>3
  <2>3. QED
    BY <2>1, <2>2
<1>2. \A p \in Plans : /\ plan[p] \in Batchings \cup {None} /\ status[p] \in Statuses
                     /\ reconcile[p] \in (SUBSET VMs) \cup {None}
  BY DEF TypeInv, PlanTyped, ControlTyped
<1>3. \A v \in VMs : /\ {migration[v], list[v]} \subseteq MigrationRecord \cup {None}
                     /\ tracker[v] \in TrackerRecord \cup {None}
                     /\ prefill[v] \in PrefillRecord \cup {None}
  BY DEF TypeInv, MigrationTyped, ListTyped, PrefillTyped, ReportInv, TrackerTyped
<1>4. \A g \in groups : g.pc \in {"get", "patch", "delete"} /\ g.todo \subseteq g.vms
  BY DEF TypeInv, GroupsTyped, GroupRecord
<1>5. \A r \in retries : r.vm \in VMs /\ (r.mine => drawer.vm = r.vm)
  BY DEF TypeInv, RetriesTyped, RetryRecord, TurnInv
<1>6. dialog.pc \in {"closed", "asked", "deleting"} /\ drawer.vm \in VMs \cup {None}
  BY DEF TypeInv, PlacesTyped, DialogRecord, DrawerRecord, NoDrawer
<1>7. /\ erased \subseteq VMs /\ reported \cup stale \subseteq VMs
      /\ ops \in 0..MaxOps /\ faults \in 0..MaxFaults
  BY DEF ReportInv, TypeInv, PlacesTyped, BoundsTyped
<1>8. QED
  BY <1>1, <1>2, <1>3, <1>4, <1>5, <1>6, <1>7 DEF TypeOK

(* The dialog, the request groups, the drawer, the retries and the tracker  *)
(* keep their shape, and a submitted retry belongs to the drawer that is    *)
(* open, for any VMs, plans, failures and steps of the controllers, as long *)
(* as nothing is started while a cancelled retry runs on.                   *)
THEOREM TypeCorrect == ASSUME Impatient = FALSE PROVE Spec => []TypeOK
<1> DEFINE Shape == TypeInv /\ TurnInv /\ ReportInv /\ ControlTyped
<1>1. Init => Shape
  BY TypeInit, TurnInit, ReportInit, ControlInit
<1>2. Shape /\ [Next]_vars => Shape'
  BY TypeStep, TurnStep, ReportStep, ControlStep
<1>3. Shape => TypeOK
  BY TypeFollows
<1>4. QED
  BY <1>1, <1>2, <1>3, PTL DEF Spec

(***************************************************************************)
(* Which plan a VM is in.                                                  *)
(***************************************************************************)
OnlyIn(p, v) == \A q \in Plans : Holds(q, v) => q = p
OneOwner == \A v \in VMs : \A p, q \in Plans : Holds(p, v) /\ Holds(q, v) => p = q
ErasedOut == \A v \in erased : ~Planned(v)

GroupOwns(g) ==
  /\ \A v \in g.vms : OnlyIn(g.plan, v)
  /\ g.pc = "patch" /\ plan[g.plan] # None => g.rest = FirstBatch(plan[g.plan]) \ g.vms
  /\ g.pc = "delete" => \A v \in g.vms : ~Planned(v)
GroupsOwn ==
  /\ \A g, h \in groups : g.plan = h.plan => g = h
  /\ \A g \in groups : GroupOwns(g)

Handled(m) == \E g \in groups : g.plan = m.plan /\ m.vm \in g.vms
DialogOwns ==
  /\ \A m \in dialog.sel : OnlyIn(m.plan, m.vm)
  /\ dialog.pc = "deleting" => \A m \in dialog.sel : ~Planned(m.vm) \/ Handled(m)

(* The batches b that a retry of v loaded from plan p still say which other *)
(* VMs the plan holds.                                                      *)
UpToDate(v, p, b) ==
  /\ v \in AllVMs(b)
  /\ plan[p] # None => AllVMs(plan[p]) \ {v} = AllVMs(b) \ {v}
DrawerOwns ==
  /\ drawer.query \in {"loading", "error"} => retries = {} /\ prefill[drawer.vm] = None
  /\ drawer.query = "loaded" =>
       /\ prefill[drawer.vm] # None
       /\ \A r \in retries : /\ r.plan = prefill[drawer.vm].plan
                             /\ r.batches = prefill[drawer.vm].batches
       /\ (\A r \in retries : r.pc # "flavor") =>
            /\ UpToDate(drawer.vm, prefill[drawer.vm].plan, prefill[drawer.vm].batches)
            /\ OnlyIn(prefill[drawer.vm].plan, drawer.vm)
RetryOwns(r) ==
  /\ r.pc # "flavor" => UpToDate(r.vm, r.plan, r.batches)
  /\ r.pc = "plan" => OnlyIn(r.plan, r.vm)
  /\ r.pc \notin {"plan", "flavor"} => ~Planned(r.vm)
RetriesOwn == \A r \in retries : RetryOwns(r)

OwnerInv == OneOwner /\ ErasedOut /\ GroupsOwn /\ DialogOwns /\ DrawerOwns /\ RetriesOwn
Inv == TypeInv /\ TurnInv /\ OwnerInv

LEMMA OwnerInit == Init => OwnerInv
<1> SUFFICES ASSUME Init PROVE OwnerInv
  OBVIOUS
<1>1. OneOwner
  <2>1. \A p \in Plans, v \in VMs : Holds(p, v) => p \in OldPlans /\ v \in AllVMs(Batches[p])
    BY DEF Init, Holds
  <2>2. QED
    BY <2>1, ConsoleAssumption DEF OneOwner
<1>2. QED
  BY <1>1 DEF Init, OwnerInv, ErasedOut, GroupsOwn, DialogOwns, DrawerOwns, RetriesOwn, NoDialog,
     NoDrawer

(* Steps that put no VM into a plan.                                        *)
Shrinks == \A p \in Plans, v \in VMs : Holds(p, v)' => Holds(p, v)
LEMMA Shrinking ==
  ASSUME Shrinks
  PROVE  /\ OneOwner => OneOwner'
         /\ \A p, v : v \in VMs /\ OnlyIn(p, v) => OnlyIn(p, v)'
         /\ \A v \in VMs : ~Planned(v) => ~Planned(v)'
  BY DEF Shrinks, OneOwner, OnlyIn, Planned

LEMMA GroupFacts ==
  ASSUME TypeInv, NEW g \in groups
  PROVE  g \in GroupRecord /\ g.plan \in Plans /\ g.vms \subseteq VMs
  BY DEF TypeInv, GroupsTyped, GroupRecord
LEMMA RetryFacts ==
  ASSUME TypeInv, NEW r \in retries
  PROVE  r \in RetryRecord /\ r.vm \in VMs /\ r.plan \in Plans /\ r.batches \in Batchings
  BY DEF TypeInv, RetriesTyped, RetryRecord
LEMMA SelectionFacts ==
  ASSUME TypeInv, NEW m \in dialog.sel
  PROVE  m.vm \in VMs /\ m.plan \in Plans
  BY DEF TypeInv, PlacesTyped, DialogRecord, Selection
LEMMA DrawerFacts ==
  ASSUME TypeInv
  PROVE  /\ drawer # NoDrawer => drawer.vm \in VMs /\ drawer.query \in {"loading", "loaded", "error"}
         /\ drawer = NoDrawer => drawer.query = "idle"
  BY DEF TypeInv, PlacesTyped, DrawerRecord, NoDrawer
LEMMA Holding ==
  ASSUME TypeInv, NEW p \in Plans, NEW v, Holds(p, v)
  PROVE  v \in VMs
  BY BatchingFacts DEF Holds, TypeInv, PlanTyped

(* As long as plans and what was loaded from them stay, the rest does.      *)
LEMMA StillOwned ==
  ASSUME OwnerInv, UNCHANGED <<plan, dialog, groups, drawer, prefill, retries, erased>>
  PROVE  OwnerInv'
<1>1. OneOwner' /\ ErasedOut' /\ GroupsOwn' /\ DialogOwns'
  BY DEF OwnerInv, OneOwner, ErasedOut, GroupsOwn, GroupOwns, DialogOwns, Handled, OnlyIn,
     Planned, Holds
<1>2. DrawerOwns'
  BY DEF OwnerInv, DrawerOwns, UpToDate, OnlyIn, Holds
<1>3. RetriesOwn'
  BY DEF OwnerInv, RetriesOwn, RetryOwns, UpToDate, OnlyIn, Planned, Holds
<1>4. QED
  BY <1>1, <1>2, <1>3 DEF OwnerInv

LEMMA BackgroundOwns ==
  ASSUME Inv,
         \/ Controllers \/ Poll \/ UNCHANGED vars
         \/ \E v \in VMs, phase \in {"Failed", "Succeeded"} : EndMigration(v, phase)
  PROVE  OwnerInv'
<1>1. UNCHANGED <<plan, dialog, groups, drawer, prefill, retries, erased>>
  BY ControllersFrame DEF Poll, vars, server
<1>2. QED
  BY <1>1, StillOwned DEF Inv

LEMMA BulkOwns ==
  ASSUME Inv, \/ \E S \in SUBSET VMs : HandleBulkRetry(S)
              \/ \E v \in bulk : BulkDelete(v)
  PROVE  OwnerInv'
<1>1. UNCHANGED <<plan, dialog, groups, drawer, prefill, retries, erased>>
  BY DEF HandleBulkRetry, BulkDelete, server
<1>2. QED
  BY <1>1, StillOwned DEF Inv

LEMMA NoneOpen ==
  ASSUME TurnInv, TypeInv, dialog # NoDialog \/ groups # {}
  PROVE  drawer = NoDrawer /\ retries = {} /\ drawer.query = "idle"
  BY DrawerFacts DEF TurnInv
LEMMA NoneDeleting ==
  ASSUME TurnInv, retries # {} \/ drawer # NoDrawer
  PROVE  dialog = NoDialog /\ groups = {} /\ dialog.sel = {} /\ dialog.pc = "closed"
  BY DEF TurnInv, NoDialog

(* With the drawer closed and no retry the retry's part says nothing.       *)
LEMMA RetryIdle ==
  ASSUME drawer = NoDrawer, retries = {}, UNCHANGED <<drawer, retries>>
  PROVE  DrawerOwns' /\ RetriesOwn'
<1>1. drawer'.query = "idle"
  BY DEF NoDrawer
<1>2. QED
  BY <1>1 DEF DrawerOwns, RetriesOwn

(* With the dialog closed and no group the deletion's part says nothing.    *)
LEMMA DeleteIdle ==
  ASSUME dialog = NoDialog, groups = {}, UNCHANGED <<dialog, groups>>
  PROVE  GroupsOwn' /\ DialogOwns'
  BY DEF NoDialog, GroupsOwn, DialogOwns

LEMMA StillOne ==
  ASSUME OwnerInv, UNCHANGED <<plan, erased>>
  PROVE  OneOwner' /\ ErasedOut'
  BY DEF OwnerInv, OneOwner, ErasedOut, Planned, Holds

LEMMA DeleteClickOwns ==
  ASSUME Patient, Inv, NEW S \in SUBSET VMs, DeleteClick(S)
  PROVE  OwnerInv'
<1>1. OneOwner' /\ ErasedOut'
  BY StillOne DEF Inv, DeleteClick, server
<1>2. drawer = NoDrawer /\ retries = {} /\ groups = {} /\ UNCHANGED <<drawer, retries, groups>>
  BY CalmTurn DEF DeleteClick, Patient
<1>3. DrawerOwns' /\ RetriesOwn'
  BY <1>2, RetryIdle
<1>4. GroupsOwn'
  BY <1>2 DEF GroupsOwn
<1>5. \A v \in S : v \in VMs /\ list[v].plan \in Plans /\ OnlyIn(list[v].plan, v)
  BY ListedOwner DEF DeleteClick, Patient, Current, Listed, Inv, OwnerInv, OneOwner, OnlyIn
<1>6. DialogOwns'
  <2>1. dialog'.pc = "asked" /\ dialog'.sel = {[vm |-> v, plan |-> list[v].plan] : v \in S}
    BY DEF DeleteClick
  <2>2. \A m \in dialog'.sel : OnlyIn(m.plan, m.vm)
    BY <1>5, <2>1
  <2>3. plan' = plan
    BY DEF DeleteClick, server
  <2>4. QED
    BY <2>1, <2>2, <2>3 DEF DialogOwns, OnlyIn, Holds
<1>7. QED
  BY <1>1, <1>3, <1>4, <1>6 DEF OwnerInv

LEMMA DeleteCloseOwns ==
  ASSUME Inv, DeleteClose
  PROVE  OwnerInv'
<1>1. OneOwner' /\ ErasedOut'
  BY StillOne DEF Inv, DeleteClose, server
<1>2. dialog # NoDialog
  BY DEF DeleteClose, NoDialog
<1>3. DrawerOwns' /\ RetriesOwn'
  BY <1>2, NoneOpen, RetryIdle DEF DeleteClose, Inv
<1>4. GroupsOwn'
  BY DEF DeleteClose, Inv, OwnerInv, GroupsOwn, GroupOwns, OnlyIn, Planned, Holds, server
<1>5. DialogOwns'
  BY DEF DeleteClose, DialogOwns, NoDialog
<1>6. QED
  BY <1>1, <1>3, <1>4, <1>5 DEF OwnerInv

LEMMA DeleteConfirmOwns ==
  ASSUME Inv, DeleteConfirm
  PROVE  OwnerInv'
<1>1. OneOwner' /\ ErasedOut' /\ plan' = plan
  BY StillOne DEF Inv, DeleteConfirm, server
<1>2. dialog # NoDialog /\ dialog'.sel = dialog.sel
  BY DEF DeleteConfirm, NoDialog, Inv, TypeInv, PlacesTyped, DialogRecord
<1>3. DrawerOwns' /\ RetriesOwn'
  BY <1>2, NoneOpen, RetryIdle DEF DeleteConfirm, Inv
<1> DEFINE Group(p) ==
      [plan |-> p, vms |-> {m.vm : m \in {n \in dialog.sel : n.plan = p}},
       todo |-> {m.vm : m \in {n \in dialog.sel : n.plan = p}}, pc |-> "get", rest |-> {}]
<1>4. groups' = {Group(p) : p \in {m.plan : m \in dialog.sel}}
  BY DEF DeleteConfirm, ByPlan
<1>5. \A p : /\ Group(p).plan = p /\ Group(p).pc = "get"
            /\ Group(p).vms = {m.vm : m \in {n \in dialog.sel : n.plan = p}}
  OBVIOUS
<1> HIDE DEF Group
<1>6. \A m \in dialog.sel : OnlyIn(m.plan, m.vm)'
  BY <1>1 DEF Inv, OwnerInv, DialogOwns, OnlyIn, Holds
<1>7. GroupsOwn'
  <2>1. \A g, h \in groups' : g.plan = h.plan => g = h
    BY <1>4, <1>5
  <2>2. \A g \in groups' : /\ g.pc = "get"
                           /\ \A v \in g.vms : OnlyIn(g.plan, v)'
    BY <1>4, <1>5, <1>6
  <2>3. QED
    BY <2>1, <2>2 DEF GroupsOwn, GroupOwns
<1>8. \A m \in dialog.sel : \E g \in groups' : g.plan = m.plan /\ m.vm \in g.vms
  BY <1>4, <1>5
<1>9. DialogOwns'
  BY <1>2, <1>6, <1>8 DEF DialogOwns, Handled
<1>10. QED
  BY <1>1, <1>3, <1>7, <1>9 DEF OwnerInv

(* A request of a group fails: the dialog asks again, no group is new.      *)
LEMMA GroupGone ==
  ASSUME Inv, NEW g \in groups, DeletionFails(g), UNCHANGED plan
  PROVE  GroupsOwn' /\ DialogOwns'
<1>1. groups' \subseteq groups /\ dialog'.sel = dialog.sel /\ dialog'.pc = "asked"
  BY DEF DeletionFails, Inv, TypeInv, PlacesTyped, DialogRecord
<1>2. QED
  BY <1>1 DEF Inv, OwnerInv, GroupsOwn, GroupOwns, DialogOwns, OnlyIn, Planned, Holds

LEMMA GroupGetOwns ==
  ASSUME Inv, NEW g \in groups, GroupGet(g)
  PROVE  OwnerInv'
<1>1. OneOwner' /\ ErasedOut' /\ plan' = plan
  BY StillOne DEF Inv, GroupGet, server
<1>2. DrawerOwns' /\ RetriesOwn'
  BY NoneOpen, RetryIdle DEF GroupGet, Inv
<1>3. CASE DeletionFails(g)
  BY <1>1, <1>2, <1>3, GroupGone DEF OwnerInv
<1>4. CASE ~DeletionFails(g)
  <2>0. PICK h : h = [g EXCEPT !.pc = "patch", !.rest = FirstBatch(plan[g.plan]) \ g.vms]
    OBVIOUS
  <2>1. groups' = (groups \ {g}) \cup {h} /\ dialog' = dialog
    BY <1>4, <2>0 DEF GroupGet
  <2>2. h.plan = g.plan /\ h.vms = g.vms /\ h.pc = "patch" /\ h.rest = FirstBatch(plan[g.plan]) \ g.vms
    BY <2>0, GroupFacts DEF GroupRecord, Inv
  <2>3. GroupsOwn'
    <3>1. \A a, b \in groups' : a.plan = b.plan => a = b
      <4>1. \A a, b \in groups : a.plan = b.plan => a = b
        BY DEF Inv, OwnerInv, GroupsOwn
      <4>2. \A a \in groups \ {g} : a.plan # h.plan
        BY <2>2, <4>1
      <4>3. QED
        BY <2>1, <4>1, <4>2
    <3>2. GroupOwns(h)'
      BY <1>1, <2>2 DEF Inv, OwnerInv, GroupsOwn, GroupOwns, OnlyIn, Holds
    <3>3. \A a \in groups : GroupOwns(a)'
      BY <1>1 DEF Inv, OwnerInv, GroupsOwn, GroupOwns, OnlyIn, Planned, Holds
    <3>4. QED
      BY <2>1, <3>1, <3>2, <3>3 DEF GroupsOwn
  <2>4. DialogOwns'
    <3>1. \A m \in dialog.sel : OnlyIn(m.plan, m.vm)' /\ (~Planned(m.vm) => ~Planned(m.vm)')
      BY <1>1 DEF Inv, OwnerInv, DialogOwns, OnlyIn, Planned, Holds
    <3>2. \A m \in dialog.sel : Handled(m) => Handled(m)'
      BY <2>1, <2>2 DEF Handled
    <3>3. QED
      BY <2>1, <3>1, <3>2 DEF Inv, OwnerInv, DialogOwns
  <2>5. QED
    BY <1>1, <1>2, <2>3, <2>4 DEF OwnerInv
<1>5. QED
  BY <1>3, <1>4

(* The patch leaves the plan with some of its VMs.                          *)
LEMMA PatchShrinks ==
  ASSUME Inv, NEW g \in groups, g.pc = "patch", plan[g.plan] # None,
         plan' = [plan EXCEPT ![g.plan] = <<g.rest>>]
  PROVE  /\ Shrinks
         /\ \A v \in g.vms : ~Planned(v)'
         /\ \A q \in Plans \ {g.plan} : plan'[q] = plan[q]
<1>1. g.plan \in Plans /\ g.vms \subseteq VMs /\ plan[g.plan] \in Batchings
  BY GroupFacts DEF Inv, TypeInv, PlanTyped
<1>2. g.rest = FirstBatch(plan[g.plan]) \ g.vms /\ \A v \in g.vms : OnlyIn(g.plan, v)
  BY DEF Inv, OwnerInv, GroupsOwn, GroupOwns
<1>3. g.rest \in SUBSET VMs /\ g.rest \subseteq AllVMs(plan[g.plan])
  BY <1>1, <1>2, BatchingFacts
<1>4. AllVMs(<<g.rest>>) = g.rest
  BY <1>3, SingleBatch
<1>5. plan'[g.plan] = <<g.rest>> /\ \A q \in Plans \ {g.plan} : plan'[q] = plan[q]
  BY <1>1 DEF Inv, TypeInv, PlanTyped
<1>6. Shrinks
  <2> SUFFICES ASSUME NEW q \in Plans, NEW v \in VMs, Holds(q, v)'
               PROVE  Holds(q, v)
    BY DEF Shrinks
  <2>1. CASE q = g.plan
    <3>1. v \in g.rest
      BY <1>4, <1>5, <2>1 DEF Holds
    <3> QED BY <1>3, <2>1, <3>1 DEF Holds
  <2>2. CASE q # g.plan
    BY <1>5, <2>2 DEF Holds
  <2> QED BY <2>1, <2>2
<1>7. \A v \in g.vms : ~Planned(v)'
  <2> SUFFICES ASSUME NEW v \in g.vms, NEW q \in Plans, Holds(q, v)'
               PROVE  FALSE
    BY DEF Planned
  <2>1. CASE q = g.plan
    <3>1. v \in g.rest
      BY <1>4, <1>5, <2>1 DEF Holds
    <3> QED BY <1>2, <3>1
  <2>2. CASE q # g.plan
    <3>1. Holds(q, v)
      BY <1>5, <2>2 DEF Holds
    <3> QED BY <1>2, <2>2, <3>1 DEF OnlyIn
  <2> QED BY <2>1, <2>2
<1>8. QED
  BY <1>5, <1>6, <1>7

LEMMA GroupPatchOwns ==
  ASSUME Inv, NEW g \in groups, GroupPatch(g)
  PROVE  OwnerInv'
<1>1. DrawerOwns' /\ RetriesOwn'
  BY NoneOpen, RetryIdle DEF GroupPatch, Inv
<1>2. CASE DeletionFails(g) /\ UNCHANGED plan
  <2>1. OneOwner' /\ ErasedOut'
    BY <1>2, StillOne DEF Inv, GroupPatch
  <2>2. QED
    BY <1>1, <1>2, <2>1, GroupGone DEF OwnerInv
<1>3. CASE ~(DeletionFails(g) /\ UNCHANGED plan)
  <2> DEFINE h == [g EXCEPT !.pc = "delete"]
  <2>1. /\ groups' = (groups \ {g}) \cup {h} /\ dialog' = dialog /\ g.pc = "patch"
        /\ plan[g.plan] # None /\ plan' = [plan EXCEPT ![g.plan] = <<g.rest>>]
        /\ erased' = erased
    BY <1>3 DEF GroupPatch
  <2>2. h.plan = g.plan /\ h.vms = g.vms /\ h.pc = "delete"
    BY GroupFacts DEF GroupRecord, Inv
  <2>3. /\ Shrinks
        /\ \A v \in g.vms : ~Planned(v)'
        /\ \A q \in Plans \ {g.plan} : plan'[q] = plan[q]
    BY <2>1, PatchShrinks
  <2>4. /\ OneOwner'
        /\ \A p, v : v \in VMs /\ OnlyIn(p, v) => OnlyIn(p, v)'
        /\ \A v \in VMs : ~Planned(v) => ~Planned(v)'
    BY <2>3, Shrinking DEF Inv, OwnerInv
  <2>5. ErasedOut'
    BY <2>1, <2>4 DEF ErasedOut, Inv, OwnerInv, TypeInv, PlacesTyped
  <2>6. GroupsOwn'
    <3>1. \A a, b \in groups' : a.plan = b.plan => a = b
      <4>1. \A a, b \in groups : a.plan = b.plan => a = b
        BY DEF Inv, OwnerInv, GroupsOwn
      <4>2. \A a \in groups \ {g} : a.plan # h.plan
        BY <2>2, <4>1
      <4>3. QED
        BY <2>1, <4>1, <4>2
    <3>2. GroupOwns(h)'
      BY <2>2, <2>3, <2>4, GroupFacts DEF Inv, OwnerInv, GroupsOwn, GroupOwns
    <3>3. ASSUME NEW a \in groups \ {g} PROVE GroupOwns(a)'
      <4>1. a.plan \in Plans \ {g.plan} /\ a.vms \subseteq VMs
        BY GroupFacts DEF Inv, OwnerInv, GroupsOwn
      <4>2. GroupOwns(a) /\ plan'[a.plan] = plan[a.plan]
        BY <2>3, <4>1 DEF Inv, OwnerInv, GroupsOwn
      <4>3. QED
        BY <2>4, <4>1, <4>2 DEF GroupOwns
    <3>4. QED
      BY <2>1, <3>1, <3>2, <3>3 DEF GroupsOwn
  <2>7. DialogOwns'
    <3>1. \A m \in dialog.sel : OnlyIn(m.plan, m.vm)'
      BY <2>4, SelectionFacts DEF Inv, OwnerInv, DialogOwns
    <3>2. \A m \in dialog.sel : ~Planned(m.vm) => ~Planned(m.vm)'
      BY <2>4, SelectionFacts DEF Inv
    <3>3. \A m \in dialog.sel : Handled(m) => Handled(m)'
      BY <2>1, <2>2 DEF Handled
    <3>4. QED
      BY <2>1, <3>1, <3>2, <3>3 DEF Inv, OwnerInv, DialogOwns
  <2>8. QED
    BY <1>1, <2>4, <2>5, <2>6, <2>7 DEF OwnerInv
<1>4. QED
  BY <1>2, <1>3

LEMMA GroupDeleteOwns ==
  ASSUME Inv, NEW g \in groups, NEW v \in g.todo, GroupDelete(g, v)
  PROVE  OwnerInv'
<1> DEFINE left == [g EXCEPT !.todo = @ \ {v}]
<1>1. OneOwner' /\ ErasedOut' /\ plan' = plan
  BY StillOne DEF Inv, GroupDelete
<1>2. DrawerOwns' /\ RetriesOwn'
  BY NoneOpen, RetryIdle DEF GroupDelete, Inv
<1>3. left.plan = g.plan /\ left.vms = g.vms /\ left.pc = "delete" /\ g.pc = "delete"
  BY GroupFacts DEF GroupRecord, Inv, GroupDelete
<1>4. \/ groups' = groups \ {g}
      \/ groups' = (groups \ {g}) \cup {left}
  BY DEF GroupDelete
<1>5. \A w \in g.vms : ~Planned(w)'
  BY <1>1, <1>3 DEF Inv, OwnerInv, GroupsOwn, GroupOwns, Planned, Holds
<1>6. GroupsOwn'
  <2>1. \A a, b \in groups' : a.plan = b.plan => a = b
    BY <1>3, <1>4 DEF Inv, OwnerInv, GroupsOwn
  <2>2. \A a \in groups : GroupOwns(a)'
    BY <1>1 DEF Inv, OwnerInv, GroupsOwn, GroupOwns, OnlyIn, Planned, Holds
  <2>3. GroupOwns(left)'
    BY <1>3, <1>5, <2>2 DEF GroupOwns
  <2>4. QED
    BY <1>4, <2>1, <2>2, <2>3 DEF GroupsOwn
<1>7. DialogOwns'
  <2>1. dialog'.sel = dialog.sel /\ dialog'.pc \in {dialog.pc, "asked"}
    BY DEF GroupDelete, Inv, TypeInv, PlacesTyped, DialogRecord
  <2>2. \A m \in dialog.sel : OnlyIn(m.plan, m.vm)' /\ (~Planned(m.vm) => ~Planned(m.vm)')
    BY <1>1 DEF Inv, OwnerInv, DialogOwns, OnlyIn, Planned, Holds
  <2>3. \A m \in dialog.sel : Handled(m) => Handled(m)' \/ ~Planned(m.vm)'
    BY <1>4, <1>5 DEF Handled
  <2>4. QED
    BY <2>1, <2>2, <2>3 DEF Inv, OwnerInv, DialogOwns
<1>8. QED
  BY <1>1, <1>2, <1>6, <1>7 DEF OwnerInv

LEMMA DeleteDoneOwns ==
  ASSUME Inv, DeleteDone
  PROVE  OwnerInv'
<1>1. dialog # NoDialog /\ groups = {} /\ plan' = plan /\ groups' = {}
  BY DEF DeleteDone, NoDialog, server
<1>2. DrawerOwns' /\ RetriesOwn'
  BY <1>1, NoneOpen, RetryIdle DEF DeleteDone, Inv
<1>3. GroupsOwn' /\ DialogOwns'
  BY <1>1 DEF DeleteDone, GroupsOwn, DialogOwns, NoDialog
<1>4. \A m \in dialog.sel : ~Planned(m.vm)
  BY <1>1 DEF DeleteDone, Inv, OwnerInv, DialogOwns, Handled
<1>5. ErasedOut'
  BY <1>1, <1>4 DEF DeleteDone, Inv, OwnerInv, ErasedOut, Planned, Holds
<1>6. OneOwner'
  BY <1>1 DEF Inv, OwnerInv, OneOwner, Holds
<1>7. QED
  BY <1>2, <1>3, <1>5, <1>6 DEF OwnerInv

LEMMA OpenRetryOwns ==
  ASSUME Patient, Inv, NEW v \in VMs, OpenRetry(v)
  PROVE  OwnerInv'
<1>1. OneOwner' /\ ErasedOut'
  BY StillOne DEF Inv, OpenRetry, server
<1>2. dialog = NoDialog /\ groups = {} /\ retries = {} /\ drawer = NoDrawer
  BY CalmTurn DEF OpenRetry, Patient
<1>3. GroupsOwn' /\ DialogOwns'
  BY <1>2, DeleteIdle DEF OpenRetry
<1>4. RetriesOwn'
  BY <1>2 DEF OpenRetry, RetriesOwn
<1>5. drawer'.vm = v /\ drawer'.query = "loading" /\ prefill'[v] = None
  BY DEF OpenRetry, Patient, Inv, TypeInv, PrefillTyped
<1>6. DrawerOwns'
  BY <1>2, <1>5 DEF OpenRetry, DrawerOwns
<1>7. QED
  BY <1>1, <1>3, <1>4, <1>6 DEF OwnerInv

LEMMA PrefillAnswerOwns ==
  ASSUME Patient, Inv, PrefillAnswer
  PROVE  OwnerInv'
<1> DEFINE v == drawer.vm
           m == migration[v]
<1>1. drawer # NoDrawer /\ v \in VMs /\ drawer.query = "loading" /\ retries = {} /\ retries' = {}
  BY DrawerFacts DEF PrefillAnswer, NoDrawer, Inv, OwnerInv, DrawerOwns
<1>2. OneOwner' /\ ErasedOut' /\ plan' = plan
  BY StillOne DEF Inv, PrefillAnswer, server
<1>3. GroupsOwn' /\ DialogOwns'
  BY <1>1, NoneDeleting, DeleteIdle DEF PrefillAnswer, Inv
<1>4. RetriesOwn'
  BY <1>1 DEF RetriesOwn
<1>5. /\ drawer'.vm = v /\ drawer'.query \in {"error", "loaded"}
  BY DEF PrefillAnswer, Inv, TypeInv, PlacesTyped, DrawerRecord, NoDrawer
<1>6. CASE drawer'.query = "error"
  <2>1. prefill' = prefill
    BY <1>6 DEF PrefillAnswer, Inv, TypeInv, PlacesTyped, DrawerRecord, NoDrawer
  <2>2. prefill'[v] = None
    BY <1>1, <2>1 DEF Inv, OwnerInv, DrawerOwns
  <2>3. DrawerOwns'
    BY <1>1, <1>5, <1>6, <2>2 DEF DrawerOwns
  <2>4. QED
    BY <1>2, <1>3, <1>4, <2>3 DEF OwnerInv
<1>7. CASE drawer'.query = "loaded"
  <2>1. /\ m # None /\ plan[m.plan] # None
        /\ prefill'[v] = [plan |-> m.plan, batches |-> plan[m.plan]]
    BY <1>1, <1>7 DEF PrefillAnswer, Inv, TypeInv, PlacesTyped, DrawerRecord, NoDrawer, PrefillTyped
  <2>2. m.plan \in Plans /\ Holds(m.plan, v)
    BY <1>1, <2>1 DEF PrefillAnswer, Patient, Inv, TypeInv, MigrationTyped, MigrationRecord
  <2>3. OnlyIn(m.plan, v)
    BY <1>1, <2>2 DEF Inv, OwnerInv, OneOwner, OnlyIn
  <2>4. UpToDate(v, m.plan, plan[m.plan])
    BY <2>2 DEF UpToDate, Holds
  <2>5. [plan |-> m.plan, batches |-> plan[m.plan]] # None
    <3>1. m.plan \in Plans /\ plan[m.plan] \in Batchings
      BY <2>1, <2>2 DEF Inv, TypeInv, PlanTyped
    <3>2. QED
      BY <3>1, ConsoleAssumption DEF PrefillRecord
  <2>6. PICK p, b : p = m.plan /\ b = plan[m.plan]
    OBVIOUS
  <2>7. OnlyIn(p, v)' /\ UpToDate(v, p, b)'
    <3>1. OnlyIn(p, v) /\ UpToDate(v, p, b)
      BY <2>3, <2>4, <2>6
    <3>2. QED
      BY <1>2, <1>5, <3>1 DEF OnlyIn, UpToDate, Holds
  <2>8. prefill'[drawer'.vm] = [plan |-> p, batches |-> b]
    BY <1>5, <2>1, <2>6
  <2>9. DrawerOwns'
    BY <1>1, <1>5, <1>7, <2>5, <2>6, <2>7, <2>8 DEF DrawerOwns
  <2>10. QED
    BY <1>2, <1>3, <1>4, <2>9 DEF OwnerInv
<1>8. QED
  BY <1>5, <1>6, <1>7

LEMMA CancelRetryOwns ==
  ASSUME Inv, CancelRetry
  PROVE  OwnerInv'
<1>1. OneOwner' /\ ErasedOut' /\ plan' = plan
  BY StillOne DEF Inv, CancelRetry, server
<1>2. GroupsOwn' /\ DialogOwns'
  BY NoneDeleting, DeleteIdle DEF CancelRetry, Inv
<1>3. drawer'.query = "idle"
  BY DEF CancelRetry, NoDrawer
<1>4. DrawerOwns'
  BY <1>3 DEF DrawerOwns
<1>5. RetriesOwn'
  <2>1. ASSUME NEW r \in retries
        PROVE  RetryOwns([r EXCEPT !.mine = FALSE])'
    <3>1. PICK s : s = [r EXCEPT !.mine = FALSE]
      OBVIOUS
    <3>2. s.vm = r.vm /\ s.plan = r.plan /\ s.batches = r.batches /\ s.pc = r.pc
      BY <3>1, RetryFacts DEF RetryRecord, Inv
    <3>3. RetryOwns(s)
      BY <3>2 DEF Inv, OwnerInv, RetriesOwn, RetryOwns
    <3>4. RetryOwns(s)'
      BY <1>1, <3>3 DEF RetryOwns, UpToDate, OnlyIn, Planned, Holds
    <3>5. QED
      BY <3>1, <3>4
  <2>2. QED
    BY <2>1 DEF CancelRetry, RetriesOwn
<1>6. QED
  BY <1>1, <1>2, <1>4, <1>5 DEF OwnerInv

LEMMA SubmitOwns ==
  ASSUME Inv, HandleEditAndRetry
  PROVE  OwnerInv'
<1> DEFINE v == drawer.vm
<1>1. OneOwner' /\ ErasedOut' /\ plan' = plan
  BY StillOne DEF Inv, HandleEditAndRetry, server
<1>2. drawer # NoDrawer /\ v \in VMs /\ drawer.query = "loaded"
  BY DrawerFacts DEF HandleEditAndRetry, NoDrawer, Inv, OwnerInv, DrawerOwns
<1>3. GroupsOwn' /\ DialogOwns'
  BY <1>2, NoneDeleting, DeleteIdle DEF HandleEditAndRetry, Inv
<1>4. retries = {}
  BY <1>2 DEF HandleEditAndRetry, Inv, TurnInv
<1>5. UpToDate(v, prefill[v].plan, prefill[v].batches) /\ OnlyIn(prefill[v].plan, v)
  BY <1>2, <1>4 DEF Inv, OwnerInv, DrawerOwns
<1>6. PICK r : r = [vm |-> v, plan |-> prefill[v].plan, batches |-> prefill[v].batches,
                    pc |-> "plan", mine |-> TRUE]
  OBVIOUS
<1>7. retries' = {r}
  BY <1>4, <1>6 DEF HandleEditAndRetry
<1>8. RetryOwns(r)
  BY <1>5, <1>6 DEF RetryOwns
<1>9. RetryOwns(r)'
  BY <1>1, <1>8 DEF RetryOwns, UpToDate, OnlyIn, Planned, Holds
<1>10. RetriesOwn'
  BY <1>7, <1>9 DEF RetriesOwn
<1>11. DrawerOwns'
  <2>1. drawer' = drawer /\ prefill' = prefill /\ prefill[v] # None
    BY DEF HandleEditAndRetry
  <2>2. r.pc = "plan" /\ r.vm = v /\ r.plan = prefill[v].plan /\ r.batches = prefill[v].batches
    BY <1>6
  <2>3. UpToDate(r.vm, r.plan, r.batches)' /\ OnlyIn(r.plan, r.vm)'
    BY <1>9, <2>2 DEF RetryOwns
  <2>4. \A s \in retries' : s = r
    BY <1>7
  <2>5. QED
    BY <1>2, <2>1, <2>2, <2>3, <2>4 DEF DrawerOwns
<1>12. QED
  BY <1>1, <1>3, <1>10, <1>11 DEF OwnerInv

(* While a retry runs there is no other, and nothing is being deleted.      *)
LEMMA Alone ==
  ASSUME Inv, NEW r \in retries
  PROVE  /\ retries = {r} /\ dialog = NoDialog /\ groups = {}
         /\ RetryOwns(r)
         /\ drawer.query \in {"idle", "loaded"}
  BY NoneDeleting, DrawerFacts DEF Inv, TurnInv, OwnerInv, DrawerOwns, RetriesOwn

(* A request of the retry fails before the new plan is there.               *)
LEMMA RetryEndsOwns ==
  ASSUME Inv, NEW r \in retries, RetryEnds(r), r.pc # "flavor",
         UNCHANGED <<plan, dialog, groups, drawer, prefill, erased>>
  PROVE  OwnerInv'
<1>1. OneOwner' /\ ErasedOut'
  BY StillOne DEF Inv
<1>2. GroupsOwn' /\ DialogOwns'
  BY Alone, DeleteIdle
<1>3. retries = {r} /\ retries' = {} /\ drawer.query \in {"idle", "loaded"}
  BY Alone DEF RetryEnds
<1>4. RetriesOwn'
  BY <1>3 DEF RetriesOwn
<1>5. DrawerOwns'
  BY <1>3 DEF Inv, OwnerInv, DrawerOwns, UpToDate, OnlyIn, Holds
<1>6. QED
  BY <1>1, <1>2, <1>4, <1>5 DEF OwnerInv

(* What the drawer knows goes on with the retry it submitted.               *)
LEMMA DrawerFollows ==
  ASSUME Inv, NEW r \in retries, NEW pc, Step(r, pc), UNCHANGED <<drawer, prefill>>,
         pc # "flavor" => /\ UpToDate(r.vm, r.plan, r.batches)'
                          /\ OnlyIn(r.plan, r.vm)'
  PROVE  DrawerOwns'
<1>1. PICK s : s = [r EXCEPT !.pc = pc]
  OBVIOUS
<1>2. s.vm = r.vm /\ s.plan = r.plan /\ s.batches = r.batches /\ s.pc = pc
  BY <1>1, RetryFacts DEF RetryRecord, Inv
<1>3. retries = {r} /\ retries' = {s} /\ drawer.query \in {"idle", "loaded"}
  BY <1>1, Alone DEF Step
<1>4. CASE drawer.query = "loaded"
  <2>1. drawer # NoDrawer
    BY <1>4 DEF NoDrawer
  <2>2. /\ r.vm = drawer.vm /\ r.plan = prefill[drawer.vm].plan
        /\ r.batches = prefill[drawer.vm].batches /\ prefill[drawer.vm] # None
    BY <1>4, <2>1 DEF Inv, TurnInv, OwnerInv, DrawerOwns
  <2>3. QED
    BY <1>2, <1>3, <1>4, <2>2 DEF DrawerOwns
<1>5. QED
  BY <1>3, <1>4 DEF DrawerOwns

(* The VM is out of its plan, the others stay, or the plan was only theirs. *)
LEMMA PlanShrinks ==
  ASSUME Inv, NEW r \in retries, r.pc = "plan", plan[r.plan] # None,
         plan' = [plan EXCEPT ![r.plan] = IF IsLastVMInPlan(r) THEN None ELSE WithoutVM(r)]
  PROVE  /\ Shrinks /\ ~Planned(r.vm)' /\ UpToDate(r.vm, r.plan, r.batches)'
         /\ \A q \in Plans \ {r.plan} : plan'[q] = plan[q]
         /\ ~IsLastVMInPlan(r) =>
              \A v \in VMs \ {r.vm} : Holds(r.plan, v) => Holds(r.plan, v)'
<1>1. /\ r.plan \in Plans /\ r.vm \in VMs /\ r.batches \in Batchings
      /\ plan[r.plan] \in Batchings
  BY RetryFacts DEF Inv, TypeInv, PlanTyped
<1>2. /\ r.vm \in AllVMs(r.batches) /\ OnlyIn(r.plan, r.vm)
      /\ AllVMs(plan[r.plan]) \ {r.vm} = AllVMs(r.batches) \ {r.vm}
  BY Alone DEF RetryOwns, UpToDate
<1>3. plan'[r.plan] = (IF IsLastVMInPlan(r) THEN None ELSE WithoutVM(r))
  BY <1>1 DEF Inv, TypeInv, PlanTyped
<1>4. \A q \in Plans \ {r.plan} : plan'[q] = plan[q]
  BY DEF Inv, TypeInv, PlanTyped
<1>5. /\ WithoutVM(r) \in Batchings /\ WithoutVM(r) # None
      /\ AllVMs(WithoutVM(r)) = AllVMs(r.batches) \ {r.vm}
  BY <1>1, WithoutVMFacts, BatchingFacts
<1>6. \A v : Holds(r.plan, v)' <=> ~IsLastVMInPlan(r) /\ v \in AllVMs(r.batches) \ {r.vm}
  BY <1>3, <1>5 DEF Holds
<1>7. Shrinks
  BY <1>2, <1>4, <1>6 DEF Shrinks, Holds
<1>8. ~Planned(r.vm)'
  BY <1>2, <1>4, <1>6 DEF Planned, OnlyIn, Holds
<1>9. UpToDate(r.vm, r.plan, r.batches)'
  BY <1>2, <1>3, <1>5 DEF UpToDate
<1>10. ~IsLastVMInPlan(r) => \A v \in VMs \ {r.vm} : Holds(r.plan, v) => Holds(r.plan, v)'
  BY <1>2, <1>6 DEF Holds
<1>11. QED
  BY <1>4, <1>7, <1>8, <1>9, <1>10

LEMMA RetryPlanOwns ==
  ASSUME Inv, NEW r \in retries, RetryPlan(r)
  PROVE  OwnerInv'
<1>1. CASE RetryEnds(r) /\ UNCHANGED plan
  BY <1>1, RetryEndsOwns DEF RetryPlan
<1>2. CASE ~(RetryEnds(r) /\ UNCHANGED plan)
  <2>1. /\ r.pc = "plan" /\ plan[r.plan] # None /\ Step(r, "migration")
        /\ plan' = [plan EXCEPT ![r.plan] = IF IsLastVMInPlan(r) THEN None ELSE WithoutVM(r)]
        /\ UNCHANGED <<dialog, groups, drawer, prefill, erased>>
    BY <1>2 DEF RetryPlan
  <2>2. Shrinks /\ ~Planned(r.vm)' /\ UpToDate(r.vm, r.plan, r.batches)'
    BY <2>1, PlanShrinks
  <2>3. OneOwner' /\ \A v \in VMs : ~Planned(v) => ~Planned(v)'
    BY <2>2, Shrinking DEF Inv, OwnerInv
  <2>4. ErasedOut'
    BY <2>1, <2>3 DEF ErasedOut, Inv, OwnerInv, TypeInv, PlacesTyped
  <2>5. GroupsOwn' /\ DialogOwns'
    BY <2>1, Alone, DeleteIdle
  <2>6. OnlyIn(r.plan, r.vm)'
    BY <2>2 DEF OnlyIn, Planned
  <2>7. DrawerOwns'
    BY <2>1, <2>2, <2>6, DrawerFollows
  <2>8. RetriesOwn'
    <3>1. PICK s : s = [r EXCEPT !.pc = "migration"]
      OBVIOUS
    <3>2. s.vm = r.vm /\ s.plan = r.plan /\ s.batches = r.batches /\ s.pc = "migration"
      BY <3>1, RetryFacts DEF RetryRecord, Inv
    <3>3. retries' = {s}
      BY <2>1, <3>1, Alone DEF Step
    <3>4. QED
      BY <2>2, <3>2, <3>3 DEF RetriesOwn, RetryOwns
  <2>9. QED
    BY <2>3, <2>4, <2>5, <2>7, <2>8 DEF OwnerInv
<1>3. QED
  BY <1>1, <1>2

LEMMA RetryWaitsOwns ==
  ASSUME Inv, NEW r \in retries, RetryDelete(r) \/ PollUntilGone(r) \/ RetryPost(r)
  PROVE  OwnerInv'
<1>1. /\ UNCHANGED <<plan, dialog, groups, drawer, prefill, erased>>
      /\ r.pc \in {"migration", "wait", "post"}
  BY DEF RetryDelete, PollUntilGone, RetryPost, server
<1>2. CASE RetryEnds(r)
  BY <1>1, <1>2, RetryEndsOwns
<1>3. CASE ~RetryEnds(r)
  <2>1. PICK pc \in {"wait", "post", "newPlan"} : Step(r, pc)
    BY <1>3 DEF RetryDelete, PollUntilGone, RetryPost
  <2>2. UpToDate(r.vm, r.plan, r.batches)' /\ ~Planned(r.vm)'
    BY <1>1, Alone DEF RetryOwns, UpToDate, Planned, Holds
  <2>3. OneOwner' /\ ErasedOut'
    BY <1>1, StillOne DEF Inv
  <2>4. GroupsOwn' /\ DialogOwns'
    BY <1>1, Alone, DeleteIdle
  <2>5. OnlyIn(r.plan, r.vm)'
    BY <2>2 DEF OnlyIn, Planned
  <2>6. DrawerOwns'
    BY <1>1, <2>1, <2>2, <2>5, DrawerFollows
  <2>7. RetriesOwn'
    <3>1. PICK s : s = [r EXCEPT !.pc = pc]
      OBVIOUS
    <3>2. s.vm = r.vm /\ s.plan = r.plan /\ s.batches = r.batches /\ s.pc = pc
      BY <3>1, RetryFacts DEF RetryRecord, Inv
    <3>3. retries' = {s}
      BY <2>1, <3>1, Alone DEF Step
    <3>4. QED
      BY <2>1, <2>2, <3>2, <3>3 DEF RetriesOwn, RetryOwns
  <2>8. QED
    BY <2>3, <2>4, <2>6, <2>7 DEF OwnerInv
<1>4. QED
  BY <1>2, <1>3

LEMMA NewPlanOwns ==
  ASSUME Inv, NEW r \in retries, RetryNewPlan(r)
  PROVE  OwnerInv'
<1>1. CASE RetryEnds(r) /\ UNCHANGED <<plan, status, erased>>
  BY <1>1, RetryEndsOwns DEF RetryNewPlan
<1>2. CASE ~(RetryEnds(r) /\ UNCHANGED <<plan, status, erased>>)
  <2>1. /\ r.pc = "newPlan" /\ Step(r, "flavor") /\ erased' = erased \ {r.vm}
        /\ UNCHANGED <<dialog, groups, drawer, prefill>>
    BY <1>2 DEF RetryNewPlan
  <2>2. PICK q \in NewPlans : plan[q] = None /\ plan' = [plan EXCEPT ![q] = <<{r.vm}>>]
    BY <1>2 DEF RetryNewPlan, Unused
  <2>3. q \in Plans /\ r.vm \in VMs /\ ~Planned(r.vm)
    BY <2>1, Alone, RetryFacts DEF Plans, RetryOwns, Inv
  <2>4. \A v : /\ Holds(q, v)' => v = r.vm
               /\ \A p \in Plans \ {q} : Holds(p, v)' <=> Holds(p, v)
    BY <2>2, <2>3, SingleBatch DEF Holds, Inv, TypeInv, PlanTyped
  <2>5. OneOwner'
    BY <2>3, <2>4 DEF Inv, OwnerInv, OneOwner, Planned
  <2>6. ErasedOut'
    BY <2>1, <2>4 DEF Inv, OwnerInv, ErasedOut, Planned
  <2>7. GroupsOwn' /\ DialogOwns'
    BY <2>1, Alone, DeleteIdle
  <2>8. DrawerOwns'
    BY <2>1, DrawerFollows
  <2>9. RetriesOwn'
    <3>1. PICK s : s = [r EXCEPT !.pc = "flavor"]
      OBVIOUS
    <3>2. s.pc = "flavor"
      BY <3>1, RetryFacts DEF RetryRecord, Inv
    <3>3. retries' = {s}
      BY <2>1, <3>1, Alone DEF Step
    <3>4. QED
      BY <3>2, <3>3 DEF RetriesOwn, RetryOwns
  <2>10. QED
    BY <2>5, <2>6, <2>7, <2>8, <2>9 DEF OwnerInv
<1>3. QED
  BY <1>1, <1>2

LEMMA FlavorOwns ==
  ASSUME Patient, Inv, NEW r \in retries, RetryFlavor(r)
  PROVE  OwnerInv'
<1>1. OneOwner' /\ ErasedOut'
  BY StillOne DEF Inv, RetryFlavor, server
<1>2. GroupsOwn' /\ DialogOwns'
  BY Alone, DeleteIdle DEF RetryFlavor
<1>3. drawer' = NoDrawer /\ retries' = {}
  BY Alone DEF RetryFlavor, RetryEnds, Fault, Patient
<1>4. drawer'.query = "idle"
  BY <1>3 DEF NoDrawer
<1>5. DrawerOwns' /\ RetriesOwn'
  BY <1>3, <1>4 DEF DrawerOwns, RetriesOwn
<1>6. QED
  BY <1>1, <1>2, <1>5 DEF OwnerInv

LEMMA InvInit == Init => Inv
  BY TypeInit, TurnInit, OwnerInit DEF Inv

LEMMA InvStep ==
  ASSUME Patient, Inv, [Next]_vars
  PROVE  Inv'
<1>1. TypeInv' /\ TurnInv'
  BY TypeStep, TurnStep DEF Inv, Patient
<1>2. CASE \/ Controllers \/ Poll \/ UNCHANGED vars
         \/ \E v \in VMs, phase \in {"Failed", "Succeeded"} : EndMigration(v, phase)
  BY <1>1, <1>2, BackgroundOwns DEF Inv
<1>4. CASE Operator
  <2>1. CASE \E S \in SUBSET VMs : DeleteClick(S) \/ HandleBulkRetry(S)
    BY <1>1, <2>1, DeleteClickOwns, BulkOwns DEF Inv
  <2>2. CASE DeleteClose \/ DeleteConfirm \/ CancelRetry \/ HandleEditAndRetry
    BY <1>1, <2>2, DeleteCloseOwns, DeleteConfirmOwns, CancelRetryOwns, SubmitOwns DEF Inv
  <2>3. CASE \E v \in VMs : OpenRetry(v)
    BY <1>1, <2>3, OpenRetryOwns DEF Inv
  <2>4. QED
    BY <1>4, <2>1, <2>2, <2>3 DEF Operator
<1>5. CASE DeleteDone \/ PrefillAnswer
  BY <1>1, <1>5, DeleteDoneOwns, PrefillAnswerOwns DEF Inv
<1>6. CASE \E g \in groups : GroupGet(g) \/ GroupPatch(g) \/ \E v \in g.todo : GroupDelete(g, v)
  BY <1>1, <1>6, GroupGetOwns, GroupPatchOwns, GroupDeleteOwns DEF Inv
<1>7. CASE \E v \in bulk : BulkDelete(v)
  BY <1>1, <1>7, BulkOwns DEF Inv
<1>8. CASE RetryStep
  BY <1>1, <1>8, RetryPlanOwns, RetryWaitsOwns, NewPlanOwns, FlavorOwns DEF RetryStep, Inv
<1>9. QED
  BY <1>2, <1>4, <1>5, <1>6, <1>7, <1>8 DEF Next

(***************************************************************************)
(* Who is taken out of a plan.                                             *)
(***************************************************************************)
(* deleteMigrations looks at the first batch of a plan only.                *)
OneBatchEach == \A p \in OldPlans : DOMAIN Batches[p] \subseteq {1}
BatchInv ==
  /\ \A p \in Plans : plan[p] # None => DOMAIN plan[p] \subseteq {1}
  /\ \A v \in VMs : prefill[v] # None => DOMAIN prefill[v].batches \subseteq {1}
  /\ \A r \in retries : DOMAIN r.batches \subseteq {1}

LEMMA PlanFrame ==
  ASSUME [Next]_vars
  PROVE  \/ plan' = plan
         \/ \E g \in groups : GroupPatch(g)
         \/ \E r \in retries : RetryPlan(r) \/ RetryNewPlan(r)
<1>1. Controllers => plan' = plan
  BY ControllersFrame
<1>2. Operator \/ Poll \/ DeleteDone \/ PrefillAnswer \/ UNCHANGED vars => plan' = plan
  BY DEF Operator, DeleteClose, DeleteConfirm, CancelRetry, HandleEditAndRetry, DeleteClick,
     HandleBulkRetry, OpenRetry, Poll, DeleteDone, PrefillAnswer, vars, server
<1>3. \A r \in retries : RetryDelete(r) \/ PollUntilGone(r) \/ RetryPost(r) \/ RetryFlavor(r)
                           => plan' = plan
  BY DEF RetryDelete, PollUntilGone, RetryPost, RetryFlavor, server
<1>4. \A v \in VMs, phase \in {"Failed", "Succeeded"} : EndMigration(v, phase) => plan' = plan
  BY DEF EndMigration
<1>5. \A g \in groups : /\ GroupGet(g) => plan' = plan
                        /\ \A v \in g.todo : GroupDelete(g, v) => plan' = plan
  BY DEF GroupGet, GroupDelete, server
<1>6. \A v \in bulk : BulkDelete(v) => plan' = plan
  BY DEF BulkDelete
<1>7. QED
  BY <1>1, <1>2, <1>3, <1>4, <1>5, <1>6 DEF Next, RetryStep

LEMMA PrefillFrame ==
  ASSUME [Next]_vars
  PROVE  prefill' = prefill \/ PrefillAnswer \/ \E v \in VMs : OpenRetry(v)
<1>1. Controllers => prefill' = prefill
  BY ControllersFrame
<1>2. DeleteClose \/ DeleteConfirm \/ CancelRetry \/ HandleEditAndRetry \/ Poll \/ DeleteDone
        \/ UNCHANGED vars => prefill' = prefill
  BY DEF DeleteClose, DeleteConfirm, CancelRetry, HandleEditAndRetry, Poll, DeleteDone, vars
<1>3. \A S \in SUBSET VMs : DeleteClick(S) \/ HandleBulkRetry(S) => prefill' = prefill
  BY DEF DeleteClick, HandleBulkRetry
<1>4. \A r \in retries : RetryPlan(r) \/ RetryDelete(r) \/ PollUntilGone(r) \/ RetryPost(r)
                           \/ RetryNewPlan(r) \/ RetryFlavor(r) => prefill' = prefill
  BY DEF RetryPlan, RetryDelete, PollUntilGone, RetryPost, RetryNewPlan, RetryFlavor
<1>5. \A v \in VMs, phase \in {"Failed", "Succeeded"} : EndMigration(v, phase) => prefill' = prefill
  BY DEF EndMigration
<1>6. \A g \in groups : GroupGet(g) \/ GroupPatch(g) \/ (\E v \in g.todo : GroupDelete(g, v))
                          => prefill' = prefill
  BY DEF GroupGet, GroupPatch, GroupDelete
<1>7. \A v \in bulk : BulkDelete(v) => prefill' = prefill
  BY DEF BulkDelete
<1>8. QED
  BY <1>1, <1>2, <1>3, <1>4, <1>5, <1>6, <1>7 DEF Next, Operator, RetryStep

(* The batches of a retry are those its drawer loaded.                      *)
LEMMA RetryBatches ==
  ASSUME Inv, [Next]_vars, NEW r \in retries'
  PROVE  \/ \E s \in retries : r.batches = s.batches
         \/ /\ drawer.vm \in VMs /\ prefill[drawer.vm] # None
            /\ r.batches = prefill[drawer.vm].batches
<1>1. Controllers => retries' = retries
  BY ControllersFrame
<1>2. DeleteClose \/ DeleteConfirm \/ Poll \/ DeleteDone \/ PrefillAnswer \/ UNCHANGED vars
        => retries' = retries
  BY DEF DeleteClose, DeleteConfirm, Poll, DeleteDone, PrefillAnswer, vars
<1>3. /\ \A S \in SUBSET VMs : DeleteClick(S) \/ HandleBulkRetry(S) => retries' = retries
      /\ \A v \in VMs : OpenRetry(v) => retries' = retries
  BY DEF DeleteClick, HandleBulkRetry, OpenRetry
<1>4. ASSUME NEW s \in retries,
             RetryPlan(s) \/ RetryDelete(s) \/ PollUntilGone(s) \/ RetryPost(s)
               \/ RetryNewPlan(s) \/ RetryFlavor(s)
      PROVE  \E t \in retries : r.batches = t.batches
  <2>1. PICK pc : Step(s, pc) \/ RetryEnds(s)
    BY <1>4 DEF RetryPlan, RetryDelete, PollUntilGone, RetryPost, RetryNewPlan, RetryFlavor
  <2>2. [s EXCEPT !.pc = pc].batches = s.batches
    BY RetryFacts DEF RetryRecord, Inv
  <2>3. QED
    BY <2>1, <2>2 DEF Step, RetryEnds
<1>5. \A v \in VMs, phase \in {"Failed", "Succeeded"} : EndMigration(v, phase) => retries' = retries
  BY DEF EndMigration
<1>6. \A g \in groups : GroupGet(g) \/ GroupPatch(g) \/ (\E v \in g.todo : GroupDelete(g, v))
                          => retries' = retries
  BY DEF GroupGet, GroupPatch, GroupDelete
<1>7. \A v \in bulk : BulkDelete(v) => retries' = retries
  BY DEF BulkDelete
<1>8. ASSUME CancelRetry
      PROVE  \E t \in retries : r.batches = t.batches
  <2>1. \A t \in retries : [t EXCEPT !.mine = FALSE].batches = t.batches
    BY RetryFacts DEF RetryRecord, Inv
  <2>2. QED
    BY <1>8, <2>1 DEF CancelRetry
<1>9. ASSUME HandleEditAndRetry
      PROVE  \/ r \in retries
             \/ /\ drawer.vm \in VMs /\ prefill[drawer.vm] # None
                /\ r.batches = prefill[drawer.vm].batches
  <2>1. drawer.vm \in VMs
    BY <1>9, DrawerFacts DEF HandleEditAndRetry, NoDrawer, Inv
  <2>2. QED
    BY <1>9, <2>1 DEF HandleEditAndRetry
<1>10. QED
  BY <1>1, <1>2, <1>3, <1>4, <1>5, <1>6, <1>7, <1>8, <1>9 DEF Next, Operator, RetryStep

(* What a retry drops with its plan.                                        *)
LEMMA LastIsAlone ==
  ASSUME Inv, NEW r \in retries, r.pc = "plan", plan[r.plan] # None, IsLastVMInPlan(r)
  PROVE  AllVMs(plan[r.plan]) \subseteq {r.vm}
<1> DEFINE S == AllVMs(r.batches)
<1>1. r.vm \in S /\ AllVMs(plan[r.plan]) \ {r.vm} = S \ {r.vm}
  BY Alone DEF RetryOwns, UpToDate
<1>2. IsFiniteSet(S)
  BY RetryFacts, BatchingFacts, FS_Subset, ConsoleAssumption DEF Inv
<1>3. Cardinality(S) \in Nat /\ Cardinality(S) <= 1
  BY <1>2, FS_CardinalityType DEF IsLastVMInPlan
<1>4. Cardinality(S) # 0
  BY <1>1, <1>2, FS_EmptySet
<1>5. Cardinality(S) = 1
  BY <1>3, <1>4
<1>6. PICK x : S = {x}
  BY <1>2, <1>5, FS_Singleton
<1>7. QED
  BY <1>1, <1>6

LEMMA RetryPlanTakes ==
  ASSUME Inv, NEW r \in retries, RetryPlan(r), NEW v \in VMs, v # r.vm, Planned(v)
  PROVE  Planned(v)'
<1>1. CASE plan' = plan
  BY <1>1 DEF Planned, Holds
<1>2. CASE plan' # plan
  <2>1. /\ r.pc = "plan" /\ plan[r.plan] # None
        /\ plan' = [plan EXCEPT ![r.plan] = IF IsLastVMInPlan(r) THEN None ELSE WithoutVM(r)]
    BY <1>2 DEF RetryPlan
  <2>2. /\ \A q \in Plans \ {r.plan} : plan'[q] = plan[q]
        /\ ~IsLastVMInPlan(r) => (Holds(r.plan, v) => Holds(r.plan, v)')
    BY <2>1, PlanShrinks
  <2>3. IsLastVMInPlan(r) => ~Holds(r.plan, v)
    BY <2>1, LastIsAlone DEF Holds
  <2>4. QED
    BY <2>2, <2>3 DEF Planned, Holds
<1>3. QED
  BY <1>1, <1>2

LEMMA NewPlanTakes ==
  ASSUME Inv, NEW r \in retries, RetryNewPlan(r), NEW v \in VMs, Planned(v)
  PROVE  Planned(v)'
<1>1. CASE plan' = plan
  BY <1>1 DEF Planned, Holds
<1>2. CASE plan' # plan
  <2>1. PICK q \in NewPlans : plan[q] = None /\ plan' = [plan EXCEPT ![q] = <<{r.vm}>>]
    BY <1>2 DEF RetryNewPlan, Unused
  <2>2. \A p \in Plans \ {q} : plan'[p] = plan[p]
    BY <2>1 DEF Inv, TypeInv, PlanTyped
  <2>3. QED
    BY <2>1, <2>2 DEF Planned, Holds
<1>3. QED
  BY <1>1, <1>2

LEMMA PatchTakes ==
  ASSUME Inv, BatchInv, NEW g \in groups, GroupPatch(g), NEW v \in VMs, v \notin g.vms, Planned(v)
  PROVE  Planned(v)'
<1>1. CASE plan' = plan
  BY <1>1 DEF Planned, Holds
<1>2. CASE plan' # plan
  <2>1. /\ g.pc = "patch" /\ plan[g.plan] # None /\ plan' = [plan EXCEPT ![g.plan] = <<g.rest>>]
    BY <1>2 DEF GroupPatch
  <2>2. g.plan \in Plans /\ plan[g.plan] \in Batchings /\ g.rest \in SUBSET VMs
    BY <2>1, GroupFacts DEF Inv, TypeInv, PlanTyped, GroupRecord
  <2>3. g.rest = AllVMs(plan[g.plan]) \ g.vms
    BY <2>1, <2>2, BatchingFacts DEF BatchInv, Inv, OwnerInv, GroupsOwn, GroupOwns
  <2>4. AllVMs(<<g.rest>>) = g.rest /\ <<g.rest>> # None
    BY <2>2, SingleBatch, BatchingFacts
  <2>5. plan'[g.plan] = <<g.rest>> /\ \A q \in Plans \ {g.plan} : plan'[q] = plan[q]
    BY <2>1, <2>2 DEF Inv, TypeInv, PlanTyped
  <2>6. Holds(g.plan, v) => Holds(g.plan, v)'
    BY <2>3, <2>4, <2>5 DEF Holds
  <2>7. QED
    BY <2>5, <2>6 DEF Planned, Holds
<1>3. QED
  BY <1>1, <1>2

LEMMA BatchInit ==
  ASSUME OneBatchEach, Init
  PROVE  BatchInv
  BY DEF OneBatchEach, Init, BatchInv

LEMMA BatchStep ==
  ASSUME Inv, BatchInv, [Next]_vars
  PROVE  BatchInv'
<1> DEFINE Narrow == \A p \in Plans : plan'[p] # None => DOMAIN plan'[p] \subseteq {1}
<1>1. Narrow
  <2>1. CASE plan' = plan
    BY <2>1 DEF BatchInv
  <2>2. ASSUME NEW g \in groups, GroupPatch(g), plan' # plan
        PROVE  Narrow
    <3>1. plan' = [plan EXCEPT ![g.plan] = <<g.rest>>] /\ DOMAIN <<g.rest>> = {1}
      BY <2>2, SingleBatch, GroupFacts DEF GroupPatch, GroupRecord, Inv
    <3>2. QED
      BY <3>1 DEF BatchInv, Inv, TypeInv, PlanTyped
  <2>3. ASSUME NEW r \in retries, RetryPlan(r), plan' # plan
        PROVE  Narrow
    <3>1. DOMAIN WithoutVM(r) \subseteq {1}
      BY RetryFacts, WithoutVMFacts DEF BatchInv, Inv
    <3>2. plan' = [plan EXCEPT ![r.plan] = IF IsLastVMInPlan(r) THEN None ELSE WithoutVM(r)]
      BY <2>3 DEF RetryPlan
    <3>3. QED
      BY <3>1, <3>2 DEF BatchInv, Inv, TypeInv, PlanTyped
  <2>4. ASSUME NEW r \in retries, RetryNewPlan(r), plan' # plan
        PROVE  Narrow
    <3>1. PICK q \in NewPlans : plan' = [plan EXCEPT ![q] = <<{r.vm}>>]
      BY <2>4 DEF RetryNewPlan
    <3>2. DOMAIN <<{r.vm}>> = {1}
      BY SingleBatch, RetryFacts DEF Inv
    <3>3. QED
      BY <3>1, <3>2 DEF BatchInv, Inv, TypeInv, PlanTyped
  <2>5. QED
    BY <2>1, <2>2, <2>3, <2>4, PlanFrame
<1>2. \A v \in VMs : prefill'[v] # None => DOMAIN prefill'[v].batches \subseteq {1}
  <2>1. CASE prefill' = prefill
    BY <2>1 DEF BatchInv
  <2>2. CASE \E v \in VMs : OpenRetry(v)
    BY <2>2 DEF OpenRetry, BatchInv, Inv, TypeInv, PrefillTyped
  <2>3. CASE PrefillAnswer /\ prefill' # prefill
    <3> DEFINE v == drawer.vm
               m == migration[v]
    <3>1. v \in VMs
      BY <2>3, DrawerFacts DEF PrefillAnswer, NoDrawer, Inv
    <3>2. /\ m # None /\ plan[m.plan] # None
          /\ prefill' = [prefill EXCEPT ![v] = [plan |-> m.plan, batches |-> plan[m.plan]]]
      BY <2>3 DEF PrefillAnswer
    <3>3. m.plan \in Plans
      BY <3>1, <3>2 DEF Inv, TypeInv, MigrationTyped, MigrationRecord
    <3>4. DOMAIN plan[m.plan] \subseteq {1}
      BY <3>2, <3>3 DEF BatchInv
    <3>5. QED
      BY <3>1, <3>2, <3>4 DEF BatchInv, Inv, TypeInv, PrefillTyped
  <2>4. QED
    BY <2>1, <2>2, <2>3, PrefillFrame
<1>3. \A r \in retries' : DOMAIN r.batches \subseteq {1}
  BY RetryBatches DEF BatchInv
<1>4. QED
  BY <1>1, <1>2, <1>3 DEF BatchInv

(***************************************************************************)
(* The properties.                                                         *)
(***************************************************************************)
(* No two plans ever work on one VM: a retry makes its new plan only after  *)
(* the VM left the old one, whatever fails and whatever the controllers do  *)
(* between two of the retry's requests (useRetrySubmit).                    *)
THEOREM PlansDisjoint == ASSUME Patient PROVE Spec => []OnePlanPerVM
<1>1. ASSUME Inv
      PROVE  OnePlanPerVM
  <2>1. SUFFICES ASSUME NEW v \in VMs
                 PROVE  Cardinality({p \in Plans : Holds(p, v)}) <= 1
    BY DEF OnePlanPerVM
  <2> DEFINE P == {p \in Plans : Holds(p, v)}
  <2>2. CASE P = {}
    <3>1. Cardinality({}) = 0
      BY FS_EmptySet
    <3>2. QED
      BY <2>2, <3>1
  <2>3. CASE P # {}
    <3>1. PICK p \in P : TRUE
      BY <2>3
    <3>2. P = {p}
      BY <1>1, <3>1 DEF Inv, OwnerInv, OneOwner
    <3>3. Cardinality({p}) = 1
      BY FS_Singleton
    <3>4. QED
      BY <3>2, <3>3
  <2>4. QED
    BY <2>2, <2>3
<1>2. QED
  BY InvInit, InvStep, <1>1, PTL DEF Spec

(* A VM whose deletion the dialog reported as done is in no plan again      *)
(* until a retry puts it there, so that no reconcile that starts then makes *)
(* its Migration anew (deleteMigrations patches each plan once for all its  *)
(* VMs).                                                                    *)
THEOREM DeletedStaysOut == ASSUME Patient PROVE Spec => []DeletionSticks
<1>1. Inv => DeletionSticks
  BY DEF Inv, OwnerInv, ErasedOut, DeletionSticks
<1>2. QED
  BY InvInit, InvStep, <1>1, PTL DEF Spec

(* A retry deletes a plan only if it holds no VM but the retried one, when  *)
(* the row it was started from was current.                                 *)
THEOREM PlanGoesWithItsLastVM == ASSUME Patient PROVE Spec => LastVMOnly
<1>1. ASSUME Inv, [Next]_vars, NEW p \in Plans, plan[p] # None, plan'[p] = None
      PROVE  \E r \in retries : r.plan = p /\ AllVMs(plan[p]) \subseteq {r.vm}
  <2>1. ASSUME NEW g \in groups, GroupPatch(g)
        PROVE  FALSE
    <3>1. g.rest \in SUBSET VMs
      BY <1>1, GroupFacts DEF GroupRecord, Inv
    <3>2. <<g.rest>> # None
      BY <3>1, SingleBatch, BatchingFacts
    <3>3. QED
      BY <1>1, <2>1, <3>2 DEF GroupPatch, Inv, TypeInv, PlanTyped
  <2>2. ASSUME NEW r \in retries, RetryPlan(r)
        PROVE  r.plan = p /\ AllVMs(plan[p]) \subseteq {r.vm}
    <3>1. /\ r.pc = "plan" /\ plan[r.plan] # None
          /\ plan' = [plan EXCEPT ![r.plan] = IF IsLastVMInPlan(r) THEN None ELSE WithoutVM(r)]
      BY <1>1, <2>2 DEF RetryPlan
    <3>2. WithoutVM(r) # None
      BY <1>1, RetryFacts, WithoutVMFacts, BatchingFacts DEF Inv
    <3>3. r.plan = p /\ IsLastVMInPlan(r)
      BY <1>1, <3>1, <3>2 DEF Inv, TypeInv, PlanTyped
    <3>4. QED
      BY <1>1, <3>1, <3>3, LastIsAlone
  <2>3. ASSUME NEW r \in retries, RetryNewPlan(r)
        PROVE  FALSE
    <3>1. <<{r.vm}>> # None
      BY <1>1, SingleBatch, BatchingFacts, RetryFacts DEF Inv
    <3>2. plan' # plan
      BY <1>1
    <3>3. PICK q \in NewPlans : plan' = [plan EXCEPT ![q] = <<{r.vm}>>]
      BY <2>3, <3>2 DEF RetryNewPlan
    <3>4. QED
      BY <1>1, <3>1, <3>3 DEF Inv, TypeInv, PlanTyped
  <2>4. QED
    BY <1>1, <2>1, <2>2, <2>3, PlanFrame
<1>2. Inv /\ [Next]_vars =>
        [\A p \in Plans : plan[p] # None /\ plan'[p] = None =>
           \E r \in retries : r.plan = p /\ AllVMs(plan[p]) \subseteq {r.vm}]_vars
  BY <1>1
<1>3. QED
  BY InvInit, InvStep, <1>2, PTL DEF Spec, LastVMOnly

(* Deletions and retries take no other VM out of its plan, if every plan    *)
(* has one batch.                                                           *)
THEOREM OthersStay ==
  ASSUME Patient, OneBatchEach
  PROVE  Spec => OthersKept
<1>1. ASSUME Inv, BatchInv, [Next]_vars, NEW v \in VMs, Planned(v), ~Planned(v)'
      PROVE  (\E g \in groups : v \in g.vms) \/ (\E r \in retries : r.vm = v)
  <2>1. plan' # plan
    BY <1>1 DEF Planned, Holds
  <2>2. QED
    BY <1>1, <2>1, PlanFrame, PatchTakes, RetryPlanTakes, NewPlanTakes
<1>2. Inv /\ BatchInv /\ [Next]_vars =>
        [plan' # plan => \A v \in VMs : Planned(v) /\ ~Planned(v)' =>
           \/ \E g \in groups : v \in g.vms
           \/ \E r \in retries : r.vm = v]_vars
  BY <1>1
<1>3. Init => Inv /\ BatchInv
  BY InvInit, BatchInit
<1>4. Inv /\ BatchInv /\ [Next]_vars => (Inv /\ BatchInv)'
  BY InvStep, BatchStep
<1>5. QED
  BY <1>2, <1>3, <1>4, PTL DEF Spec, OthersKept
=============================================================================
