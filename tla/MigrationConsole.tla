-------------------------- MODULE MigrationConsole --------------------------
(***************************************************************************)
(* The migrations page of the UI and what an operator can start from it:   *)
(* deleting migrations (useDeleteMigrations), retrying failed ones in bulk *)
(* (MigrationsTable) and retrying one with edits (useRetryPrefill,         *)
(* useRetrySubmit).  Each is a chain of requests the browser makes on      *)
(* plans and migrations that the controllers act on between any two of     *)
(* them: a reconcile of a plan makes the Migrations that the VMs it read   *)
(* are without, whatever became of the plan since, a deleted Migration     *)
(* goes when its finalizer is done, and the Migrations of a deleted plan   *)
(* are collected.  The page itself works on the list it polled last, and   *)
(* useMigrationStatusMonitor reports what changed in it.                   *)
(***************************************************************************)
EXTENDS Naturals, Sequences, FiniteSets

CONSTANTS
  VMs, None,
  OldPlans,  \* plans at the start
  NewPlans,  \* names for the plans of retries
  Batches,   \* spec.virtualMachines of the old plans: sequences of sets of VMs
  Cached,    \* a retry drawer opened again shows what it loaded last time
  Impatient, \* the operator starts something while a cancelled retry runs on
  StaleRows, \* the operator acts on rows the page has not refreshed yet, or
             \* whose VM has left its plan, also while the drawer loads
  Failing,   \* requests that may fail: "plan", "migration", "wait", "post",
             \* "flavor"
  MaxConcurrentReconciles,
  MaxOps,    \* bound: deletions and retries the operator starts
  MaxFaults, \* bound: failed requests
  MaxEvents  \* bound: the two together

Plans == OldPlans \cup NewPlans
(* The batches of a plan keep their numbers when one before them goes:      *)
(* which numbers they have says nothing, their order does.                  *)
AllVMs(b) == UNION {b[i] : i \in DOMAIN b}
Numbers == {1} \cup UNION {DOMAIN Batches[p] : p \in OldPlans}
Batchings == UNION {[I -> SUBSET VMs] : I \in SUBSET Numbers}

Phases == {"Running", "Failed", "Succeeded"}
MigrationRecord == [plan : Plans, phase : Phases, deleting : BOOLEAN]
Statuses == {"active", "Failed", "Succeeded"}
TrackerRecord == [previousPhase : Phases, lastReportedPhase : Phases \cup {None}]
PrefillRecord == [plan : Plans, batches : Batchings]

ASSUME ConsoleAssumption ==
  /\ None \notin VMs \cup Plans \cup Phases \cup Batchings
  /\ None \notin MigrationRecord \cup TrackerRecord \cup PrefillRecord
  /\ IsFiniteSet(VMs) /\ OldPlans \cap NewPlans = {}
  /\ \A p \in OldPlans : Batches[p] \in Seq(SUBSET VMs)
  /\ \A p, q \in OldPlans : p # q => AllVMs(Batches[p]) \cap AllVMs(Batches[q]) = {}
  /\ {Cached, Impatient, StaleRows} \subseteq BOOLEAN
  /\ {MaxConcurrentReconciles, MaxOps, MaxFaults, MaxEvents} \subseteq Nat

VARIABLES
  plan,      \* server: the batches of each plan, None where there is none
  migration, \* server: the Migration of each VM (its name is the VM's), or None
  status,    \* server: MigrationStatus of each plan; "active": none or Running
  reconcile, \* running reconcile of each plan: VMs it has yet to see to, or None
  list,      \* the migrations query's data
  tracker,   \* statusTrackerRef
  reported,  \* VMs a failure of whose Migration was reported
  witnessed, \* VMs whose Migration the page saw fail: listed, and in a later
             \* poll failed
  stale,     \* history: VMs a failure of an earlier Migration of which was
             \* reported, and that no list but an empty one was without since
  dialog,    \* the delete dialog: what it shows and whether it is deleting
  groups,    \* requests of deleteMigrations per plan
  bulk,      \* VMs whose deletion for a bulk retry is in flight
  drawer,    \* the retry drawer
  prefill,   \* retry-prefill query: the plan last loaded for a VM
  retries,   \* runs of performEditAndRetry
  erased,    \* VMs whose deletion the dialog reported as done
  ops, faults

control == <<status, reconcile>>
server == <<plan, migration, control>>
page == <<list, tracker, reported, witnessed, stale>>
vars == <<server, page, dialog, groups, bulk, drawer, prefill, retries, erased, ops, faults>>

Holds(p, v) == plan[p] # None /\ v \in AllVMs(plan[p])
Planned(v) == \E p \in Plans : Holds(p, v)
NoDrawer == [vm |-> None, query |-> "idle"]
NoDialog == [sel |-> {}, pc |-> "closed"]

Init ==
  /\ plan = [p \in Plans |-> IF p \in OldPlans THEN Batches[p] ELSE None]
  /\ migration = [v \in VMs |-> None]
  /\ list = [v \in VMs |-> None] /\ tracker = [v \in VMs |-> None]
  /\ status = [p \in Plans |-> "active"] /\ reconcile = [p \in Plans |-> None]
  /\ reported = {} /\ witnessed = {} /\ stale = {}
  /\ dialog = NoDialog /\ groups = {} /\ bulk = {}
  /\ drawer = NoDrawer /\ prefill = [v \in VMs |-> None] /\ retries = {}
  /\ erased = {} /\ ops = 0 /\ faults = 0

-----------------------------------------------------------------------------
(* The plan controller: one reconcile of a plan at a time.  A read from its *)
(* cache that lags is a read that was made earlier.                         *)

MigrationsOf(p) == {v \in VMs : migration[v] # None /\ migration[v].plan = p}

(* A plan that failed starts again when no Migration of it is failed any    *)
(* more or one of its VMs has none.                                         *)
ResetPlan(p) ==
  /\ plan[p] # None /\ reconcile[p] = None /\ status[p] = "Failed"
  /\ \/ \A v \in MigrationsOf(p) : migration[v].phase # "Failed"
     \/ ~ AllVMs(plan[p]) \subseteq MigrationsOf(p)
  /\ status' = [status EXCEPT ![p] = "active"]
  /\ UNCHANGED <<plan, migration, reconcile, page, dialog, groups, bulk, drawer, prefill, retries,
                 erased, ops, faults>>

(* A failed plan is left alone otherwise, one that succeeded always.        *)
ReadPlan(p) ==
  /\ plan[p] # None /\ reconcile[p] = None /\ status[p] = "active"
  /\ Cardinality({q \in Plans : reconcile[q] # None}) < MaxConcurrentReconciles
  /\ reconcile' = [reconcile EXCEPT ![p] = AllVMs(plan[p])]
  /\ UNCHANGED <<plan, migration, status, page, dialog, groups, bulk, drawer, prefill, retries,
                 erased, ops, faults>>

(* A VM without a Migration gets one, of the plan as it was read.  Nothing  *)
(* changes when there is one, whosever plan it is of (it is terminal and    *)
(* the VM is skipped, or its spec is written), when there was a terminal    *)
(* one that went since, and on an error: the loop continues.                *)
CreateMigration(p, v) ==
  /\ reconcile[p] # None /\ v \in reconcile[p]
  /\ reconcile' = [reconcile EXCEPT ![p] = @ \ {v}]
  /\ \/ /\ migration[v] = None
        /\ migration' = [migration EXCEPT ![v] =
             [plan |-> p, phase |-> "Running", deleting |-> FALSE]]
     \/ UNCHANGED migration
  /\ UNCHANGED <<plan, status, page, dialog, groups, bulk, drawer, prefill, retries, erased, ops,
                 faults>>

(* processMigrationPhases: the status follows from the Migrations of the    *)
(* plan, unless the reconcile ends with an error before or at its write.    *)
PlanOutcome(p) ==
  IF \E v \in MigrationsOf(p) : migration[v].phase = "Failed" THEN "Failed"
  ELSE IF \A v \in MigrationsOf(p) : migration[v].phase = "Succeeded" THEN "Succeeded"
  ELSE status[p]

EndReconcile(p) ==
  /\ reconcile[p] # None
  /\ reconcile' = [reconcile EXCEPT ![p] = None]
  /\ \/ UNCHANGED status
     \/ /\ reconcile[p] = {} /\ plan[p] # None
        /\ status' = [status EXCEPT ![p] = PlanOutcome(p)]
  /\ UNCHANGED <<plan, migration, page, dialog, groups, bulk, drawer, prefill, retries, erased, ops,
                 faults>>

(* The migration controller.                                                *)

EndMigration(v, phase) ==
  /\ migration[v] # None /\ migration[v].phase = "Running"
  /\ migration' = [migration EXCEPT ![v].phase = phase]
  /\ UNCHANGED <<plan, control, page, dialog, groups, bulk, drawer, prefill, retries, erased, ops,
                 faults>>

(* The finalizer of a Migration that is being deleted is done.  What the    *)
(* page knew of it is about an earlier Migration of the VM from now on.     *)
RemoveMigration(v) ==
  /\ migration[v] # None /\ migration[v].deleting
  /\ migration' = [migration EXCEPT ![v] = None]
  /\ witnessed' = witnessed \ {v} /\ reported' = reported \ {v}
  /\ stale' = stale \cup ({v} \cap reported)
  /\ UNCHANGED <<plan, control, list, tracker, dialog, groups, bulk, drawer, prefill, retries,
                 erased, ops, faults>>

(* Garbage collection: the plan that owns the Migration is gone.            *)
CollectMigration(v) ==
  /\ migration[v] # None /\ ~migration[v].deleting /\ plan[migration[v].plan] = None
  /\ migration' = [migration EXCEPT ![v].deleting = TRUE]
  /\ UNCHANGED <<plan, control, page, dialog, groups, bulk, drawer, prefill, retries, erased, ops, faults>>

-----------------------------------------------------------------------------
(* The page.                                                                *)

Listed(l) == {v \in VMs : l[v] # None}

(* Mutant: the tracker of a name no longer listed stays. *)
AutoCleanupNever(l) == tracker
(* The tracker of a name no longer listed goes, unless the list is empty.   *)
AutoCleanup(l) ==
  IF Listed(l) = {} THEN tracker
  ELSE [v \in VMs |-> IF l[v] = None THEN None ELSE tracker[v]]

(* One migration of the monitor's loop.                                     *)
NextTracker(t, phase) ==
  IF t = None THEN [previousPhase |-> phase, lastReportedPhase |-> None]
  ELSE IF phase \in {t.previousPhase, t.lastReportedPhase} THEN t
  ELSE [previousPhase |-> phase,
        lastReportedPhase |-> IF phase = "Running" THEN t.lastReportedPhase ELSE phase]

(* The first phase of a name is never reported, a failure after another     *)
(* phase is, once.                                                          *)
Reports(t, phase) ==
  phase = "Failed" /\ t # None /\ NextTracker(t, phase).lastReportedPhase # t.lastReportedPhase

(* A poll of the migrations query, and the monitor's effect on its data.    *)
Poll ==
  LET kept == AutoCleanup(migration)
      shown == Listed(migration)
  IN  /\ list' = migration
      /\ tracker' = [v \in VMs |-> IF v \in shown THEN NextTracker(kept[v], migration[v].phase)
                                   ELSE kept[v]]
      /\ reported' = reported \cup {v \in shown : Reports(kept[v], migration[v].phase)}
      /\ witnessed' = witnessed \cup
           {v \in shown : /\ migration[v].phase = "Failed"
                          /\ list[v] # None /\ list[v].phase # "Failed"}
      /\ stale' = IF shown = {} THEN stale ELSE stale \cap shown
      /\ UNCHANGED <<server, dialog, groups, bulk, drawer, prefill, retries, erased, ops, faults>>

(* The row of a VM says what is the case, and the VM is in its plan.        *)
Current(v) == migration[v] = list[v] /\ Holds(list[v].plan, v)

(* Dialogs and drawer are modal; what the page started has ended, but for   *)
(* a retry that was cancelled while it ran.                                 *)
Calm ==
  /\ dialog = NoDialog /\ groups = {} /\ bulk = {} /\ drawer = NoDrawer
  /\ Impatient \/ retries = {}

-----------------------------------------------------------------------------
(* Deleting: the dialog keeps a snapshot of the rows it was opened for.     *)

DeleteClick(S) ==
  /\ Calm /\ S # {} /\ S \subseteq Listed(list)
  /\ ops < MaxOps /\ ops + faults < MaxEvents
  /\ StaleRows \/ \A v \in S : Current(v)
  /\ ops' = ops + 1
  /\ dialog' = [sel |-> {[vm |-> v, plan |-> list[v].plan] : v \in S}, pc |-> "asked"]
  /\ UNCHANGED <<server, page, groups, bulk, drawer, prefill, retries, erased, faults>>

DeleteClose ==
  /\ dialog.pc = "asked"
  /\ dialog' = NoDialog
  /\ UNCHANGED <<server, page, groups, bulk, drawer, prefill, retries, erased, ops, faults>>

(* Mutant: one request chain per migration instead of one per plan. *)
ByPlanEach(sel) ==
  {[plan |-> m.plan, vms |-> {m.vm}, todo |-> {m.vm}, pc |-> "get", rest |-> {}] : m \in sel}
(* deleteMigrations: the selected migrations grouped by plan.               *)
ByPlan(sel) ==
  {[plan |-> p, vms |-> {m.vm : m \in {n \in sel : n.plan = p}},
    todo |-> {m.vm : m \in {n \in sel : n.plan = p}}, pc |-> "get", rest |-> {}] :
      p \in {m.plan : m \in sel}}

DeleteConfirm ==
  /\ dialog.pc = "asked" /\ groups = {}
  /\ groups' = ByPlan(dialog.sel)
  /\ dialog' = [dialog EXCEPT !.pc = "deleting"]
  /\ UNCHANGED <<server, page, bulk, drawer, prefill, retries, erased, ops, faults>>

Fault(kind) ==
  /\ kind \in Failing /\ faults < MaxFaults /\ ops + faults < MaxEvents
  /\ faults' = faults + 1
NoFault == UNCHANGED faults
(* A request that fails because of what it found, or for no such reason.    *)
Fails(kind, missing) == (missing /\ NoFault) \/ Fault(kind)

(* One failure rejects the whole; the other groups run on.                  *)
DeletionFails(g) ==
  /\ groups' = groups \ {g}
  /\ dialog' = [dialog EXCEPT !.pc = "asked"]

FirstBatch(b) == UNION {b[i] : i \in {j \in DOMAIN b : \A k \in DOMAIN b : j <= k}}

GroupGet(g) ==
  /\ g.pc = "get"
  /\ \/ /\ plan[g.plan] # None /\ NoFault
        /\ groups' = (groups \ {g}) \cup
             {[g EXCEPT !.pc = "patch",
                        !.rest = FirstBatch(plan[g.plan]) \ g.vms]}
        /\ UNCHANGED dialog
     \/ Fails("plan", plan[g.plan] = None) /\ DeletionFails(g)
  /\ UNCHANGED <<server, page, bulk, drawer, prefill, retries, erased, ops>>

(* The patch replaces all batches by the one.                               *)
GroupPatch(g) ==
  /\ g.pc = "patch"
  /\ \/ /\ plan[g.plan] # None /\ NoFault
        /\ plan' = [plan EXCEPT ![g.plan] = <<g.rest>>]
        /\ groups' = (groups \ {g}) \cup {[g EXCEPT !.pc = "delete"]}
        /\ UNCHANGED dialog
     \/ Fails("plan", plan[g.plan] = None) /\ DeletionFails(g) /\ UNCHANGED plan
  /\ UNCHANGED <<migration, control, page, bulk, drawer, prefill, retries, erased, ops>>

Marked(v) == [migration EXCEPT ![v].deleting = TRUE]

(* The migrations of a group are deleted in parallel.                       *)
GroupDelete(g, v) ==
  LET left == [g EXCEPT !.todo = @ \ {v}]
      rest == (groups \ {g}) \cup (IF left.todo = {} THEN {} ELSE {left})
  IN  /\ g.pc = "delete" /\ v \in g.todo
      /\ groups' = rest
      /\ \/ /\ migration[v] # None /\ NoFault
            /\ migration' = Marked(v) /\ UNCHANGED dialog
         \/ /\ Fails("migration", migration[v] = None)
            /\ dialog' = [dialog EXCEPT !.pc = "asked"] /\ UNCHANGED migration
      /\ UNCHANGED <<plan, control, page, bulk, drawer, prefill, retries, erased, ops>>

DeleteDone ==
  /\ dialog.pc = "deleting" /\ groups = {}
  /\ erased' = erased \cup {m.vm : m \in dialog.sel}
  /\ dialog' = NoDialog
  /\ UNCHANGED <<server, page, groups, bulk, drawer, prefill, retries, ops, faults>>

-----------------------------------------------------------------------------
(* Bulk retry: the failed migrations are deleted, their plan makes new ones. *)

Retryable(v) == list[v] # None /\ list[v].phase = "Failed"

HandleBulkRetry(S) ==
  /\ Calm /\ S # {} /\ \A v \in S : Retryable(v)
  /\ ops < MaxOps /\ ops + faults < MaxEvents /\ ops' = ops + 1
  /\ bulk' = S
  /\ UNCHANGED <<server, page, dialog, groups, drawer, prefill, retries, erased, faults>>

(* allSettled: an error is dropped.                                         *)
BulkDelete(v) ==
  /\ v \in bulk /\ bulk' = bulk \ {v}
  /\ \/ migration[v] # None /\ NoFault /\ migration' = Marked(v)
     \/ Fails("migration", migration[v] = None) /\ UNCHANGED migration
  /\ UNCHANGED <<plan, control, page, dialog, groups, drawer, prefill, retries, erased, ops>>

-----------------------------------------------------------------------------
(* Edit and retry.                                                          *)

OpenRetry(v) ==
  /\ Calm /\ Retryable(v)
  /\ ops < MaxOps /\ ops + faults < MaxEvents
  /\ StaleRows \/ Current(v)
  /\ ops' = ops + 1
  /\ drawer' = [vm |-> v, query |-> "loading"]
  /\ prefill' = IF Cached THEN prefill ELSE [prefill EXCEPT ![v] = None]
  /\ UNCHANGED <<server, page, dialog, groups, bulk, retries, erased, faults>>

(* useRetryPrefill: anything missing blocks the retry.                      *)
PrefillAnswer ==
  LET v == drawer.vm
      m == migration[v]
  IN  /\ drawer.query = "loading"
      /\ ~StaleRows /\ m # None /\ plan[m.plan] # None => Holds(m.plan, v)
      /\ IF m = None \/ plan[m.plan] = None
           THEN drawer' = [drawer EXCEPT !.query = "error"] /\ UNCHANGED prefill
           ELSE /\ drawer' = [drawer EXCEPT !.query = "loaded"]
                /\ prefill' = [prefill EXCEPT ![v] =
                     [plan |-> m.plan, batches |-> plan[m.plan]]]
      /\ UNCHANGED <<server, page, dialog, groups, bulk, retries, erased, ops, faults>>

(* Mutant: the run still counts as that of the drawer open next. *)
CancelRetryKeeps ==
  /\ drawer # NoDrawer /\ drawer' = NoDrawer
  /\ UNCHANGED <<server, page, dialog, groups, bulk, prefill, retries, erased, ops, faults>>
(* A retry in edit mode changes nothing when it is cancelled; one that was  *)
(* submitted runs on.                                                       *)
CancelRetry ==
  /\ drawer # NoDrawer /\ drawer' = NoDrawer
  /\ retries' = {[r EXCEPT !.mine = FALSE] : r \in retries}
  /\ UNCHANGED <<server, page, dialog, groups, bulk, prefill, erased, ops, faults>>

HandleEditAndRetry ==
  LET v == drawer.vm
  IN  /\ drawer.query \in {"loading", "loaded"} /\ prefill[v] # None
      /\ ~\E r \in retries : r.mine
      /\ retries' = retries \cup
           {[vm |-> v, plan |-> prefill[v].plan, batches |-> prefill[v].batches,
             pc |-> "plan", mine |-> TRUE]}
      /\ UNCHANGED <<server, page, dialog, groups, bulk, drawer, prefill, erased, ops, faults>>

Step(r, pc) == retries' = (retries \ {r}) \cup {[r EXCEPT !.pc = pc]}
RetryEnds(r) == retries' = retries \ {r}

(* Mutant: the plan keeps the VM that is retried. *)
WithoutVMKeeps(r) == [i \in {j \in DOMAIN r.batches : r.batches[j] # {}} |-> r.batches[i]]
(* The batches the plan is left with, as the drawer loaded them.            *)
WithoutVM(r) == [i \in {j \in DOMAIN r.batches : r.batches[j] \ {r.vm} # {}} |->
                   r.batches[i] \ {r.vm}]
(* Mutant: off by one. *)
IsLastVMInPlanOrTwo(r) == Cardinality(AllVMs(r.batches)) <= 2
IsLastVMInPlan(r) == Cardinality(AllVMs(r.batches)) <= 1

(* 1. The VM leaves the old plan, or the plan goes.                         *)
RetryPlan(r) ==
  /\ r.pc = "plan"
  /\ \/ /\ plan[r.plan] # None /\ NoFault
        /\ plan' = [plan EXCEPT ![r.plan] = IF IsLastVMInPlan(r) THEN None ELSE WithoutVM(r)]
        /\ Step(r, "migration")
     \/ Fails("plan", plan[r.plan] = None) /\ RetryEnds(r) /\ UNCHANGED plan
  /\ UNCHANGED <<migration, control, page, dialog, groups, bulk, drawer, prefill, erased, ops>>

(* 2. The failed Migration is deleted, if it is still there ...             *)
RetryDelete(r) ==
  /\ r.pc = "migration"
  /\ \/ /\ NoFault /\ Step(r, "wait")
        /\ migration' = IF migration[r.vm] = None THEN migration ELSE Marked(r.vm)
     \/ Fault("migration") /\ RetryEnds(r) /\ UNCHANGED migration
  /\ UNCHANGED <<plan, control, page, dialog, groups, bulk, drawer, prefill, erased, ops>>

(* ... and pollUntilGone waits until it is gone, or for 30 seconds.         *)
PollUntilGone(r) ==
  /\ r.pc = "wait" /\ Step(r, "post")
  /\ Fails("wait", migration[r.vm] = None)
  /\ UNCHANGED <<server, page, dialog, groups, bulk, drawer, prefill, erased, ops>>

(* 3.-5. New mappings and template, which nothing else refers to yet.       *)
RetryPost(r) ==
  /\ r.pc = "post"
  /\ \/ NoFault /\ Step(r, "newPlan")
     \/ Fault("post") /\ RetryEnds(r)
  /\ UNCHANGED <<server, page, dialog, groups, bulk, drawer, prefill, erased, ops>>

(* 6. The new plan, of a name that is new.                                  *)
Unused(q) == plan[q] = None /\ reconcile[q] = None /\ MigrationsOf(q) = {}

RetryNewPlan(r) ==
  /\ r.pc = "newPlan"
  /\ \/ /\ NoFault /\ Step(r, "flavor")
        /\ \E q \in NewPlans : /\ Unused(q)
                              /\ plan' = [plan EXCEPT ![q] = <<{r.vm}>>]
                              /\ status' = [status EXCEPT ![q] = "active"]
        /\ erased' = erased \ {r.vm}
     \/ Fault("post") /\ RetryEnds(r) /\ UNCHANGED <<plan, status, erased>>
  /\ UNCHANGED <<migration, reconcile, page, dialog, groups, bulk, drawer, prefill, ops>>

(* 7. The VM's flavor; finishRetry closes whichever drawer is open.  After  *)
(* an error Retry can be clicked again.                                     *)
RetryFlavor(r) ==
  /\ r.pc = "flavor" /\ RetryEnds(r)
  /\ \/ NoFault /\ drawer' = NoDrawer
     \/ Fault("flavor") /\ UNCHANGED drawer
  /\ UNCHANGED <<server, page, dialog, groups, bulk, prefill, erased, ops>>

-----------------------------------------------------------------------------
Controllers ==
  \/ \E v \in VMs : RemoveMigration(v) \/ CollectMigration(v)
  \/ \E p \in Plans : \/ ResetPlan(p) \/ ReadPlan(p) \/ EndReconcile(p)
                      \/ \E v \in VMs : CreateMigration(p, v)

RetryStep ==
  \E r \in retries : \/ RetryPlan(r) \/ RetryDelete(r) \/ PollUntilGone(r)
                     \/ RetryPost(r) \/ RetryNewPlan(r) \/ RetryFlavor(r)

Operator ==
  \/ DeleteClose \/ DeleteConfirm \/ CancelRetry \/ HandleEditAndRetry
  \/ \E S \in SUBSET VMs : DeleteClick(S) \/ HandleBulkRetry(S)
  \/ \E v \in VMs : OpenRetry(v)

Next ==
  \/ Controllers \/ RetryStep \/ Operator \/ Poll \/ DeleteDone \/ PrefillAnswer
  \/ \E v \in VMs, phase \in {"Failed", "Succeeded"} : EndMigration(v, phase)
  \/ \E g \in groups : GroupGet(g) \/ GroupPatch(g) \/ \E v \in g.todo : GroupDelete(g, v)
  \/ \E v \in bulk : BulkDelete(v)

Spec == Init /\ [][Next]_vars

-----------------------------------------------------------------------------
(* The shape of the state; a retry drawer that submitted keeps its run.     *)
TypeOK ==
  /\ \A p \in Plans : /\ plan[p] \in Batchings \cup {None} /\ status[p] \in Statuses
                       /\ reconcile[p] \in (SUBSET VMs) \cup {None}
  /\ \A v \in VMs : /\ {migration[v], list[v]} \subseteq MigrationRecord \cup {None}
                    /\ tracker[v] \in TrackerRecord \cup {None}
                    /\ prefill[v] \in PrefillRecord \cup {None}
  /\ \A g \in groups : g.pc \in {"get", "patch", "delete"} /\ g.todo \subseteq g.vms
  /\ \A r \in retries : r.vm \in VMs /\ (r.mine => drawer.vm = r.vm)
  /\ Cardinality({r \in retries : r.mine}) <= 1
  /\ dialog.pc \in {"closed", "asked", "deleting"} /\ drawer.vm \in VMs \cup {None}
  /\ erased \subseteq VMs /\ reported \cup stale \subseteq VMs
  /\ ops \in 0..MaxOps /\ faults \in 0..MaxFaults

(* Two plans never work on one VM: "Removes the VM from the old plan (or    *)
(* deletes the plan if it's the last VM)" before the new plan is made       *)
(* (useRetrySubmit), also when the Migration of the old plan is made anew   *)
(* or collected between two of the retry's requests.                        *)
OnePlanPerVM ==
  \A v \in VMs : Cardinality({p \in Plans : Holds(p, v)}) <= 1

(* A deleted migration leaves no plan behind: once the dialog has closed,   *)
(* no plan holds the VM any more, so that no reconcile that starts then     *)
(* makes its Migration anew (deleteMigrations takes the VMs of one plan out *)
(* in one patch).  One that read the plan before the patch still may.       *)
DeletionSticks == \A v \in erased : ~Planned(v)

(* No VM leaves its plan but those the operator chose to delete or retry.   *)
OthersKept ==
  [][plan' # plan => \A v \in VMs : Planned(v) /\ ~Planned(v)' =>
       \/ \E g \in groups : v \in g.vms
       \/ \E r \in retries : r.vm = v]_vars

(* "Removes the VM from the old plan (or deletes the plan if it's the last   *)
(* VM)": a plan is deleted only if it holds no VM but the retried one.      *)
LastVMOnly ==
  [][\A p \in Plans : plan[p] # None /\ plan'[p] = None =>
       \E r \in retries : r.plan = p /\ AllVMs(plan[p]) \subseteq {r.vm}]_vars

(* The monitor reports "When Migration phase transitions to `Failed`"       *)
(* (AMPLITUDE_EVENTS.md:70): every Migration the page saw fail was reported,*)
(* also one that has the name of an earlier Migration of its VM.            *)
EveryFailureReported == witnessed \subseteq reported

(* So it is unless a failure of an earlier Migration was reported under the *)
(* name and no list that was not empty came without the name since: the     *)
(* tracker goes with the name (useMigrationStatusMonitor.ts:20, 42).         *)
FirstFailureReported == witnessed \subseteq reported \cup stale

(* "Delete the failed Migration, then wait for it to be fully gone before   *)
(* creating new resources" (useRetrySubmit.ts:127): there is no Migration   *)
(* of the old plan while the new resources are made.                        *)
GoneBeforeNewResources ==
  \A r \in retries : r.pc \in {"post", "newPlan", "flavor"} =>
    migration[r.vm] = None \/ migration[r.vm].plan # r.plan
=============================================================================
