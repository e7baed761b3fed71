--------------------------- MODULE MigrationPhase ---------------------------
(***************************************************************************)
(* How the phase of a Migration object follows the v2v-helper pod.  The    *)
(* helper hands messages to its reporter goroutine, which makes Kubernetes *)
(* events of them; MigrationReconciler rebuilds the phase from the events  *)
(* it finds in its informer cache, newest first, and publishes the         *)
(* operator's answers as labels of the pod, which the helper watches.      *)
(* Pods and events reach the controller's caches over two watches that lag *)
(* independently and queue nothing: the pod is owned by the Job, not by    *)
(* the Migration, so the watch of owned pods never matches it.             *)
(***************************************************************************)
EXTENDS Naturals, Sequences, SequencesExt

CONSTANTS
  Paths,      \* copy paths explored: subset of DOMAIN Script
  Answers,    \* answers to the LDM boot gate explored
  MaxRecover, \* bound: creations that report an error although the VM is up
  MaxFail,    \* bound: errors of the migration's own steps
  MaxCrash,   \* bound: crashes of the pod
  MaxWarn,    \* bound: "WARNING: Failed to ..." messages
  MaxFaults,  \* bound: API calls of reporter and controller that fail
  MaxTies,    \* bound: messages created in the same second as the one before
  MaxExpiry,  \* bound: expiries of all events (the API server's event TTL)
  MaxMishaps  \* bound: events of all these kinds together

-----------------------------------------------------------------------------
(* The messages of each path that the phase logic could react to, in the    *)
(* order the helper sends them.  "Done" stands for one that matches nothing *)
(* and follows a creation ("Skipping Health Checks").                       *)
Script == [
  nbd      |-> <<"CopyingDisk", "ChangedBlocks", "Converting", "Created", "Done">>,
  nbdTimed |-> <<"WaitDataCopy", "CopyingDisk", "WaitCutover", "ChangedBlocks",
                 "Converting", "Created", "Done">>,
  nbdAdmin |-> <<"CopyingDisk", "WaitAdmin", "ChangedBlocks", "Converting",
                 "Created", "Done">>,
  hotAdd   |-> <<"Snapshot", "Attach", "Identify", "Serving", "Transfer", "Detach",
                 "Converting", "Created", "Done">>,
  xcopy    |-> <<"EsxiConnect", "InitiatorGroup", "CreateVolume", "CinderManage",
                 "MapVolume", "Rescan", "CopyingDisk", "Converting", "Created", "Done">>,
  dataOnly |-> <<"CopyingDisk", "ChangedBlocks", "Converting", "DataCopied", "Done">>,
  ldm      |-> <<"CopyingDisk", "ChangedBlocks", "Converting", "Created", "Done",
                 "Gate", "GateHelp">>]

AnswerScript == [
  success |-> <<"Promoting", "Created", "Done">>,
  finish  |-> <<"Created">>,
  failed  |-> <<"Failed">>]

(* The phase SetupMigrationPhase derives from a message. *)
Target == [
  Created |-> "Succeeded", WaitAdmin |-> "AwaitingAdminCutOver",
  WaitCutover |-> "AwaitingCutOverStartTime", DataCopied |-> "DataCopied",
  Converting |-> "ConvertingDisk", ChangedBlocks |-> "CopyingChangedBlocks",
  CopyingDisk |-> "Copying", Rescan |-> "RescanningStorage",
  MapVolume |-> "MappingVolume", CinderManage |-> "ImportingToCinder",
  CreateVolume |-> "CreatingVolume", InitiatorGroup |-> "CreatingInitiatorGroup",
  EsxiConnect |-> "ConnectingToESXi", WaitDataCopy |-> "AwaitingDataCopyStart",
  Detach |-> "HotAddCleanup", Transfer |-> "HotAddTransferring",
  Serving |-> "IdentifyingBlockDevices", Identify |-> "IdentifyingBlockDevices",
  Attach |-> "AttachingDisksToProxy", Snapshot |-> "SnapshottingSourceVM"]

VMMigrationStatesEnum == [
  Pending |-> 0, Validating |-> 1, Failed |-> 3, AwaitingDataCopyStart |-> 4,
  ConnectingToESXi |-> 5, CreatingInitiatorGroup |-> 6, CreatingVolume |-> 7,
  ImportingToCinder |-> 8, MappingVolume |-> 9, RescanningStorage |-> 10,
  SnapshottingSourceVM |-> 5, AttachingDisksToProxy |-> 6,
  IdentifyingBlockDevices |-> 7, Copying |-> 11, HotAddTransferring |-> 11,
  HotAddCleanup |-> 12, AwaitingCutOverStartTime |-> 12, AwaitingAdminCutOver |-> 13,
  CopyingChangedBlocks |-> 14, ConvertingDisk |-> 15, DataCopied |-> 16,
  WaitingForLDMBootSuccess |-> 17, PromotingToVirtio |-> 17, Succeeded |-> 17]

Phases == DOMAIN VMMigrationStatesEnum
Messages == DOMAIN Target \cup {"Done", "Gate", "GateHelp", "Promoting", "Failed", "Warning"}
AnswerSet == DOMAIN AnswerScript \cup {"none"}

ASSUME MigrationPhaseAssumption ==
  /\ Paths \subseteq DOMAIN Script
  /\ Answers \subseteq DOMAIN AnswerScript
  /\ {MaxRecover, MaxFail, MaxCrash, MaxWarn, MaxFaults, MaxTies, MaxExpiry} \subseteq Nat
  /\ MaxMishaps \in Nat

VARIABLES
  path,     \* the copy path of this migration
  cutover,  \* Spec.InitiateCutover: the admin still holds the cutover back
  answer,   \* Spec.LDMBootStatus
  pod,      \* the helper pod: phase, labels, Progressing condition
  todo,     \* messages the helper has still to send
  outbox,   \* the message the reporter works on
  server,   \* the target VM in OpenStack: "none" or "up"
  result,   \* how MigrateVM ended: "running", "ok", "failed" or "crashed"
  log,      \* the pod's events, oldest first
  seen,     \* how many of them the controller's cache has
  podSeen,  \* the pod in the controller's cache
  woken,    \* the Migration is queued
  podRead,  \* the pod as read by the running reconcile, if one runs
  phase,    \* Status.Phase
  migrated, \* VMwareMachine.Status.Migrated
  budget    \* how often the bounded events happened

specVars   == <<path, cutover, answer>>
helperVars == <<todo, outbox, server, result>>
storeVars  == <<pod, log>>
cacheVars  == <<seen, podSeen, woken>>
ctlVars    == <<podRead, phase, migrated>>
vars == <<specVars, helperVars, storeVars, cacheVars, ctlVars, budget>>

Mishaps == FoldFunction(+, 0, budget)
Spend(what, max) ==
  /\ budget[what] < max /\ Mishaps < MaxMishaps
  /\ budget' = [budget EXCEPT ![what] = @ + 1]

NoPod == [phase |-> "none"]
Idle == podRead = NoPod
Running == result = "running" /\ pod.phase = "Running"

Init ==
  /\ path \in Paths
  /\ cutover = (path = "nbdAdmin") /\ answer = "none"
  /\ pod = [phase |-> "Pending", cutover |-> IF cutover THEN "no" ELSE "yes",
            boot |-> "none", progress |-> "none"]
  /\ todo = Script[path] /\ outbox = "none" /\ server = "none" /\ result = "running"
  /\ log = <<>> /\ seen = 0
  /\ podSeen = pod /\ woken = TRUE
  /\ podRead = NoPod /\ phase = "Pending" /\ migrated = FALSE
  /\ budget = [recover |-> 0, fail |-> 0, crash |-> 0, warn |-> 0, fault |-> 0,
               tie |-> 0, expiry |-> 0]

-----------------------------------------------------------------------------
(* The operator. *)

InitiateCutover ==
  /\ cutover /\ cutover' = FALSE
  /\ woken' = TRUE
  /\ UNCHANGED <<path, answer, helperVars, storeVars, seen, podSeen, ctlVars, budget>>

AnswerGate ==
  /\ pod.progress = "GateHelp"
  /\ answer' \in Answers \ {answer}
  /\ woken' = TRUE
  /\ UNCHANGED <<path, cutover, helperVars, storeVars, seen, podSeen, ctlVars, budget>>

-----------------------------------------------------------------------------
(* The helper.  logMessage waits until the reporter takes the message;      *)
(* UpdateProgress then puts it into the pod's Progressing condition.        *)

PodStarts ==
  /\ pod.phase = "Pending"
  /\ pod' = [pod EXCEPT !.phase = "Running"]
  /\ UNCHANGED <<specVars, helperVars, log, cacheVars, ctlVars, budget>>

logMessage(m) ==
  /\ outbox = "none" /\ outbox' = m
  /\ pod' = [pod EXCEPT !.progress = m]

(* The waits for the label, for the boot gate's answer, and for the server  *)
(* that promoteLDMGuestToVirtio has to delete.                              *)
AwaitsAdmin == path = "nbdAdmin" /\ todo # <<>> /\ Head(todo) = "ChangedBlocks"
Waiting ==
  \/ AwaitsAdmin /\ pod.cutover # "yes"
  \/ pod.progress = "Promoting" /\ server = "up"

SendNext ==
  /\ Running /\ todo # <<>> /\ ~ Waiting
  /\ logMessage(Head(todo))
  /\ todo' = Tail(todo)
  /\ server' = CASE Head(todo) = "Created" -> "up"
                 [] Head(todo) = "Failed" -> "none"
                 [] OTHER -> server
  /\ UNCHANGED <<specVars, result, log, cacheVars, ctlVars, budget>>

(* CreateTargetInstance fails, verifyVMCreatedDespiteTimeout finds the VM:  *)
(* MigrateVM reports the creation itself and says nothing after it.         *)
CreateRecovered ==
  /\ Running /\ todo # <<>> /\ Head(todo) = "Created"
  /\ path # "ldm" /\ Spend("recover", MaxRecover)
  /\ logMessage("Created")
  /\ todo' = <<>> /\ server' = "up"
  /\ UNCHANGED <<specVars, result, log, cacheVars, ctlVars>>

(* Settings that cannot be read as the copy or the wait for the admin       *)
(* starts: a default is used.                                               *)
Warn ==
  /\ Running /\ path \in {"nbd", "nbdTimed", "nbdAdmin"}
  /\ AwaitsAdmin \/ (todo # <<>> /\ Head(todo) = "CopyingDisk")
  /\ Spend("warn", MaxWarn)
  /\ logMessage("Warning")
  /\ UNCHANGED <<specVars, todo, server, result, log, cacheVars, ctlVars>>

(* Up to the creation of the VM any error ends MigrateVM. *)
Fail ==
  /\ Running /\ server = "none" /\ pod.progress # "Promoting"
  /\ todo # <<>> /\ Head(todo) # "Done"
  /\ Spend("fail", MaxFail)
  /\ logMessage("Failed")
  /\ todo' = <<>>
  /\ UNCHANGED <<specVars, server, result, log, cacheVars, ctlVars>>

(* waitForLDMBootAndPromote gets the answer from the label's watcher. *)
TakeAnswer ==
  /\ Running /\ pod.progress = "GateHelp" /\ pod.boot # "none" /\ todo = <<>>
  /\ todo' = AnswerScript[pod.boot]
  /\ UNCHANGED <<specVars, outbox, server, result, storeVars, cacheVars, ctlVars, budget>>

DeleteServer ==
  /\ Running /\ pod.progress = "Promoting" /\ server = "up"
  /\ server' = "none"
  /\ UNCHANGED <<specVars, todo, outbox, result, storeVars, cacheVars, ctlVars, budget>>

(* A promotion that fails is only warned about. *)
PromotionFails ==
  /\ Running /\ pod.progress = "Promoting" /\ todo # <<>>
  /\ Spend("fail", MaxFail)
  /\ logMessage("Done")
  /\ todo' = <<>>
  /\ UNCHANGED <<specVars, server, result, log, cacheVars, ctlVars>>

(* main returns: exit code 0 in either case.  handleError waits for the     *)
(* reporter's acknowledgement, a successful MigrateVM does not: what the    *)
(* reporter still works on is lost with the process.                        *)
Exit ==
  /\ Running /\ todo = <<>> /\ pod.progress # "GateHelp"
  /\ pod.progress = "Failed" => outbox = "none"
  /\ result' = IF pod.progress = "Failed" THEN "failed" ELSE "ok"
  /\ pod' = [pod EXCEPT !.phase = "Succeeded"]
  /\ outbox' = "none"
  /\ UNCHANGED <<specVars, todo, server, log, cacheVars, ctlVars, budget>>

Crash ==
  /\ Running /\ Spend("crash", MaxCrash)
  /\ result' = "crashed" /\ outbox' = "none"
  /\ pod' = [pod EXCEPT !.phase = "Failed"]
  /\ UNCHANGED <<specVars, todo, server, log, cacheVars, ctlVars>>

(* The reporter creates the event, or fails to.  Timestamps have a second's *)
(* resolution.                                                              *)
CreateKubernetesEvent ==
  /\ outbox # "none" /\ outbox' = "none"
  /\ \/ log' = Append(log, [msg |-> outbox, tie |-> FALSE]) /\ UNCHANGED budget
     \/ /\ log # <<>> /\ ~ Last(log).tie /\ Last(log).msg \notin {"GateHelp", "Promoting"}
        /\ Spend("tie", MaxTies)
        /\ log' = Append(log, [msg |-> outbox, tie |-> TRUE])
     \/ Spend("fault", MaxFaults) /\ UNCHANGED log
  /\ UNCHANGED <<specVars, pod, todo, server, result, cacheVars, ctlVars>>

-----------------------------------------------------------------------------
(* The API server and the controller's informers.                           *)

(* The helper's open-ended waits outlast the event TTL; by then the phase   *)
(* shows the wait.                                                          *)
EventsExpire ==
  /\ \/ phase = "AwaitingAdminCutOver" /\ pod.progress = "WaitAdmin"
     \/ phase = "WaitingForLDMBootSuccess" /\ pod.progress = "GateHelp"
  /\ Running /\ Idle /\ outbox = "none" /\ seen = Len(log) /\ log # <<>>
  /\ Spend("expiry", MaxExpiry)
  /\ log' = <<>> /\ seen' = 0
  /\ UNCHANGED <<specVars, helperVars, pod, podSeen, woken, ctlVars>>

SyncEvents ==
  /\ seen < Len(log)
  /\ seen' = seen + 1
  /\ UNCHANGED <<specVars, helperVars, storeVars, podSeen, woken, ctlVars, budget>>

SyncPod ==
  /\ podSeen # pod
  /\ podSeen' = pod
  /\ UNCHANGED <<specVars, helperVars, storeVars, seen, woken, ctlVars, budget>>

(* The informers' resync queues every Migration, every ten hours.           *)
Resync ==
  /\ phase = "Succeeded" /\ ~ woken /\ woken' = TRUE
  /\ UNCHANGED <<specVars, helperVars, storeVars, seen, podSeen, ctlVars, budget>>

-----------------------------------------------------------------------------
(* MigrationReconciler. *)

(* Mutant: the label is not the value the helper compares with.             *)
SetCutoverLabelTrue(current) == IF cutover THEN current ELSE "true"

SetCutoverLabel(current) == IF cutover THEN current ELSE "yes"

(* Mutant: the label follows the spec, changed answers included.            *)
SetLDMBootStatusLabelRewrites(current) == answer
SetLDMBootStatusLabel(current) == IF current # "none" THEN current ELSE answer

isPodRunningOrTerminal(p) == p.phase # "Pending"

(* A Failed migration is not reconciled any more; a succeeded one only when *)
(* it is queued; all others every 30 seconds.  The labels are written from  *)
(* the cached pod: the write fails, and is retried, while that is stale.    *)
ReconcileStart ==
  /\ Idle /\ phase # "Failed" /\ (phase = "Succeeded" => woken)
  /\ LET labelled == [podSeen EXCEPT !.cutover = SetCutoverLabel(@),
                                     !.boot = SetLDMBootStatusLabel(@)]
     IN /\ labelled = podSeen \/ podSeen = pod
        /\ pod' = IF labelled = podSeen THEN pod ELSE labelled
        /\ podRead' = IF isPodRunningOrTerminal(podSeen) THEN labelled ELSE NoPod
  /\ woken' = FALSE
  /\ UNCHANGED <<specVars, helperVars, log, seen, podSeen, phase, migrated, budget>>

(* GetEventsSorted: the visible events newest first; sort.Slice is not      *)
(* stable, so two of the same second come in either order.                  *)
Visible == SubSeq(log, 1, seen)
SortedEvents ==
  {Reverse([i \in DOMAIN Visible |->
      IF i \in swapped THEN Visible[i - 1].msg
      ELSE IF i + 1 \in swapped THEN Visible[i + 1].msg ELSE Visible[i].msg]) :
    swapped \in SUBSET {i \in DOMAIN Visible : Visible[i].tie}}

Sent(m, from) == \E i \in DOMAIN Visible : i > from /\ Visible[i].msg = m

(* Mutant: any answer is taken for a rebuild.                               *)
LDMHeldPhaseByLabel ==
  IF ~ Sent("Gate", 0) THEN "none"
  ELSE IF podSeen.boot = "none" THEN "WaitingForLDMBootSuccess"
  ELSE IF Sent("Created", 0) THEN "none" ELSE "PromotingToVirtio"

(* The phase an LDM migration is held at, or "none". *)
LDMHeldPhase ==
  IF ~ Sent("Gate", 0) THEN "none"
  ELSE IF podSeen.boot = "none" THEN "WaitingForLDMBootSuccess"
  ELSE IF \E i \in DOMAIN Visible : Visible[i].msg = "Promoting" /\ ~ Sent("Created", i)
  THEN "PromotingToVirtio" ELSE "none"

Started == IF phase = "Pending" THEN "Validating" ELSE phase

(* Mutant: a phase is taken whatever came before.                           *)
ReachesAnyway(p, m) == m \in DOMAIN Target

(* A phase already passed is not taken again.                               *)
Reaches(p, m) ==
  m \in DOMAIN Target /\ VMMigrationStatesEnum[p] <= VMMigrationStatesEnum[Target[m]]

(* Mutant: a failure counts only while the phase ranks below Failed.        *)
FailsRanked(p, m) == m \in {"Failed", "Warning"} /\ VMMigrationStatesEnum[p] <= 3

(* "Failed to" counts in any message.                                       *)
Fails(p, m) == m \in {"Failed", "Warning"}

(* Once the cutover is triggered the wait for it is undone, and the loop    *)
(* goes on to older events.                                                 *)
Undoes(p, m) == m = "WaitAdmin" /\ podSeen.cutover = "yes" /\ Reaches(p, m)
Decides(p, m) == (Reaches(p, m) /\ ~ Undoes(p, m)) \/ Fails(p, m)

(* The phase the loop has as it looks at the i-th event.                    *)
PhaseAt(events, i) ==
  IF \E j \in 1 .. i - 1 : Undoes(Started, events[j]) THEN "Copying" ELSE Started

(* The newest event that decides, decides.                                  *)
ScanEvents(events) ==
  LET deciding == {i \in DOMAIN events : Decides(PhaseAt(events, i), events[i])}
      first == CHOOSE i \in deciding : \A j \in deciding : i <= j
  IN IF deciding = {} THEN PhaseAt(events, Len(events) + 1)
     ELSE IF Reaches(PhaseAt(events, first), events[first]) THEN Target[events[first]]
     ELSE "Failed"

SetupMigrationPhase(events) ==
  IF LDMHeldPhase # "none" THEN LDMHeldPhase ELSE ScanEvents(events)

(* Mutants: no fallback; a pod that exited with 0 has succeeded; one whose   *)
(* events say nothing has failed.                                           *)
TerminalFallbackNone(p) == p
TerminalFallbackTrustsExit(p) == IF podRead.phase = "Succeeded" THEN "Succeeded" ELSE p
TerminalFallbackFails(p) ==
  IF podRead.phase = "Succeeded" /\ p \notin {"Succeeded", "DataCopied"} THEN "Failed" ELSE p

(* What a pod that succeeded says when the events do not. *)
TerminalFallback(p) ==
  IF podRead.phase # "Succeeded" THEN p
  ELSE IF path = "dataOnly" /\ p = "ConvertingDisk" THEN "DataCopied"
  ELSE IF p \in {"WaitingForLDMBootSuccess", "PromotingToVirtio"} THEN "Succeeded"
  ELSE p

(* The second half of Reconcile, from the caches as they are by now.        *)
(* markMigrationSuccessful runs before the status update; an error of       *)
(* either leaves the phase as it was, and is retried.  A status that is     *)
(* written queues the Migration once more; its conditions may change while  *)
(* its phase does not.                                                      *)
ReconcilePhase ==
  /\ ~ Idle /\ podRead' = NoPod
  /\ \E events \in SortedEvents :
       LET p == TerminalFallback(SetupMigrationPhase(events))
       IN \/ /\ phase' = p /\ migrated' = (migrated \/ p = "Succeeded")
             /\ woken' \in {woken \/ p # phase, TRUE}
             /\ UNCHANGED budget
          \/ /\ Spend("fault", MaxFaults) /\ UNCHANGED phase
             /\ migrated' \in {migrated, migrated \/ p = "Succeeded"}
             /\ woken' = TRUE
  /\ UNCHANGED <<specVars, helperVars, storeVars, seen, podSeen>>

-----------------------------------------------------------------------------
Operator == InitiateCutover \/ AnswerGate
Helper == PodStarts \/ SendNext \/ TakeAnswer \/ DeleteServer \/ Exit
Mishap == CreateRecovered \/ Warn \/ Fail \/ PromotionFails \/ Crash \/ EventsExpire

(* Only a migration reported finished comes to rest. *)
AtRest ==
  /\ phase \in {"Failed", "Succeeded"} /\ pod.phase \in {"Succeeded", "Failed"}
  /\ UNCHANGED vars

Next ==
  \/ Operator \/ Helper \/ Mishap
  \/ CreateKubernetesEvent \/ SyncEvents \/ SyncPod \/ Resync
  \/ ReconcileStart \/ ReconcilePhase \/ AtRest

Spec == Init /\ [][Next]_vars

(* The pod is scheduled, its goroutines run, watches deliver, the work      *)
(* queue retries; the operator answers in the end.                          *)
FairSpec ==
  /\ Spec
  /\ WF_vars(Helper) /\ WF_vars(CreateKubernetesEvent)
  /\ WF_vars(SyncEvents) /\ WF_vars(SyncPod)
  /\ WF_vars(ReconcileStart) /\ WF_vars(ReconcilePhase)
  /\ WF_vars(InitiateCutover) /\ WF_vars(AnswerGate)

-----------------------------------------------------------------------------
Pod == [phase : {"Pending", "Running", "Succeeded", "Failed"}, cutover : {"no", "yes"},
        boot : AnswerSet, progress : Messages \cup {"none"}]

TypeOK ==
  /\ path \in Paths /\ cutover \in BOOLEAN /\ answer \in AnswerSet
  /\ pod \in Pod /\ podSeen \in Pod /\ podRead \in Pod \cup {NoPod}
  /\ todo \in Seq(Messages) /\ outbox \in Messages \cup {"none"}
  /\ server \in {"none", "up"} /\ result \in {"running", "ok", "failed", "crashed"}
  /\ log \in Seq([msg : Messages, tie : BOOLEAN]) /\ seen \in 0 .. Len(log)
  /\ woken \in BOOLEAN /\ migrated \in BOOLEAN /\ phase \in Phases
  /\ budget \in [{"recover", "fail", "crash", "warn", "fault", "tie", "expiry"} -> Nat]

-----------------------------------------------------------------------------
(* A migration is reported successful only when its VM exists in OpenStack  *)
(* and its VMwareMachine is marked, although the phase is rebuilt from      *)
(* events that lag, tie, expire and get lost.  (The VM of an LDM migration  *)
(* is deleted and created again.)                                           *)
SucceededMeansCreated ==
  phase = "Succeeded" => migrated /\ (path # "ldm" => server = "up")

(* A migration is reported failed only when its helper failed: the comment  *)
(* at migrationutils.go:193 and the message of nbd_copy.go:364 ("continuing *)
(* with migration") say that warnings are no failures.                      *)
FailedMeansFailed ==
  phase = "Failed" => pod.progress = "Failed" \/ result = "crashed"

(* The phase shown never moves back, but from the admin's gate to the copy  *)
(* once the cutover is triggered, whichever part of the events is visible.  *)
PhaseOnlyAdvances ==
  [][\/ phase' = "Failed"
     \/ VMMigrationStatesEnum[phase] <= VMMigrationStatesEnum[phase']
     \/ phase = "AwaitingAdminCutOver" /\ pod.cutover = "yes"]_phase

(* The operator's answer to the boot gate, once published, is the one the   *)
(* helper acts on: the label is written once (migrationutils.go:276).       *)
AnswerWrittenOnce == [][pod.boot # "none" => pod'.boot = pod.boot]_pod

(* The rebuild is never reported while the gate still waits for an answer.  *)
PromotingMeansAnswered == phase = "PromotingToVirtio" => pod.boot = "success"

(* A helper that finished is reported so for good; and so is one that       *)
(* failed.                                                                  *)
SuccessReported ==
  result = "ok" ~> [](phase = IF path = "dataOnly" THEN "DataCopied" ELSE "Succeeded")
FailureReported == result = "failed" ~> [](phase = "Failed")

-----------------------------------------------------------------------------
(* What comments and tests say of LDM guests, and the code does not keep:   *)
(* the README lists how.                                                    *)

(* "The SATA build is not a finished migration: the operator still has to   *)
(* answer the boot gate" (constants.go:420).                                *)
LDMSucceededAnswered == path = "ldm" /\ phase = "Succeeded" => pod.boot # "none"

(* A rollback "must never be reported as successful"                        *)
(* (migration_controller_test.go:132).                                      *)
RollbackNotSuccessful == result = "failed" => phase # "Succeeded"

(* "Promotion is an optimisation on top of a working VM" (migrate.go:440):  *)
(* whether it works or not, the VM is there when the helper has ended.      *)
PromotionKeepsVM == result = "ok" => server = "up"
=============================================================================
