---------------------------- MODULE Replication ----------------------------
(***************************************************************************)
(* LiveReplicateDisks of v2v-helper: the copy of the disks of a VMware VM  *)
(* into Cinder volumes while the VM may still be running.  A full copy is  *)
(* taken from a snapshot; the blocks that change meanwhile are found with  *)
(* changed-block tracking (CBT) and copied again, from one more snapshot   *)
(* per iteration, until nothing changed or the threshold is passed; the VM *)
(* is then powered off and one last iteration runs.  An administrator may  *)
(* hold the cutover back: WaitforAdminCutover then waits for the pod label *)
(* and keeps the volumes fresh with periodic sync cycles.                  *)
(*                                                                         *)
(* Data.  A block's content is its version: every guest write makes a new  *)
(* one.  An image gives the version of every block of every disk.  A CBT   *)
(* change ID stands for an instant of one disk and is modelled by the      *)
(* disk and its image at that instant.                                     *)
(***************************************************************************)
EXTENDS Naturals, Sequences, FiniteSets

CONSTANTS
  NumDisks,    \* vminfo.VMDisks is a slice: disks are 1..NumDisks
  Blocks,      \* the blocks of a disk
  SnapDev,     \* SnapDev[d]: the disk at d's index in a snapshot's device list
  MigTypes,    \* migration types explored: subset of {"hot", "cold", "mock"}
  AdminChoices,\* values of "admin initiated cutover" explored
  Threshold,   \* ChangedBlocksCopyIterationThreshold
  MaxWrites,   \* bound: guest writes
  MaxFaults,   \* bound: vCenter, NBD or OpenStack calls that fail
  MaxForeign,  \* bound: snapshots taken by somebody else (a backup tool)
  MaxPowerOn   \* bound: power-ons of the source VM by somebody else

Disks == 1 .. NumDisks
Image == [Disks -> [Blocks -> Nat]]

ASSUME ReplicationAssumption ==
  /\ NumDisks \in Nat \ {0}
  /\ SnapDev \in [Disks -> Disks]
  /\ MigTypes \subseteq {"hot", "cold", "mock"}
  /\ AdminChoices \subseteq BOOLEAN
  /\ {Threshold, MaxWrites, MaxFaults, MaxForeign, MaxPowerOn} \subseteq Nat

VARIABLES
  src,       \* current content of the source disks
  power,     \* power state of the source VM
  snaps,     \* the VM's snapshot chain, oldest first; the last one is current
  vol,       \* content of the target volumes
  migType,   \* migobj.MigrationType
  admin,     \* adminInitiatedCutover
  cbt,       \* the source disks carry change IDs
  yes,       \* the watcher holds the label "yes" for PodLabelWatcher
  pc,        \* where the helper is
  idx,       \* the disk of the running loop over VMDisks
  cnt,       \* incrementalCopyCount
  done,      \* no disk of this iteration had changed
  final,     \* this iteration is the last
  ref,       \* image of migration_snapshot, as found by GetSnapshot
  areas,     \* changedAreas of disk idx
  changeId,  \* VMDisks[d].ChangeID
  back,      \* what VMDisks[d].SnapBackingDisk, served over NBD, contains
  budget,    \* how often the bounded events happened
  cut        \* history: image of the last migration snapshot created

guestVars  == <<src, power>>
configVars == <<migType, admin, cbt>>
loopVars   == <<idx, cnt, done, final>>
diskVars   == <<ref, areas, changeId, back>>
vars == <<src, power, snaps, vol, migType, admin, cbt, yes, pc, idx, cnt,
          done, final, ref, areas, changeId, back, budget, cut>>

NoId == [disk |-> 0]
Snapshot(own, img) == [own |-> own, img |-> img]
ChangeIdOf(d, img) == [disk |-> d, img |-> img[d]]

MainPcs == {"coldOff", "coldVerify", "clean0", "snap0", "info0", "full",
            "cutOff", "cutVerify", "waitCut", "clean", "coldCheck", "snap",
            "find", "info", "query", "copy", "setId", "iterEnd", "finOff",
            "finVerify", "release"}
SyncPcs == {"syncClean", "syncSnap", "syncFind", "syncQuery", "syncInfo",
            "syncCopy", "syncSetId"}
Pcs == MainPcs \cup SyncPcs \cup {"adminIdle", "done", "failed"}

Goto(label) == pc' = label
Spend(what, max) ==
  /\ budget[what] < max
  /\ budget' = [budget EXCEPT ![what] = @ + 1]

ZeroImage == [d \in Disks |-> [b \in Blocks |-> 0]]
FirstImage == [d \in Disks |-> [b \in Blocks |-> 1]]

(* The VM may carry the user's snapshot, or one left by an earlier attempt. *)
Init ==
  /\ src = FirstImage
  /\ power \in {"on", "off"}
  /\ snaps \in {<<>>, <<Snapshot(FALSE, FirstImage)>>, <<Snapshot(TRUE, FirstImage)>>}
  /\ vol = ZeroImage
  /\ migType \in MigTypes
  /\ admin \in AdminChoices
  /\ cbt \in {c \in BOOLEAN : migType # "cold" => c}
  /\ yes = FALSE
  /\ pc = IF migType = "cold" THEN "coldOff" ELSE "clean0"
  /\ idx = 1 /\ cnt = 0 /\ done = TRUE /\ final = FALSE
  /\ ref = ZeroImage
  /\ areas = {}
  /\ changeId = [d \in Disks |-> NoId]
  /\ back = ZeroImage
  /\ budget = [write |-> 0, fault |-> 0, foreign |-> 0, powerOn |-> 0]
  /\ cut = ZeroImage

-----------------------------------------------------------------------------
(* What the rest of the world does to the VM and to the pod's label. *)

GuestWrite ==
  /\ power = "on"
  /\ Spend("write", MaxWrites)
  /\ \E d \in Disks, b \in Blocks : src' = [src EXCEPT ![d][b] = @ + 1]
  /\ UNCHANGED <<power, snaps, vol, configVars, yes, pc, loopVars, diskVars, cut>>

GuestShutdown ==
  /\ power = "on"
  /\ power' = "off"
  /\ UNCHANGED <<src, snaps, vol, configVars, yes, pc, loopVars, diskVars, budget, cut>>

ForeignPowerOn ==
  /\ power = "off"
  /\ Spend("powerOn", MaxPowerOn)
  /\ power' = "on"
  /\ UNCHANGED <<src, snaps, vol, configVars, yes, pc, loopVars, diskVars, cut>>

ForeignSnapshot ==
  /\ Spend("foreign", MaxForeign)
  /\ snaps' = Append(snaps, Snapshot(FALSE, src))
  /\ UNCHANGED <<guestVars, vol, configVars, yes, pc, loopVars, diskVars, cut>>

AdminSaysYes ==
  /\ admin /\ ~yes
  /\ yes' = TRUE
  /\ UNCHANGED <<guestVars, snaps, vol, configVars, pc, loopVars, diskVars, budget, cut>>

-----------------------------------------------------------------------------
(* The calls the helper makes, as relations on the state they touch. *)

(* Mutant: every snapshot of the VM is removed, whatever its name.          *)
CleanUpAllSnapshots == snaps' = <<>>

(* CleanUpSnapshots removes every snapshot named migration-snap together    *)
(* with its children: the chain is cut below the oldest of them.            *)
Named == {i \in DOMAIN snaps : snaps[i].own}
RemoveFrom(k) == snaps' = SubSeq(snaps, 1, k - 1)
CleanUpSnapshots ==
  \/ Named = {} /\ UNCHANGED snaps
  \/ \E k \in Named : (\A i \in Named : k <= i) /\ RemoveFrom(k)

TakeSnapshot ==
  /\ snaps' = Append(snaps, Snapshot(TRUE, src))
  /\ cut' = src

(* GetSnapshot resolves a name, and fails unless exactly one snapshot has it. *)
GetSnapshot == \E i \in Named : Named = {i} /\ ref' = snaps[i].img

Current == snaps[Len(snaps)].img

(* Mutant: the disks of the snapshot are matched by position.               *)
UpdateDisksInfoByIndex ==
  /\ changeId' = [d \in Disks |-> IF cbt THEN ChangeIdOf(SnapDev[d], Current) ELSE NoId]
  /\ back' = [d \in Disks |-> Current[SnapDev[d]]]

(* UpdateDisksInfo matches the current snapshot's disks by device key. *)
UpdateDisksInfo ==
  /\ changeId' = [d \in Disks |-> IF cbt THEN ChangeIdOf(d, Current) ELSE NoId]
  /\ back' = Current

(* Mutant: the change ID advances before the blocks are copied.             *)
UpdateDiskInfoEarly(blockCopySuccess) ==
  /\ cbt
  /\ back' = [back EXCEPT ![idx] = Current[SnapDev[idx]]]
  /\ changeId' = [changeId EXCEPT ![idx] = ChangeIdOf(SnapDev[idx], Current)]

(* UpdateDiskInfo matches them by position in the device list, and needs a  *)
(* change ID on every one.                                                  *)
UpdateDiskInfo(blockCopySuccess) ==
  /\ cbt
  /\ back' = [back EXCEPT ![idx] = Current[SnapDev[idx]]]
  /\ changeId' = IF blockCopySuccess
                 THEN [changeId EXCEPT ![idx] = ChangeIdOf(SnapDev[idx], Current)]
                 ELSE changeId

(* QueryChangedDiskAreas refuses another disk's change ID.  It lists what   *)
(* was written: CBT has its own granularity, neighbouring extents are       *)
(* coalesced, and a block written with the content it held is listed too,   *)
(* so that a running guest may keep every query from coming back empty.     *)
(* The VM of a cold migration is off and writes nothing.                    *)
Changed == {b \in Blocks : changeId[idx].img[b] < ref[idx][b]}
Idle == migType = "cold" /\ power = "off" /\ Changed = {}
QueryChangedDiskAreas ==
  /\ changeId[idx].disk = idx
  /\ areas' \in {listed \in SUBSET Blocks :
                  Changed \subseteq listed /\ (Idle => listed = {})}

CopyBlocks(bs) ==
  vol' = [vol EXCEPT ![idx] = [b \in Blocks |-> IF b \in bs THEN back[idx][b] ELSE @[b]]]

PowerOff(next) == power' = "off" /\ Goto(next)
Verify(next) == Goto(IF power = "off" THEN next ELSE "failed")

-----------------------------------------------------------------------------
(* LiveReplicateDisks up to the end of the full copy. *)

ColdPowerOff ==
  /\ pc = "coldOff" /\ PowerOff("coldVerify")
  /\ UNCHANGED <<src, snaps, vol, configVars, yes, loopVars, diskVars, budget, cut>>

ColdVerify ==
  /\ pc = "coldVerify" /\ Verify("clean0")
  /\ UNCHANGED <<guestVars, snaps, vol, configVars, yes, loopVars, diskVars, budget, cut>>

FirstCleanUp ==
  /\ pc = "clean0" /\ CleanUpSnapshots /\ Goto("snap0")
  /\ UNCHANGED <<guestVars, vol, configVars, yes, loopVars, diskVars, budget, cut>>

FirstSnapshot ==
  /\ pc = "snap0" /\ TakeSnapshot /\ Goto("info0")
  /\ UNCHANGED <<guestVars, vol, configVars, yes, loopVars, diskVars, budget>>

FirstInfo ==
  /\ pc = "info0" /\ UpdateDisksInfo /\ Goto("full")
  /\ UNCHANGED <<guestVars, snaps, vol, configVars, yes, loopVars, ref, areas, budget, cut>>

FullCopy ==
  /\ pc = "full"
  /\ CopyBlocks(Blocks)
  /\ IF idx < NumDisks
     THEN idx' = idx + 1 /\ Goto("full")
     ELSE idx' = 1 /\ Goto(IF admin THEN "adminIdle" ELSE "waitCut")
  /\ UNCHANGED <<guestVars, snaps, configVars, yes, cnt, done, final, diskVars, budget, cut>>

-----------------------------------------------------------------------------
(* WaitforAdminCutover and its periodic sync cycles. *)

AdminCutover ==
  /\ pc = "adminIdle" /\ yes
  /\ yes' = FALSE
  /\ Goto(IF migType = "mock" THEN "waitCut" ELSE "cutOff")
  /\ UNCHANGED <<guestVars, snaps, vol, configVars, loopVars, diskVars, budget, cut>>

(* Mutant: a label that arrives as a cycle starts is received and dropped.  *)
StartSyncCycleDropsLabel ==
  /\ pc = "adminIdle" /\ Goto("syncClean")
  /\ yes' = FALSE
  /\ UNCHANGED <<guestVars, snaps, vol, configVars, loopVars, diskVars, budget, cut>>

StartSyncCycle ==
  /\ pc = "adminIdle" /\ Goto("syncClean")
  /\ UNCHANGED <<guestVars, snaps, vol, configVars, yes, loopVars, diskVars, budget, cut>>

SyncCleanUp ==
  /\ pc = "syncClean" /\ CleanUpSnapshots /\ Goto("syncSnap")
  /\ UNCHANGED <<guestVars, vol, configVars, yes, loopVars, diskVars, budget, cut>>

SyncSnapshot ==
  /\ pc = "syncSnap" /\ TakeSnapshot /\ Goto("syncFind")
  /\ UNCHANGED <<guestVars, vol, configVars, yes, loopVars, diskVars, budget>>

SyncFind ==
  /\ pc = "syncFind" /\ GetSnapshot /\ Goto("syncQuery")
  /\ idx' = 1
  /\ UNCHANGED <<guestVars, snaps, vol, configVars, yes, cnt, done, final,
                 areas, changeId, back, budget, cut>>

NextSyncDisk ==
  IF idx < NumDisks THEN idx' = idx + 1 /\ Goto("syncQuery")
                    ELSE idx' = 1 /\ Goto("adminIdle")

SyncQuery ==
  /\ pc = "syncQuery" /\ QueryChangedDiskAreas
  /\ IF areas' = {} THEN NextSyncDisk ELSE Goto("syncInfo") /\ UNCHANGED idx
  /\ UNCHANGED <<guestVars, snaps, vol, configVars, yes, cnt, done, final,
                 ref, changeId, back, budget, cut>>

SyncInfo ==
  /\ pc = "syncInfo" /\ UpdateDiskInfo(FALSE) /\ Goto("syncCopy")
  /\ UNCHANGED <<guestVars, snaps, vol, configVars, yes, loopVars, ref, areas, budget, cut>>

SyncCopy ==
  /\ pc = "syncCopy" /\ CopyBlocks(areas) /\ Goto("syncSetId")
  /\ UNCHANGED <<guestVars, snaps, configVars, yes, loopVars, diskVars, budget, cut>>

SyncSetId ==
  /\ pc = "syncSetId" /\ UpdateDiskInfo(TRUE) /\ NextSyncDisk
  /\ UNCHANGED <<guestVars, snaps, vol, configVars, yes, cnt, done, final,
                 ref, areas, budget, cut>>

(* Mutant: a failed copy of changed blocks is taken for a finished one.     *)
SyncStepFailsUnnoticed ==
  /\ pc = "syncCopy"
  /\ Spend("fault", MaxFaults)
  /\ \E part \in SUBSET areas : CopyBlocks(part)
  /\ Goto("syncSetId")
  /\ UNCHANGED <<guestVars, snaps, cut, configVars, yes, loopVars, diskVars>>

(* The pod is told to terminate: the wait returns the context's error, at   *)
(* once or after SyncCBT, whose copy stops, has removed the snapshot.       *)
WaitCancelled ==
  /\ pc \in SyncPcs \cup {"adminIdle"}
  /\ Spend("fault", MaxFaults)
  /\ \/ UNCHANGED snaps
     \/ pc = "syncCopy" /\ CleanUpSnapshots
     \/ pc = "syncCopy" /\ \E k \in Named : RemoveFrom(k)
  /\ Goto("failed")
  /\ UNCHANGED <<guestVars, vol, configVars, yes, loopVars, diskVars, cut>>

(* A call of the cycle fails, perhaps after part of its work; its phase is  *)
(* retried from the start, or given up until the next cycle.                *)
SyncStepFails ==
  /\ pc \in SyncPcs
  /\ Spend("fault", MaxFaults)
  /\ \/ UNCHANGED <<snaps, vol, cut>>
     \/ /\ pc = "syncClean" /\ \E k \in Named : RemoveFrom(k)
        /\ UNCHANGED <<vol, cut>>
     \/ pc = "syncSnap" /\ TakeSnapshot /\ UNCHANGED vol
     \/ /\ pc = "syncCopy" /\ \E part \in SUBSET areas : CopyBlocks(part)
        /\ UNCHANGED <<snaps, cut>>
  /\ \/ Goto(IF pc \in {"syncClean", "syncSnap"} THEN pc ELSE "syncFind")
     \/ Goto("adminIdle")
  /\ UNCHANGED <<guestVars, configVars, yes, loopVars, diskVars>>

-----------------------------------------------------------------------------
(* The cutover and the iterations of changed blocks. *)

CutoverPowerOff ==
  /\ pc = "cutOff" /\ PowerOff("cutVerify")
  /\ UNCHANGED <<src, snaps, vol, configVars, yes, loopVars, diskVars, budget, cut>>

CutoverVerify ==
  /\ pc = "cutVerify" /\ Verify("waitCut")
  /\ UNCHANGED <<guestVars, snaps, vol, configVars, yes, loopVars, diskVars, budget, cut>>

WaitforCutover ==
  /\ pc = "waitCut" /\ Goto("clean")
  /\ UNCHANGED <<guestVars, snaps, vol, configVars, yes, loopVars, diskVars, budget, cut>>

CleanUp ==
  /\ pc = "clean" /\ CleanUpSnapshots
  /\ Goto(IF migType = "cold" THEN "coldCheck" ELSE "snap")
  /\ UNCHANGED <<guestVars, vol, configVars, yes, loopVars, diskVars, budget, cut>>

ColdStillOff ==
  /\ pc = "coldCheck" /\ Verify("release")
  /\ UNCHANGED <<guestVars, snaps, vol, configVars, yes, loopVars, diskVars, budget, cut>>

(* Mutant: iterations are not counted, the threshold is never passed.       *)
NextSnapshotUncounted ==
  /\ pc = "snap" /\ TakeSnapshot /\ Goto("find")
  /\ UNCHANGED <<guestVars, vol, configVars, yes, loopVars, diskVars, budget>>

NextSnapshot ==
  /\ pc = "snap" /\ TakeSnapshot /\ Goto("find")
  /\ cnt' = cnt + 1
  /\ UNCHANGED <<guestVars, vol, configVars, yes, idx, done, final, diskVars, budget>>

Find ==
  /\ pc = "find" /\ GetSnapshot /\ Goto("info")
  /\ idx' = 1 /\ done' = TRUE
  /\ UNCHANGED <<guestVars, snaps, vol, configVars, yes, cnt, final,
                 areas, changeId, back, budget, cut>>

Info ==
  /\ pc = "info" /\ UpdateDiskInfo(FALSE) /\ Goto("query")
  /\ UNCHANGED <<guestVars, snaps, vol, configVars, yes, loopVars, ref, areas, budget, cut>>

(* Mutants: the last disk is left out, and one disk too many is taken.      *)
NextDiskSkipsLast ==
  IF idx + 1 < NumDisks THEN idx' = idx + 1 /\ Goto("info")
                        ELSE idx' = 1 /\ Goto("iterEnd")
NextDiskOverrun ==
  IF idx <= NumDisks THEN idx' = idx + 1 /\ Goto("info")
                     ELSE idx' = 1 /\ Goto("iterEnd")

NextDisk ==
  IF idx < NumDisks THEN idx' = idx + 1 /\ Goto("info")
                    ELSE idx' = 1 /\ Goto("iterEnd")

Query ==
  /\ pc = "query" /\ QueryChangedDiskAreas
  /\ IF areas' = {} THEN NextDisk ELSE Goto("copy") /\ UNCHANGED idx
  /\ done' = (done /\ areas' = {})
  /\ UNCHANGED <<guestVars, snaps, vol, configVars, yes, cnt, final,
                 ref, changeId, back, budget, cut>>

Copy ==
  /\ pc = "copy" /\ CopyBlocks(areas) /\ Goto("setId")
  /\ UNCHANGED <<guestVars, snaps, configVars, yes, loopVars, diskVars, budget, cut>>

SetId ==
  /\ pc = "setId" /\ UpdateDiskInfo(TRUE) /\ NextDisk
  /\ UNCHANGED <<guestVars, snaps, vol, configVars, yes, cnt, done, final,
                 ref, areas, budget, cut>>

LastIteration == done \/ cnt > Threshold

IterationEnd ==
  /\ pc = "iterEnd"
  /\ IF final THEN Goto("release")
     ELSE IF ~ LastIteration THEN Goto("clean")
     ELSE Goto(IF migType = "mock" THEN "clean" ELSE "finOff")
  /\ final' = (final \/ (LastIteration /\ migType = "mock"))
  /\ UNCHANGED <<guestVars, snaps, vol, configVars, yes, idx, cnt, done,
                 diskVars, budget, cut>>

FinalPowerOff ==
  /\ pc = "finOff" /\ PowerOff("finVerify")
  /\ UNCHANGED <<src, snaps, vol, configVars, yes, loopVars, diskVars, budget, cut>>

(* Mutant: no iteration runs after the power-off.                           *)
FinalVerifyBreaks ==
  /\ pc = "finVerify" /\ Verify("release")
  /\ final' = (power = "off")
  /\ UNCHANGED <<guestVars, snaps, vol, configVars, yes, idx, cnt, done,
                 diskVars, budget, cut>>

FinalVerify ==
  /\ pc = "finVerify" /\ Verify("clean")
  /\ final' = (power = "off")
  /\ UNCHANGED <<guestVars, snaps, vol, configVars, yes, idx, cnt, done,
                 diskVars, budget, cut>>

(* DetachAllVolumes, StopNBDServer, and a clean-up whose error is only      *)
(* logged.                                                                  *)
Release ==
  /\ pc = "release" /\ Goto("done")
  /\ \/ CleanUpSnapshots /\ UNCHANGED budget
     \/ /\ Spend("fault", MaxFaults)
        /\ UNCHANGED snaps \/ \E k \in Named : RemoveFrom(k)
  /\ UNCHANGED <<guestVars, vol, configVars, yes, loopVars, diskVars, cut>>

(* Outside the periodic sync a failed call ends LiveReplicateDisks.         *)
StepFails ==
  /\ pc \in MainPcs \ {"iterEnd"}
  /\ Spend("fault", MaxFaults)
  /\ Goto("failed")
  /\ UNCHANGED <<guestVars, snaps, vol, configVars, yes, loopVars, diskVars, cut>>

(* Calls vCenter refuses whenever they are made: retrying does not help.    *)
Refused ==
  /\ \/ pc = "syncFind" /\ \A i \in Named : Named # {i}
     \/ pc \in {"query", "syncQuery"} /\ changeId[idx].disk # idx
  /\ Goto(IF pc \in SyncPcs THEN "adminIdle" ELSE "failed")
  /\ UNCHANGED <<guestVars, snaps, vol, configVars, yes, loopVars, diskVars, budget, cut>>

-----------------------------------------------------------------------------
Environment ==
  GuestWrite \/ GuestShutdown \/ ForeignPowerOn \/ ForeignSnapshot \/ AdminSaysYes

Replicate ==
  \/ ColdPowerOff \/ ColdVerify \/ FirstCleanUp \/ FirstSnapshot \/ FirstInfo
  \/ FullCopy \/ CutoverPowerOff \/ CutoverVerify \/ WaitforCutover \/ CleanUp
  \/ ColdStillOff \/ NextSnapshot \/ Find \/ Info \/ Query \/ Copy \/ SetId
  \/ IterationEnd \/ FinalPowerOff \/ FinalVerify \/ Release \/ StepFails
  \/ Refused

SyncCycle ==
  \/ SyncCleanUp \/ SyncSnapshot \/ SyncFind \/ SyncQuery \/ SyncInfo
  \/ SyncCopy \/ SyncSetId \/ SyncStepFails

Helper == Replicate \/ SyncCycle \/ AdminCutover \/ StartSyncCycle \/ WaitCancelled

Returned == pc \in {"done", "failed"} /\ UNCHANGED vars

Next == Environment \/ Helper \/ Returned

Spec == Init /\ [][Next]_vars

(* The helper is one goroutine that never blocks but in the admin wait,     *)
(* where Go's select picks among the ready cases at random.                 *)
FairSpec == Spec /\ WF_vars(Replicate \/ SyncCycle) /\ SF_vars(AdminCutover)

-----------------------------------------------------------------------------
TypeOK ==
  /\ src \in Image /\ vol \in Image /\ ref \in Image /\ back \in Image /\ cut \in Image
  /\ power \in {"on", "off"}
  /\ snaps \in Seq([own : BOOLEAN, img : Image])
  /\ migType \in {"hot", "cold", "mock"} /\ admin \in BOOLEAN /\ cbt \in BOOLEAN
  /\ yes \in BOOLEAN /\ pc \in Pcs
  /\ idx \in Disks /\ cnt \in Nat /\ done \in BOOLEAN /\ final \in BOOLEAN
  /\ areas \subseteq Blocks
  /\ changeId \in [Disks -> {NoId} \cup [disk : Disks, img : [Blocks -> Nat]]]
  /\ budget \in [{"write", "fault", "foreign", "powerOn"} -> Nat]

-----------------------------------------------------------------------------
(* A migration whose source VM is off when LiveReplicateDisks returns       *)
(* without an error has every guest write on its volumes: the last          *)
(* iteration of nbd_copy.go runs after the power-off and misses nothing.    *)
NoWriteLost ==
  pc = "done" /\ migType # "mock" /\ power = "off" => vol = src

(* On success all volumes show one instant, that of the last migration      *)
(* snapshot, also for a mock migration, whose VM never stops: no disk is    *)
(* ahead of another.                                                        *)
PointInTime == pc = "done" => vol = cut

(* The change ID kept for a disk is never later than what the volume holds, *)
(* block by block, so the next query lists every block that is still stale, *)
(* whatever the periodic sync cycles that failed half way left behind.      *)
Copied(d) == pc # "failed" /\ (pc = "full" => d < idx)
ChangeIdBehindVolume ==
  \A d \in Disks : Copied(d) /\ changeId[d].disk = d =>
    \A b \in Blocks : changeId[d].img[b] <= vol[d][b]

(* A cold migration needs no changed blocks: whatever snapshots others take *)
(* and in whichever order vCenter lists their disks, as long as nobody      *)
(* powers the VM on its volumes are complete (nbd_copy.go:634).             *)
ColdUnaffected ==
  pc = "done" /\ migType = "cold" /\ budget.powerOn = 0 => vol = src /\ vol = cut

(* A guest that keeps writing cannot hold the copy back: past the threshold *)
(* (nbd_copy.go:594) two more iterations end it.                            *)
IterationsBounded == cnt <= Threshold + 2

(* A snapshot the user had before the migration survives it: clean-ups cut  *)
(* the chain above it, whatever was left by failed snapshots and clean-ups. *)
UserSnapshotKept ==
  [][snaps # <<>> /\ ~ snaps[1].own => snaps' # <<>> /\ snaps'[1] = snaps[1]]_vars

(* The NBD server of a disk only ever serves that disk.  vmops.go:429 says  *)
(* that vCenter returns the disks of a snapshot in another order than the   *)
(* VM's, and that they are therefore matched by device key.                 *)
OwnBacking == pc \in {"full", "copy", "syncCopy"} => back[idx] = Current[idx]

(* Without an administrator in the loop LiveReplicateDisks always returns,  *)
(* although the guest never stops writing and no query of changed blocks    *)
(* ever comes back empty: past the threshold (nbd_copy.go:594) the VM is    *)
(* powered off, or for a mock migration left running, and one more          *)
(* iteration is the last.                                                   *)
Returns == ~ admin ~> pc \in {"done", "failed"}

(* An administrator's "yes" leads to the cutover and its end, whether it    *)
(* comes during the full copy, between two sync cycles or inside one.       *)
CutoverHonoured == yes ~> pc \in {"done", "failed"}

(* LiveReplicateDisks is a point-in-time copier, provided vCenter lists the *)
(* disks of a VM and of its snapshots in one order and nobody else takes    *)
(* snapshots of the VM or powers it on meanwhile.                           *)
Promise == INSTANCE PointInTimeCopy WITH
  quiesce <- migType # "mock",
  outcome <- CASE pc = "done" -> "ok" [] pc = "failed" -> "error" [] OTHER -> "running"
CopiesPointInTime == Promise!PSpec
=============================================================================
