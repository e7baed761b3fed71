------------------------ MODULE ReplicationCopyProofs ------------------------
(***************************************************************************)
(* The volumes hold what they should: changed-block tracking misses        *)
(* nothing, and a replication that returns without an error has copied one *)
(* instant, after the power-off the last one: it implements the            *)
(* point-in-time copier.                                                   *)
(***************************************************************************)
EXTENDS ReplicationProofs

(* vCenter lists the disks of a VM and of its snapshots in one order, and   *)
(* nobody else takes snapshots of the VM or powers it on meanwhile.         *)
Undisturbed ==
  /\ \A d \in Disks : SnapDev[d] = d
  /\ MaxForeign = 0
  /\ MaxPowerOn = 0

Behind(f, g) == \A b \in Blocks : f[b] <= g[b]

-----------------------------------------------------------------------------
(* The inductive invariant.  Everything on a volume is from an instant that *)
(* was snapshotted, and change IDs never overtake their volumes: a block    *)
(* that the change ID calls unchanged is the same on snapshot and volume.   *)

Early == {"coldOff", "coldVerify", "clean0", "snap0", "info0"}

(* Time moves forward from the volumes over the last snapshot to the disks. *)
Ordered ==
  \A d \in Disks : Behind(vol[d], cut[d]) /\ Behind(cut[d], src[d])

CurrentIsCut ==
  pc \in Snapped => snaps[Len(snaps)].own /\ Current = cut

RefIsCut ==
  pc \in {"info", "query", "copy", "setId", "syncQuery", "syncInfo", "syncCopy", "syncSetId"}
    => ref = cut

(* What the NBD server of a disk under copy serves. *)
BackIsCut ==
  /\ pc = "full" => back = cut
  /\ pc \in {"query", "copy", "syncCopy"} => back[idx] = cut[idx]

IdsBehind ==
  \A d \in Disks :
    \/ changeId[d] = NoId
    \/ /\ changeId[d].disk = d
       /\ Behind(changeId[d].img, cut[d])
       /\ Copied(d) => Behind(changeId[d].img, vol[d])

AreasComplete ==
  pc \in {"copy", "syncInfo", "syncCopy"} => Changed \subseteq areas /\ changeId[idx].disk = idx

(* Disks this pass is done with. *)
DisksDone ==
  /\ pc \in Early => idx = 1
  /\ pc \in {"full", "info", "query", "copy", "setId"} =>
       \A d \in Disks : d < idx => vol[d] = cut[d]
  /\ pc \in {"setId", "syncSetId"} => vol[idx] = cut[idx]
  /\ pc \in {"iterEnd", "release", "done"} => vol = cut

(* The power-off comes before the snapshot that is copied last. *)
PowerInv ==
  /\ migType = "cold" /\ pc \notin {"coldOff", "coldVerify", "failed"} => power = "off"
  /\ migType = "cold" /\ pc \notin {"coldOff", "coldVerify", "clean0", "snap0", "failed"}
       => cut = src /\ (pc \notin {"info0", "full"} => vol = cut)
  /\ final /\ migType # "mock" => power = "off"
  /\ final /\ migType # "mock" /\ pc \in InIteration \cup {"release", "done"} => cut = src
  /\ pc \in {"release", "done"} /\ migType # "cold" => final
  /\ pc = "coldCheck" => migType = "cold"

CopyInv ==
  /\ Ordered /\ CurrentIsCut /\ RefIsCut /\ BackIsCut /\ IdsBehind
  /\ AreasComplete /\ DisksDone /\ PowerInv

-----------------------------------------------------------------------------
(* Steps of the environment. *)

Volumes == <<vol, cut, migType, idx, final, ref, areas, changeId, back>>

LEMMA NoForeigner ==
  ASSUME Undisturbed, TypeOK
  PROVE  ~ ForeignSnapshot /\ ~ ForeignPowerOn
<1>1. budget["foreign"] \in Nat /\ budget["powerOn"] \in Nat
  BY DEF TypeOK
<1>2. ~ (budget["foreign"] < MaxForeign) /\ ~ (budget["powerOn"] < MaxPowerOn)
  BY <1>1 DEF Undisturbed
<1> QED
  BY <1>2 DEF ForeignSnapshot, ForeignPowerOn, Spend

LEMMA WriteIsLater ==
  ASSUME src \in Image, cut \in Image, \A d \in Disks : Behind(cut[d], src[d]),
         NEW e \in Disks, NEW c \in Blocks, src' = [src EXCEPT ![e][c] = @ + 1]
  PROVE  \A d \in Disks : Behind(cut[d], src'[d])
BY DEF Image, Behind

LEMMA EnvironmentCopyStep ==
  ASSUME Undisturbed, TypeOK, CopyInv, Environment
  PROVE  CopyInv'
<1> USE DEF CopyInv
<1>1. UNCHANGED <<Volumes, pc, snaps>> /\ (power' = power \/ power' = "off")
  BY NoForeigner DEF Environment, GuestWrite, GuestShutdown, AdminSaysYes, guestVars,
     configVars, loopVars, diskVars, Volumes
<1>2. UNCHANGED src \/ power = "on"
  BY NoForeigner DEF Environment, GuestWrite, GuestShutdown, AdminSaysYes, guestVars
<1>3. Ordered'
  <2>1. CASE UNCHANGED src
    BY <1>1, <2>1 DEF Ordered, Volumes
  <2>2. CASE ~ UNCHANGED src
    <3>1. PICK d \in Disks, b \in Blocks : src' = [src EXCEPT ![d][b] = @ + 1]
      BY <2>2, NoForeigner DEF Environment, GuestWrite, GuestShutdown, AdminSaysYes, guestVars
    <3>2. \A e \in Disks : Behind(cut[e], src'[e])
      BY <3>1, WriteIsLater DEF Ordered, TypeOK
    <3> QED
      BY <1>1, <3>2 DEF Ordered, Volumes
  <2> QED
    BY <2>1, <2>2
<1>4. CurrentIsCut' /\ RefIsCut' /\ BackIsCut' /\ IdsBehind' /\ AreasComplete' /\ DisksDone'
  BY <1>1 DEF CurrentIsCut, RefIsCut, BackIsCut, IdsBehind, AreasComplete, DisksDone,
     Volumes, Current, Changed, Copied
<1>5. PowerInv'
  BY <1>1, <1>2 DEF PowerInv, Volumes, InIteration
<1> QED
  BY <1>3, <1>4, <1>5

-----------------------------------------------------------------------------
(* Steps that neither take a snapshot nor touch a volume. *)

LEMMA Quiet ==
  ASSUME CopyInv, UNCHANGED <<src, Volumes>>, pc' \notin Snapped,
         pc \notin {"full", "failed"} \/ pc' = "failed"
  PROVE  Ordered' /\ CurrentIsCut' /\ RefIsCut' /\ BackIsCut' /\ IdsBehind' /\ AreasComplete'
<1> USE DEF CopyInv, Volumes
<1>1. Ordered'
  BY DEF Ordered
<1>2. CurrentIsCut' /\ RefIsCut' /\ BackIsCut' /\ AreasComplete'
  BY DEF CurrentIsCut, RefIsCut, BackIsCut, AreasComplete, Snapped
<1>3. IdsBehind'
  BY DEF IdsBehind, Copied, Snapped
<1> QED
  BY <1>1, <1>2, <1>3

(* The steps that only wait, switch the VM off, clean up or fail. *)
Administrative ==
  \/ ColdPowerOff \/ ColdVerify \/ FirstCleanUp \/ CutoverPowerOff \/ CutoverVerify
  \/ WaitforCutover \/ CleanUp \/ ColdStillOff \/ FinalPowerOff \/ Release \/ StepFails
  \/ Refused \/ SyncCleanUp \/ AdminCutover \/ StartSyncCycle \/ WaitCancelled

LEMMA AdministrativeCopyStep ==
  ASSUME TypeOK, CopyInv, Administrative
  PROVE  CopyInv'
<1> USE DEF CopyInv, Goto
<1>1. /\ UNCHANGED <<src, Volumes>> /\ pc' \notin Snapped
      /\ pc \notin {"full", "failed"} \/ pc' = "failed"
  <2>1. CASE ColdPowerOff \/ CutoverPowerOff \/ FinalPowerOff
    BY <2>1 DEF ColdPowerOff, CutoverPowerOff, FinalPowerOff, PowerOff, Volumes, Snapped,
       configVars, loopVars, diskVars
  <2>2. CASE ColdVerify \/ CutoverVerify \/ ColdStillOff
    BY <2>2 DEF ColdVerify, CutoverVerify, ColdStillOff, Verify, Volumes, Snapped,
       configVars, loopVars, diskVars, guestVars
  <2>3. CASE FirstCleanUp \/ CleanUp \/ SyncCleanUp \/ Release
    BY <2>3 DEF FirstCleanUp, CleanUp, SyncCleanUp, Release, Volumes, Snapped,
       configVars, loopVars, diskVars, guestVars
  <2>4. CASE WaitforCutover \/ AdminCutover \/ StartSyncCycle
    BY <2>4 DEF WaitforCutover, AdminCutover, StartSyncCycle, Volumes, Snapped,
       configVars, loopVars, diskVars, guestVars
  <2>5. CASE StepFails \/ Refused \/ WaitCancelled
    BY <2>5 DEF StepFails, Refused, WaitCancelled, Volumes, Snapped, MainPcs, SyncPcs,
       configVars, loopVars, diskVars, guestVars
  <2> QED
    BY <2>1, <2>2, <2>3, <2>4, <2>5 DEF Administrative
<1>2. Ordered' /\ CurrentIsCut' /\ RefIsCut' /\ BackIsCut' /\ IdsBehind' /\ AreasComplete'
  BY <1>1, Quiet
<1>3. DisksDone'
  <2>1. CASE ColdPowerOff \/ ColdVerify \/ FirstCleanUp
    BY <1>1, <2>1 DEF ColdPowerOff, ColdVerify, FirstCleanUp, PowerOff, Verify, DisksDone,
       Early, Volumes
  <2>2. CASE ColdStillOff \/ Release
    BY <1>1, <2>2 DEF ColdStillOff, Release, Verify, DisksDone, PowerInv, Early, Volumes
  <2>3. CASE ~ \/ ColdPowerOff \/ ColdVerify \/ FirstCleanUp \/ ColdStillOff \/ Release
    <3>1. pc' \notin Early \cup Snapped \cup {"iterEnd", "release", "done"}
      BY <2>3 DEF Administrative, CutoverPowerOff, CutoverVerify, WaitforCutover, CleanUp,
         FinalPowerOff, StepFails, Refused, SyncCleanUp, AdminCutover, StartSyncCycle, WaitCancelled,
         PowerOff, Verify, Early, Snapped
    <3> QED
      BY <3>1 DEF DisksDone, Snapped
  <2> QED
    BY <2>1, <2>2, <2>3
<1>4. PowerInv'
  <2>1. CASE ColdPowerOff \/ CutoverPowerOff \/ FinalPowerOff
    BY <1>1, <2>1 DEF ColdPowerOff, CutoverPowerOff, FinalPowerOff, PowerOff, PowerInv,
       Volumes, InIteration
  <2>2. CASE ColdVerify \/ CutoverVerify \/ ColdStillOff
    BY <1>1, <2>2 DEF ColdVerify, CutoverVerify, ColdStillOff, Verify, PowerInv, Volumes,
       InIteration, guestVars
  <2>3. CASE FirstCleanUp \/ CleanUp \/ SyncCleanUp \/ Release
    BY <1>1, <2>3 DEF FirstCleanUp, CleanUp, SyncCleanUp, Release, PowerInv, Volumes,
       InIteration, guestVars
  <2>4. CASE WaitforCutover \/ AdminCutover \/ StartSyncCycle
    BY <1>1, <2>4 DEF WaitforCutover, AdminCutover, StartSyncCycle, PowerInv, Volumes,
       InIteration, guestVars
  <2>5. CASE StepFails \/ Refused \/ WaitCancelled
    BY <1>1, <2>5 DEF StepFails, Refused, WaitCancelled, PowerInv, Volumes, InIteration, MainPcs, SyncPcs,
       guestVars
  <2> QED
    BY <2>1, <2>2, <2>3, <2>4, <2>5 DEF Administrative
<1> QED
  BY <1>2, <1>3, <1>4

(* FinalVerify and IterationEnd decide whether one more iteration follows. *)
LEMMA FinalVerifyCopyStep ==
  ASSUME TypeOK, CopyInv, FinalVerify
  PROVE  CopyInv'
<1> USE DEF CopyInv, Goto, FinalVerify, Verify, Volumes, configVars, diskVars, guestVars
<1>1. pc' \in {"clean", "failed"} /\ pc = "finVerify"
  OBVIOUS
<1>2. Ordered' /\ CurrentIsCut' /\ RefIsCut' /\ BackIsCut' /\ IdsBehind' /\ AreasComplete'
  BY <1>1 DEF Ordered, CurrentIsCut, RefIsCut, BackIsCut, IdsBehind, AreasComplete,
     Snapped, Copied
<1>3. DisksDone' /\ PowerInv'
  BY <1>1 DEF DisksDone, PowerInv, Early, InIteration
<1> QED
  BY <1>2, <1>3

LEMMA IterationEndCopyStep ==
  ASSUME TypeOK, CopyInv, IterationEnd
  PROVE  CopyInv'
<1> USE DEF CopyInv, Goto, IterationEnd, Volumes, configVars, diskVars, guestVars
<1>1. /\ pc = "iterEnd" /\ pc' \in {"release", "clean", "finOff"}
      /\ pc' = "release" => final /\ final'
      /\ final' => final \/ migType = "mock"
  BY DEF TypeOK
<1>2. Ordered' /\ CurrentIsCut' /\ RefIsCut' /\ BackIsCut' /\ IdsBehind' /\ AreasComplete'
  BY <1>1 DEF Ordered, CurrentIsCut, RefIsCut, BackIsCut, IdsBehind, AreasComplete,
     Snapped, Copied
<1>3. DisksDone'
  BY <1>1 DEF DisksDone, Early
<1>4. PowerInv'
  BY <1>1 DEF PowerInv, InIteration
<1> QED
  BY <1>2, <1>3, <1>4

-----------------------------------------------------------------------------
(* Snapshots. *)

LEMMA TakenIsCurrent ==
  ASSUME snaps \in Seq(SnapType), src \in Image, TakeSnapshot
  PROVE  snaps'[Len(snaps')].own /\ Current' = cut' /\ cut' = src
<1>1. Snapshot(TRUE, src) \in SnapType
  BY DEF Snapshot, SnapType
<1>2. snaps' = Append(snaps, Snapshot(TRUE, src)) /\ cut' = src
  BY DEF TakeSnapshot
<1>3. Len(snaps') = Len(snaps) + 1 /\ snaps'[Len(snaps) + 1] = Snapshot(TRUE, src)
  BY <1>1, <1>2, AppendProperties
<1> QED
  BY <1>2, <1>3 DEF Snapshot, Current

LEMMA BehindTransitive ==
  ASSUME NEW f \in [Blocks -> Nat], NEW g \in [Blocks -> Nat], NEW h \in [Blocks -> Nat],
         Behind(f, g), Behind(g, h)
  PROVE  Behind(f, h)
<1> SUFFICES ASSUME NEW b \in Blocks PROVE f[b] <= h[b]
  BY DEF Behind
<1>1. f[b] \in Nat /\ g[b] \in Nat /\ h[b] \in Nat /\ f[b] <= g[b] /\ g[b] <= h[b]
  BY DEF Behind
<1> QED
  BY <1>1

LEMMA BehindReflexive ==
  ASSUME NEW f \in [Blocks -> Nat]
  PROVE  Behind(f, f)
BY DEF Behind

(* A new snapshot is later than everything the volumes hold. *)
LEMMA SnapshotCopyStep ==
  ASSUME TypeOK, CopyInv, TakeSnapshot,
         UNCHANGED <<src, power, vol, migType, idx, final, ref, areas, changeId, back>>,
         \/ pc = "snap0" /\ pc' = "info0"
         \/ pc = "snap" /\ pc' = "find"
         \/ pc = "syncSnap" /\ pc' \in {"syncFind", "syncSnap", "adminIdle"}
  PROVE  CopyInv'
<1> USE DEF CopyInv
<1>1. cut' = src /\ snaps'[Len(snaps')].own /\ Current' = cut'
  BY TakenIsCurrent DEF TypeOK, SnapType
<1>2. Ordered' /\ IdsBehind'
  <2>1. ASSUME NEW d \in Disks
        PROVE  /\ vol[d] \in [Blocks -> Nat] /\ cut[d] \in [Blocks -> Nat]
               /\ src[d] \in [Blocks -> Nat]
               /\ changeId[d] # NoId => changeId[d].img \in [Blocks -> Nat]
    BY DEF TypeOK, Image
  <2>2. ASSUME NEW d \in Disks
        PROVE  /\ Behind(vol[d], src[d]) /\ Behind(src[d], src[d])
               /\ changeId[d] # NoId => Behind(changeId[d].img, src[d])
    BY <2>1, BehindTransitive, BehindReflexive DEF Ordered, IdsBehind
  <2>3. \A d \in Disks : Copied(d)' => Copied(d)
    BY DEF Copied
  <2> QED
    BY <1>1, <2>2, <2>3 DEF Ordered, IdsBehind
<1>3. CurrentIsCut' /\ RefIsCut' /\ BackIsCut' /\ AreasComplete' /\ DisksDone'
  BY <1>1 DEF CurrentIsCut, RefIsCut, BackIsCut, AreasComplete, DisksDone, Snapped, Early
<1>4. PowerInv'
  BY <1>1 DEF PowerInv, InIteration
<1> QED
  BY <1>2, <1>3, <1>4

-----------------------------------------------------------------------------
(* The full copy. *)

LEMMA FirstInfoCopyStep ==
  ASSUME Undisturbed, TypeOK, CopyInv, FirstInfo
  PROVE  CopyInv'
<1> USE DEF CopyInv, FirstInfo, Goto, configVars, loopVars, guestVars
<1>1. pc = "info0" /\ pc' = "full" /\ Current = cut /\ idx = 1
  BY DEF CurrentIsCut, DisksDone, Snapped, Early
<1>2. back' = cut /\ changeId' = [d \in Disks |-> IF cbt THEN ChangeIdOf(d, cut) ELSE NoId]
  BY <1>1 DEF UpdateDisksInfo
<1>3. Ordered' /\ CurrentIsCut' /\ RefIsCut' /\ BackIsCut' /\ AreasComplete'
  BY <1>1, <1>2 DEF Ordered, CurrentIsCut, RefIsCut, BackIsCut, AreasComplete, Snapped, Current
<1>4. IdsBehind'
  <2>1. ASSUME NEW d \in Disks
        PROVE  cut[d] \in [Blocks -> Nat] /\ Behind(cut[d], cut[d]) /\ ~ Copied(d)'
    BY <1>1, BehindReflexive DEF TypeOK, Image, Copied, Disks
  <2> QED
    BY <1>1, <1>2, <2>1 DEF IdsBehind, ChangeIdOf
<1>5. DisksDone'
  BY <1>1 DEF DisksDone, Early, Disks
<1>6. PowerInv'
  BY <1>1 DEF PowerInv, InIteration
<1> QED
  BY <1>3, <1>4, <1>5, <1>6

LEMMA CopyAll ==
  ASSUME vol \in Image, back \in Image, idx \in Disks, CopyBlocks(Blocks)
  PROVE  vol'[idx] = back[idx] /\ \A d \in Disks : d # idx => vol'[d] = vol[d]
BY DEF CopyBlocks, Image

LEMMA AllDisksDone ==
  ASSUME NEW f \in Image, NEW g \in Image, \A d \in Disks : f[d] = g[d]
  PROVE  f = g
BY DEF Image

LEMMA FullCopyStep ==
  ASSUME TypeOK, CopyInv, FullCopy
  PROVE  CopyInv'
<1> USE DEF CopyInv, Goto, configVars, diskVars, guestVars
<1>1. /\ pc = "full" /\ back = cut /\ CopyBlocks(Blocks)
      /\ UNCHANGED <<src, power, snaps, cut, migType, final, ref, areas, changeId, back>>
  BY DEF FullCopy, BackIsCut
<1>2. vol' \in Image /\ idx' \in Disks /\ idx \in Disks /\ vol \in Image /\ cut \in Image
  BY <1>1, CopyBlocksType, DisksNonempty DEF FullCopy, TypeOK, Disks
<1>3. vol'[idx] = cut[idx] /\ \A d \in Disks : d # idx => vol'[d] = vol[d]
  BY <1>1, CopyAll DEF TypeOK
<1>4. \A d \in Disks : d <= idx => vol'[d] = cut[d]
  BY <1>1, <1>2, <1>3 DEF DisksDone, Disks
<1>5. \/ pc' = "full" /\ idx' = idx + 1
      \/ pc' \in {"adminIdle", "waitCut"} /\ vol' = cut
  <2>1. CASE idx < NumDisks
    BY <2>1 DEF FullCopy
  <2>2. CASE ~ (idx < NumDisks)
    <3>1. \A d \in Disks : vol'[d] = cut[d]
      BY <1>2, <1>4, <2>2, ReplicationAssumption DEF Disks
    <3> QED
      BY <1>2, <2>2, <3>1, AllDisksDone DEF FullCopy
  <2> QED
    BY <2>1, <2>2
<1>6. Ordered'
  <2>1. \A d \in Disks : cut[d] \in [Blocks -> Nat]
    BY <1>2 DEF Image
  <2> QED
    BY <1>1, <1>3, <2>1, BehindReflexive DEF Ordered
<1>7. CurrentIsCut' /\ RefIsCut' /\ BackIsCut' /\ AreasComplete'
  BY <1>1, <1>5 DEF CurrentIsCut, RefIsCut, BackIsCut, AreasComplete, Snapped, Current
<1>8. IdsBehind'
  <2>1. \A d \in Disks : Copied(d)' => vol'[d] = cut[d]
    BY <1>2, <1>4, <1>5 DEF Copied, Disks
  <2> QED
    BY <1>1, <2>1 DEF IdsBehind
<1>9. DisksDone'
  BY <1>1, <1>2, <1>4, <1>5 DEF DisksDone, Early, Disks
<1>10. PowerInv'
  BY <1>1, <1>5 DEF PowerInv, InIteration
<1> QED
  BY <1>6, <1>7, <1>8, <1>9, <1>10

-----------------------------------------------------------------------------
(* Changed blocks: iterations and sync cycles alike. *)

Same == <<src, power, vol, cut, snaps, migType, final>>

(* The one snapshot of that name is the one just taken. *)
LEMMA FindCopyStep ==
  ASSUME TypeOK, CopyInv, Find \/ SyncFind
  PROVE  CopyInv'
<1> USE DEF CopyInv, Goto, configVars, guestVars
<1>1. /\ UNCHANGED <<Same, areas, changeId, back>> /\ idx' = 1
      /\ pc \in Snapped /\ pc' \in {"info", "syncQuery"} /\ pc # "full"
  BY DEF Find, SyncFind, Same, Snapped
<1>2. ref' = cut
  <2>1. snaps # <<>> /\ Len(snaps) \in DOMAIN snaps
    <3>1. PICK i \in Named : Named = {i}
      BY DEF Find, SyncFind, GetSnapshot
    <3>2. i \in DOMAIN snaps /\ DOMAIN snaps = 1 .. Len(snaps) /\ Len(snaps) \in Nat
      BY LenProperties DEF Named, TypeOK
    <3> QED
      BY <3>2
  <2>2. Len(snaps) \in Named /\ snaps[Len(snaps)].img = cut
    BY <1>1, <2>1 DEF Named, CurrentIsCut, Current
  <2> QED
    BY <2>2 DEF Find, SyncFind, GetSnapshot
<1>3. Ordered' /\ CurrentIsCut' /\ RefIsCut' /\ BackIsCut' /\ AreasComplete'
  BY <1>1, <1>2 DEF Ordered, CurrentIsCut, RefIsCut, BackIsCut, AreasComplete, Snapped,
     Current, Same
<1>4. IdsBehind'
  BY <1>1 DEF IdsBehind, Copied, Same, Snapped
<1>5. DisksDone'
  BY <1>1 DEF DisksDone, Early, Disks
<1>6. PowerInv'
  BY <1>1 DEF PowerInv, InIteration, Same, Find, SyncFind
<1> QED
  BY <1>3, <1>4, <1>5, <1>6

LEMMA InfoCopyStep ==
  ASSUME Undisturbed, TypeOK, CopyInv, Info \/ SyncInfo
  PROVE  CopyInv'
<1> USE DEF CopyInv, Goto, configVars, guestVars, loopVars
<1>1. /\ UNCHANGED <<Same, idx, ref, areas, changeId>> /\ Current = cut
      /\ \/ pc = "info" /\ pc' = "query"
         \/ pc = "syncInfo" /\ pc' = "syncCopy"
  <2>1. CASE Info
    BY <2>1 DEF Info, UpdateDiskInfo, CurrentIsCut, Snapped, Same
  <2>2. CASE SyncInfo
    BY <2>2 DEF SyncInfo, UpdateDiskInfo, CurrentIsCut, Snapped, Same
  <2> QED
    BY <2>1, <2>2
<1>2. back'[idx] = cut[idx]
  BY <1>1 DEF Info, SyncInfo, UpdateDiskInfo, Undisturbed, TypeOK, Image
<1>3. Ordered' /\ CurrentIsCut' /\ RefIsCut' /\ BackIsCut' /\ AreasComplete'
  BY <1>1, <1>2 DEF Ordered, CurrentIsCut, RefIsCut, BackIsCut, AreasComplete, Snapped,
     Current, Changed, Same
<1>4. IdsBehind' /\ DisksDone'
  BY <1>1 DEF IdsBehind, Copied, DisksDone, Early, Same
<1>5. PowerInv'
  BY <1>1 DEF PowerInv, InIteration, Same
<1> QED
  BY <1>3, <1>4, <1>5

(* A disk whose change ID calls every block unchanged holds the snapshot.   *)
LEMMA UnchangedIsCopied ==
  ASSUME TypeOK, CopyInv, pc \in Snapped, pc # "full", changeId[idx].disk = idx, ref = cut,
         NEW b \in Blocks, b \notin Changed
  PROVE  vol[idx][b] = cut[idx][b]
<1>1. /\ idx \in Disks /\ vol[idx] \in [Blocks -> Nat] /\ cut[idx] \in [Blocks -> Nat]
      /\ changeId[idx] # NoId
  BY DEF TypeOK, Image, Disks, NoId
<1>2. changeId[idx].img \in [Blocks -> Nat]
  BY <1>1 DEF TypeOK
<1>3. Behind(changeId[idx].img, vol[idx]) /\ Behind(vol[idx], cut[idx])
  BY <1>1 DEF CopyInv, IdsBehind, Ordered, Copied, Snapped
<1>4. ~ (changeId[idx].img[b] < cut[idx][b])
  BY DEF Changed
<1>5. /\ changeId[idx].img[b] \in Nat /\ vol[idx][b] \in Nat /\ cut[idx][b] \in Nat
      /\ changeId[idx].img[b] <= vol[idx][b] /\ vol[idx][b] <= cut[idx][b]
  BY <1>1, <1>2, <1>3 DEF Behind
<1> QED
  BY <1>4, <1>5

(* What the loops over VMDisks do when they are through with a disk. *)
Advance ==
  \/ pc' \in {"info", "syncQuery"} /\ idx' = idx + 1 /\ idx < NumDisks
  \/ pc' \in {"iterEnd", "adminIdle"} /\ idx' = 1 /\ idx = NumDisks

LEMMA DisksDoneAdvance ==
  ASSUME TypeOK, Advance, UNCHANGED cut, vol' \in Image, vol'[idx] = cut[idx],
         pc' \in {"info", "iterEnd"} => \A d \in Disks : d < idx => vol'[d] = cut[d],
         pc' \in Early => FALSE
  PROVE  DisksDone'
<1>1. \A d \in Disks : d <= idx /\ pc' \in {"info", "iterEnd"} => vol'[d] = cut'[d]
  BY DEF TypeOK, Disks
<1>2. idx = NumDisks /\ pc' = "iterEnd" => vol' = cut'
  <2> SUFFICES ASSUME idx = NumDisks, pc' = "iterEnd" PROVE vol' = cut'
    OBVIOUS
  <2>1. \A d \in Disks : vol'[d] = cut'[d]
    BY <1>1, ReplicationAssumption DEF Disks
  <2> QED
    BY <2>1, AllDisksDone DEF TypeOK
<1>3. CASE pc' \in {"info", "syncQuery"} /\ idx' = idx + 1 /\ idx < NumDisks
  <2>1. \A d \in Disks : d < idx' => d <= idx
    BY <1>3 DEF TypeOK, Disks
  <2> QED
    BY <1>1, <1>3, <2>1 DEF DisksDone, Early
<1>4. CASE pc' \in {"iterEnd", "adminIdle"} /\ idx' = 1 /\ idx = NumDisks
  BY <1>2, <1>4 DEF DisksDone, Early
<1> QED
  BY <1>3, <1>4 DEF Advance

LEMMA QueryCopyStep ==
  ASSUME TypeOK, CopyInv, Query \/ SyncQuery
  PROVE  CopyInv'
<1> USE DEF CopyInv, Goto, configVars, guestVars
<1>1. /\ UNCHANGED <<Same, ref, changeId, back>> /\ QueryChangedDiskAreas
      /\ pc \in {"query", "syncQuery"} /\ ref = cut /\ idx \in Disks
  BY DEF Query, SyncQuery, Same, RefIsCut, TypeOK
<1>2. \/ areas' = {} /\ Advance /\ (pc' \in {"info", "iterEnd"} => pc = "query")
      \/ /\ areas' # {} /\ idx' = idx
         /\ \/ pc = "query" /\ pc' = "copy"
            \/ pc = "syncQuery" /\ pc' = "syncInfo"
  <2>0. idx \in Nat /\ NumDisks \in Nat /\ (idx < NumDisks \/ idx = NumDisks)
    BY <1>1, ReplicationAssumption DEF Disks
  <2>1. CASE Query
    <3>1. CASE areas' = {}
      BY <2>0, <2>1, <3>1 DEF Query, NextDisk, Advance
    <3>2. CASE areas' # {}
      BY <2>1, <3>2 DEF Query
    <3> QED
      BY <3>1, <3>2
  <2>2. CASE SyncQuery
    <3>1. CASE areas' = {}
      BY <2>0, <2>2, <3>1 DEF SyncQuery, NextSyncDisk, Advance
    <3>2. CASE areas' # {}
      BY <2>2, <3>2 DEF SyncQuery
    <3> QED
      BY <3>1, <3>2
  <2> QED
    BY <2>1, <2>2
<1>3. Ordered' /\ CurrentIsCut'
  BY <1>1, <1>2 DEF Ordered, CurrentIsCut, Snapped, Current, Same
<1>4. RefIsCut' /\ BackIsCut' /\ AreasComplete'
  BY <1>1, <1>2 DEF RefIsCut, BackIsCut, AreasComplete, QueryChangedDiskAreas, Changed,
     Same, Advance
<1>5. IdsBehind'
  BY <1>1, <1>2 DEF IdsBehind, Copied, Same, Advance
<1>6. DisksDone'
  <2>1. CASE areas' = {}
    <3>1. Changed = {}
      BY <1>1, <2>1 DEF QueryChangedDiskAreas
    <3>2. \A b \in Blocks : vol[idx][b] = cut[idx][b]
      BY <1>1, <3>1, UnchangedIsCopied DEF QueryChangedDiskAreas, Snapped
    <3>3. vol[idx] = cut[idx]
      BY <1>1, <3>2 DEF TypeOK, Image
    <3>4. pc = "query" => \A d \in Disks : d < idx => vol[d] = cut[d]
      BY DEF DisksDone
    <3> QED
      BY <1>1, <1>2, <2>1, <3>3, <3>4, DisksDoneAdvance DEF TypeOK, Same, Advance, Early
  <2>2. CASE areas' # {}
    BY <1>1, <1>2, <2>2 DEF DisksDone, Early, Same
  <2> QED
    BY <2>1, <2>2
<1>7. PowerInv'
  BY <1>1, <1>2 DEF PowerInv, InIteration, Same, Advance
<1> QED
  BY <1>3, <1>4, <1>5, <1>6, <1>7

(* The changed blocks reach the volume, and what is not listed was there.   *)
LEMMA CopiedAreas ==
  ASSUME TypeOK, CopyInv, Copy \/ SyncCopy
  PROVE  vol' \in Image /\ vol'[idx] = cut[idx] /\ \A d \in Disks : d # idx => vol'[d] = vol[d]
<1>1. /\ pc \in {"copy", "syncCopy"} /\ CopyBlocks(areas) /\ ref = cut /\ back[idx] = cut[idx]
      /\ Changed \subseteq areas /\ changeId[idx].disk = idx
  BY DEF Copy, SyncCopy, CopyInv, RefIsCut, BackIsCut, AreasComplete
<1>2. /\ vol \in Image /\ cut \in Image /\ back \in Image /\ idx \in Disks /\ vol' \in Image
  BY <1>1, CopyBlocksType DEF TypeOK
<1>3. vol' = [vol EXCEPT ![idx] = [b \in Blocks |-> IF b \in areas THEN back[idx][b] ELSE @[b]]]
  BY <1>1 DEF CopyBlocks
<1>4. \A d \in Disks : d # idx => vol'[d] = vol[d]
  BY <1>2, <1>3 DEF Image
<1>5. ASSUME NEW b \in Blocks PROVE vol'[idx][b] = cut[idx][b]
  <2>1. CASE b \in areas
    BY <1>1, <1>2, <1>3, <2>1 DEF Image
  <2>2. CASE b \notin areas
    <3>1. vol[idx][b] = cut[idx][b]
      BY <1>1, <2>2, UnchangedIsCopied DEF Snapped
    <3> QED
      BY <1>2, <1>3, <2>2, <3>1 DEF Image
  <2> QED
    BY <2>1, <2>2
<1>6. vol'[idx] = cut[idx]
  BY <1>2, <1>5 DEF Image
<1> QED
  BY <1>2, <1>4, <1>6

LEMMA CopyCopyStep ==
  ASSUME TypeOK, CopyInv, Copy \/ SyncCopy
  PROVE  CopyInv'
<1> USE DEF CopyInv, Goto, configVars, guestVars, loopVars, diskVars
<1>1. /\ UNCHANGED <<src, power, cut, snaps, migType, final, idx, ref, areas, changeId, back>>
      /\ \/ pc = "copy" /\ pc' = "setId"
         \/ pc = "syncCopy" /\ pc' = "syncSetId"
  BY DEF Copy, SyncCopy
<1>2. vol' \in Image /\ vol'[idx] = cut[idx] /\ \A d \in Disks : d # idx => vol'[d] = vol[d]
  BY CopiedAreas
<1>3. \A d \in Disks : vol'[d] = vol[d] \/ vol'[d] = cut[d]
  BY <1>2
<1>4. Ordered'
  <2>1. \A d \in Disks : Behind(cut[d], cut[d])
    BY BehindReflexive DEF TypeOK, Image
  <2> QED
    BY <1>1, <1>3, <2>1 DEF Ordered
<1>5. CurrentIsCut' /\ RefIsCut' /\ BackIsCut' /\ AreasComplete'
  BY <1>1 DEF CurrentIsCut, RefIsCut, BackIsCut, AreasComplete, Snapped, Current
<1>6. IdsBehind'
  BY <1>1, <1>3 DEF IdsBehind, Copied
<1>7. DisksDone'
  <2>1. \A d \in Disks : d < idx => d # idx
    BY DEF TypeOK, Disks
  <2> QED
    BY <1>1, <1>2, <2>1 DEF DisksDone, Early
<1>8. PowerInv'
  <2>1. migType = "cold" => vol' = vol
    <3> SUFFICES ASSUME migType = "cold" PROVE vol' = vol
      OBVIOUS
    <3>1. vol = cut
      BY <1>1 DEF PowerInv
    <3> QED
      BY <1>2, <1>3, <3>1, AllDisksDone DEF TypeOK
  <2> QED
    BY <1>1, <2>1 DEF PowerInv, InIteration
<1> QED
  BY <1>4, <1>5, <1>6, <1>7, <1>8

(* Only now does the change ID move on to the snapshot.                     *)
LEMMA SetIdCopyStep ==
  ASSUME Undisturbed, TypeOK, CopyInv, SetId \/ SyncSetId
  PROVE  CopyInv'
<1> USE DEF CopyInv, Goto, configVars, guestVars
<1>1. /\ UNCHANGED <<Same, ref, areas>> /\ UpdateDiskInfo(TRUE)
      /\ pc \in {"setId", "syncSetId"} /\ vol[idx] = cut[idx] /\ idx \in Disks
  BY DEF SetId, SyncSetId, Same, DisksDone, TypeOK
<1>2. Advance /\ (pc' \in {"info", "iterEnd"} => pc = "setId")
  <2>0. idx \in Nat /\ NumDisks \in Nat /\ (idx < NumDisks \/ idx = NumDisks)
    BY <1>1, ReplicationAssumption DEF Disks
  <2>1. CASE SetId
    BY <2>0, <2>1 DEF SetId, NextDisk, Advance
  <2>2. CASE SyncSetId
    BY <2>0, <2>2 DEF SyncSetId, NextSyncDisk, Advance
  <2> QED
    BY <2>1, <2>2
<1>3. changeId' = [changeId EXCEPT ![idx] = ChangeIdOf(idx, cut)]
  BY <1>1 DEF UpdateDiskInfo, Undisturbed, CurrentIsCut, Snapped
<1>4. Ordered' /\ CurrentIsCut' /\ RefIsCut' /\ BackIsCut' /\ AreasComplete'
  BY <1>1, <1>2 DEF Ordered, CurrentIsCut, RefIsCut, BackIsCut, AreasComplete, Snapped,
     Current, Same, Advance
<1>5. IdsBehind'
  <2>1. /\ changeId'[idx].disk = idx /\ changeId'[idx].img = cut[idx]
        /\ \A d \in Disks : d # idx => changeId'[d] = changeId[d]
    BY <1>1, <1>3 DEF ChangeIdOf, TypeOK
  <2>2. Behind(cut[idx], cut[idx])
    BY <1>1, BehindReflexive DEF TypeOK, Image
  <2>3. vol' = vol /\ cut' = cut
    BY <1>1 DEF Same
  <2>4. \A d \in Disks : Copied(d)' => Copied(d)
    BY <1>1 DEF Copied
  <2>5. ASSUME NEW d \in Disks, d # idx
        PROVE  \/ changeId'[d] = NoId
               \/ /\ changeId'[d].disk = d
                  /\ Behind(changeId'[d].img, cut'[d])
                  /\ Copied(d)' => Behind(changeId'[d].img, vol'[d])
    BY <2>1, <2>3, <2>4, <2>5 DEF IdsBehind
  <2>6. /\ changeId'[idx].disk = idx
        /\ Behind(changeId'[idx].img, cut'[idx])
        /\ Behind(changeId'[idx].img, vol'[idx])
    BY <1>1, <2>1, <2>2, <2>3
  <2>7. ASSUME NEW d \in Disks
        PROVE  \/ changeId'[d] = NoId
               \/ /\ changeId'[d].disk = d
                  /\ Behind(changeId'[d].img, cut'[d])
                  /\ Copied(d)' => Behind(changeId'[d].img, vol'[d])
    <3>1. CASE d = idx
      BY <2>6, <3>1
    <3>2. CASE d # idx
      BY <2>5, <3>2
    <3> QED
      BY <3>1, <3>2
  <2> QED
    BY <2>7 DEF IdsBehind
<1>6. DisksDone'
  <2>1. pc = "setId" => \A d \in Disks : d < idx => vol[d] = cut[d]
    BY DEF DisksDone
  <2> QED
    BY <1>1, <1>2, <2>1, DisksDoneAdvance DEF TypeOK, Same, Advance, Early
<1>7. PowerInv'
  BY <1>1, <1>2 DEF PowerInv, InIteration, Same, Advance
<1> QED
  BY <1>4, <1>5, <1>6, <1>7

-----------------------------------------------------------------------------
(* Steps of a sync cycle that fail after part of their work. *)

LEMMA PartialCopy ==
  ASSUME TypeOK, CopyInv, pc = "syncCopy", NEW part \in SUBSET areas, CopyBlocks(part)
  PROVE  \A d \in Disks : \A b \in Blocks : vol'[d][b] \in {vol[d][b], cut[d][b]}
<1>1. back[idx] = cut[idx]
  BY DEF CopyInv, BackIsCut
<1> QED
  BY <1>1 DEF CopyBlocks, TypeOK, Image

LEMMA SyncPartialCopyStep ==
  ASSUME TypeOK, CopyInv, pc = "syncCopy", NEW part \in SUBSET areas, CopyBlocks(part),
         UNCHANGED <<src, power, snaps, cut, migType, final, idx, ref, areas, changeId, back>>,
         pc' \in {"syncFind", "adminIdle"}
  PROVE  CopyInv'
<1> USE DEF CopyInv
<1>1. vol' \in Image
  BY CopyBlocksType DEF TypeOK
<1>2. ASSUME NEW d \in Disks
      PROVE  /\ vol[d] \in [Blocks -> Nat] /\ vol'[d] \in [Blocks -> Nat] /\ cut[d] \in [Blocks -> Nat]
             /\ changeId[d] # NoId => changeId[d].img \in [Blocks -> Nat]
             /\ Behind(vol[d], cut[d])
  BY <1>1 DEF TypeOK, Image, Ordered
<1>3. ASSUME NEW d \in Disks PROVE Behind(vol[d], vol'[d]) /\ Behind(vol'[d], cut[d])
  <2> SUFFICES ASSUME NEW b \in Blocks
               PROVE  vol[d][b] <= vol'[d][b] /\ vol'[d][b] <= cut[d][b]
    BY DEF Behind
  <2>1. /\ vol'[d][b] = vol[d][b] \/ vol'[d][b] = cut[d][b]
        /\ vol[d][b] \in Nat /\ cut[d][b] \in Nat
    BY <1>2, PartialCopy
  <2>2. vol[d][b] <= cut[d][b]
    BY <1>2 DEF Behind
  <2> QED
    BY <2>1, <2>2
<1>4. Ordered'
  BY <1>3 DEF Ordered
<1>5. CurrentIsCut' /\ RefIsCut' /\ BackIsCut' /\ AreasComplete'
  BY DEF CurrentIsCut, RefIsCut, BackIsCut, AreasComplete, Snapped, Current
<1>6. IdsBehind'
  <2>1. ASSUME NEW d \in Disks, changeId[d] # NoId
        PROVE  changeId[d].disk = d /\ Behind(changeId[d].img, cut[d]) /\ Behind(changeId[d].img, vol'[d])
    <3>1. changeId[d].disk = d /\ Behind(changeId[d].img, cut[d]) /\ Behind(changeId[d].img, vol[d])
      BY <2>1 DEF IdsBehind, Copied
    <3> QED
      BY <1>2, <1>3, <2>1, <3>1, BehindTransitive
  <2> QED
    BY <2>1 DEF IdsBehind
<1>7. DisksDone'
  BY DEF DisksDone, Early
<1>8. PowerInv'
  <2>1. migType = "cold" => vol' = vol
    <3> SUFFICES ASSUME migType = "cold" PROVE vol' = vol
      OBVIOUS
    <3>1. vol = cut
      BY DEF PowerInv
    <3>2. ASSUME NEW d \in Disks PROVE vol'[d] = vol[d]
      <4>1. \A b \in Blocks : vol'[d][b] = vol[d][b]
        BY <3>1, PartialCopy
      <4> QED
        BY <1>2, <4>1
    <3> QED
      BY <1>1, <3>2, AllDisksDone DEF TypeOK
  <2> QED
    BY <2>1 DEF PowerInv, InIteration
<1> QED
  BY <1>4, <1>5, <1>6, <1>7, <1>8

LEMMA SyncFailsCopyStep ==
  ASSUME TypeOK, CopyInv, SyncStepFails
  PROVE  CopyInv'
<1> USE DEF Goto, configVars, guestVars, loopVars, diskVars
<1>1. /\ UNCHANGED <<src, power, migType, final, idx, ref, areas, changeId, back>>
      /\ pc \in SyncPcs
      /\ pc' \in {"syncClean", "syncSnap", "syncFind", "adminIdle"}
      /\ pc' = "syncFind" => pc \notin {"syncClean", "syncSnap"}
  BY DEF SyncStepFails, SyncPcs
<1>2. CASE pc = "syncSnap" /\ TakeSnapshot /\ UNCHANGED vol
  <2>1. pc' \in {"syncFind", "syncSnap", "adminIdle"}
    BY <1>2 DEF SyncStepFails
  <2> QED
    BY <1>1, <1>2, <2>1, SnapshotCopyStep
<1>3. CASE pc = "syncCopy" /\ (\E part \in SUBSET areas : CopyBlocks(part)) /\ UNCHANGED <<snaps, cut>>
  <2>1. pc' \in {"syncFind", "adminIdle"}
    BY <1>3 DEF SyncStepFails
  <2>2. PICK part \in SUBSET areas : CopyBlocks(part)
    BY <1>3
  <2> QED
    BY <1>1, <1>3, <2>1, <2>2, SyncPartialCopyStep
<1>4. CASE /\ UNCHANGED <<vol, cut>>
           /\ pc' = "syncFind" => UNCHANGED snaps
  <2> USE DEF CopyInv
  <2>1. Ordered' /\ RefIsCut' /\ BackIsCut' /\ AreasComplete'
    BY <1>1, <1>4 DEF Ordered, RefIsCut, BackIsCut, AreasComplete
  <2>2. CurrentIsCut'
    BY <1>1, <1>4 DEF CurrentIsCut, Snapped, SyncPcs, Current
  <2>3. IdsBehind'
    BY <1>1, <1>4 DEF IdsBehind, Copied, SyncPcs
  <2>4. DisksDone'
    BY <1>1, <1>4 DEF DisksDone, Early
  <2>5. PowerInv'
    BY <1>1, <1>4 DEF PowerInv, InIteration, SyncPcs
  <2> QED
    BY <2>1, <2>2, <2>3, <2>4, <2>5
<1>5. \/ UNCHANGED <<snaps, vol, cut>>
      \/ pc = "syncClean" /\ UNCHANGED <<vol, cut>>
      \/ pc = "syncSnap" /\ TakeSnapshot /\ UNCHANGED vol
      \/ pc = "syncCopy" /\ (\E part \in SUBSET areas : CopyBlocks(part)) /\ UNCHANGED <<snaps, cut>>
  BY DEF SyncStepFails
<1> QED
  BY <1>1, <1>2, <1>3, <1>4, <1>5

-----------------------------------------------------------------------------
(* Every step. *)

LEMMA CopyInit == Init => CopyInv
<1> SUFFICES ASSUME Init PROVE CopyInv
  OBVIOUS
<1>1. /\ vol = ZeroImage /\ cut = ZeroImage /\ src = FirstImage /\ idx = 1 /\ ~ final
      /\ migType = "cold" => pc = "coldOff"
      /\ pc \in {"coldOff", "clean0"}
  BY DEF Init
<1>2. Ordered
  BY <1>1 DEF Ordered, Behind, ZeroImage, FirstImage
<1>3. IdsBehind
  BY DEF Init, IdsBehind
<1>4. CurrentIsCut /\ RefIsCut /\ BackIsCut /\ AreasComplete
  BY <1>1 DEF CurrentIsCut, RefIsCut, BackIsCut, AreasComplete, Snapped
<1>5. DisksDone /\ PowerInv
  BY <1>1 DEF DisksDone, PowerInv, Early
<1> QED
  BY <1>2, <1>3, <1>4, <1>5 DEF CopyInv

LEMMA CopyStep == Undisturbed /\ TypeInv /\ CopyInv /\ [Next]_vars => CopyInv'
<1> SUFFICES ASSUME Undisturbed, TypeInv, CopyInv, [Next]_vars PROVE CopyInv'
  OBVIOUS
<1>0. TypeOK
  BY DEF TypeInv
<1>1. CASE Environment
  BY <1>0, <1>1, EnvironmentCopyStep
<1>2. CASE Administrative
  BY <1>0, <1>2, AdministrativeCopyStep
<1>3. CASE FinalVerify \/ IterationEnd
  BY <1>0, <1>3, FinalVerifyCopyStep, IterationEndCopyStep
<1>4. CASE FirstSnapshot \/ NextSnapshot \/ SyncSnapshot
  <2>1. /\ TakeSnapshot
        /\ UNCHANGED <<src, power, vol, migType, idx, final, ref, areas, changeId, back>>
        /\ \/ pc = "snap0" /\ pc' = "info0"
           \/ pc = "snap" /\ pc' = "find"
           \/ pc = "syncSnap" /\ pc' \in {"syncFind", "syncSnap", "adminIdle"}
    BY <1>4 DEF FirstSnapshot, NextSnapshot, SyncSnapshot, Goto, configVars, guestVars,
       loopVars, diskVars
  <2> QED
    BY <1>0, <2>1, SnapshotCopyStep
<1>5. CASE FirstInfo \/ FullCopy
  BY <1>0, <1>5, FirstInfoCopyStep, FullCopyStep
<1>6. CASE Find \/ SyncFind
  BY <1>0, <1>6, FindCopyStep
<1>7. CASE Info \/ SyncInfo
  BY <1>0, <1>7, InfoCopyStep
<1>8. CASE Query \/ SyncQuery
  BY <1>0, <1>8, QueryCopyStep
<1>9. CASE Copy \/ SyncCopy
  BY <1>0, <1>9, CopyCopyStep
<1>10. CASE SetId \/ SyncSetId
  BY <1>0, <1>10, SetIdCopyStep
<1>11. CASE SyncStepFails
  BY <1>0, <1>11, SyncFailsCopyStep
<1>12. CASE UNCHANGED vars
  BY <1>12 DEF CopyInv, Ordered, CurrentIsCut, RefIsCut, BackIsCut, IdsBehind, AreasComplete,
     DisksDone, PowerInv, vars, Current, Changed, Copied
<1> QED
  BY <1>1, <1>2, <1>3, <1>4, <1>5, <1>6, <1>7, <1>8, <1>9, <1>10, <1>11, <1>12
  DEF Next, Helper, Replicate, SyncCycle, Returned, Administrative

LEMMA CopyInvHolds ==
  ASSUME Undisturbed
  PROVE  Spec => []CopyInv
<1>1. TypeInv /\ CopyInv /\ [Next]_vars => CopyInv'
  BY CopyStep
<1> QED
  BY <1>1, CopyInit, TypeInvHolds, PTL DEF Spec

-----------------------------------------------------------------------------
(* No query for changed blocks can miss one: a change ID only moves on to a *)
(* snapshot after its blocks were copied (nbd_copy.go:557), also when a     *)
(* sync cycle failed half way.                                              *)
THEOREM ChangesNeverMissed ==
  ASSUME Undisturbed
  PROVE  Spec => []ChangeIdBehindVolume
<1>1. CopyInv => ChangeIdBehindVolume
  BY DEF CopyInv, IdsBehind, ChangeIdBehindVolume, Behind, NoId, Disks
<1> QED
  BY <1>1, CopyInvHolds, PTL

(* LiveReplicateDisks that returns without an error leaves on the volumes   *)
(* one instant of the VM, for any number of disks, blocks and iterations.   *)
THEOREM OneInstant ==
  ASSUME Undisturbed
  PROVE  Spec => []PointInTime
<1>1. CopyInv => PointInTime
  BY DEF CopyInv, DisksDone, PointInTime
<1> QED
  BY <1>1, CopyInvHolds, PTL

(* That instant is the last: no write of the guest is left behind, because  *)
(* one more iteration follows the power-off (nbd_copy.go:617).              *)
THEOREM EveryWriteArrives ==
  ASSUME Undisturbed
  PROVE  Spec => []NoWriteLost
<1>1. TypeOK /\ CopyInv => NoWriteLost
  BY DEF CopyInv, DisksDone, PowerInv, NoWriteLost, TypeOK
<1> QED
  BY <1>1, TypeInvHolds, CopyInvHolds, PTL DEF TypeInv

-----------------------------------------------------------------------------
(* The abstract state is src, power, vol and cut themselves; an abstract    *)
(* step is a cut (a snapshot), a transfer (a copy from the NBD server of    *)
(* one disk), a power-off or the end.                                       *)

LEMMA PromiseStutters ==
  ASSUME UNCHANGED <<src, power, vol, cut, migType>>,
         pc' = pc \/ {pc, pc'} \cap {"done", "failed"} = {}
  PROVE  UNCHANGED Promise!pvars
BY DEF Promise!pvars

LEMMA PromiseSwitchesOff ==
  ASSUME power' = "off", UNCHANGED <<src, vol, cut, migType>>,
         pc' = pc \/ {pc, pc'} \cap {"done", "failed"} = {}
  PROVE  Promise!SwitchOff
BY DEF Promise!SwitchOff

LEMMA PromiseGivesUp ==
  ASSUME UNCHANGED <<src, power, vol, cut, migType>>,
         pc \notin {"done", "failed"}, pc' = "failed"
  PROVE  Promise!GiveUp
BY DEF Promise!GiveUp

LEMMA PromiseCuts ==
  ASSUME TakeSnapshot, UNCHANGED <<src, power, vol, migType>>,
         {pc, pc'} \cap {"done", "failed"} = {}
  PROVE  Promise!Cut
BY DEF Promise!Cut, TakeSnapshot

(* The server of the disk under copy serves the last cut.                   *)
LEMMA PromiseTransfers ==
  ASSUME TypeOK, NEW bs \in SUBSET Blocks, CopyBlocks(bs), back[idx] = cut[idx],
         UNCHANGED <<src, power, cut, migType>>,
         {pc, pc'} \cap {"done", "failed"} = {}
  PROVE  Promise!Transfer
<1>1. idx \in Disks
  BY DEF TypeOK
<1>2. vol' = [vol EXCEPT ![idx] = [b \in Blocks |-> IF b \in bs THEN cut[idx][b] ELSE @[b]]]
  BY DEF CopyBlocks
<1> QED
  BY <1>1, <1>2 DEF Promise!Transfer

(* LiveReplicateDisks only returns with all of the last cut on the volumes, *)
(* and, unless it is a mock migration, with no write after that cut.        *)
LEMMA PromiseSucceeds ==
  ASSUME CopyInv, TypeOK, Release
  PROVE  Promise!Succeed
<1>1. /\ pc = "release" /\ pc' = "done"
      /\ UNCHANGED <<src, power, vol, cut, migType>>
  BY DEF Release, Goto, guestVars, configVars
<1>2. vol = cut
  BY <1>1 DEF CopyInv, DisksDone
<1>3. migType # "mock" => power = "off" /\ cut = src
  BY <1>1 DEF CopyInv, PowerInv
<1> QED
  BY <1>1, <1>2, <1>3 DEF Promise!Succeed

LEMMA PromiseInit == Init => Promise!PInit
BY DEF Init, Promise!PInit, FirstImage, ZeroImage

LEMMA PromiseStep ==
  Undisturbed /\ TypeInv /\ CopyInv /\ [Next]_vars => [Promise!PNext]_(Promise!pvars)
<1> SUFFICES ASSUME Undisturbed, TypeInv, CopyInv, [Next]_vars
             PROVE  [Promise!PNext]_(Promise!pvars)
  OBVIOUS
<1> USE DEF Promise!PNext, Goto, guestVars, configVars, loopVars, diskVars
<1>0. TypeOK
  BY DEF TypeInv
<1>1. CASE GuestWrite
  <2>1. PICK d \in Disks, b \in Blocks : src' = [src EXCEPT ![d][b] = @ + 1]
    BY <1>1 DEF GuestWrite
  <2>2. power = "on" /\ UNCHANGED <<power, vol, cut, migType, pc>>
    BY <1>1 DEF GuestWrite
  <2> QED
    BY <2>1, <2>2 DEF Promise!Write
<1>2. CASE GuestShutdown
  BY <1>2, PromiseSwitchesOff DEF GuestShutdown
<1>3. CASE ForeignPowerOn \/ ForeignSnapshot
  BY <1>0, <1>3, NoForeigner
<1>4. CASE AdminSaysYes
  BY <1>4, PromiseStutters DEF AdminSaysYes
<1>5. CASE ColdPowerOff \/ CutoverPowerOff \/ FinalPowerOff
  BY <1>5, PromiseSwitchesOff DEF ColdPowerOff, CutoverPowerOff, FinalPowerOff, PowerOff
<1>6. CASE ColdVerify \/ CutoverVerify \/ ColdStillOff \/ FinalVerify
  BY <1>6, PromiseStutters, PromiseGivesUp
     DEF ColdVerify, CutoverVerify, ColdStillOff, FinalVerify, Verify
<1>7. CASE FirstCleanUp \/ CleanUp \/ SyncCleanUp \/ WaitforCutover \/ AdminCutover \/ StartSyncCycle
  BY <1>7, PromiseStutters
     DEF FirstCleanUp, CleanUp, SyncCleanUp, WaitforCutover, AdminCutover, StartSyncCycle
<1>8. CASE FirstSnapshot \/ NextSnapshot \/ SyncSnapshot
  BY <1>8, PromiseCuts DEF FirstSnapshot, NextSnapshot, SyncSnapshot
<1>9. CASE FirstInfo \/ Find \/ SyncFind \/ Info \/ SyncInfo
  BY <1>9, PromiseStutters DEF FirstInfo, Find, SyncFind, Info, SyncInfo
<1>10. CASE FullCopy
  <2>1. back[idx] = cut[idx]
    BY <1>10 DEF FullCopy, CopyInv, BackIsCut
  <2> QED
    BY <1>0, <1>10, <2>1, PromiseTransfers DEF FullCopy
<1>11. CASE Query \/ SyncQuery
  BY <1>11, PromiseStutters DEF Query, SyncQuery, NextDisk, NextSyncDisk
<1>12. CASE Copy \/ SyncCopy
  <2>1. back[idx] = cut[idx] /\ areas \in SUBSET Blocks
    BY <1>0, <1>12 DEF Copy, SyncCopy, CopyInv, BackIsCut, TypeOK
  <2> QED
    BY <1>0, <1>12, <2>1, PromiseTransfers DEF Copy, SyncCopy
<1>13. CASE SetId \/ SyncSetId
  BY <1>13, PromiseStutters DEF SetId, SyncSetId, NextDisk, NextSyncDisk
<1>14. CASE IterationEnd
  BY <1>14, PromiseStutters DEF IterationEnd
<1>15. CASE Release
  BY <1>0, <1>15, PromiseSucceeds
<1>16. CASE StepFails \/ Refused \/ WaitCancelled
  BY <1>16, PromiseStutters, PromiseGivesUp DEF StepFails, Refused, WaitCancelled, MainPcs, SyncPcs
<1>17. CASE SyncStepFails
  <2>1. {pc, pc'} \cap {"done", "failed"} = {} /\ UNCHANGED <<src, power, migType>>
    BY <1>17 DEF SyncStepFails, SyncPcs
  <2>2. CASE UNCHANGED <<vol, cut>>
    BY <2>1, <2>2, PromiseStutters
  <2>3. CASE TakeSnapshot /\ UNCHANGED vol
    BY <2>1, <2>3, PromiseCuts
  <2>4. CASE pc = "syncCopy" /\ (\E part \in SUBSET areas : CopyBlocks(part)) /\ UNCHANGED cut
    <3>1. PICK part \in SUBSET areas : CopyBlocks(part)
      BY <2>4
    <3>2. part \in SUBSET Blocks /\ back[idx] = cut[idx]
      BY <1>0, <2>4 DEF TypeOK, CopyInv, BackIsCut
    <3> QED
      BY <1>0, <2>1, <2>4, <3>1, <3>2, PromiseTransfers
  <2> QED
    BY <1>17, <2>2, <2>3, <2>4 DEF SyncStepFails
<1>18. CASE UNCHANGED vars
  BY <1>18, PromiseStutters DEF vars
<1> QED
  BY <1>1, <1>2, <1>3, <1>4, <1>5, <1>6, <1>7, <1>8, <1>9, <1>10, <1>11, <1>12, <1>13,
     <1>14, <1>15, <1>16, <1>17, <1>18
  DEF Next, Environment, Helper, Replicate, SyncCycle, Returned

(* LiveReplicateDisks implements the point-in-time copier.                  *)
THEOREM ImplementsPointInTimeCopy ==
  ASSUME Undisturbed
  PROVE  Spec => CopiesPointInTime
<1>1. TypeInv /\ CopyInv /\ [Next]_vars => [Promise!PNext]_(Promise!pvars)
  BY PromiseStep
<1> QED
  BY <1>1, PromiseInit, TypeInvHolds, CopyInvHolds, PTL DEF Spec, CopiesPointInTime, Promise!PSpec

-----------------------------------------------------------------------------
(* A cold migration, for any order of the snapshot's disks and any number   *)
(* of foreign snapshots.  Once the VM is off its disks stand still: each    *)
(* snapshot the helper takes shows them as they are, so no block is ever    *)
(* found changed, and what the full copy wrote is never touched again.      *)

ColdEarly == {"coldOff", "coldVerify", "clean0", "snap0", "info0"}
ColdLate == {"adminIdle", "cutOff", "cutVerify", "waitCut", "clean", "coldCheck", "release",
             "done", "syncClean", "syncSnap", "syncFind", "syncQuery"}

OwnShow(img) == \A i \in Named : snaps[i].img = img

ColdOff ==
  /\ pc \in ColdEarly \cup {"full"} \cup ColdLate
  /\ pc \notin {"coldOff", "coldVerify"} => power = "off"
  /\ pc = "snap0" => Named = {}
  /\ pc \in {"info0", "full"} \cup ColdLate => cut = src /\ OwnShow(src)
  /\ pc \in ColdEarly => idx = 1
  /\ pc = "info0" => Current = src
  /\ pc = "full" => back = src /\ \A d \in Disks : d < idx => vol[d] = src[d]
  /\ pc \in {"full"} \cup ColdLate =>
       \A d \in Disks : changeId[d] \in {NoId, ChangeIdOf(d, src)}
  /\ pc \in ColdLate => vol = src
  /\ pc = "syncQuery" => ref = src

ColdInv == migType = "cold" /\ budget["powerOn"] = 0 /\ pc # "failed" => ColdOff

LEMMA RemoveFromNamed ==
  ASSUME snaps \in Seq(SnapType), NEW k \in Named, RemoveFrom(k)
  PROVE  \A i \in Named' : i \in Named /\ i < k /\ snaps'[i] = snaps[i]
<1>1. k \in 1 .. Len(snaps) /\ Len(snaps) \in Nat
  BY NamedInSnaps
<1>2. \A i \in 1 .. k - 1 : snaps[i] \in SnapType
  BY <1>1, ElementOfSeq
<1>3. 1 \in Int /\ k - 1 \in Int
  BY <1>1
<1>4. snaps' = SubSeq(snaps, 1, k - 1)
  BY DEF RemoveFrom
<1>5. Len(snaps') = k - 1 /\ \A i \in 1 .. k - 1 : snaps'[i] = snaps[i]
  BY <1>1, <1>2, <1>4
<1>6. snaps' \in Seq(SnapType)
  BY RemoveFromType
<1>7. DOMAIN snaps' = 1 .. k - 1 /\ DOMAIN snaps = 1 .. Len(snaps)
  BY <1>5, <1>6, LenProperties
<1> QED
  BY <1>1, <1>5, <1>7 DEF Named

(* A clean-up that succeeds leaves no migration snapshot.                   *)
LEMMA CleanUpSnapshotsNamed ==
  ASSUME snaps \in Seq(SnapType), CleanUpSnapshots
  PROVE  Named' = {}
<1>1. CASE Named = {} /\ UNCHANGED snaps
  BY <1>1 DEF Named
<1>2. CASE \E k \in Named : (\A i \in Named : k <= i) /\ RemoveFrom(k)
  <2>1. PICK k \in Named : (\A i \in Named : k <= i) /\ RemoveFrom(k)
    BY <1>2
  <2>2. \A i \in Named' : i \in Named /\ i < k
    BY <2>1, RemoveFromNamed
  <2>3. \A i \in Named : i \in Nat
    BY NamedInSnaps
  <2> QED
    BY <2>1, <2>2, <2>3
<1> QED
  BY <1>1, <1>2 DEF CleanUpSnapshots

LEMMA AppendNamed ==
  ASSUME snaps \in Seq(SnapType), NEW own \in BOOLEAN, src \in Image,
         snaps' = Append(snaps, Snapshot(own, src))
  PROVE  /\ \A i \in Named' : (i \in Named /\ snaps'[i] = snaps[i]) \/ (own /\ snaps'[i].img = src)
         /\ Current' = src
<1>1. Snapshot(own, src) \in SnapType
  BY DEF Snapshot, SnapType
<1>2. /\ snaps' \in Seq(SnapType) /\ Len(snaps) \in Nat /\ Len(snaps') = Len(snaps) + 1
      /\ \A i \in 1 .. Len(snaps) : snaps'[i] = snaps[i]
      /\ snaps'[Len(snaps) + 1] = Snapshot(own, src)
  BY <1>1, AppendProperties, LenProperties
<1>3. DOMAIN snaps' = 1 .. Len(snaps) + 1 /\ DOMAIN snaps = 1 .. Len(snaps)
  BY <1>2, LenProperties
<1>4. ASSUME NEW i \in Named'
      PROVE  (i \in Named /\ snaps'[i] = snaps[i]) \/ (own /\ snaps'[i].img = src)
  <2>1. i \in 1 .. Len(snaps) + 1 /\ snaps'[i].own
    BY <1>3 DEF Named
  <2>2. CASE i = Len(snaps) + 1
    BY <1>2, <2>1, <2>2 DEF Snapshot
  <2>3. CASE i \in 1 .. Len(snaps)
    BY <1>2, <1>3, <2>1, <2>3 DEF Named
  <2> QED
    BY <1>2, <2>1, <2>2, <2>3
<1>5. Current' = src
  BY <1>2 DEF Current, Snapshot
<1> QED
  BY <1>4, <1>5

(* Own snapshots still show the disks after any of these calls.             *)
LEMMA OwnShowKept ==
  ASSUME snaps \in Seq(SnapType), src \in Image, OwnShow(src), UNCHANGED src,
         \/ UNCHANGED snaps \/ CleanUpSnapshots \/ (\E k \in Named : RemoveFrom(k))
         \/ TakeSnapshot \/ snaps' = Append(snaps, Snapshot(FALSE, src))
  PROVE  OwnShow(src)'
<1>1. CASE UNCHANGED snaps
  BY <1>1 DEF OwnShow, Named
<1>2. CASE CleanUpSnapshots
  BY <1>2, CleanUpSnapshotsNamed DEF OwnShow
<1>3. CASE \E k \in Named : RemoveFrom(k)
  <2>1. \A i \in Named' : i \in Named /\ snaps'[i] = snaps[i]
    BY <1>3, RemoveFromNamed
  <2> QED
    BY <2>1 DEF OwnShow
<1>4. CASE \E own \in BOOLEAN : snaps' = Append(snaps, Snapshot(own, src))
  <2>1. \A i \in Named' : (i \in Named /\ snaps'[i] = snaps[i]) \/ snaps'[i].img = src
    BY <1>4, AppendNamed
  <2> QED
    BY <2>1 DEF OwnShow
<1> QED
  BY <1>1, <1>2, <1>3, <1>4 DEF TakeSnapshot

(* What no step of the helper does. *)
LEMMA HelperFrame ==
  ASSUME TypeOK, Helper
  PROVE  /\ UNCHANGED <<src, migType>> /\ power' \in {power, "off"}
         /\ budget' = budget \/ budget' = [budget EXCEPT !["fault"] = @ + 1]
         /\ pc \notin {"done", "failed"}
         /\ pc = "full" => FullCopy \/ pc' = "failed"
         /\ pc \in ColdEarly =>
              \/ ColdPowerOff \/ ColdVerify \/ FirstCleanUp \/ FirstSnapshot \/ FirstInfo
              \/ pc' = "failed"
<1> USE DEF guestVars, configVars, loopVars, diskVars, Goto, Spend, PowerOff, MainPcs, SyncPcs, ColdEarly
<1>1. CASE \/ ColdPowerOff \/ ColdVerify \/ FirstCleanUp \/ FirstSnapshot \/ FirstInfo \/ FullCopy
           \/ CutoverPowerOff \/ CutoverVerify \/ WaitforCutover \/ CleanUp \/ ColdStillOff
  BY <1>1 DEF ColdPowerOff, ColdVerify, FirstCleanUp, FirstSnapshot, FirstInfo, FullCopy,
     CutoverPowerOff, CutoverVerify, WaitforCutover, CleanUp, ColdStillOff
<1>2. CASE \/ NextSnapshot \/ Find \/ Info \/ Query \/ Copy \/ SetId \/ IterationEnd
           \/ FinalPowerOff \/ FinalVerify \/ Release \/ StepFails \/ Refused
  BY <1>2 DEF NextSnapshot, Find, Info, Query, Copy, SetId, IterationEnd, FinalPowerOff,
     FinalVerify, Release, StepFails, Refused
<1>3. CASE SyncCycle \/ AdminCutover \/ StartSyncCycle \/ WaitCancelled
  BY <1>3 DEF SyncCycle, SyncCleanUp, SyncSnapshot, SyncFind, SyncQuery, SyncInfo, SyncCopy,
     SyncSetId, SyncStepFails, AdminCutover, StartSyncCycle, WaitCancelled
<1> QED
  BY <1>1, <1>2, <1>3 DEF Helper, Replicate

(* The VM stays off and nothing is written until the helper returns.        *)
LEMMA ColdQuiet ==
  ASSUME TypeOK, ColdOff, Next, budget["powerOn"] = 0, budget'["powerOn"] = 0
  PROVE  /\ ~ ForeignPowerOn
         /\ pc \notin {"coldOff", "coldVerify"} => UNCHANGED <<src, power>>
<1>1. ~ ForeignPowerOn
  BY DEF ForeignPowerOn, Spend, TypeOK
<1>2. ASSUME pc \notin {"coldOff", "coldVerify"} PROVE UNCHANGED <<src, power>>
  <2>1. power = "off"
    BY <1>2 DEF ColdOff
  <2>2. CASE Environment
    BY <1>1, <2>1, <2>2 DEF Environment, GuestWrite, GuestShutdown, ForeignSnapshot, AdminSaysYes, guestVars
  <2>3. CASE Helper
    BY <2>1, <2>3, HelperFrame
  <2>4. CASE Returned
    BY <2>4 DEF Returned, vars
  <2> QED
    BY <2>2, <2>3, <2>4 DEF Next
<1> QED
  BY <1>1, <1>2

(* Nothing was powered on before a state in which nothing was. *)
LEMMA ColdBefore ==
  ASSUME TypeOK, Next, ~ UNCHANGED vars, migType' = "cold", budget'["powerOn"] = 0, pc' # "failed"
  PROVE  migType = "cold" /\ budget["powerOn"] = 0 /\ pc # "failed"
<1> USE DEF guestVars, configVars, Spend, TypeOK
<1>1. CASE GuestWrite
  BY <1>1 DEF GuestWrite
<1>2. CASE GuestShutdown \/ AdminSaysYes
  BY <1>2 DEF GuestShutdown, AdminSaysYes
<1>3. CASE ForeignPowerOn
  BY <1>3 DEF ForeignPowerOn
<1>4. CASE ForeignSnapshot
  BY <1>4 DEF ForeignSnapshot
<1>5. CASE Helper
  BY <1>5, HelperFrame
<1> QED
  BY <1>1, <1>2, <1>3, <1>4, <1>5 DEF Next, Environment, Returned

(* The environment: foreign snapshots and labels change nothing that counts. *)
LEMMA ColdEnvironmentStep ==
  ASSUME TypeOK, SnapshotThere, ColdOff, Environment, budget["powerOn"] = 0, budget'["powerOn"] = 0
  PROVE  ColdOff'
<1> USE DEF guestVars, configVars, loopVars, diskVars
<1>1. /\ ~ ForeignPowerOn /\ (pc \notin {"coldOff", "coldVerify"} => UNCHANGED <<src, power>>)
  BY ColdQuiet DEF Next
<1>2. /\ UNCHANGED <<vol, pc, idx, ref, changeId, back, cut>>
      /\ UNCHANGED snaps \/ (snaps' = Append(snaps, Snapshot(FALSE, src)) /\ UNCHANGED src)
  <2>1. CASE GuestWrite \/ GuestShutdown \/ AdminSaysYes
    BY <2>1 DEF GuestWrite, GuestShutdown, AdminSaysYes
  <2>2. CASE ForeignSnapshot
    BY <2>2 DEF ForeignSnapshot
  <2> QED
    BY <1>1, <2>1, <2>2 DEF Environment
<1>3. UNCHANGED src /\ OwnShow(src) => OwnShow(src)'
  BY <1>2, OwnShowKept DEF TypeOK, SnapType
<1>4. UNCHANGED src /\ pc = "info0" => Current' = src
  BY <1>2, AppendNamed DEF TypeOK, SnapType, ColdOff, Current
<1>5. Named = {} => Named' = {}
  BY <1>2, AppendNamed DEF TypeOK, SnapType, Named
<1> QED
  BY <1>1, <1>2, <1>3, <1>4, <1>5 DEF ColdOff, ColdEarly, ColdLate, OwnShow

(* Steps that only move on, clean up or take a snapshot.                    *)
LEMMA ColdEarlyStep ==
  ASSUME TypeOK, ColdOff, UNCHANGED src,
         ColdPowerOff \/ ColdVerify \/ FirstCleanUp \/ FirstSnapshot \/ FirstInfo, pc' # "failed"
  PROVE  ColdOff'
<1> USE DEF guestVars, configVars, loopVars, diskVars, Goto, ColdOff, ColdEarly, ColdLate
<1>0. snaps \in Seq(SnapType) /\ src \in Image
  BY DEF TypeOK, SnapType
<1>1. CASE ColdPowerOff
  BY <1>1 DEF ColdPowerOff, PowerOff
<1>2. CASE ColdVerify
  BY <1>2 DEF ColdVerify, Verify
<1>3. CASE FirstCleanUp
  BY <1>0, <1>3, CleanUpSnapshotsNamed DEF FirstCleanUp
<1>4. CASE FirstSnapshot
  <2>1. pc' = "info0" /\ pc = "snap0" /\ UNCHANGED <<vol, idx, power>> /\ TakeSnapshot /\ Named = {}
    BY <1>4 DEF FirstSnapshot
  <2>2. Current' = src /\ OwnShow(src)' /\ cut' = src
    BY <1>0, <2>1, AppendNamed DEF TakeSnapshot, OwnShow
  <2> QED
    BY <2>1, <2>2
<1>5. CASE FirstInfo
  <2>1. /\ pc' = "full" /\ pc = "info0" /\ UNCHANGED <<vol, idx, power, snaps, cut>>
        /\ back' = src /\ \A d \in Disks : changeId'[d] \in {NoId, ChangeIdOf(d, src)}
    BY <1>5 DEF FirstInfo, UpdateDisksInfo
  <2>2. OwnShow(src)' /\ \A d \in Disks : ~ (d < idx)
    BY <2>1 DEF OwnShow, Named, Disks
  <2> QED
    BY <2>1, <2>2 DEF ChangeIdOf
<1> QED
  BY <1>1, <1>2, <1>3, <1>4, <1>5

LEMMA ColdFullCopyStep ==
  ASSUME TypeOK, ColdOff, UNCHANGED <<src, power>>, FullCopy
  PROVE  ColdOff'
<1>1. /\ pc = "full" /\ back = src /\ CopyBlocks(Blocks) /\ (\A d \in Disks : d < idx => vol[d] = src[d])
      /\ UNCHANGED <<snaps, changeId, back, cut, ref>>
  BY DEF FullCopy, ColdOff, diskVars
<1>2. vol' \in Image /\ idx' \in Disks /\ idx \in Disks /\ src \in Image
  BY <1>1, CopyBlocksType, DisksNonempty DEF FullCopy, TypeOK, Disks, Goto
<1>3. vol'[idx] = src[idx] /\ \A d \in Disks : d # idx => vol'[d] = vol[d]
  BY <1>1, CopyAll DEF TypeOK
<1>4. \A d \in Disks : d <= idx => vol'[d] = src[d]
  BY <1>1, <1>2, <1>3 DEF Disks
<1>5. \/ pc' = "full" /\ idx' = idx + 1
      \/ pc' \in {"adminIdle", "waitCut"} /\ vol' = src
  <2>1. CASE idx < NumDisks
    BY <2>1 DEF FullCopy, Goto
  <2>2. CASE ~ (idx < NumDisks)
    <3>1. NumDisks \in Nat /\ \A d \in Disks : d <= idx
      BY <1>2, <2>2, ReplicationAssumption DEF Disks
    <3>2. \A d \in Disks : vol'[d] = src[d]
      BY <1>4, <3>1
    <3> QED
      BY <1>2, <2>2, <3>2, AllDisksDone DEF FullCopy, Goto
  <2> QED
    BY <2>1, <2>2
<1>6. OwnShow(src)' /\ power = "off" /\ cut = src
      /\ \A d \in Disks : changeId[d] \in {NoId, ChangeIdOf(d, src)}
  BY <1>1 DEF ColdOff, OwnShow, Named
<1>7. \A d \in Disks : d < idx + 1 => vol'[d] = src[d]
  BY <1>2, <1>4 DEF Disks
<1> QED
  BY <1>1, <1>5, <1>6, <1>7 DEF ColdOff, ColdEarly, ColdLate, ChangeIdOf

(* From here on nothing on the volumes changes any more.                    *)
LEMMA ColdKeeps ==
  ASSUME TypeOK, ColdOff, pc \in ColdLate, pc' \in ColdLate, pc' # "syncQuery" \/ ref' = src,
         UNCHANGED <<src, power, vol, changeId>>,
         UNCHANGED cut \/ cut' = src,
         \/ UNCHANGED snaps \/ CleanUpSnapshots \/ (\E k \in Named : RemoveFrom(k)) \/ TakeSnapshot
  PROVE  ColdOff'
<1>1. OwnShow(src)'
  BY OwnShowKept DEF TypeOK, SnapType, ColdOff
<1>2. /\ power = "off" /\ cut' = src /\ vol = src
      /\ \A d \in Disks : changeId[d] \in {NoId, ChangeIdOf(d, src)}
  BY DEF ColdOff, ColdLate
<1>3. pc' \notin ColdEarly \cup {"full"}
  BY DEF ColdLate, ColdEarly
<1> QED
  BY <1>1, <1>2, <1>3 DEF ColdOff, ColdEarly, OwnShow, ChangeIdOf

(* No block is ever found changed.                                          *)
LEMMA ColdNothingChanged ==
  ASSUME TypeOK, ColdOff, migType = "cold", pc = "syncQuery", QueryChangedDiskAreas
  PROVE  areas' = {}
<1>1. idx \in Disks /\ idx # 0 /\ ref = src /\ changeId[idx] \in {NoId, ChangeIdOf(idx, src)}
      /\ changeId[idx].disk = idx /\ src \in Image
  BY DEF TypeOK, ColdOff, ColdLate, QueryChangedDiskAreas, Disks
<1>2. changeId[idx].img = src[idx]
  BY <1>1 DEF NoId, ChangeIdOf
<1>3. Idle
  BY <1>1, <1>2 DEF Idle, Changed, ColdOff, ColdLate, Image
<1> QED
  BY <1>3 DEF QueryChangedDiskAreas

LEMMA ColdLateStep ==
  ASSUME TypeOK, ColdOff, UNCHANGED <<src, power>>, migType = "cold",
         Helper, pc \in ColdLate, pc' # "failed"
  PROVE  ColdOff'
<1> USE DEF guestVars, configVars, loopVars, diskVars, Goto, ColdLate
<1>1. CASE AdminCutover \/ StartSyncCycle \/ CutoverPowerOff \/ CutoverVerify \/ WaitforCutover \/ ColdStillOff
  <2>1. pc' \in ColdLate \ {"syncQuery"} /\ UNCHANGED <<snaps, vol, changeId, cut>>
    BY <1>1 DEF AdminCutover, StartSyncCycle, CutoverPowerOff, CutoverVerify, WaitforCutover, ColdStillOff,
       PowerOff, Verify
  <2> QED
    BY <2>1, ColdKeeps
<1>2. CASE SyncCleanUp \/ CleanUp \/ Release
  <2>1. /\ pc' \in ColdLate \ {"syncQuery"} /\ UNCHANGED <<vol, changeId, cut>>
        /\ UNCHANGED snaps \/ CleanUpSnapshots \/ (\E k \in Named : RemoveFrom(k))
    BY <1>2 DEF SyncCleanUp, CleanUp, Release
  <2> QED
    BY <2>1, ColdKeeps
<1>3. CASE SyncSnapshot
  <2>1. pc' = "syncFind" /\ UNCHANGED <<vol, changeId>> /\ TakeSnapshot /\ cut' = src
    BY <1>3 DEF SyncSnapshot, TakeSnapshot
  <2> QED
    BY <2>1, ColdKeeps
<1>4. CASE SyncFind
  <2>1. pc' = "syncQuery" /\ UNCHANGED <<snaps, vol, changeId, cut>> /\ GetSnapshot
    BY <1>4 DEF SyncFind
  <2>2. ref' = src
    BY <2>1 DEF GetSnapshot, ColdOff, OwnShow
  <2> QED
    BY <2>1, <2>2, ColdKeeps
<1>5. CASE SyncQuery
  <2>1. areas' = {} /\ pc = "syncQuery" /\ UNCHANGED <<snaps, vol, changeId, cut, ref>>
    BY <1>5, ColdNothingChanged DEF SyncQuery
  <2>2. pc' \in {"syncQuery", "adminIdle"}
    BY <1>5, <2>1 DEF SyncQuery, NextSyncDisk
  <2>3. ref = src
    BY <2>1 DEF ColdOff
  <2> QED
    BY <2>1, <2>2, <2>3, ColdKeeps
<1>6. CASE SyncStepFails \/ Refused
  <2>1. pc' \in ColdLate \ {"syncQuery"} /\ UNCHANGED <<vol, changeId>>
    BY <1>6 DEF SyncStepFails, Refused, SyncPcs
  <2>2. /\ UNCHANGED cut \/ cut' = src
        /\ UNCHANGED snaps \/ (\E k \in Named : RemoveFrom(k)) \/ TakeSnapshot
    BY <1>6 DEF SyncStepFails, Refused, TakeSnapshot
  <2> QED
    BY <2>1, <2>2, ColdKeeps
<1>7. ~ \/ ColdPowerOff \/ ColdVerify \/ FirstCleanUp \/ FirstSnapshot \/ FirstInfo \/ FullCopy
  BY DEF ColdPowerOff, ColdVerify, FirstCleanUp, FirstSnapshot, FirstInfo, FullCopy
<1>8. ~ \/ NextSnapshot \/ Find \/ Info \/ Query \/ Copy \/ SetId \/ IterationEnd \/ FinalPowerOff
        \/ FinalVerify \/ SyncInfo \/ SyncCopy \/ SyncSetId \/ StepFails
        \/ WaitCancelled
  BY DEF NextSnapshot, Find, Info, Query, Copy, SetId, IterationEnd, FinalPowerOff, FinalVerify,
     SyncInfo, SyncCopy, SyncSetId, StepFails, WaitCancelled
<1> QED
  BY <1>1, <1>2, <1>3, <1>4, <1>5, <1>6, <1>7, <1>8 DEF Helper, Replicate, SyncCycle

LEMMA ColdStep == TypeInv /\ ColdInv /\ [Next]_vars => ColdInv'
<1> SUFFICES ASSUME TypeInv, ColdInv, [Next]_vars,
                    migType' = "cold", budget'["powerOn"] = 0, pc' # "failed"
             PROVE  ColdOff'
  BY DEF ColdInv
<1>0. TypeOK /\ SnapshotThere
  BY DEF TypeInv
<1>1. CASE UNCHANGED vars
  <2>1. ColdOff
    BY <1>1 DEF vars, ColdInv
  <2> QED
    BY <1>1, <2>1 DEF vars, ColdOff, OwnShow, Named, Current, ChangeIdOf
<1>2. CASE Next /\ ~ UNCHANGED vars
  <2>1. migType = "cold" /\ budget["powerOn"] = 0 /\ pc # "failed"
    BY <1>0, <1>2, ColdBefore
  <2>2. ColdOff
    BY <2>1 DEF ColdInv
  <2>3. CASE Environment
    BY <1>0, <2>1, <2>2, <2>3, ColdEnvironmentStep
  <2>4. CASE Helper
    <3>1. pc \notin {"coldOff", "coldVerify"} => UNCHANGED <<src, power>>
      BY <1>0, <1>2, <2>1, <2>2, ColdQuiet
    <3>2. CASE pc \in ColdLate
      BY <1>0, <2>1, <2>2, <2>4, <3>1, <3>2, ColdLateStep DEF ColdLate
    <3>3. CASE pc = "full"
      BY <1>0, <2>2, <2>4, <3>1, <3>3, HelperFrame, ColdFullCopyStep
    <3>4. CASE pc \in ColdEarly
      BY <1>0, <2>2, <2>4, <3>4, HelperFrame, ColdEarlyStep
    <3> QED
      BY <2>2, <3>2, <3>3, <3>4 DEF ColdOff
  <2>5. CASE Returned
    BY <1>2, <2>5 DEF Returned
  <2> QED
    BY <1>2, <2>3, <2>4, <2>5 DEF Next
<1> QED
  BY <1>1, <1>2

(* A cold migration that returns without an error and whose VM nobody       *)
(* powered on has complete volumes, whatever snapshots others take and in   *)
(* whichever order vCenter lists their disks (nbd_copy.go:634).             *)
THEOREM ColdNeverAffected == Spec => []ColdUnaffected
<1>1. Init => ColdInv
  <2>1. Init /\ migType = "cold" => pc = "coldOff" /\ idx = 1
    BY DEF Init
  <2> QED
    BY <2>1 DEF ColdInv, ColdOff, ColdEarly, ColdLate
<1>2. ColdInv => ColdUnaffected
  BY DEF ColdInv, ColdOff, ColdLate, ColdUnaffected
<1> QED
  BY <1>1, <1>2, ColdStep, TypeInvHolds, PTL DEF Spec
=============================================================================
