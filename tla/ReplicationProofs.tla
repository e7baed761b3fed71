-------------------------- MODULE ReplicationProofs --------------------------
(***************************************************************************)
(* What holds of LiveReplicateDisks whatever the number of disks, blocks,  *)
(* guest writes, faults and iterations.                                    *)
(***************************************************************************)
EXTENDS Replication, TLAPS, SequenceTheorems

SnapType == [own : BOOLEAN, img : Image]
IdType == {NoId} \cup [disk : Disks, img : [Blocks -> Nat]]

-----------------------------------------------------------------------------
(* The calls on the state they touch. *)

LEMMA DisksNonempty == Disks # {} /\ 1 \in Disks /\ NumDisks \in Disks
BY ReplicationAssumption DEF Disks

LEMMA FirstImageType == FirstImage \in Image /\ ZeroImage \in Image
BY DEF FirstImage, ZeroImage, Image

LEMMA NamedInSnaps ==
  ASSUME snaps \in Seq(SnapType)
  PROVE  Named \subseteq 1 .. Len(snaps) /\ Len(snaps) \in Nat
BY LenProperties DEF Named

(* A clean-up, whole or partial, leaves the snapshots below some own one. *)
LEMMA RemoveFromType ==
  ASSUME snaps \in Seq(SnapType), NEW k \in Named, RemoveFrom(k)
  PROVE  snaps' \in Seq(SnapType)
<1>1. k \in 1 .. Len(snaps) /\ Len(snaps) \in Nat
  BY NamedInSnaps
<1>2. \A i \in 1 .. k - 1 : snaps[i] \in SnapType
  BY <1>1, ElementOfSeq
<1>3. 1 \in Int /\ k - 1 \in Int
  BY <1>1
<1> QED
  BY <1>2, <1>3, SubSeqProperties, Zenon DEF RemoveFrom

LEMMA CleanUpSnapshotsType ==
  ASSUME snaps \in Seq(SnapType), CleanUpSnapshots
  PROVE  snaps' \in Seq(SnapType)
BY RemoveFromType DEF CleanUpSnapshots

LEMMA TakeSnapshotType ==
  ASSUME snaps \in Seq(SnapType), src \in Image, TakeSnapshot
  PROVE  snaps' \in Seq(SnapType) /\ snaps' # <<>> /\ cut' \in Image
BY DEF TakeSnapshot, Snapshot, SnapType

LEMMA CurrentType ==
  ASSUME snaps \in Seq(SnapType), snaps # <<>>
  PROVE  Current \in Image
<1>1. Len(snaps) \in 1 .. Len(snaps)
  BY EmptySeq
<1>2. snaps[Len(snaps)] \in SnapType
  BY <1>1, ElementOfSeq
<1> QED
  BY <1>2 DEF Current, SnapType

LEMMA SpendType ==
  ASSUME NEW what \in {"write", "fault", "foreign", "powerOn"}, NEW max,
         budget \in [{"write", "fault", "foreign", "powerOn"} -> Nat], Spend(what, max)
  PROVE  budget' \in [{"write", "fault", "foreign", "powerOn"} -> Nat]
BY DEF Spend

LEMMA ChangeIdType ==
  ASSUME NEW d \in Disks, NEW img \in Image
  PROVE  ChangeIdOf(d, img) \in IdType
BY DEF ChangeIdOf, IdType, Image

LEMMA UpdateDisksInfoType ==
  ASSUME snaps \in Seq(SnapType), snaps # <<>>, UpdateDisksInfo
  PROVE  changeId' \in [Disks -> IdType] /\ back' \in Image
BY CurrentType, ChangeIdType DEF UpdateDisksInfo, IdType

LEMMA UpdateDiskInfoType ==
  ASSUME snaps \in Seq(SnapType), snaps # <<>>, idx \in Disks,
         back \in Image, changeId \in [Disks -> IdType],
         NEW success, UpdateDiskInfo(success)
  PROVE  changeId' \in [Disks -> IdType] /\ back' \in Image
<1>1. SnapDev[idx] \in Disks /\ Current \in Image
  BY ReplicationAssumption, CurrentType
<1>2. ChangeIdOf(SnapDev[idx], Current) \in IdType
  BY <1>1, ChangeIdType
<1>3. Current[SnapDev[idx]] \in [Blocks -> Nat]
  BY <1>1 DEF Image
<1> QED
  BY <1>2, <1>3 DEF UpdateDiskInfo, Image

LEMMA GetSnapshotType ==
  ASSUME snaps \in Seq(SnapType), GetSnapshot
  PROVE  ref' \in Image
<1>1. PICK i \in Named : ref' = snaps[i].img
  BY DEF GetSnapshot
<1>2. snaps[i] \in SnapType
  BY <1>1, NamedInSnaps, ElementOfSeq
<1> QED
  BY <1>1, <1>2 DEF SnapType

LEMMA WriteType ==
  ASSUME src \in Image, NEW d \in Disks, NEW b \in Blocks,
         src' = [src EXCEPT ![d][b] = @ + 1]
  PROVE  src' \in Image
BY DEF Image

LEMMA CopyBlocksType ==
  ASSUME vol \in Image, back \in Image, idx \in Disks, NEW bs, CopyBlocks(bs)
  PROVE  vol' \in Image
BY DEF CopyBlocks, Image

-----------------------------------------------------------------------------
(* Type correctness.  UpdateDiskInfo reads the current snapshot: there is   *)
(* one from the call that takes it to the clean-up of the next iteration.   *)
Snapped == {"info0", "full", "find", "info", "query", "copy", "setId",
            "syncFind", "syncQuery", "syncInfo", "syncCopy", "syncSetId"}

SnapshotThere == pc \in Snapped => snaps # <<>>

TypeInv == TypeOK /\ SnapshotThere

LEMMA TypeStep == TypeInv /\ [Next]_vars => TypeInv'
<1> SUFFICES ASSUME TypeInv, [Next]_vars PROVE TypeInv'
  OBVIOUS
<1> USE DEF TypeInv, TypeOK, SnapshotThere, Goto, configVars, loopVars, diskVars, guestVars, Pcs, MainPcs, SyncPcs,
            Snapped, SnapType, IdType
<1>1. CASE GuestWrite
  <2>1. PICK d \in Disks, b \in Blocks : src' = [src EXCEPT ![d][b] = @ + 1]
    BY <1>1 DEF GuestWrite
  <2>2. src' \in Image
    BY <2>1, WriteType
  <2> QED
    BY <1>1, <2>2, SpendType DEF GuestWrite
<1>2. CASE GuestShutdown
  BY <1>2 DEF GuestShutdown
<1>3. CASE ForeignPowerOn
  BY <1>3, SpendType DEF ForeignPowerOn
<1>4. CASE ForeignSnapshot
  BY <1>4, SpendType, AppendProperties DEF ForeignSnapshot, Snapshot, SnapType
<1>5. CASE AdminSaysYes
  BY <1>5 DEF AdminSaysYes
<1>6. CASE ColdPowerOff
  BY <1>6 DEF ColdPowerOff, PowerOff
<1>7. CASE ColdVerify
  BY <1>7 DEF ColdVerify, Verify
<1>8. CASE FirstCleanUp
  BY <1>8, CleanUpSnapshotsType DEF FirstCleanUp
<1>9. CASE FirstSnapshot
  BY <1>9, TakeSnapshotType DEF FirstSnapshot
<1>10. CASE FirstInfo
  BY <1>10, UpdateDisksInfoType DEF FirstInfo
<1>11. CASE FullCopy
  BY <1>11, CopyBlocksType, DisksNonempty DEF FullCopy, Disks
<1>12. CASE CutoverPowerOff
  BY <1>12 DEF CutoverPowerOff, PowerOff
<1>13. CASE CutoverVerify
  BY <1>13 DEF CutoverVerify, Verify
<1>14. CASE WaitforCutover
  BY <1>14 DEF WaitforCutover
<1>15. CASE CleanUp
  BY <1>15, CleanUpSnapshotsType DEF CleanUp
<1>16. CASE ColdStillOff
  BY <1>16 DEF ColdStillOff, Verify
<1>17. CASE NextSnapshot
  BY <1>17, TakeSnapshotType DEF NextSnapshot
<1>18. CASE Find
  BY <1>18, DisksNonempty, GetSnapshotType DEF Find
<1>19. CASE Info
  <2>1. UpdateDiskInfo(FALSE) /\ snaps # <<>>
    BY <1>19 DEF Info
  <2>2. changeId' \in [Disks -> IdType] /\ back' \in Image
    BY <2>1, UpdateDiskInfoType
  <2> QED
    BY <1>19, <2>2 DEF Info
<1>20. CASE Query
  <2>1. areas' \subseteq Blocks /\ done' \in BOOLEAN
    BY <1>20 DEF Query, QueryChangedDiskAreas
  <2>2. CASE areas' = {}
    BY <1>20, <2>1, <2>2, DisksNonempty DEF Query, NextDisk, Disks
  <2>3. CASE areas' # {}
    BY <1>20, <2>1, <2>3 DEF Query
  <2> QED BY <2>2, <2>3
<1>21. CASE Copy
  BY <1>21, CopyBlocksType DEF Copy
<1>22. CASE SetId
  <2>1. UpdateDiskInfo(TRUE) /\ snaps # <<>>
    BY <1>22 DEF SetId
  <2>2. changeId' \in [Disks -> IdType] /\ back' \in Image
    BY <2>1, UpdateDiskInfoType
  <2> QED
    BY <1>22, <2>2, DisksNonempty DEF SetId, NextDisk, Disks
<1>23. CASE IterationEnd
  BY <1>23 DEF IterationEnd, LastIteration
<1>24. CASE FinalPowerOff
  BY <1>24 DEF FinalPowerOff, PowerOff
<1>25. CASE FinalVerify
  BY <1>25 DEF FinalVerify, Verify
<1>26. CASE Release
  <2>1. CASE CleanUpSnapshots /\ UNCHANGED budget
    BY <1>26, <2>1, CleanUpSnapshotsType DEF Release
  <2>2. CASE Spend("fault", MaxFaults) /\ UNCHANGED snaps
    BY <1>26, <2>2, SpendType DEF Release
  <2>3. CASE Spend("fault", MaxFaults) /\ \E k \in Named : RemoveFrom(k)
    BY <1>26, <2>3, RemoveFromType, SpendType DEF Release
  <2>4. \/ CleanUpSnapshots /\ UNCHANGED budget
        \/ Spend("fault", MaxFaults) /\ UNCHANGED snaps
        \/ Spend("fault", MaxFaults) /\ \E k \in Named : RemoveFrom(k)
    BY <1>26 DEF Release
  <2> HIDE DEF TypeInv
  <2> QED BY <2>1, <2>2, <2>3, <2>4
<1>27. CASE StepFails
  BY <1>27, SpendType DEF StepFails
<1>28. CASE Refused
  BY <1>28 DEF Refused
<1>29. CASE SyncCleanUp
  BY <1>29, CleanUpSnapshotsType DEF SyncCleanUp
<1>30. CASE SyncSnapshot
  BY <1>30, TakeSnapshotType DEF SyncSnapshot
<1>31. CASE SyncFind
  BY <1>31, DisksNonempty, GetSnapshotType DEF SyncFind
<1>32. CASE SyncQuery
  <2>1. areas' \subseteq Blocks
    BY <1>32 DEF SyncQuery, QueryChangedDiskAreas
  <2>2. CASE areas' = {}
    BY <1>32, <2>1, <2>2, DisksNonempty DEF SyncQuery, NextSyncDisk, Disks
  <2>3. CASE areas' # {}
    BY <1>32, <2>1, <2>3 DEF SyncQuery
  <2> QED BY <2>2, <2>3
<1>33. CASE SyncInfo
  <2>1. UpdateDiskInfo(FALSE) /\ snaps # <<>>
    BY <1>33 DEF SyncInfo
  <2>2. changeId' \in [Disks -> IdType] /\ back' \in Image
    BY <2>1, UpdateDiskInfoType
  <2> QED
    BY <1>33, <2>2 DEF SyncInfo
<1>34. CASE SyncCopy
  BY <1>34, CopyBlocksType DEF SyncCopy
<1>35. CASE SyncSetId
  <2>1. UpdateDiskInfo(TRUE) /\ snaps # <<>>
    BY <1>35 DEF SyncSetId
  <2>2. changeId' \in [Disks -> IdType] /\ back' \in Image
    BY <2>1, UpdateDiskInfoType
  <2> QED
    BY <1>35, <2>2, DisksNonempty DEF SyncSetId, NextSyncDisk, Disks
<1>36. CASE SyncStepFails
  <2>1. budget' \in [{"write", "fault", "foreign", "powerOn"} -> Nat]
    BY <1>36, SpendType DEF SyncStepFails
  <2>2. vol' \in Image
    BY <1>36, CopyBlocksType DEF SyncStepFails
  <2>3. snaps' \in Seq(SnapType) /\ cut' \in Image
    BY <1>36, RemoveFromType, TakeSnapshotType DEF SyncStepFails
  <2>4. pc' \in Pcs /\ (pc' \in Snapped => UNCHANGED snaps)
    BY <1>36 DEF SyncStepFails
  <2> QED
    BY <1>36, <2>1, <2>2, <2>3, <2>4 DEF SyncStepFails
<1>37. CASE AdminCutover
  BY <1>37 DEF AdminCutover
<1>38. CASE StartSyncCycle
  BY <1>38 DEF StartSyncCycle
<1>39. CASE UNCHANGED vars
  BY <1>39 DEF vars
<1>40. CASE WaitCancelled
  BY <1>40, CleanUpSnapshotsType, RemoveFromType, SpendType DEF WaitCancelled
<1> QED
  BY <1>1, <1>2, <1>3, <1>4, <1>5, <1>6, <1>7, <1>8, <1>9, <1>10, <1>11,
     <1>12, <1>13, <1>14, <1>15, <1>16, <1>17, <1>18, <1>19, <1>20, <1>21,
     <1>22, <1>23, <1>24, <1>25, <1>26, <1>27, <1>28, <1>29, <1>30, <1>31,
     <1>32, <1>33, <1>34, <1>35, <1>36, <1>37, <1>38, <1>39, <1>40 DEF Next,
     Environment, Helper, Replicate, SyncCycle, Returned

LEMMA TypeInit == Init => TypeInv
<1> SUFFICES ASSUME Init PROVE TypeInv
  OBVIOUS
<1>1. src \in Image /\ vol \in Image /\ ref \in Image /\ back \in Image /\ cut \in Image
  BY FirstImageType DEF Init
<1>2. snaps \in Seq([own : BOOLEAN, img : Image])
  <2>1. \A own \in BOOLEAN : Snapshot(own, FirstImage) \in SnapType
    BY FirstImageType DEF Snapshot, SnapType
  <2>2. \A sn \in SnapType : <<sn>> \in Seq(SnapType)
    OBVIOUS
  <2>3. <<>> \in Seq(SnapType)
    BY EmptySeq
  <2> QED
    BY <2>1, <2>2, <2>3 DEF Init, SnapType
<1>3. idx \in Disks
  BY DisksNonempty DEF Init
<1>4. migType \in {"hot", "cold", "mock"} /\ admin \in BOOLEAN
  BY ReplicationAssumption DEF Init
<1>5. changeId \in [Disks -> {NoId} \cup [disk : Disks, img : [Blocks -> Nat]]]
  BY DEF Init
<1>6. pc \in Pcs /\ pc \notin Snapped
  BY DEF Init, Pcs, MainPcs, SyncPcs, Snapped
<1>7. budget \in [{"write", "fault", "foreign", "powerOn"} -> Nat]
  BY DEF Init
<1> QED
  BY <1>1, <1>2, <1>3, <1>4, <1>5, <1>6, <1>7 DEF Init, TypeInv, TypeOK, SnapshotThere

LEMMA TypeInvHolds == Spec => []TypeInv
BY TypeInit, TypeStep, PTL DEF Spec

(* Every variable keeps its type: in particular the loop over VMDisks never *)
(* leaves the slice (nbd_copy.go:530) and no disk information is ever read  *)
(* from a VM without a snapshot (vmops.go:488).                             *)
THEOREM TypeCorrect == Spec => []TypeOK
BY TypeInvHolds, PTL DEF TypeInv

-----------------------------------------------------------------------------
(* The user's snapshot. *)

LEMMA RemoveFromKeepsFirst ==
  ASSUME snaps \in Seq(SnapType), ~ snaps[1].own, NEW k \in Named, RemoveFrom(k)
  PROVE  snaps' # <<>> /\ snaps'[1] = snaps[1]
<1>1. k \in 1 .. Len(snaps) /\ Len(snaps) \in Nat /\ k # 1
  BY NamedInSnaps DEF Named
<1>2. \A i \in 1 .. k - 1 : snaps[i] \in SnapType
  BY <1>1, ElementOfSeq
<1>3. /\ Len(SubSeq(snaps, 1, k - 1)) = k - 1
      /\ SubSeq(snaps, 1, k - 1)[1] = snaps[1]
  BY <1>1, <1>2, SubSeqProperties
<1> QED
  BY <1>1, <1>3 DEF RemoveFrom

LEMMA CleanUpSnapshotsKeepsFirst ==
  ASSUME snaps \in Seq(SnapType), snaps # <<>>, ~ snaps[1].own, CleanUpSnapshots
  PROVE  snaps' # <<>> /\ snaps'[1] = snaps[1]
BY RemoveFromKeepsFirst DEF CleanUpSnapshots

LEMMA AppendKeepsFirst ==
  ASSUME snaps \in Seq(SnapType), snaps # <<>>, NEW own \in BOOLEAN, src \in Image,
         snaps' = Append(snaps, Snapshot(own, src))
  PROVE  snaps' # <<>> /\ snaps'[1] = snaps[1]
BY LenProperties DEF Snapshot, SnapType

(* What nbd_copy.go does to the chain of snapshots in any single step: the  *)
(* clean-ups match the name migration-snap and cut above the user's one.    *)
THEOREM UserSnapshotSafe == Spec => UserSnapshotKept
<1>1. ASSUME TypeInv, [Next]_vars, snaps # <<>>, ~ snaps[1].own
      PROVE  snaps' # <<>> /\ snaps'[1] = snaps[1]
  <2>1. snaps \in Seq(SnapType) /\ src \in Image
    BY <1>1 DEF TypeInv, TypeOK, SnapType
  <2>2. CASE UNCHANGED snaps
    BY <1>1, <2>2
  <2>3. CASE CleanUpSnapshots \/ \E k \in Named : RemoveFrom(k)
    BY <1>1, <2>1, <2>3, CleanUpSnapshotsKeepsFirst, RemoveFromKeepsFirst
  <2>4. CASE \E own \in BOOLEAN : snaps' = Append(snaps, Snapshot(own, src))
    BY <1>1, <2>1, <2>4, AppendKeepsFirst
  <2>5. CASE Environment
    BY <2>2, <2>4, <2>5 DEF Environment, GuestWrite, GuestShutdown, ForeignPowerOn,
       ForeignSnapshot, AdminSaysYes
  <2>6. CASE Replicate
    BY <2>2, <2>3, <2>4, <2>6 DEF Replicate, TakeSnapshot, ColdPowerOff, ColdVerify,
       FirstCleanUp, FirstSnapshot, FirstInfo, FullCopy, CutoverPowerOff, CutoverVerify,
       WaitforCutover, CleanUp, ColdStillOff, NextSnapshot, Find, Info, Query, Copy,
       SetId, IterationEnd, FinalPowerOff, FinalVerify, Release, StepFails, Refused
  <2>7. CASE SyncCycle
    BY <2>2, <2>3, <2>4, <2>7 DEF SyncCycle, TakeSnapshot, SyncCleanUp, SyncSnapshot,
       SyncFind, SyncQuery, SyncInfo, SyncCopy, SyncSetId, SyncStepFails
  <2>8. CASE AdminCutover \/ StartSyncCycle \/ WaitCancelled \/ UNCHANGED vars
    BY <2>2, <2>3, <2>8 DEF AdminCutover, StartSyncCycle, WaitCancelled, vars
  <2> QED
    BY <1>1, <2>5, <2>6, <2>7, <2>8 DEF Next, Helper, Returned
<1>2. TypeInv /\ [Next]_vars
      => [snaps # <<>> /\ ~ snaps[1].own => snaps' # <<>> /\ snaps'[1] = snaps[1]]_vars
  BY <1>1
<1> QED
  BY <1>2, TypeInvHolds, PTL DEF Spec, UserSnapshotKept

-----------------------------------------------------------------------------
(* The iterations.  While the VM runs, an iteration starts with at most     *)
(* Threshold behind it; the one that passes it is followed by one more.     *)
BeforeLoop == {"coldOff", "coldVerify", "clean0", "snap0", "info0", "full",
               "cutOff", "cutVerify", "waitCut", "adminIdle"} \cup SyncPcs
InIteration == {"find", "info", "query", "copy", "setId", "iterEnd"}

CountInv ==
  /\ pc \in BeforeLoop => cnt = 0 /\ ~ final
  /\ pc \in {"clean", "coldCheck", "snap"} => cnt <= Threshold + (IF final THEN 1 ELSE 0)
  /\ pc \in InIteration => cnt <= Threshold + (IF final THEN 2 ELSE 1)
  /\ pc \in {"finOff", "finVerify"} => cnt <= Threshold + 1
  /\ cnt <= Threshold + 2

LEMMA CountStep == TypeOK /\ CountInv /\ [Next]_vars => CountInv'
<1> SUFFICES ASSUME TypeOK, CountInv, [Next]_vars PROVE CountInv'
  OBVIOUS
<1>1. Threshold \in Nat /\ cnt \in Nat /\ final \in BOOLEAN
  BY ReplicationAssumption DEF TypeOK
<1> USE <1>1 DEF CountInv, BeforeLoop, InIteration, SyncPcs, Goto, loopVars
<1>2. CASE GuestWrite
  BY <1>2 DEF GuestWrite
<1>3. CASE GuestShutdown
  BY <1>3 DEF GuestShutdown
<1>4. CASE ForeignPowerOn
  BY <1>4 DEF ForeignPowerOn
<1>5. CASE ForeignSnapshot
  BY <1>5 DEF ForeignSnapshot
<1>6. CASE AdminSaysYes
  BY <1>6 DEF AdminSaysYes
<1>7. CASE ColdPowerOff
  BY <1>7 DEF ColdPowerOff, PowerOff
<1>8. CASE ColdVerify
  BY <1>8 DEF ColdVerify, Verify
<1>9. CASE FirstCleanUp
  BY <1>9 DEF FirstCleanUp
<1>10. CASE FirstSnapshot
  BY <1>10 DEF FirstSnapshot
<1>11. CASE FirstInfo
  BY <1>11 DEF FirstInfo
<1>12. CASE FullCopy
  BY <1>12 DEF FullCopy
<1>13. CASE CutoverPowerOff
  BY <1>13 DEF CutoverPowerOff, PowerOff
<1>14. CASE CutoverVerify
  BY <1>14 DEF CutoverVerify, Verify
<1>15. CASE WaitforCutover
  BY <1>15 DEF WaitforCutover
<1>16. CASE CleanUp
  BY <1>16 DEF CleanUp
<1>17. CASE ColdStillOff
  BY <1>17 DEF ColdStillOff, Verify
<1>18. CASE NextSnapshot
  BY <1>18 DEF NextSnapshot
<1>19. CASE Find
  BY <1>19 DEF Find
<1>20. CASE Info
  BY <1>20 DEF Info
<1>21. CASE Query
  BY <1>21 DEF Query, NextDisk
<1>22. CASE Copy
  BY <1>22 DEF Copy
<1>23. CASE SetId
  BY <1>23 DEF SetId, NextDisk
<1>24. CASE IterationEnd
  <2>1. LastIteration \in BOOLEAN /\ (LastIteration \/ cnt <= Threshold)
    BY DEF LastIteration, TypeOK
  <2>2. CASE final
    BY <1>24, <2>2 DEF IterationEnd
  <2>3. CASE ~ final /\ ~ LastIteration
    BY <1>24, <2>1, <2>3 DEF IterationEnd
  <2>4. CASE ~ final /\ LastIteration
    BY <1>24, <2>1, <2>4 DEF IterationEnd
  <2> QED
    BY <2>2, <2>3, <2>4
<1>25. CASE FinalPowerOff
  BY <1>25 DEF FinalPowerOff, PowerOff
<1>26. CASE FinalVerify
  BY <1>26 DEF FinalVerify, Verify
<1>27. CASE Release
  BY <1>27 DEF Release
<1>28. CASE StepFails
  BY <1>28 DEF StepFails
<1>29. CASE Refused
  BY <1>29 DEF Refused
<1>30. CASE SyncCleanUp
  BY <1>30 DEF SyncCleanUp
<1>31. CASE SyncSnapshot
  BY <1>31 DEF SyncSnapshot
<1>32. CASE SyncFind
  BY <1>32 DEF SyncFind
<1>33. CASE SyncQuery
  BY <1>33 DEF SyncQuery, NextSyncDisk
<1>34. CASE SyncInfo
  BY <1>34 DEF SyncInfo
<1>35. CASE SyncCopy
  BY <1>35 DEF SyncCopy
<1>36. CASE SyncSetId
  BY <1>36 DEF SyncSetId, NextSyncDisk
<1>37. CASE SyncStepFails
  BY <1>37 DEF SyncStepFails
<1>38. CASE AdminCutover
  BY <1>38 DEF AdminCutover
<1>39. CASE StartSyncCycle
  BY <1>39 DEF StartSyncCycle
<1>40. CASE UNCHANGED vars
  BY <1>40 DEF vars
<1>41. CASE WaitCancelled
  BY <1>41 DEF WaitCancelled
<1> QED
  BY <1>2, <1>3, <1>4, <1>5, <1>6, <1>7, <1>8, <1>9, <1>10, <1>11, <1>12,
     <1>13, <1>14, <1>15, <1>16, <1>17, <1>18, <1>19, <1>20, <1>21, <1>22,
     <1>23, <1>24, <1>25, <1>26, <1>27, <1>28, <1>29, <1>30, <1>31, <1>32,
     <1>33, <1>34, <1>35, <1>36, <1>37, <1>38, <1>39, <1>40, <1>41 DEF Next,
     Environment, Helper, Replicate, SyncCycle, Returned

(* However the guest writes, and whatever fails, at most Threshold + 2      *)
(* iterations of changed blocks run (nbd_copy.go:594).                      *)
THEOREM IterationsAlwaysBounded == Spec => []IterationsBounded
<1>1. Init => CountInv
  BY ReplicationAssumption DEF Init, CountInv, BeforeLoop, InIteration, SyncPcs
<1>2. CountInv => IterationsBounded
  BY DEF CountInv, IterationsBounded
<1> QED
  BY <1>1, <1>2, CountStep, TypeCorrect, PTL DEF Spec
=============================================================================
