---------------------------- MODULE HotAddProofs ----------------------------
(***************************************************************************)
(* The disks of any number of migrations on one Proxy VM are kept apart,   *)
(* for any number of disks, slots and ports and any number of failed calls,*)
(* failed clean-ups, lost releases and dead pods, as long as vpwned does   *)
(* not restart and no Migration is deleted while its pod runs: these two   *)
(* are the ways in which a holder loses the lock, which does not matter to *)
(* one that is alone.  Under the same assumption, and if no clean-up call  *)
(* fails, the snapshot outlives the attachment of every disk but one whose *)
(* attach failed.  The variables of HotAdd keep their types under every    *)
(* failure.  And a migration that has the Proxy VM to itself copies its    *)
(* own disks only, although its lock may be lost at any time.              *)
(***************************************************************************)
EXTENDS HotAdd, FiniteSetTheorems, TLAPS

LEMMA Numbers ==
  /\ NumDisks \in Nat /\ NumDisks > 0 /\ 1 \in DiskNos
  /\ NumSlots \in Nat /\ None \notin Migrations
  /\ DiskNos \subseteq Nat \ {0} /\ Slots \subseteq Nat \ {0}
BY HotAddAssumption DEF DiskNos, Slots

-----------------------------------------------------------------------------
(* The inductive invariant.  Types first, of the variables that matter.     *)
Holders == Running \cup Ended

SlotTypes ==
  /\ slots \in [Slots -> DiskSet]
  /\ pc \in [Migrations -> Holders]
  /\ disk \in [Migrations -> DiskNos]
  /\ before \in [Migrations -> SUBSET Slots]
  /\ pick \in [Migrations -> 0 .. NumSlots]
  /\ key \in [Migrations -> [DiskNos -> 0 .. NumSlots]]

Budget == [{"fault", "leftover", "lost", "restart", "delete", "crash"} -> Nat]

(* Nobody to share the Proxy VM with: then the lock does not matter.        *)
Alone == \A m, n \in Migrations : m = n

(* Only a migration that has ended is taken for stale.                      *)
Calm ==
  /\ budget \in Budget
  /\ stale \subseteq Migrations
  /\ Alone \/ \A m \in stale : pc[m] \in {"failed", "done"}

(* Whoever attaches holds the lock.                                         *)
LockHeld == Alone \/ \A m \in Migrations : pc[m] \in AttachPcs => lock = m

(* No disk has come since the device list was read, but the one added.      *)
NothingNew ==
  \A m \in Migrations :
    /\ pc[m] \in {"slot", "add"} => getDiskKeys \subseteq before[m]
    /\ At(m, "add") => pick[m] \in Slots
    /\ At(m, "find") => /\ pick[m] \in Slots
                        /\ slots[pick[m]] = Disk(m, disk[m])
                        /\ getDiskKeys \subseteq before[m] \cup {pick[m]}

Inv == SlotTypes /\ Calm /\ LockHeld /\ NothingNew /\ NoSlotConflict /\ OwnDisk

LEMMA DiskNotNone ==
  ASSUME NEW m \in Migrations, NEW d \in DiskNos
  PROVE  Disk(m, d) \in DiskSet /\ Disk(m, d) # NoDisk
BY Numbers DEF Disk, DiskSet, NoDisk

LEMMA DiskInjective ==
  ASSUME NEW m \in Migrations, NEW d \in DiskNos, NEW n \in Migrations, NEW e \in DiskNos,
         Disk(m, d) = Disk(n, e)
  PROVE  m = n /\ d = e
BY DEF Disk

LEMMA KeyIsSlot ==
  ASSUME SlotTypes, NEW m \in Migrations, NEW d \in DiskNos, key[m][d] # 0
  PROVE  key[m][d] \in Slots
BY Numbers DEF SlotTypes, Slots

-----------------------------------------------------------------------------
(* Most steps leave the slots alone.  A migration that does not attach may  *)
(* go anywhere but among the attaching ones, if what it still holds shrinks.*)
Elsewhere(m) ==
  /\ pc' = [pc EXCEPT ![m] = pc'[m]]
  /\ pc'[m] \in Holders \ AttachPcs
  /\ Alone \/ m \notin stale
  /\ UNCHANGED <<slots, key, before, pick, stale>>
  /\ \A n \in Migrations \ {m} : lock = n => lock' = n
  /\ disk' \in [Migrations -> DiskNos]
  /\ \A n \in Migrations \ {m} : disk'[n] = disk[n]
  /\ \A d \in DiskNos : Holds(m, d)' => Holds(m, d)
  /\ budget' \in Budget

LEMMA ElsewhereKeeps ==
  ASSUME Inv, NEW m \in Migrations, Elsewhere(m)
  PROVE  Inv'
<1>1. \A n \in Migrations \ {m} : pc'[n] = pc[n]
  BY DEF Elsewhere, Inv, SlotTypes
<1>2. SlotTypes'
  BY DEF Inv, Elsewhere, SlotTypes
<1>3. Calm'
  BY <1>1 DEF Inv, Elsewhere, Calm
<1>4. LockHeld'
  BY <1>1 DEF Inv, Elsewhere, LockHeld
<1>5. getDiskKeys' = getDiskKeys
  BY DEF Elsewhere, getDiskKeys
<1>6. NothingNew'
  BY <1>1, <1>5 DEF Inv, Elsewhere, NothingNew, At, AttachPcs, Disk
<1>7. NoSlotConflict'
  BY <1>1 DEF Inv, Elsewhere, NoSlotConflict, At, AttachPcs
<1>8. OwnDisk'
  <2> SUFFICES ASSUME NEW n \in Migrations, NEW d \in DiskNos, Holds(n, d)'
               PROVE  slots'[key'[n][d]] = Disk(n, d)
    BY DEF OwnDisk, Disk
  <2>1. Holds(n, d)
    BY <1>1 DEF Elsewhere, Holds, At
  <2> QED BY <2>1 DEF Inv, Elsewhere, OwnDisk
<1> QED BY <1>2, <1>3, <1>4, <1>6, <1>7, <1>8 DEF Inv

LEMMA SpendType ==
  ASSUME budget \in Budget, NEW what \in {"fault", "leftover", "lost", "restart", "delete", "crash"},
         NEW max, Spend(what, max)
  PROVE  budget' \in Budget
BY DEF Spend, Budget

LEMMA RunningNotStale ==
  ASSUME Inv, NEW m \in Migrations, pc[m] \in Running
  PROVE  Alone \/ m \notin stale
BY DEF Inv, Calm, Running, AttachPcs, CleanupPcs

-----------------------------------------------------------------------------
(* Every step before the attach, after it, and every call that fails during *)
(* it without adding a disk.                                                *)
LEMMA CopyKeeps ==
  ASSUME Inv, NEW m \in Migrations, Prepare(m) \/ CopyStep(m)
  PROVE  Inv'
<1> USE DEF Goto, Error, At
<1>1. /\ pc[m] \in Running \ AttachPcs
      /\ pc[m] \notin CleanupPcs \cup Ended
      /\ pc' = [pc EXCEPT ![m] = pc'[m]]
      /\ pc'[m] \in Holders \ AttachPcs
      /\ UNCHANGED <<slots, key, before, pick, disk, lock, stale>>
  <2>1. CASE Prepare(m)
    BY <2>1 DEF Prepare, Inv, SlotTypes, Running, AttachPcs, CleanupPcs, Ended, Holders, lockVars, attachVars
  <2>2. CASE CountUp(m) \/ AddCount(m)
    BY <2>2 DEF CountUp, CountThen, AddCount, Inv, SlotTypes, Running, AttachPcs, CleanupPcs, Ended, Holders, lockVars, proxyVars, attachVars
  <2>3. CASE identifyBlockDevices(m) \/ AllocatePorts(m)
    BY <2>3 DEF identifyBlockDevices, AllocatePorts, Inv, SlotTypes, Running, AttachPcs, CleanupPcs, Ended, Holders, lockVars, proxyVars, attachVars
  <2>4. CASE CallFails(m) \/ WaitForJobs(m)
    BY <2>4 DEF CallFails, WaitForJobs, Inv, SlotTypes, Running, AttachPcs, CleanupPcs, Ended, Holders, lockVars, proxyVars, attachVars
  <2>5. CASE \E d \in DiskNos : serveViaNBD(m, d) \/ runNBDCopy(m, d)
    BY <2>5 DEF serveViaNBD, runNBDCopy, Job, Inv, SlotTypes, Running, AttachPcs, CleanupPcs, Ended, Holders, lockVars, proxyVars, attachVars
  <2> QED BY <2>1, <2>2, <2>3, <2>4, <2>5 DEF CopyStep
<1>2. budget' \in Budget
  <2>0. budget \in Budget
    BY DEF Inv, Calm
  <2> QED BY <2>0, SpendType DEF Prepare, CopyStep, CountUp, CountThen, AddCount, identifyBlockDevices,
        AllocatePorts, CallFails, WaitForJobs, serveViaNBD, runNBDCopy
<1>3. \A d \in DiskNos : Holds(m, d)' => Holds(m, d)
  BY <1>1 DEF Holds, Running, CleanupPcs, Ended
<1>4. Elsewhere(m)
  BY <1>1, <1>2, <1>3, RunningNotStale DEF Elsewhere, Inv, SlotTypes
<1> QED BY <1>4, ElsewhereKeeps

(* Giving up the wait for the lock, giving it back, failing or dying.       *)
LEMMA LeaveKeeps ==
  ASSUME Inv, NEW m \in Migrations,
         WaitForProxyVMLockFails(m) \/ ReleaseLock(m) \/ Crash(m)
  PROVE  Inv'
<1> USE DEF Goto, Error, At
<1>1. /\ pc[m] \in Running
      /\ pc' = [pc EXCEPT ![m] = pc'[m]]
      /\ pc'[m] \in {"count", "kill", "crashed"}
      /\ pc'[m] # "crashed" => pc[m] \notin CleanupPcs \cup Ended
      /\ UNCHANGED <<slots, key, before, pick, disk, stale>>
      /\ lock' = lock \/ lock = m
  <2>1. CASE WaitForProxyVMLockFails(m)
    BY <2>1 DEF WaitForProxyVMLockFails, Inv, SlotTypes, Running, CleanupPcs, Ended, lockVars, proxyVars, attachVars
  <2>2. CASE ReleaseLock(m)
    BY <2>2 DEF ReleaseLock, release, Inv, SlotTypes, Running, CleanupPcs, Ended, proxyVars, attachVars
  <2>3. CASE Crash(m)
    BY <2>3 DEF Crash, Inv, SlotTypes, lockVars, proxyVars, attachVars
  <2> QED BY <2>1, <2>2, <2>3
<1>2. budget' \in Budget
  <2>0. budget \in Budget
    BY DEF Inv, Calm
  <2> QED BY <2>0, SpendType DEF WaitForProxyVMLockFails, ReleaseLock, Crash
<1>3. \A d \in DiskNos : Holds(m, d)' => Holds(m, d)
  BY <1>1 DEF Holds, CleanupPcs, Ended
<1>4. pc'[m] \in Holders \ AttachPcs
  BY <1>1 DEF Holders, Running, AttachPcs, CleanupPcs, Ended
<1>5. Elsewhere(m)
  BY <1>1, <1>2, <1>3, <1>4, RunningNotStale DEF Elsewhere, Inv, SlotTypes
<1> QED BY <1>5, ElsewhereKeeps

(* The clean-up, but for the detaching.                                     *)
LEMMA CleanupKeeps ==
  ASSUME Inv, NEW m \in Migrations,
         KillServers(m) \/ DeleteSnapshot(m) \/ CountDown(m) \/ SubtractCount(m)
  PROVE  Inv'
<1> USE DEF Goto, Error, At
<1>1. /\ pc[m] \in Running
      /\ pc' = [pc EXCEPT ![m] = pc'[m]]
      /\ pc'[m] \in {"detach", "uncount", "subtract"} \cup Ended
      /\ pc'[m] = "detach" => pc[m] = "kill"
      /\ UNCHANGED <<slots, key, before, pick, lock, stale>>
      /\ disk' = disk \/ disk' = [disk EXCEPT ![m] = 1]
  <2>1. CASE KillServers(m)
    BY <2>1 DEF KillServers, Inv, SlotTypes, Running, CleanupPcs, lockVars, attachVars
  <2>2. CASE DeleteSnapshot(m)
    BY <2>2 DEF DeleteSnapshot, Outcome, Inv, SlotTypes, Running, CleanupPcs, Ended, lockVars, attachVars
  <2>3. CASE CountDown(m) \/ SubtractCount(m)
    BY <2>3 DEF CountDown, CountThen, SubtractCount, Outcome, Inv, SlotTypes, Running, CleanupPcs, Ended, lockVars, proxyVars, attachVars
  <2> QED BY <2>1, <2>2, <2>3
<1>2. budget' \in Budget
  <2>0. budget \in Budget
    BY DEF Inv, Calm
  <2> QED BY <2>0, SpendType DEF KillServers, DeleteSnapshot, CountDown, CountThen, SubtractCount
<1>3. \A d \in DiskNos : Holds(m, d)' => Holds(m, d)
  BY <1>1 DEF Holds, CleanupPcs, Ended
<1>4. pc'[m] \in Holders \ AttachPcs
  BY <1>1 DEF Holders, Running, AttachPcs, CleanupPcs, Ended
<1>5. disk' \in [Migrations -> DiskNos] /\ \A n \in Migrations \ {m} : disk'[n] = disk[n]
  BY <1>1, Numbers DEF Inv, SlotTypes
<1>6. Elsewhere(m)
  BY <1>1, <1>2, <1>3, <1>4, <1>5, RunningNotStale DEF Elsewhere
<1> QED BY <1>6, ElsewhereKeeps

-----------------------------------------------------------------------------
(* cleanupHotAdd frees a slot by its key: by OwnDisk, one of its own.       *)
LEMMA DetachKeeps ==
  ASSUME Inv, NEW m \in Migrations, Detach(m)
  PROVE  Inv'
<1> USE DEF Goto, Error, At
<1> DEFINE k == key[m][disk[m]]
<1>0. disk[m] \in DiskNos /\ pc[m] = "detach" /\ k \in 0 .. NumSlots
  BY DEF Detach, Inv, SlotTypes
<1>1. /\ pc' = [pc EXCEPT ![m] = pc'[m]]
      /\ \/ pc'[m] = "detach" /\ disk[m] < NumDisks /\ disk' = [disk EXCEPT ![m] = disk[m] + 1]
         \/ pc'[m] = "deleteSnap" /\ disk' = [disk EXCEPT ![m] = 1]
  BY DEF Detach, NextDetach, Inv, SlotTypes
<1>2. disk' \in [Migrations -> DiskNos] /\ \A n \in Migrations \ {m} : disk'[n] = disk[n]
  <2>1. disk[m] < NumDisks => disk[m] + 1 \in DiskNos
    BY <1>0, Numbers DEF DiskNos
  <2>2. disk \in [Migrations -> DiskNos] /\ 1 \in DiskNos
    BY Numbers DEF Inv, SlotTypes, DiskNos
  <2>3. \E d \in DiskNos : disk' = [disk EXCEPT ![m] = d]
    BY <1>1, <2>1, <2>2
  <2> QED BY <2>2, <2>3
<1>3. UNCHANGED <<key, before, pick, lock, stale>> /\ budget' \in Budget
  <2>0. budget \in Budget
    BY DEF Inv, Calm
  <2> QED BY <2>0, SpendType DEF Detach, lockVars, attachVars
<1>4. \A d \in DiskNos : Holds(m, d)' => Holds(m, d) /\ d # disk[m]
  <2> SUFFICES ASSUME NEW d \in DiskNos, Holds(m, d)'
               PROVE  Holds(m, d) /\ d # disk[m]
    OBVIOUS
  <2>1. pc'[m] = "detach" /\ disk'[m] = disk[m] + 1
    BY <1>0, <1>1 DEF Holds, CleanupPcs, Inv, SlotTypes
  <2>2. key[m][d] # 0 /\ disk[m] + 1 <= d /\ disk[m] \in Int /\ d \in Int
    BY <1>0, <1>3, <2>1, Numbers DEF Holds
  <2> QED BY <1>0, <2>2 DEF Holds, Ended
<1>5. CASE slots' = slots
  <2>1. pc'[m] \in Holders \ AttachPcs /\ (Alone \/ m \notin stale)
    BY <1>0, <1>1, RunningNotStale DEF Holders, Running, AttachPcs, CleanupPcs
  <2>2. Elsewhere(m)
    BY <1>1, <1>2, <1>3, <1>4, <1>5, <2>1 DEF Elsewhere
  <2> QED BY <2>2, ElsewhereKeeps
<1>6. CASE k # 0 /\ slots' = [slots EXCEPT ![k] = NoDisk]
  <2>0. k \in Slots /\ slots[k] = Disk(m, disk[m])
    <3>0. disk[m] <= disk[m]
      BY <1>0, Numbers DEF DiskNos
    <3>1. Holds(m, disk[m])
      BY <1>0, <1>6, <3>0 DEF Holds, CleanupPcs, Ended
    <3> QED BY <1>0, <1>6, <3>1, KeyIsSlot DEF Inv, OwnDisk
  <2>1. \A n \in Migrations \ {m} : pc'[n] = pc[n]
    BY <1>1 DEF Inv, SlotTypes
  <2>2. pc'[m] \in Holders \ AttachPcs /\ (Alone \/ m \notin stale)
    BY <1>0, <1>1, RunningNotStale DEF Holders, Running, AttachPcs, CleanupPcs
  <2>3. SlotTypes'
    BY <1>1, <1>2, <1>3, <1>6, <2>2 DEF Inv, SlotTypes, DiskSet
  <2>4. Calm'
    BY <1>3, <2>1, <2>2 DEF Inv, Calm
  <2>5. LockHeld'
    BY <1>3, <2>1, <2>2 DEF Inv, LockHeld
  <2>6. getDiskKeys' \subseteq getDiskKeys
    BY <1>6, <2>0 DEF getDiskKeys, Inv, SlotTypes
  <2>7. NothingNew'
    <3> SUFFICES ASSUME NEW n \in Migrations, pc'[n] \in AttachPcs
                 PROVE  /\ pc'[n] \in {"slot", "add"} => getDiskKeys' \subseteq before'[n]
                        /\ At(n, "add")' => pick'[n] \in Slots
                        /\ At(n, "find")' => /\ pick'[n] \in Slots
                                             /\ slots'[pick'[n]] = Disk(n, disk'[n])
                                             /\ getDiskKeys' \subseteq before'[n] \cup {pick'[n]}
      BY DEF NothingNew, Disk, AttachPcs
    <3>1. n # m /\ pc'[n] = pc[n] /\ disk'[n] = disk[n]
      BY <2>1, <2>2, <1>2
    <3>2. pc[n] = "find" => pick[n] # k
      BY <3>1, <2>0, <1>0, DiskInjective DEF Inv, NothingNew, SlotTypes
    <3> QED BY <1>3, <1>6, <2>0, <2>6, <3>1, <3>2 DEF Inv, NothingNew, SlotTypes
  <2>8. NoSlotConflict'
    BY <1>3, <1>6, <2>0, <2>1, <2>2 DEF Inv, NoSlotConflict, SlotTypes, AttachPcs
  <2>9. OwnDisk'
    <3> SUFFICES ASSUME NEW n \in Migrations, NEW d \in DiskNos, Holds(n, d)'
                 PROVE  slots'[key'[n][d]] = Disk(n, d)
      BY DEF OwnDisk, Disk
    <3>1. Holds(n, d) /\ (n # m \/ d # disk[m])
      BY <1>1, <1>2, <1>3, <1>4, <2>1 DEF Holds
    <3>2. slots[key[n][d]] = Disk(n, d) /\ key[n][d] # k
      BY <3>1, <2>0, <1>0, DiskInjective DEF Inv, OwnDisk
    <3> QED BY <1>3, <1>6, <3>2, <2>0, <3>1, KeyIsSlot DEF Inv, SlotTypes, Holds
  <2> QED BY <2>3, <2>4, <2>5, <2>7, <2>8, <2>9 DEF Inv
<1> QED BY <1>5, <1>6 DEF Detach

-----------------------------------------------------------------------------
(* Taking the lock: nobody else is attaching then.                          *)
LEMMA AcquireKeeps ==
  ASSUME Inv, NEW m \in Migrations, acquire(m)
  PROVE  Inv'
<1> USE DEF Goto, Error, At
<1>1. /\ pc[m] = "lock" /\ lock' = m
      /\ pc' = [pc EXCEPT ![m] = pc'[m]]
      /\ pc'[m] \in {"keys", "kill"}
      /\ UNCHANGED <<slots, key, before, pick, disk, stale>>
  BY DEF acquire, Inv, SlotTypes, proxyVars, attachVars
<1>2. \A n \in Migrations \ {m} : pc'[n] = pc[n] /\ pc[n] \notin AttachPcs
  <2> SUFFICES ASSUME NEW n \in Migrations \ {m}
               PROVE  pc'[n] = pc[n] /\ pc[n] \notin AttachPcs
    OBVIOUS
  <2>1. pc[n] \in AttachPcs => lock = n /\ n \notin stale
    BY RunningNotStale DEF Inv, LockHeld, Running, Alone
  <2> QED BY <1>1, <2>1, Numbers DEF acquire, Granted, Inv, SlotTypes
<1>3. budget' \in Budget
  <2>0. budget \in Budget
    BY DEF Inv, Calm
  <2> QED BY <2>0, SpendType DEF acquire
<1>4. SlotTypes'
  BY <1>1 DEF Inv, SlotTypes, Holders, Running, AttachPcs, CleanupPcs
<1>5. Calm'
  BY <1>1, <1>2, <1>3, RunningNotStale DEF Inv, Calm, Running
<1>6. LockHeld' /\ NothingNew' /\ NoSlotConflict'
  BY <1>1, <1>2 DEF LockHeld, NothingNew, NoSlotConflict, AttachPcs
<1>7. OwnDisk'
  <2> SUFFICES ASSUME NEW n \in Migrations, NEW d \in DiskNos, Holds(n, d)'
               PROVE  slots'[key'[n][d]] = Disk(n, d)
    BY DEF OwnDisk, Disk
  <2>1. Holds(n, d)
    BY <1>1, <1>2 DEF Holds, CleanupPcs, Ended
  <2> QED BY <1>1, <2>1 DEF Inv, OwnDisk
<1> QED BY <1>4, <1>5, <1>6, <1>7 DEF Inv

(* The holder of the lock attaches; the others do not.                      *)
LEMMA OthersWait ==
  ASSUME Inv, NEW m \in Migrations, pc[m] \in AttachPcs
  PROVE  /\ Alone \/ (lock = m /\ m \notin stale)
         /\ \A n \in Migrations \ {m} : pc[n] \notin AttachPcs
BY RunningNotStale DEF Inv, LockHeld, Running, Alone

(* The slots stay as they are: what is left to show is that the holder has  *)
(* read them right.                                                         *)
LEMMA AttachKeeps ==
  ASSUME Inv, NEW m \in Migrations, pc[m] \in AttachPcs,
         pc' = [pc EXCEPT ![m] = pc'[m]],
         pc'[m] \in AttachPcs \cup {"release"},
         SlotTypes', UNCHANGED <<lock, stale>>, budget' \in Budget,
         \A n \in Migrations \ {m} : disk'[n] = disk[n] /\ key'[n] = key[n],
         \A n \in Migrations \ {m}, d \in DiskNos :
           slots[key[n][d]] = Disk(n, d) /\ key[n][d] # 0 => slots'[key[n][d]] = Disk(n, d),
         pc'[m] \in {"slot", "add"} => getDiskKeys' \subseteq before'[m],
         pc'[m] = "add" => pick'[m] \in Slots /\ slots'[pick'[m]] = NoDisk,
         pc'[m] = "find" => /\ pick'[m] \in Slots
                            /\ slots'[pick'[m]] = Disk(m, disk'[m])
                            /\ getDiskKeys' \subseteq before'[m] \cup {pick'[m]},
         \A d \in DiskNos : key'[m][d] # 0 => slots'[key'[m][d]] = Disk(m, d)
  PROVE  Inv'
<1>1. /\ Alone \/ (lock = m /\ m \notin stale)
      /\ \A n \in Migrations \ {m} : pc'[n] = pc[n] /\ pc[n] \notin AttachPcs
  BY OthersWait DEF Inv, SlotTypes
<1>2. Calm' /\ LockHeld'
  BY <1>1 DEF Inv, Calm, LockHeld
<1>3. NothingNew' /\ NoSlotConflict'
  BY <1>1 DEF NothingNew, NoSlotConflict, At, AttachPcs, Disk
<1>4. OwnDisk'
  <2> SUFFICES ASSUME NEW n \in Migrations, NEW d \in DiskNos, Holds(n, d)'
               PROVE  slots'[key'[n][d]] = Disk(n, d)
    BY DEF OwnDisk, Disk
  <2>1. CASE n = m
    BY <2>1 DEF Holds
  <2>2. CASE n # m
    <3>1. Holds(n, d)
      BY <1>1, <2>2 DEF Holds, At
    <3> QED BY <2>2, <3>1 DEF Inv, OwnDisk, Holds
  <2> QED BY <2>1, <2>2
<1> QED BY <1>2, <1>3, <1>4 DEF Inv

(* Reading the device list, and computing a free slot from it.              *)
LEMMA ReadKeeps ==
  ASSUME Inv, NEW m \in Migrations, KeysBefore(m) \/ AssignController(m)
  PROVE  Inv'
<1> USE DEF Goto, Error, At
<1>1. pc[m] \in AttachPcs /\ pc[m] \in {"keys", "slot"}
  BY DEF KeysBefore, AssignController, AttachPcs
<1>2. /\ pc' = [pc EXCEPT ![m] = pc'[m]]
      /\ pc'[m] \in {"slot", "add", "release"}
      /\ UNCHANGED <<slots, key, disk, lock, stale, budget>>
  BY DEF KeysBefore, AssignController, Inv, SlotTypes, lockVars, proxyVars
<1>3. /\ before' \in [Migrations -> SUBSET Slots] /\ pick' \in [Migrations -> 0 .. NumSlots]
      /\ pc'[m] \in {"slot", "add"} => getDiskKeys' \subseteq before'[m]
      /\ pc'[m] = "add" => pick'[m] \in Slots /\ slots'[pick'[m]] = NoDisk
  <2>1. CASE KeysBefore(m)
    BY <2>1 DEF KeysBefore, getDiskKeys, Inv, SlotTypes, proxyVars
  <2>2. CASE AssignController(m)
    <3>1. getDiskKeys \subseteq before[m]
      BY <2>2 DEF AssignController, Inv, NothingNew
    <3>2. before' = before /\ getDiskKeys' = getDiskKeys
      BY <2>2, <1>2 DEF AssignController, getDiskKeys
    <3>3. CASE Slots \ getDiskKeys = {}
      BY <2>2, <3>1, <3>2, <3>3 DEF AssignController, Inv, SlotTypes
    <3>4. CASE Slots \ getDiskKeys # {}
      <4>1. PICK s \in Slots \ getDiskKeys : pick' = [pick EXCEPT ![m] = s]
        BY <2>2, <3>4 DEF AssignController
      <4>2. s \in 0 .. NumSlots /\ slots[s] = NoDisk
        BY Numbers DEF Slots, getDiskKeys
      <4> QED BY <1>2, <2>2, <3>1, <3>2, <4>1, <4>2 DEF Inv, SlotTypes
    <3> QED BY <3>3, <3>4
  <2> QED BY <2>1, <2>2
<1>4. SlotTypes'
  BY <1>2, <1>3 DEF Inv, SlotTypes, Holders, Running, AttachPcs
<1>5. \A d \in DiskNos : key'[m][d] # 0 => slots'[key'[m][d]] = Disk(m, d)
  BY <1>1, <1>2 DEF Inv, OwnDisk, Holds, CleanupPcs, Ended
<1>6. budget' \in Budget
  BY <1>2 DEF Inv, Calm
<1> QED BY <1>1, <1>2, <1>3, <1>4, <1>5, <1>6, AttachKeeps DEF AttachPcs

(* The disk goes into its slot, and the helper learns of it or does not.    *)
LEMMA AddKeeps ==
  ASSUME Inv, NEW m \in Migrations, AddDevice(m) \/ AttachFails(m)
  PROVE  Inv'
<1> USE DEF Goto, Error, At
<1>1. pc[m] \in AttachPcs
  BY DEF AddDevice, AttachFails, AttachPcs
<1>2. /\ pc' = [pc EXCEPT ![m] = pc'[m]]
      /\ pc'[m] \in {"find", "release"}
      /\ pc'[m] = "find" => pc[m] = "add" /\ slots' # slots
      /\ UNCHANGED <<key, before, pick, disk, lock, stale>>
  <2>1. CASE AttachFails(m)
    BY <2>1 DEF AttachFails, Inv, SlotTypes, lockVars, attachVars
  <2>2. CASE AddDevice(m) /\ slots[pick[m]] # NoDisk
    BY <2>2 DEF AddDevice, Inv, SlotTypes, lockVars, attachVars
  <2>3. CASE AddDevice(m) /\ slots[pick[m]] = NoDisk
    <3>1. pick[m] \in Slots /\ disk[m] \in DiskNos
      BY <2>3 DEF AddDevice, Inv, SlotTypes, NothingNew
    <3>2. slots'[pick[m]] # slots[pick[m]]
      BY <2>3, <3>1, DiskNotNone DEF AddDevice, Inv, SlotTypes
    <3> QED BY <2>3, <3>2 DEF AddDevice, Inv, SlotTypes, lockVars, attachVars
  <2> QED BY <2>1, <2>2, <2>3
<1>3. \/ slots' = slots
      \/ /\ pc[m] = "add" /\ slots[pick[m]] = NoDisk
         /\ slots' = [slots EXCEPT ![pick[m]] = Disk(m, disk[m])]
  BY DEF AddDevice, AttachFails
<1>4. disk[m] \in DiskNos /\ (pc[m] = "add" => pick[m] \in Slots /\ getDiskKeys \subseteq before[m])
  BY DEF Inv, SlotTypes, NothingNew
<1>5. SlotTypes'
  <2>1. slots' \in [Slots -> DiskSet]
    BY <1>3, <1>4, DiskNotNone DEF Inv, SlotTypes
  <2>2. pc' \in [Migrations -> Holders]
    BY <1>2 DEF Inv, SlotTypes, Holders, Running, AttachPcs
  <2> QED BY <1>2, <2>1, <2>2 DEF Inv, SlotTypes
<1>6. ASSUME NEW n \in Migrations, NEW d \in DiskNos, key[n][d] # 0, slots[key[n][d]] = Disk(n, d)
      PROVE  slots'[key[n][d]] = Disk(n, d)
  <2>1. Disk(n, d) # NoDisk /\ key[n][d] \in Slots
    BY <1>6, DiskNotNone, KeyIsSlot DEF Inv
  <2> QED BY <1>3, <1>4, <1>6, <2>1 DEF Inv, SlotTypes
<1>7. pc'[m] = "find" => /\ pick'[m] \in Slots
                         /\ slots'[pick'[m]] = Disk(m, disk'[m])
                         /\ getDiskKeys' \subseteq before'[m] \cup {pick'[m]}
  BY <1>2, <1>3, <1>4 DEF Inv, SlotTypes, getDiskKeys
<1>8. \A d \in DiskNos : key'[m][d] # 0 => slots'[key'[m][d]] = Disk(m, d)
  BY <1>1, <1>2, <1>6 DEF Inv, OwnDisk, Holds, AttachPcs, CleanupPcs, Ended
<1>9. budget' \in Budget
  <2>0. budget \in Budget
    BY DEF Inv, Calm
  <2> QED BY <2>0, SpendType DEF AddDevice, AttachFails
<1> QED BY <1>1, <1>2, <1>5, <1>6, <1>7, <1>8, <1>9, AttachKeeps DEF AttachPcs

(* The key that is new is the key of the disk just added.                   *)
LEMMA FindKeeps ==
  ASSUME Inv, NEW m \in Migrations, KeysAfter(m)
  PROVE  Inv'
<1> USE DEF Goto, Error, At
<1> DEFINE new == getDiskKeys \ before[m]
<1>1. /\ pc[m] = "find" /\ disk[m] \in DiskNos /\ pick[m] \in Slots
      /\ slots[pick[m]] = Disk(m, disk[m]) /\ new \subseteq {pick[m]}
      /\ key[m] \in [DiskNos -> 0 .. NumSlots]
  BY DEF KeysAfter, Inv, SlotTypes, NothingNew
<1>2. /\ pc' = [pc EXCEPT ![m] = pc'[m]]
      /\ pc'[m] \in {"keys", "release"}
      /\ UNCHANGED <<slots, lock, stale, budget>>
  BY DEF KeysAfter, Inv, SlotTypes, lockVars, proxyVars
<1>3. disk' \in [Migrations -> DiskNos] /\ \A n \in Migrations \ {m} : disk'[n] = disk[n]
  <2>1. /\ disk[m] < NumDisks => disk[m] + 1 \in DiskNos
        /\ 1 \in DiskNos
    BY <1>1, Numbers DEF DiskNos
  <2>2. disk \in [Migrations -> DiskNos]
    BY DEF Inv, SlotTypes
  <2>3. \/ disk' = disk
        \/ disk[m] < NumDisks /\ disk' = [disk EXCEPT ![m] = @ + 1]
        \/ disk' = [disk EXCEPT ![m] = 1]
    BY DEF KeysAfter
  <2>4. disk' = disk \/ \E d \in DiskNos : disk' = [disk EXCEPT ![m] = d]
    BY <2>1, <2>3
  <2> QED BY <2>2, <2>4
<1>4. key' = key \/ key' = [key EXCEPT ![m][disk[m]] = pick[m]]
  BY <1>1 DEF KeysAfter
<1>5. pick[m] \in 0 .. NumSlots /\ 0 \in 0 .. NumSlots
  BY <1>1, Numbers DEF Slots
<1>6. /\ key' \in [Migrations -> [DiskNos -> 0 .. NumSlots]]
      /\ \A n \in Migrations \ {m} : key'[n] = key[n]
  <2>1. CASE key' = key
    BY <2>1 DEF Inv, SlotTypes
  <2>2. CASE key' = [key EXCEPT ![m][disk[m]] = pick[m]]
    <3>1. [key[m] EXCEPT ![disk[m]] = pick[m]] \in [DiskNos -> 0 .. NumSlots]
      BY <1>1, <1>5
    <3>2. key' = [key EXCEPT ![m] = [key[m] EXCEPT ![disk[m]] = pick[m]]]
      BY <2>2
    <3> QED BY <3>1, <3>2 DEF Inv, SlotTypes
  <2> QED BY <1>4, <2>1, <2>2
<1>7. before' \in [Migrations -> SUBSET Slots] /\ pick' \in [Migrations -> 0 .. NumSlots]
  BY <1>5 DEF KeysAfter, Inv, SlotTypes
<1>8. SlotTypes'
  BY <1>2, <1>3, <1>6, <1>7 DEF Inv, SlotTypes, Holders, Running, AttachPcs
<1>9. \A d \in DiskNos : key'[m][d] # 0 => slots'[key'[m][d]] = Disk(m, d)
  <2> SUFFICES ASSUME NEW d \in DiskNos, key'[m][d] # 0
               PROVE  slots[key'[m][d]] = Disk(m, d)
    BY <1>2
  <2>1. key[m][d] # 0 => slots[key[m][d]] = Disk(m, d)
    BY <1>1 DEF Inv, OwnDisk, Holds, CleanupPcs, Ended
  <2>2. key'[m][d] = key[m][d] \/ (d = disk[m] /\ key'[m][d] = pick[m])
    BY <1>1, <1>4 DEF Inv, SlotTypes
  <2> QED BY <1>1, <2>1, <2>2
<1>10. budget' \in Budget
  BY <1>2 DEF Inv, Calm
<1> QED BY <1>1, <1>2, <1>3, <1>6, <1>8, <1>9, <1>10, AttachKeeps DEF AttachPcs

(* A Migration in phase Failed or deleted, and the restart of vpwned: the   *)
(* last two take the lock from its holder, which matters to the others.     *)
LEMMA LockLostKeeps ==
  ASSUME Inv, \/ \E m \in Migrations : PhaseFailed(m)
              \/ Alone /\ (VpwnedRestarts \/ \E m \in Migrations : MigrationDeleted(m))
  PROVE  Inv'
<1>1. /\ UNCHANGED <<slots, before, pick, key, pc, disk>>
      /\ stale' \subseteq Migrations
      /\ \/ Alone
         \/ lock' = lock /\ \A m \in stale' \ stale : pc[m] \in {"failed", "done"}
  BY DEF PhaseFailed, MigrationDeleted, VpwnedRestarts, proxyVars, attachVars, Inv, Calm
<1>b. budget' \in Budget
  <2>0. budget \in Budget
    BY DEF Inv, Calm
  <2> QED BY <2>0, SpendType DEF PhaseFailed, MigrationDeleted, VpwnedRestarts
<1>2. SlotTypes' /\ Calm' /\ LockHeld'
  BY <1>1, <1>b DEF Inv, SlotTypes, Calm, LockHeld
<1>3. NothingNew' /\ NoSlotConflict' /\ OwnDisk'
  BY <1>1 DEF Inv, NothingNew, NoSlotConflict, OwnDisk, Holds, At, getDiskKeys
<1> QED BY <1>2, <1>3 DEF Inv

-----------------------------------------------------------------------------
LEMMA InvInit == Init => Inv
<1> SUFFICES ASSUME Init PROVE Inv
  OBVIOUS
<1>1. SlotTypes
  BY Numbers DEF Init, SlotTypes, Holders, Running, DiskSet
<1>2. Calm /\ LockHeld
  BY DEF Init, Calm, Budget, LockHeld, AttachPcs
<1>3. NothingNew /\ NoSlotConflict /\ OwnDisk
  BY DEF Init, NothingNew, NoSlotConflict, OwnDisk, Holds, At
<1> QED BY <1>1, <1>2, <1>3 DEF Inv

LEMMA InvNext ==
  ASSUME Alone \/ (MaxRestarts = 0 /\ MaxDeletes = 0), Inv, [Next]_vars
  PROVE  Inv'
<1>1. ASSUME NEW m \in Migrations, Helper(m) PROVE Inv'
  BY <1>1, CopyKeeps, LeaveKeeps, CleanupKeeps, DetachKeeps, AcquireKeeps, ReadKeeps, AddKeeps, FindKeeps
     DEF Helper, AttachStep, CleanupStep
<1>2. ASSUME NEW m \in Migrations, PhaseFailed(m) \/ Crash(m) PROVE Inv'
  BY <1>2, LockLostKeeps, LeaveKeeps
<1>3. ASSUME VpwnedRestarts \/ \E m \in Migrations : MigrationDeleted(m) PROVE Inv'
  <2>1. ~ budget["restart"] < 0 /\ ~ budget["delete"] < 0
    BY DEF Inv, Calm, Budget
  <2>2. Alone
    BY <1>3, <2>1 DEF VpwnedRestarts, MigrationDeleted, Spend
  <2> QED BY <1>3, <2>2, LockLostKeeps
<1>4. CASE UNCHANGED vars
  <2>1. UNCHANGED <<lock, stale, slots, before, pick, key, pc, disk, budget>>
    BY <1>4 DEF vars, lockVars, proxyVars, attachVars
  <2>2. SlotTypes' /\ Calm' /\ LockHeld'
    BY <2>1 DEF Inv, SlotTypes, Calm, LockHeld
  <2>3. NothingNew' /\ NoSlotConflict' /\ OwnDisk'
    BY <2>1 DEF Inv, NothingNew, NoSlotConflict, OwnDisk, Holds, At, getDiskKeys
  <2> QED BY <2>2, <2>3 DEF Inv
<1> QED BY <1>1, <1>2, <1>3, <1>4 DEF Next, AllEnded

(* Under the lock of proxyvm_lock_handler.go a slot computed from the device*)
(* list is still free when the disk goes there, and a key that a helper     *)
(* keeps leads to its own disk until it has detached it, for every number   *)
(* of migrations, disks and slots and every number of failures, as long as  *)
(* no holder loses the lock to another: see the head of this module.        *)
THEOREM DisksStayApart ==
  ASSUME Alone \/ (MaxRestarts = 0 /\ MaxDeletes = 0)
  PROVE  Spec => []DisksApart
<1>1. Inv /\ [Next]_vars => Inv'
  BY InvNext
<1>2. Inv => DisksApart
  BY DEF Inv, DisksApart
<1> QED BY InvInit, <1>1, <1>2, PTL DEF Spec

-----------------------------------------------------------------------------
(* Types, and what a migration copies that is alone.                        *)
ServerSet == [by : Migrations, no : DiskNos, disk : DiskSet] \cup {NoServer}
JobStates == {"serve", "copy", "copied", "unserved", "failed"}

LockType == lock \in Migrations \cup {None} /\ stale \subseteq Migrations
ProxyType ==
  /\ slots \in [Slots -> DiskSet] /\ servers \in [Ports -> ServerSet]
  /\ snap \subseteq Migrations
AttachType ==
  /\ before \in [Migrations -> SUBSET Slots] /\ pick \in [Migrations -> 0 .. NumSlots]
  /\ key \in [Migrations -> [DiskNos -> 0 .. NumSlots]]
CopyType ==
  /\ dev \in [Migrations -> [DiskNos -> DiskSet]]
  /\ port \in [Migrations -> [DiskNos -> 0 .. NumPorts]]
  /\ job \in [Migrations -> [DiskNos -> JobStates]]
  /\ got \in [Migrations -> [DiskNos -> DiskSet]]
CountType == count \in Nat /\ seen \in [Migrations -> Nat]
PlaceType ==
  /\ pc \in [Migrations -> Holders] /\ ok \in [Migrations -> BOOLEAN]
  /\ disk \in [Migrations -> DiskNos]

(* An error is never forgotten on the way to the copy, and a helper that    *)
(* goes there knows the keys of all its disks.                              *)
BeforeCopy ==
  {"start", "lock", "release", "count", "add_count", "identify", "ports"} \cup AttachPcs

KnownOf(m) ==
  /\ pc[m] \in BeforeCopy \ {"release"} => ok[m]
  /\ pc[m] \in {"start", "lock"} => disk[m] = 1
  /\ pc[m] \in AttachPcs => \A d \in DiskNos : d < disk[m] => key[m][d] # 0
  /\ \/ At(m, "release") /\ ok[m]
     \/ pc[m] \in {"count", "add_count", "identify", "ports", "copy"}
     => \A d \in DiskNos : key[m][d] # 0
KeysKnown == \A m \in Migrations : KnownOf(m)

Types ==
  /\ LockType /\ ProxyType /\ AttachType /\ CopyType /\ CountType /\ PlaceType
  /\ budget \in Budget
TypeInv == Types /\ KeysKnown

LEMMA TypesMean == Types <=> TypeOK
BY DEF Types, TypeOK, LockType, ProxyType, AttachType, CopyType, CountType, PlaceType, Budget,
       ServerSet, JobStates, Holders

-----------------------------------------------------------------------------
LEMMA NestedUpdate ==
  ASSUME NEW S, NEW T, NEW V, NEW f \in [S -> [T -> V]], NEW a \in S, NEW b, NEW v \in V
  PROVE  [f EXCEPT ![a][b] = v] \in [S -> [T -> V]]
<1>1. [f[a] EXCEPT ![b] = v] \in [T -> V]
  OBVIOUS
<1> QED BY <1>1

LEMMA DiskTypes ==
  ASSUME NEW m \in Migrations, NEW d \in DiskNos
  PROVE  /\ Disk(m, d) \in DiskSet /\ NoDisk \in DiskSet /\ NoServer \in ServerSet
         /\ \A what \in DiskSet : Server(m, d, what) \in ServerSet
BY DiskNotNone DEF DiskSet, ServerSet, Server

LEMMA AttachedIsNat ==
  ASSUME NEW m \in Migrations
  PROVE  Attached(m) \in Nat
<1>1. IsFiniteSet(DiskNos)
  BY FS_Interval, Numbers DEF DiskNos
<1>2. IsFiniteSet({d \in DiskNos : key[m][d] # 0})
  BY <1>1, FS_Subset
<1> QED BY <1>2, FS_CardinalityType DEF Attached

LEMMA Next1 ==
  ASSUME NEW d \in DiskNos, d < NumDisks
  PROVE  d + 1 \in DiskNos
BY Numbers DEF DiskNos

(* A step of m leaves what the others know alone.                           *)
OthersKnow(m) ==
  \A n \in Migrations \ {m} :
    pc'[n] = pc[n] /\ ok'[n] = ok[n] /\ disk'[n] = disk[n] /\ key'[n] = key[n]

LEMMA KnownKeeps ==
  ASSUME KeysKnown, NEW m \in Migrations, OthersKnow(m), KnownOf(m)'
  PROVE  KeysKnown'
BY DEF KeysKnown, KnownOf, OthersKnow, At

LEMMA PlaceMoves ==
  ASSUME PlaceType, NEW m \in Migrations, NEW label \in Holders,
         Goto(m, label) \/ Error(m, label), ok' = ok \/ Error(m, label),
         UNCHANGED disk
  PROVE  /\ PlaceType' /\ pc'[m] = label
         /\ \A n \in Migrations \ {m} : pc'[n] = pc[n] /\ ok'[n] = ok[n]
         /\ ok'[m] = ok[m] \/ (ok'[m] = FALSE /\ Error(m, label))
BY DEF PlaceType, Goto, Error

LEMMA Labels ==
  /\ Running \subseteq Holders /\ Ended \subseteq Holders
  /\ \A m \in Migrations : Outcome(m) \in Ended
BY DEF Holders, Outcome, Ended

-----------------------------------------------------------------------------
LEMMA PrepareTypes ==
  ASSUME TypeInv, NEW m \in Migrations, Prepare(m) \/ acquire(m) \/ WaitForProxyVMLockFails(m)
  PROVE  TypeInv'
<1> USE DEF TypeInv, Types
<1>1. budget' \in Budget
  BY SpendType DEF Prepare, acquire, WaitForProxyVMLockFails
<1>2. LockType' /\ ProxyType'
  BY DEF Prepare, acquire, WaitForProxyVMLockFails, LockType, ProxyType, lockVars, proxyVars
<1>3. AttachType' /\ CopyType' /\ CountType' /\ UNCHANGED <<key, disk>>
  BY DEF Prepare, acquire, WaitForProxyVMLockFails, AttachType, CopyType, CountType,
         attachVars, copyVars, countVars
<1>4. PlaceType' /\ OthersKnow(m)
  BY <1>3 DEF Prepare, acquire, WaitForProxyVMLockFails, PlaceType, Goto, Error, OthersKnow,
         Holders, Running, AttachPcs, CleanupPcs, Ended
<1>5. KnownOf(m)'
  <2>1. \A d \in DiskNos : ~ d < 1
    BY Numbers DEF DiskNos
  <2>2. ok[m] /\ disk[m] = 1
    BY DEF Prepare, acquire, WaitForProxyVMLockFails, KeysKnown, KnownOf, At, BeforeCopy
  <2>3. \/ pc'[m] \in {"lock", "keys"} /\ ok' = ok
        \/ pc'[m] \in {"failed", "kill"}
    BY DEF Prepare, acquire, WaitForProxyVMLockFails, Goto, Error, PlaceType
  <2> QED BY <1>3, <2>1, <2>2, <2>3 DEF KnownOf, At, BeforeCopy, AttachPcs
<1> QED BY <1>1, <1>2, <1>3, <1>4, <1>5, KnownKeeps

LEMMA ReadTypes ==
  ASSUME TypeInv, NEW m \in Migrations, KeysBefore(m) \/ AssignController(m)
  PROVE  TypeInv'
<1> USE DEF TypeInv, Types
<1>2. /\ LockType' /\ ProxyType' /\ CopyType' /\ CountType' /\ budget' \in Budget
      /\ UNCHANGED <<key, disk>>
  BY DEF KeysBefore, AssignController, LockType, ProxyType, CopyType, CountType,
         lockVars, proxyVars, copyVars, countVars
<1>3. AttachType'
  <2>1. Slots \subseteq 0 .. NumSlots /\ getDiskKeys \subseteq Slots
    BY Numbers DEF Slots, getDiskKeys
  <2>2. CASE KeysBefore(m)
    BY <2>1, <2>2 DEF KeysBefore, AttachType
  <2>3. CASE AssignController(m)
    <3>1. pick' = pick \/ \E s \in Slots : pick' = [pick EXCEPT ![m] = s]
      BY <2>3 DEF AssignController
    <3> QED BY <2>1, <2>3, <3>1 DEF AssignController, AttachType
  <2> QED BY <2>2, <2>3
<1>4. /\ pc[m] \in {"keys", "slot"}
      /\ \/ pc'[m] \in {"slot", "add"} /\ ok' = ok
         \/ pc'[m] = "release" /\ ok'[m] = FALSE
  BY DEF KeysBefore, AssignController, Goto, Error, PlaceType, At
<1>5. PlaceType' /\ OthersKnow(m)
  BY <1>2 DEF KeysBefore, AssignController, PlaceType, Goto, Error, OthersKnow,
         Holders, Running, AttachPcs
<1>6. KnownOf(m)'
  BY <1>2, <1>4 DEF KeysKnown, KnownOf, At, BeforeCopy, AttachPcs
<1> QED BY <1>2, <1>3, <1>5, <1>6, KnownKeeps

LEMMA AddTypes ==
  ASSUME TypeInv, NEW m \in Migrations, AddDevice(m) \/ AttachFails(m)
  PROVE  TypeInv'
<1> USE DEF TypeInv, Types
<1>1. budget' \in Budget
  BY SpendType DEF AddDevice, AttachFails
<1>2. LockType' /\ AttachType' /\ CopyType' /\ CountType' /\ UNCHANGED <<key, disk>>
  BY DEF AddDevice, AttachFails, LockType, AttachType, CopyType, CountType,
         lockVars, attachVars, copyVars, countVars
<1>3. ProxyType'
  <2>1. Disk(m, disk[m]) \in DiskSet
    BY DiskTypes DEF PlaceType
  <2>2. /\ slots' = slots \/ slots' = [slots EXCEPT ![pick[m]] = Disk(m, disk[m])]
        /\ UNCHANGED <<servers, snap>>
    BY DEF AddDevice, AttachFails
  <2> QED BY <2>1, <2>2 DEF ProxyType
<1>4. /\ pc[m] \in AttachPcs
      /\ \/ pc'[m] = "find" /\ ok' = ok
         \/ pc'[m] = "release" /\ ok'[m] = FALSE
  BY DEF AddDevice, AttachFails, Goto, Error, PlaceType, At, AttachPcs
<1>5. PlaceType' /\ OthersKnow(m)
  BY <1>2 DEF AddDevice, AttachFails, PlaceType, Goto, Error, OthersKnow,
         Holders, Running, AttachPcs
<1>6. KnownOf(m)'
  BY <1>2, <1>4 DEF KeysKnown, KnownOf, At, BeforeCopy, AttachPcs
<1> QED BY <1>1, <1>2, <1>3, <1>5, <1>6, KnownKeeps

(* The last key found completes them.                                       *)
LEMMA FindTypes ==
  ASSUME TypeInv, NEW m \in Migrations, KeysAfter(m)
  PROVE  TypeInv'
<1> USE DEF TypeInv, Types
<1>1. pc[m] = "find" /\ disk[m] \in DiskNos /\ ok[m] /\ \A d \in DiskNos : d < disk[m] => key[m][d] # 0
  BY DEF KeysAfter, At, PlaceType, KeysKnown, KnownOf, BeforeCopy, AttachPcs
<1>2. LockType' /\ ProxyType' /\ CopyType' /\ CountType' /\ budget' \in Budget
  BY DEF KeysAfter, LockType, ProxyType, CopyType, CountType, lockVars, proxyVars, copyVars, countVars
<1>3. AttachType' /\ \A n \in Migrations \ {m} : key'[n] = key[n]
  <2>1. \/ key' = key
        \/ \E k \in Slots : key' = [key EXCEPT ![m][disk[m]] = k]
    BY DEF KeysAfter, getDiskKeys
  <2>2. /\ key' \in [Migrations -> [DiskNos -> 0 .. NumSlots]]
        /\ \A n \in Migrations \ {m} : key'[n] = key[n]
    <3>1. CASE key' = key
      BY <3>1 DEF AttachType
    <3>2. CASE \E k \in Slots : key' = [key EXCEPT ![m][disk[m]] = k]
      <4>1. PICK k \in Slots : key' = [key EXCEPT ![m][disk[m]] = k]
        BY <3>2
      <4>2. k \in 0 .. NumSlots
        BY Numbers DEF Slots
      <4> QED BY <4>1, <4>2, NestedUpdate DEF AttachType
    <3> QED BY <2>1, <3>1, <3>2
  <2>3. 0 \in 0 .. NumSlots
    BY Numbers
  <2> QED BY <2>2, <2>3 DEF KeysAfter, AttachType
<1>4. \/ /\ pc'[m] = "release" /\ ok'[m] = FALSE /\ UNCHANGED disk
      \/ /\ pc'[m] = "keys" /\ ok' = ok /\ disk' = [disk EXCEPT ![m] = disk[m] + 1]
         /\ disk[m] < NumDisks /\ \E k \in Slots : key'[m] = [key[m] EXCEPT ![disk[m]] = k]
      \/ /\ pc'[m] = "release" /\ ok' = ok /\ disk' = [disk EXCEPT ![m] = 1]
         /\ ~ disk[m] < NumDisks /\ \E k \in Slots : key'[m] = [key[m] EXCEPT ![disk[m]] = k]
  BY DEF KeysAfter, Goto, Error, PlaceType, AttachType, getDiskKeys
<1>5. PlaceType' /\ OthersKnow(m)
  <2>1. disk' \in [Migrations -> DiskNos] /\ \A n \in Migrations \ {m} : disk'[n] = disk[n]
    <3>1. disk[m] < NumDisks => disk[m] + 1 \in DiskNos
      BY <1>1, Next1
    <3>2. \/ disk' = disk \/ disk' = [disk EXCEPT ![m] = 1]
          \/ disk[m] < NumDisks /\ disk' = [disk EXCEPT ![m] = disk[m] + 1]
      BY <1>4
    <3> QED BY <3>1, <3>2, Numbers DEF PlaceType
  <2>2. /\ pc' \in [Migrations -> Holders] /\ ok' \in [Migrations -> BOOLEAN]
        /\ \A n \in Migrations \ {m} : pc'[n] = pc[n] /\ ok'[n] = ok[n]
    BY DEF KeysAfter, PlaceType, Goto, Error, Holders, Running, AttachPcs
  <2> QED BY <1>3, <2>1, <2>2 DEF PlaceType, OthersKnow
<1>6. KnownOf(m)'
  <2>0. key[m] \in [DiskNos -> 0 .. NumSlots] /\ 0 \notin Slots
    BY Numbers DEF AttachType
  <2>1. \A d \in DiskNos : (d < disk[m] + 1 => d < disk[m] \/ d = disk[m])
                           /\ (~ disk[m] < NumDisks => d < disk[m] \/ d = disk[m])
    BY <1>1, Numbers DEF DiskNos
  <2>2. (\E k \in Slots : key'[m] = [key[m] EXCEPT ![disk[m]] = k])
          => \A d \in DiskNos : d < disk[m] \/ d = disk[m] => key'[m][d] # 0
    BY <1>1, <2>0
  <2>3. CASE pc'[m] = "release" /\ ok'[m] = FALSE
    BY <2>3 DEF KnownOf, At, BeforeCopy, AttachPcs
  <2>4. CASE pc'[m] = "keys" /\ ok' = ok
    BY <1>1, <1>4, <2>1, <2>2, <2>4 DEF KnownOf, At, BeforeCopy, AttachPcs, PlaceType
  <2>5. CASE /\ pc'[m] = "release" /\ ok' = ok
             /\ ~ disk[m] < NumDisks /\ \E k \in Slots : key'[m] = [key[m] EXCEPT ![disk[m]] = k]
    BY <1>1, <2>1, <2>2, <2>5 DEF KnownOf, At, BeforeCopy, AttachPcs
  <2> QED BY <1>4, <2>3, <2>4, <2>5
<1> QED BY <1>2, <1>3, <1>5, <1>6, KnownKeeps

LEMMA ReleaseTypes ==
  ASSUME TypeInv, NEW m \in Migrations, ReleaseLock(m)
  PROVE  TypeInv'
<1> USE DEF TypeInv, Types
<1>1. budget' \in Budget
  BY SpendType DEF ReleaseLock
<1>2. LockType' /\ ProxyType' /\ AttachType' /\ CopyType' /\ CountType' /\ UNCHANGED <<key, disk, ok>>
  BY DEF ReleaseLock, release, LockType, ProxyType, AttachType, CopyType, CountType,
         proxyVars, attachVars, copyVars, countVars
<1>3. pc[m] = "release" /\ pc'[m] = IF ok[m] THEN "count" ELSE "kill"
  BY DEF ReleaseLock, Goto, PlaceType, At
<1>4. PlaceType' /\ OthersKnow(m)
  BY <1>2 DEF ReleaseLock, PlaceType, Goto, OthersKnow, Holders, Running, CleanupPcs
<1>5. KnownOf(m)'
  BY <1>2, <1>3 DEF KeysKnown, KnownOf, At, BeforeCopy, AttachPcs
<1> QED BY <1>1, <1>2, <1>4, <1>5, KnownKeeps

(* The sum written to the status is a natural number: it is clamped at zero.*)
LEMMA CountTypes ==
  ASSUME TypeInv, NEW m \in Migrations,
         CountUp(m) \/ AddCount(m) \/ CountDown(m) \/ SubtractCount(m)
  PROVE  TypeInv'
<1> USE DEF TypeInv, Types
<1>1. budget' \in Budget
  BY SpendType DEF CountUp, CountDown, CountThen, AddCount, SubtractCount
<1>2. LockType' /\ ProxyType' /\ AttachType' /\ CopyType' /\ UNCHANGED <<key, disk, ok>>
  BY DEF CountUp, CountDown, CountThen, AddCount, SubtractCount, LockType, ProxyType, AttachType, CopyType,
         lockVars, proxyVars, attachVars, copyVars
<1>3. CountType'
  <2>1. NumDisks \in Int /\ - Attached(m) \in Int
    BY AttachedIsNat, Numbers
  <2>2. ASSUME NEW delta \in Int, AddToCount(m, delta) PROVE CountType'
    <3>1. seen[m] \in Nat
      BY DEF CountType
    <3>2. count' \in Nat
      BY <2>2, <3>1 DEF AddToCount
    <3> QED BY <2>2, <3>2 DEF AddToCount, CountType
  <2>3. CASE AddCount(m) \/ SubtractCount(m)
    BY <2>1, <2>2, <2>3 DEF AddCount, SubtractCount
  <2>4. CASE CountUp(m) \/ CountDown(m)
    BY <2>4 DEF CountUp, CountDown, CountThen, CountType
  <2> QED BY <2>3, <2>4
<1>4. \/ pc[m] \in {"count", "add_count"} /\ pc'[m] \in {"add_count", "identify"}
      \/ pc'[m] \in {"subtract"} \cup Ended
  BY Labels DEF CountUp, CountDown, CountThen, AddCount, SubtractCount, Goto, PlaceType, At
<1>5. PlaceType' /\ OthersKnow(m)
  BY <1>2, Labels DEF CountUp, CountDown, CountThen, AddCount, SubtractCount, PlaceType, Goto, OthersKnow,
         Holders, Running, CleanupPcs
<1>6. KnownOf(m)'
  BY <1>2, <1>4 DEF KeysKnown, KnownOf, At, BeforeCopy, AttachPcs, Ended
<1> QED BY <1>1, <1>2, <1>3, <1>5, <1>6, KnownKeeps

(* From here on the keys do not matter any more.                            *)
Past(m) ==
  /\ UNCHANGED key /\ pc'[m] \notin BeforeCopy
  /\ pc'[m] = "copy" => pc[m] \in {"ports", "copy"}

LEMMA PastKnows ==
  ASSUME TypeInv, NEW m \in Migrations, Past(m)
  PROVE  KnownOf(m)'
BY DEF TypeInv, Past, KeysKnown, KnownOf, At, BeforeCopy

LEMMA IdentifyTypes ==
  ASSUME TypeInv, NEW m \in Migrations,
         identifyBlockDevices(m) \/ AllocatePorts(m) \/ CallFails(m) \/ WaitForJobs(m)
  PROVE  TypeInv'
<1> USE DEF TypeInv, Types
<1>1. budget' \in Budget
  BY SpendType DEF identifyBlockDevices, AllocatePorts, CallFails, WaitForJobs
<1>2. LockType' /\ ProxyType' /\ AttachType' /\ CountType' /\ UNCHANGED <<key, disk>>
  BY DEF identifyBlockDevices, AllocatePorts, CallFails, WaitForJobs, LockType, ProxyType, AttachType,
         CountType, lockVars, proxyVars, attachVars, countVars
<1>3. CopyType'
  <2>1. CASE identifyBlockDevices(m)
    <3>1. \A d \in DiskNos : slots[key[m][d]] \in DiskSet
      <4>1. \A d \in DiskNos : key[m][d] \in 0 .. NumSlots /\ key[m][d] # 0
        BY <2>1 DEF identifyBlockDevices, At, KeysKnown, KnownOf, AttachType
      <4>2. \A d \in DiskNos : key[m][d] \in Slots
        BY <4>1, Numbers DEF Slots
      <4> QED BY <4>2 DEF ProxyType
    <3>2. [d \in DiskNos |-> slots[key[m][d]]] \in [DiskNos -> DiskSet]
      BY <3>1
    <3> HIDE DEF DiskSet
    <3> QED BY <2>1, <3>2 DEF identifyBlockDevices, CopyType
  <2>2. CASE AllocatePorts(m)
    <3>1. port' = port \/ \E f \in [DiskNos -> Ports] : port' = [port EXCEPT ![m] = f]
      BY <2>2 DEF AllocatePorts, findFreePorts, FreePorts
    <3>2. [DiskNos -> Ports] \subseteq [DiskNos -> 0 .. NumPorts]
      BY HotAddAssumption DEF Ports
    <3> QED BY <2>2, <3>1, <3>2 DEF AllocatePorts, CopyType
  <2>3. CASE CallFails(m) \/ WaitForJobs(m)
    BY <2>3 DEF CallFails, WaitForJobs, CopyType, copyVars
  <2> QED BY <2>1, <2>2, <2>3
<1>4. PlaceType' /\ OthersKnow(m)
  BY <1>2 DEF identifyBlockDevices, AllocatePorts, CallFails, WaitForJobs, PlaceType, Goto, Error,
         OthersKnow, Holders, Running, CleanupPcs
<1>5. KnownOf(m)'
  <2>1. CASE identifyBlockDevices(m) /\ pc'[m] = "ports" /\ ok' = ok
    BY <1>2, <2>1 DEF identifyBlockDevices, KeysKnown, KnownOf, At, BeforeCopy, AttachPcs
  <2>2. CASE Past(m)
    BY <2>2, PastKnows
  <2>3. \/ identifyBlockDevices(m) /\ pc'[m] = "ports" /\ ok' = ok
        \/ pc'[m] = "kill" \/ (pc'[m] = "copy" /\ pc[m] = "ports")
    BY DEF identifyBlockDevices, AllocatePorts, CallFails, WaitForJobs, PlaceType, Goto, Error, At
  <2> QED BY <1>2, <2>1, <2>2, <2>3 DEF Past, BeforeCopy, AttachPcs
<1> QED BY <1>1, <1>2, <1>3, <1>4, <1>5, KnownKeeps

LEMMA JobTypes ==
  ASSUME TypeInv, NEW m \in Migrations, NEW d \in DiskNos, serveViaNBD(m, d) \/ runNBDCopy(m, d)
  PROVE  TypeInv'
<1> USE DEF TypeInv, Types
<1>1. budget' \in Budget
  BY SpendType DEF serveViaNBD, runNBDCopy
<1>2. LockType' /\ AttachType' /\ CountType' /\ UNCHANGED <<key, disk, pc, ok>> /\ pc[m] = "copy"
  BY DEF serveViaNBD, runNBDCopy, Job, At, LockType, AttachType, CountType, lockVars, proxyVars,
         attachVars, countVars
<1>3. ProxyType'
  <2>1. Server(m, d, dev[m][d]) \in ServerSet
    BY DiskTypes DEF CopyType
  <2>2. /\ \/ servers' = servers
           \/ servers' = [servers EXCEPT ![port[m][d]] = Server(m, d, dev[m][d])]
        /\ UNCHANGED <<slots, snap>>
    BY DEF serveViaNBD, runNBDCopy, StartServer, proxyVars
  <2> QED BY <2>1, <2>2 DEF ProxyType
<1>4. CopyType'
  <2>1. \E to \in JobStates : job' = [job EXCEPT ![m][d] = to]
    BY DEF serveViaNBD, runNBDCopy, Job, JobStates
  <2>2. job' \in [Migrations -> [DiskNos -> JobStates]]
    BY <2>1, NestedUpdate DEF CopyType
  <2>3. got' = got \/ \E what \in DiskSet : got' = [got EXCEPT ![m][d] = what]
    <3>1. Source(m, d) # NoDisk => Source(m, d) \in DiskSet
      BY DEF Source, ProxyType
    <3> QED BY <3>1 DEF serveViaNBD, runNBDCopy
  <2>4. got' \in [Migrations -> [DiskNos -> DiskSet]]
    <3>1. CASE got' = got
      BY <3>1 DEF CopyType
    <3>2. CASE \E what \in DiskSet : got' = [got EXCEPT ![m][d] = what]
      <4>1. PICK what \in DiskSet : got' = [got EXCEPT ![m][d] = what]
        BY <3>2
      <4> QED BY <4>1, NestedUpdate DEF CopyType
    <3> QED BY <2>3, <3>1, <3>2
  <2> QED BY <2>2, <2>4 DEF serveViaNBD, runNBDCopy, CopyType
<1>5. PlaceType' /\ OthersKnow(m)
  BY <1>2 DEF PlaceType, OthersKnow
<1>6. KnownOf(m)'
  BY <1>2, PastKnows DEF Past, BeforeCopy, AttachPcs
<1> QED BY <1>1, <1>2, <1>3, <1>4, <1>5, <1>6, KnownKeeps

LEMMA CleanupTypes ==
  ASSUME TypeInv, NEW m \in Migrations,
         KillServers(m) \/ Detach(m) \/ DeleteSnapshot(m) \/ Crash(m)
  PROVE  TypeInv'
<1> USE DEF TypeInv, Types
<1>1. budget' \in Budget
  BY SpendType DEF KillServers, Detach, DeleteSnapshot, Crash
<1>2. LockType' /\ AttachType' /\ CopyType' /\ CountType' /\ UNCHANGED key
  BY DEF KillServers, Detach, DeleteSnapshot, Crash, LockType, AttachType, CopyType, CountType,
         lockVars, attachVars, copyVars, countVars
<1>3. ProxyType'
  <2>1. CASE KillServers(m)
    <3>1. [p \in Ports |-> IF Killable(m, p) THEN NoServer ELSE servers[p]] \in [Ports -> ServerSet]
      BY DEF ProxyType, ServerSet
    <3> HIDE DEF Killable
    <3> QED BY <2>1, <3>1 DEF KillServers, ProxyType
  <2>2. CASE Detach(m)
    <3>1. NoDisk \in DiskSet
      BY DEF DiskSet
    <3>2. slots' = slots \/ slots' = [slots EXCEPT ![key[m][disk[m]]] = NoDisk]
      BY <2>2 DEF Detach
    <3> HIDE DEF DiskSet
    <3> QED BY <2>2, <3>1, <3>2 DEF Detach, ProxyType
  <2>3. CASE DeleteSnapshot(m) \/ Crash(m)
    BY <2>3 DEF DeleteSnapshot, Crash, ProxyType, proxyVars
  <2> QED BY <2>1, <2>2, <2>3
<1>4. PlaceType' /\ OthersKnow(m)
  <2>1. /\ disk' \in [Migrations -> DiskNos]
        /\ \A n \in Migrations \ {m} : disk'[n] = disk[n]
    <3>1. disk[m] < NumDisks => disk[m] + 1 \in DiskNos
      BY Next1 DEF PlaceType
    <3>2. \/ disk' = disk \/ disk' = [disk EXCEPT ![m] = 1]
          \/ disk[m] < NumDisks /\ disk' = [disk EXCEPT ![m] = disk[m] + 1]
      BY DEF KillServers, Detach, NextDetach, DeleteSnapshot, Crash
    <3>3. disk \in [Migrations -> DiskNos] /\ 1 \in DiskNos
      BY Numbers DEF PlaceType, DiskNos
    <3>4. disk' = disk \/ \E d \in DiskNos : disk' = [disk EXCEPT ![m] = d]
      BY <3>1, <3>2, <3>3
    <3> QED BY <3>3, <3>4
  <2>2. /\ pc' \in [Migrations -> Holders] /\ ok' \in [Migrations -> BOOLEAN]
        /\ \A n \in Migrations \ {m} : pc'[n] = pc[n] /\ ok'[n] = ok[n]
    <3> USE DEF PlaceType, Goto, Error, Holders, Running, CleanupPcs, Ended
    <3>1. CASE KillServers(m)
      BY <3>1, Labels DEF KillServers
    <3>2. CASE Detach(m)
      BY <3>2, Labels DEF Detach, NextDetach
    <3>3. CASE DeleteSnapshot(m)
      BY <3>3, Labels DEF DeleteSnapshot
    <3>4. CASE Crash(m)
      BY <3>4, Labels DEF Crash
    <3> QED BY <3>1, <3>2, <3>3, <3>4
  <2> QED BY <1>2, <2>1, <2>2 DEF PlaceType, OthersKnow
<1>5. KnownOf(m)'
  <2>1. pc'[m] \in {"detach", "deleteSnap", "uncount"} \cup Ended
    BY Labels DEF KillServers, Detach, NextDetach, DeleteSnapshot, Crash, PlaceType, Goto, Error, Ended
  <2> QED BY <1>2, <2>1, PastKnows DEF Past, BeforeCopy, AttachPcs, Ended
<1> QED BY <1>1, <1>2, <1>3, <1>4, <1>5, KnownKeeps

LEMMA TypeNext ==
  ASSUME TypeInv, [Next]_vars
  PROVE  TypeInv'
<1>1. ASSUME NEW m \in Migrations, Helper(m) \/ Crash(m) PROVE TypeInv'
  BY <1>1, PrepareTypes, ReadTypes, AddTypes, FindTypes, ReleaseTypes, CountTypes, IdentifyTypes, JobTypes,
     CleanupTypes DEF Helper, AttachStep, CopyStep, CleanupStep
<1>2. ASSUME \/ UNCHANGED vars \/ VpwnedRestarts
             \/ \E m \in Migrations : PhaseFailed(m) \/ MigrationDeleted(m)
      PROVE  TypeInv'
  <2>1. UNCHANGED <<proxyVars, attachVars, copyVars, countVars, pc, ok, disk>>
    BY <1>2 DEF vars, VpwnedRestarts, PhaseFailed, MigrationDeleted
  <2>2. budget' \in Budget
    BY <1>2, SpendType DEF vars, VpwnedRestarts, PhaseFailed, MigrationDeleted, TypeInv, Types
  <2>3. LockType'
    BY <1>2 DEF vars, lockVars, VpwnedRestarts, PhaseFailed, MigrationDeleted, TypeInv, Types, LockType
  <2>4. Types'
    BY <2>1, <2>2, <2>3 DEF TypeInv, Types, ProxyType, AttachType, CopyType, CountType, PlaceType,
       proxyVars, attachVars, copyVars, countVars
  <2>5. KeysKnown'
    BY <2>1 DEF TypeInv, KeysKnown, KnownOf, At, attachVars
  <2> QED BY <2>4, <2>5 DEF TypeInv
<1> QED BY <1>1, <1>2 DEF Next, AllEnded

LEMMA TypeInit == Init => TypeInv
<1> SUFFICES ASSUME Init PROVE TypeInv
  OBVIOUS
<1>1. LockType /\ ProxyType /\ AttachType /\ CountType
  BY Numbers, DiskTypes DEF Init, LockType, ProxyType, AttachType, CountType, DiskSet, ServerSet
<1>2. CopyType
  BY HotAddAssumption DEF Init, CopyType, DiskSet, JobStates
<1>3. PlaceType /\ budget \in Budget
  BY Numbers DEF Init, PlaceType, Budget, Holders, Running
<1>4. KeysKnown
  BY DEF Init, KeysKnown, KnownOf, At, AttachPcs
<1> QED BY <1>1, <1>2, <1>3, <1>4 DEF TypeInv, Types

(* Every variable of the helpers, the Proxy VM and vpwned keeps its type:   *)
(* in particular AttachedDiskCount never falls below zero, and a helper     *)
(* that identifies its devices (hotadd_copy.go) has a key for each disk.    *)
THEOREM TypeCorrect == Spec => []TypeOK
<1>1. TypeInv /\ [Next]_vars => TypeInv'
  BY TypeNext
<1>2. TypeInv => TypeOK
  BY TypesMean DEF TypeInv
<1> QED BY TypeInit, <1>1, <1>2, PTL DEF Spec

-----------------------------------------------------------------------------
(* The snapshot.  Each disk sits in one slot, which is the one its key      *)
(* tells once it is known, and the detaching comes before the snapshot.     *)
Placed(m, d, s) ==
  /\ key[m][d] \in {0, s}
  /\ \A e \in DiskNos : e < d => key[m][e] # 0
  /\ pc[m] \notin {"start", "lock"}
  /\ pc[m] \in AttachPcs => d < disk[m] \/ (pc[m] = "find" /\ d = disk[m] /\ s = pick[m])
  /\ pc[m] = "detach" /\ d < disk[m] => key[m][d] = 0
  /\ m \notin snap \/ pc[m] \in {"deleteSnap", "uncount", "subtract"} => key[m][d] = 0

LeftOf(m) ==
  /\ pc[m] \in {"start", "lock"} => \A d \in DiskNos : key[m][d] = 0
  /\ pc[m] \in AttachPcs => \A d \in DiskNos : disk[m] <= d => key[m][d] = 0
  /\ m \in snap \/ pc[m] \in {"start", "uncount", "subtract"} \cup Ended
  /\ ok[m] /\ pc[m] \in CleanupPcs \cup Ended => \A d \in DiskNos : key[m][d] # 0
  /\ \A d \in DiskNos, s \in Slots : slots[s] = Disk(m, d) => Placed(m, d, s)

SnapInv == \A m \in Migrations : LeftOf(m)

(* A step of m takes disks of the others away at most.                      *)
OthersStay(m) ==
  \A n \in Migrations \ {m} :
    /\ pc'[n] = pc[n] /\ ok'[n] = ok[n] /\ disk'[n] = disk[n] /\ pick'[n] = pick[n]
    /\ key'[n] = key[n] /\ (n \in snap' <=> n \in snap)
    /\ \A d \in DiskNos, s \in Slots : slots'[s] = Disk(n, d) => slots[s] = Disk(n, d)

LEMMA LeftKeeps ==
  ASSUME SnapInv, NEW m \in Migrations, OthersStay(m), LeftOf(m)'
  PROVE  SnapInv'
<1> SUFFICES ASSUME NEW n \in Migrations \ {m} PROVE LeftOf(n)'
  BY DEF SnapInv
<1>1. LeftOf(n)
  BY DEF SnapInv
<1>2. /\ pc'[n] = pc[n] /\ ok'[n] = ok[n] /\ disk'[n] = disk[n] /\ pick'[n] = pick[n]
      /\ key'[n] = key[n] /\ (n \in snap' <=> n \in snap)
      /\ \A d \in DiskNos, s \in Slots : slots'[s] = Disk(n, d) => slots[s] = Disk(n, d)
  BY DEF OthersStay
<1>3. \A d \in DiskNos, s \in Slots : Placed(n, d, s) => Placed(n, d, s)'
  BY <1>2 DEF Placed
<1>4. \A d \in DiskNos : Disk(n, d)' = Disk(n, d)
  BY DEF Disk
<1> QED BY <1>1, <1>2, <1>3, <1>4 DEF LeftOf

(* A step of m that attaches and detaches nothing.                          *)
Onwards(m) ==
  /\ UNCHANGED <<slots, key>>
  /\ pc'[m] \notin {"start", "find", "deleteSnap"}
  /\ pc'[m] = "lock" => pc[m] = "start"
  /\ pc'[m] \in AttachPcs => pc[m] \in {"lock", "keys", "slot"} /\ disk'[m] = disk[m]
  /\ pc'[m] = "detach" => disk'[m] = 1
  /\ pc'[m] \in {"uncount", "subtract"} => pc[m] \in {"deleteSnap", "uncount", "subtract"}
  /\ m \in snap' \/ pc'[m] \in {"uncount", "subtract"} \cup Ended
  /\ m \notin snap' => m \notin snap \/ pc[m] = "deleteSnap"
  /\ ok'[m] /\ pc'[m] \in CleanupPcs \cup Ended => ok[m] /\ pc[m] \in {"copy"} \cup CleanupPcs

LEMMA OnwardsKeeps ==
  ASSUME TypeInv, SnapInv, NEW m \in Migrations, Onwards(m)
  PROVE  LeftOf(m)'
<1>1. LeftOf(m) /\ KnownOf(m)
  BY DEF SnapInv, TypeInv, KeysKnown
<1>2. UNCHANGED <<slots, key>>
  BY DEF Onwards
<1>3. pc'[m] \in {"start", "lock"} => \A d \in DiskNos : key'[m][d] = 0
  BY <1>1, <1>2 DEF Onwards, LeftOf
<1>4. pc'[m] \in AttachPcs => \A d \in DiskNos : disk'[m] <= d => key'[m][d] = 0
  BY <1>1, <1>2 DEF Onwards, LeftOf, AttachPcs
<1>5. ok'[m] /\ pc'[m] \in CleanupPcs \cup Ended => \A d \in DiskNos : key'[m][d] # 0
  BY <1>1, <1>2 DEF Onwards, LeftOf, KnownOf
<1>6. ASSUME NEW d \in DiskNos, NEW s \in Slots, slots[s] = Disk(m, d)
      PROVE  Placed(m, d, s)'
  <2>1. Placed(m, d, s)
    BY <1>1, <1>6 DEF LeftOf
  <2>2. pc'[m] \notin {"start", "lock"}
    BY <2>1 DEF Onwards, Placed
  <2>3. pc'[m] \in AttachPcs => d < disk'[m]
    BY <2>1 DEF Onwards, Placed, AttachPcs
  <2>4. ~ d < 1
    BY Numbers DEF DiskNos
  <2>5. m \notin snap' \/ pc'[m] \in {"deleteSnap", "uncount", "subtract"} => key[m][d] = 0
    BY <2>1 DEF Onwards, Placed
  <2> QED BY <1>2, <2>1, <2>2, <2>3, <2>4, <2>5 DEF Onwards, Placed
<1>7. \A d \in DiskNos : Disk(m, d)' = Disk(m, d)
  BY DEF Disk
<1> QED BY <1>2, <1>3, <1>4, <1>5, <1>6, <1>7 DEF Onwards, LeftOf

(* Most steps are of that kind; those that are not follow one by one.       *)
LEMMA OnwardSteps ==
  ASSUME TypeInv, SnapInv, NEW m \in Migrations,
         \/ Prepare(m) \/ acquire(m) \/ WaitForProxyVMLockFails(m) \/ ReleaseLock(m)
         \/ KeysBefore(m) \/ AssignController(m) \/ CopyStep(m) \/ Crash(m)
         \/ KillServers(m) \/ DeleteSnapshot(m) \/ CountDown(m) \/ SubtractCount(m)
  PROVE  Onwards(m) /\ OthersStay(m)
<1>1. LeftOf(m) /\ PlaceType /\ AttachType
  BY DEF SnapInv, TypeInv, Types
<1>2. m \in snap \/ pc[m] \in {"start", "uncount", "subtract"} \cup Ended
  BY <1>1 DEF LeftOf
<1> USE <1>1, <1>2 DEF Goto, Error, At, Onwards, OthersStay, PlaceType, Holders, Running, AttachPcs,
        CleanupPcs, Ended
<1>3. CASE Prepare(m)
  BY <1>3 DEF Prepare, attachVars
<1>4. CASE acquire(m)
  BY <1>4 DEF acquire, proxyVars, attachVars
<1>5. CASE WaitForProxyVMLockFails(m)
  BY <1>5 DEF WaitForProxyVMLockFails, proxyVars, attachVars
<1>6. CASE ReleaseLock(m)
  BY <1>6 DEF ReleaseLock, proxyVars, attachVars
<1>7. CASE KeysBefore(m)
  BY <1>7 DEF KeysBefore, proxyVars
<1>8. CASE AssignController(m)
  <2>1. \A n \in Migrations \ {m} : pick'[n] = pick[n]
    BY <1>8 DEF AssignController, AttachType
  <2> QED BY <1>8, <2>1 DEF AssignController, proxyVars
<1>9. CASE CountUp(m) \/ AddCount(m)
  BY <1>9 DEF CountUp, CountThen, AddCount, proxyVars, attachVars
<1>10. CASE identifyBlockDevices(m) \/ AllocatePorts(m)
  BY <1>10 DEF identifyBlockDevices, AllocatePorts, proxyVars, attachVars
<1>11. CASE CallFails(m) \/ WaitForJobs(m)
  BY <1>11 DEF CallFails, WaitForJobs, proxyVars, attachVars
<1>12. CASE \E d \in DiskNos : serveViaNBD(m, d) \/ runNBDCopy(m, d)
  BY <1>12 DEF serveViaNBD, runNBDCopy, Job, proxyVars, attachVars
<1>13. CASE Crash(m)
  BY <1>13 DEF Crash, proxyVars, attachVars
<1>14. CASE KillServers(m)
  BY <1>14, Numbers DEF KillServers, attachVars
<1>15. CASE DeleteSnapshot(m)
  BY <1>15 DEF DeleteSnapshot, Outcome, attachVars
<1>16. CASE CountDown(m) \/ SubtractCount(m)
  BY <1>16 DEF CountDown, CountThen, SubtractCount, Outcome, proxyVars, attachVars
<1> QED BY <1>3, <1>4, <1>5, <1>6, <1>7, <1>8, <1>9, <1>10, <1>11, <1>12, <1>13, <1>14, <1>15, <1>16
        DEF CopyStep

(* A disk is added only under its migration's snapshot.                     *)
LEMMA AddKeepsSnap ==
  ASSUME Inv, TypeInv, SnapInv, NEW m \in Migrations, AddDevice(m) \/ AttachFails(m)
  PROVE  SnapInv'
<1> USE DEF Goto, Error, At
<1>1. LeftOf(m) /\ KnownOf(m) /\ PlaceType /\ slots \in [Slots -> DiskSet]
  BY DEF SnapInv, TypeInv, KeysKnown, Types, ProxyType
<1>2. /\ pc[m] \in AttachPcs /\ disk[m] \in DiskNos /\ (pc[m] = "add" => pick[m] \in Slots)
      /\ UNCHANGED <<snap, key, pick, disk>>
      /\ \/ pc'[m] = "find" /\ pc[m] = "add"
         \/ pc'[m] = "release" /\ ok'[m] = FALSE
      /\ \A n \in Migrations \ {m} : pc'[n] = pc[n] /\ ok'[n] = ok[n]
  <2>1. disk[m] \in DiskNos /\ (pc[m] = "add" => pick[m] \in Slots)
    BY <1>1 DEF PlaceType, Inv, NothingNew
  <2>2. CASE AddDevice(m)
    BY <1>1, <2>1, <2>2 DEF AddDevice, PlaceType, attachVars, AttachPcs
  <2>3. CASE AttachFails(m)
    BY <1>1, <2>1, <2>3 DEF AttachFails, PlaceType, attachVars
  <2> QED BY <2>2, <2>3
<1>3. slots' = slots \/ (pc[m] = "add" /\ slots' = [slots EXCEPT ![pick[m]] = Disk(m, disk[m])])
  BY DEF AddDevice, AttachFails
<1>4. OthersStay(m)
  <2> SUFFICES ASSUME NEW n \in Migrations \ {m}, NEW d \in DiskNos, NEW s \in Slots,
                      slots'[s] = Disk(n, d)
               PROVE  slots[s] = Disk(n, d)
    BY <1>2 DEF OthersStay
  <2>1. Disk(m, disk[m]) # Disk(n, d)
    BY <1>2, DiskInjective
  <2> QED BY <1>1, <1>2, <1>3, <2>1
<1>5. ASSUME NEW d \in DiskNos, NEW s \in Slots, slots'[s] = Disk(m, d)
      PROVE  Placed(m, d, s)'
  <2>1. /\ m \in snap /\ pc'[m] \in {"find", "release"} /\ pc[m] \in AttachPcs
        /\ m \in snap'
    BY <1>1, <1>2 DEF LeftOf, AttachPcs, Ended
  <2>2. CASE slots[s] = Disk(m, d) /\ Placed(m, d, s)
    <3>1. pc'[m] = "find" => d < disk[m]
      BY <1>2, <2>2 DEF Placed
    <3> QED BY <1>2, <2>1, <2>2, <3>1 DEF Placed, AttachPcs
  <2>3. CASE pc[m] = "add" /\ s = pick[m] /\ d = disk[m]
    <3>1. key[m][d] = 0
      BY <1>1, <2>1, <2>3, Numbers DEF LeftOf
    <3>2. \A e \in DiskNos : e < d => key[m][e] # 0
      BY <1>1, <2>1, <2>3 DEF KnownOf
    <3> QED BY <1>2, <2>1, <2>3, <3>1, <3>2 DEF Placed, AttachPcs
  <2>4. CASE slots[s] # Disk(m, d)
    <3>1. pc[m] = "add" /\ s = pick[m] /\ Disk(m, disk[m]) = Disk(m, d)
      BY <1>1, <1>2, <1>3, <1>5, <2>4
    <3>2. d = disk[m]
      BY <1>2, <3>1, DiskInjective
    <3> QED BY <2>3, <3>1, <3>2
  <2> QED BY <1>1, <2>2, <2>4 DEF LeftOf
<1>6. LeftOf(m)'
  <2>1. \A d \in DiskNos : Disk(m, d)' = Disk(m, d)
    BY DEF Disk
  <2>2. m \in snap'
    BY <1>1, <1>2 DEF LeftOf, AttachPcs, Ended
  <2>3. pc'[m] \in {"find", "release"} /\ pc'[m] \notin CleanupPcs \cup Ended \cup {"start", "lock"}
    BY <1>2 DEF CleanupPcs, Ended
  <2> QED BY <1>1, <1>2, <1>5, <2>1, <2>2, <2>3 DEF LeftOf
<1> QED BY <1>4, <1>6, LeftKeeps

(* The key that is found is that of the slot the disk went to.              *)
LEMMA FindKeepsSnap ==
  ASSUME Inv, TypeInv, SnapInv, NEW m \in Migrations, KeysAfter(m)
  PROVE  SnapInv'
<1> USE DEF Goto, Error, At
<1>1. LeftOf(m) /\ KnownOf(m) /\ PlaceType /\ AttachType
  BY DEF SnapInv, TypeInv, KeysKnown, Types
<1>2. /\ pc[m] = "find" /\ disk[m] \in DiskNos /\ pick[m] \in Slots
      /\ getDiskKeys \ before[m] \subseteq {pick[m]}
      /\ UNCHANGED <<snap, slots>> /\ m \in snap
  BY <1>1 DEF KeysAfter, PlaceType, Inv, NothingNew, proxyVars, LeftOf, Ended
<1>3. key' = key \/ key' = [key EXCEPT ![m][disk[m]] = pick[m]]
  BY <1>2 DEF KeysAfter
<1>4. \A n \in Migrations \ {m} : /\ pc'[n] = pc[n] /\ ok'[n] = ok[n] /\ disk'[n] = disk[n]
                                  /\ pick'[n] = pick[n] /\ key'[n] = key[n]
  BY <1>1, <1>3 DEF KeysAfter, PlaceType, AttachType
<1>5. \A d \in DiskNos : \/ key'[m][d] = key[m][d]
                         \/ d = disk[m] /\ key'[m][d] = pick[m]
  BY <1>1, <1>2, <1>3 DEF AttachType
<1>6. \/ pc'[m] = "release"
      \/ pc'[m] = "keys" /\ disk'[m] = disk[m] + 1 /\ key'[m][disk[m]] # 0
  <2>1. pick[m] # 0
    BY <1>2, Numbers
  <2> QED BY <1>1, <1>2, <2>1 DEF KeysAfter, PlaceType, AttachType
<1>7. ASSUME NEW d \in DiskNos, NEW s \in Slots, slots[s] = Disk(m, d)
      PROVE  Placed(m, d, s)'
  <2>1. Placed(m, d, s)
    BY <1>1, <1>7 DEF LeftOf
  <2>2. d < disk[m] \/ (d = disk[m] /\ s = pick[m])
    BY <1>2, <2>1 DEF Placed, AttachPcs
  <2>3. key'[m][d] \in {0, s}
    BY <1>5, <2>1, <2>2, <1>2, Numbers DEF Placed
  <2>4. \A e \in DiskNos : e < d => key'[m][e] # 0
    BY <1>2, <1>5, <2>1, Numbers DEF Placed
  <2>5. disk[m] \in Int /\ d \in Int
    BY <1>2, Numbers
  <2>6. pc'[m] \in AttachPcs => d < disk'[m]
    BY <1>6, <2>2, <2>5 DEF AttachPcs
  <2>7. /\ pc'[m] \notin {"start", "lock", "detach", "deleteSnap", "uncount", "subtract"}
        /\ m \in snap'
    BY <1>2, <1>6
  <2> QED BY <2>3, <2>4, <2>6, <2>7 DEF Placed
<1>8. LeftOf(m)'
  <2>1. \A d \in DiskNos : Disk(m, d)' = Disk(m, d)
    BY DEF Disk
  <2>2. ASSUME NEW d \in DiskNos, pc'[m] = "keys", disk[m] + 1 <= d PROVE key'[m][d] = 0
    <3>1. disk[m] <= d /\ d # disk[m]
      BY <1>2, <2>2, Numbers
    <3> QED BY <1>1, <1>2, <1>5, <3>1 DEF LeftOf, AttachPcs
  <2>3. pc'[m] \notin {"start", "lock"} \cup CleanupPcs \cup Ended
    BY <1>6 DEF CleanupPcs, Ended
  <2>4. pc'[m] \in AttachPcs => pc'[m] = "keys" /\ disk'[m] = disk[m] + 1
    BY <1>6 DEF AttachPcs
  <2> QED BY <1>2, <1>7, <2>1, <2>2, <2>3, <2>4 DEF LeftOf
<1> QED BY <1>2, <1>4, <1>8, LeftKeeps DEF OthersStay

LEMMA DetachKeepsSnap ==
  ASSUME MaxLeftovers = 0, TypeInv, SnapInv, NEW m \in Migrations, Detach(m)
  PROVE  SnapInv'
<1> USE DEF Goto, Error, At
<1> DEFINE k == key[m][disk[m]]
<1>1. LeftOf(m) /\ PlaceType /\ AttachType /\ slots \in [Slots -> DiskSet] /\ budget \in Budget
  BY DEF SnapInv, TypeInv, Types, ProxyType
<1>2. /\ budget["leftover"] \in Nat /\ disk[m] \in DiskNos /\ k \in 0 .. NumSlots
      /\ pc[m] = "detach" /\ m \in snap
  BY <1>1 DEF Budget, PlaceType, AttachType, Detach, LeftOf, Ended
<1>3. /\ UNCHANGED <<snap, key, pick, ok>>
      /\ slots' = IF k = 0 THEN slots ELSE [slots EXCEPT ![k] = NoDisk]
  BY <1>2 DEF Detach, Spend, attachVars
<1>4. /\ \A n \in Migrations \ {m} : pc'[n] = pc[n] /\ disk'[n] = disk[n]
      /\ \/ pc'[m] = "detach" /\ disk[m] < NumDisks /\ disk'[m] = disk[m] + 1
         \/ pc'[m] = "deleteSnap" /\ ~ disk[m] < NumDisks
  BY <1>1 DEF Detach, NextDetach, PlaceType
<1>5. \A n \in Migrations, d \in DiskNos, s \in Slots :
        slots'[s] = Disk(n, d) => slots[s] = Disk(n, d) /\ (k # 0 => s # k)
  BY <1>1, <1>3, DiskNotNone
<1>6. ASSUME NEW d \in DiskNos, NEW s \in Slots, slots'[s] = Disk(m, d)
      PROVE  Placed(m, d, s)'
  <2>1. Placed(m, d, s) /\ (k # 0 => s # k)
    BY <1>1, <1>5, <1>6 DEF LeftOf
  <2>2. d <= disk[m] => key[m][d] = 0
    <3>1. d < disk[m] => key[m][d] = 0
      BY <1>2, <2>1 DEF Placed
    <3>2. d = disk[m] => key[m][d] = 0
      BY <2>1 DEF Placed
    <3> QED BY <1>2, <3>1, <3>2, Numbers
  <2>3. d \in Int /\ disk[m] \in Int /\ NumDisks \in Int /\ d <= NumDisks
    BY <1>2, Numbers DEF DiskNos
  <2>4. pc'[m] = "detach" /\ d < disk'[m] => key[m][d] = 0
    BY <1>4, <2>2, <2>3
  <2>5. pc'[m] = "deleteSnap" => key[m][d] = 0
    BY <1>4, <2>2, <2>3
  <2> QED BY <1>2, <1>3, <1>4, <2>1, <2>4, <2>5 DEF Placed, AttachPcs
<1>7. LeftOf(m)'
  <2>1. \A d \in DiskNos : Disk(m, d)' = Disk(m, d)
    BY DEF Disk
  <2>2. pc'[m] \in CleanupPcs /\ pc'[m] \notin {"start", "lock"} \cup AttachPcs /\ pc[m] \in CleanupPcs
    BY <1>2, <1>4 DEF CleanupPcs, AttachPcs
  <2> QED BY <1>1, <1>2, <1>3, <1>6, <2>1, <2>2 DEF LeftOf
<1>8. OthersStay(m)
  BY <1>3, <1>4, <1>5 DEF OthersStay
<1> QED BY <1>7, <1>8, LeftKeeps

LEMMA SnapInit == Init => SnapInv
<1> SUFFICES ASSUME Init, NEW m \in Migrations PROVE LeftOf(m)
  BY DEF SnapInv
<1>1. \A d \in DiskNos, s \in Slots : slots[s] # Disk(m, d)
  BY DiskNotNone DEF Init
<1> QED BY <1>1 DEF Init, LeftOf, AttachPcs, CleanupPcs, Ended

LEMMA SnapNext ==
  ASSUME MaxLeftovers = 0, Inv, TypeInv, SnapInv, [Next]_vars
  PROVE  SnapInv'
<1>1. ASSUME NEW m \in Migrations, Helper(m) \/ Crash(m) PROVE SnapInv'
  <2>1. CASE AddDevice(m) \/ AttachFails(m) \/ KeysAfter(m) \/ Detach(m)
    BY <2>1, AddKeepsSnap, FindKeepsSnap, DetachKeepsSnap
  <2>2. CASE \/ Prepare(m) \/ acquire(m) \/ WaitForProxyVMLockFails(m) \/ ReleaseLock(m)
             \/ KeysBefore(m) \/ AssignController(m) \/ CopyStep(m) \/ Crash(m)
             \/ KillServers(m) \/ DeleteSnapshot(m) \/ CountDown(m) \/ SubtractCount(m)
    BY <2>2, OnwardSteps, OnwardsKeeps, LeftKeeps
  <2> QED BY <1>1, <2>1, <2>2 DEF Helper, AttachStep, CleanupStep
<1>2. ASSUME \/ UNCHANGED vars \/ VpwnedRestarts
             \/ \E m \in Migrations : PhaseFailed(m) \/ MigrationDeleted(m)
      PROVE  SnapInv'
  <2>1. UNCHANGED <<slots, pick, key, pc, ok, disk, snap>>
    BY <1>2 DEF vars, proxyVars, attachVars, VpwnedRestarts, PhaseFailed, MigrationDeleted
  <2> QED BY <2>1 DEF SnapInv, LeftOf, Placed, Disk
<1> QED BY <1>1, <1>2 DEF Next, AllEnded

(* The snapshot that freezes a migration's disks outlives their attachment  *)
(* to the Proxy VM (cleanupHotAdd): when it goes, no disk is left there but *)
(* perhaps, after an error, the one at which the attaching stopped.  For    *)
(* every number of migrations, disks, failed calls, lost releases and dead  *)
(* pods, unless a detach itself fails or a holder loses the lock to another.*)
THEOREM SnapshotStays ==
  ASSUME MaxLeftovers = 0, Alone \/ (MaxRestarts = 0 /\ MaxDeletes = 0)
  PROVE  Spec => []SnapshotLast
<1> DEFINE All == Inv /\ TypeInv /\ SnapInv
<1>1. Init => All
  BY InvInit, TypeInit, SnapInit
<1>2. All /\ [Next]_vars => All'
  BY InvNext, TypeNext, SnapNext
<1>3. All => SnapshotLast
  <2> SUFFICES ASSUME All, NEW m \in Migrations, NEW d \in DiskNos, NEW s \in Slots,
                      m \notin snap, slots[s] = Disk(m, d)
               PROVE  ~ ok[m] /\ key[m][d] = 0 /\ \A e \in DiskNos : e < d => key[m][e] # 0
    BY DEF SnapshotLast
  <2>1. LeftOf(m) /\ Placed(m, d, s)
    BY DEF SnapInv, LeftOf
  <2>2. pc[m] \in CleanupPcs \cup Ended /\ key[m][d] = 0
    BY <2>1 DEF LeftOf, Placed, CleanupPcs
  <2> QED BY <2>1, <2>2 DEF LeftOf, Placed
<1> QED BY <1>1, <1>2, <1>3, PTL DEF Spec

-----------------------------------------------------------------------------
(* One migration on the Proxy VM.  Its ports are free when it takes them    *)
(* and no two of its disks have the same one, so that each port is served   *)
(* for the disk it belongs to, and nbdcopy reads that disk.                 *)
Served(m, d) ==
  /\ port[m][d] \in Ports
  /\ \A e \in DiskNos \ {d} : port[m][e] # port[m][d]
  /\ dev[m][d] = Disk(m, d)
  /\ job[m][d] = "serve" => servers[port[m][d]] = NoServer
  /\ job[m][d] = "copy" => servers[port[m][d]] = Server(m, d, Disk(m, d))
  /\ job[m][d] = "copied" => got[m][d] = Disk(m, d)

AllOwn(m) == \A d \in DiskNos : got[m][d] = Disk(m, d)

CopyOf(m) ==
  /\ pc[m] \in BeforeCopy => \A d \in DiskNos : job[m][d] = "serve"
  /\ At(m, "ports") => \A d \in DiskNos : dev[m][d] = Disk(m, d)
  /\ At(m, "copy") => \A d \in DiskNos : Served(m, d)
  /\ pc[m] \in CleanupPcs \cup {"done"} /\ ok[m] => AllOwn(m)
  /\ At(m, "done") => ok[m]

CopyInv == \A m \in Migrations : CopyOf(m)

LEMMA ServerIsOne ==
  ASSUME NEW m \in Migrations, NEW d \in DiskNos
  PROVE  /\ Server(m, d, Disk(m, d)) # NoServer
         /\ Server(m, d, Disk(m, d)).disk = Disk(m, d)
BY Numbers DEF Server, NoServer, Disk

(* The steps up to the copy, and those after it, do not touch the jobs.     *)
LEMMA CopyUntouched ==
  ASSUME TypeInv, CopyInv, NEW m \in Migrations, UNCHANGED <<job, got>>,
         \/ pc[m] \in BeforeCopy /\ pc'[m] \in BeforeCopy \ {"ports"}
         \/ pc'[m] \in {"kill", "failed", "crashed"} /\ ~ ok'[m]
         \/ /\ pc[m] \in CleanupPcs /\ pc'[m] \in CleanupPcs \cup {"done"}
            /\ ok' = ok /\ (pc'[m] = "done" => ok[m])
         \/ pc[m] \in CleanupPcs /\ pc'[m] = "failed"
  PROVE  CopyOf(m)'
BY DEF CopyInv, CopyOf, At, BeforeCopy, AttachPcs, CleanupPcs, AllOwn, Disk

LEMMA AttachCopies ==
  ASSUME TypeInv, CopyInv, NEW m \in Migrations,
         Prepare(m) \/ AttachStep(m) \/ CountUp(m) \/ AddCount(m) \/ CallFails(m)
  PROVE  CopyOf(m)'
<1> USE DEF Goto, Error, At
<1>1. UNCHANGED <<job, got>>
  BY DEF Prepare, AttachStep, acquire, WaitForProxyVMLockFails, KeysBefore, AssignController, AddDevice,
         KeysAfter, AttachFails, ReleaseLock, CountUp, CountThen, AddCount, CallFails, copyVars
<1>2. /\ pc[m] \in BeforeCopy
      /\ \/ pc'[m] \in BeforeCopy \ {"ports"}
         \/ pc'[m] \in {"kill", "failed"} /\ ~ ok'[m]
  <2> USE DEF TypeInv, Types, PlaceType, BeforeCopy, AttachPcs
  <2>1. CASE Prepare(m) \/ acquire(m) \/ WaitForProxyVMLockFails(m)
    BY <2>1 DEF Prepare, acquire, WaitForProxyVMLockFails
  <2>2. CASE KeysBefore(m) \/ AssignController(m) \/ AddDevice(m) \/ KeysAfter(m) \/ AttachFails(m)
    BY <2>2 DEF KeysBefore, AssignController, AddDevice, KeysAfter, AttachFails
  <2>3. CASE ReleaseLock(m) \/ CountUp(m) \/ AddCount(m) \/ CallFails(m)
    BY <2>3 DEF ReleaseLock, CountUp, CountThen, AddCount, CallFails
  <2> QED BY <2>1, <2>2, <2>3 DEF AttachStep
<1> QED BY <1>1, <1>2, CopyUntouched

LEMMA CleanupCopies ==
  ASSUME TypeInv, CopyInv, NEW m \in Migrations, CleanupStep(m) \/ Crash(m)
  PROVE  CopyOf(m)'
<1> USE DEF Goto, Error, At
<1>1. UNCHANGED <<job, got>>
  BY DEF CleanupStep, KillServers, Detach, DeleteSnapshot, CountDown, CountThen, SubtractCount, Crash, copyVars
<1>2. CASE Crash(m)
  <2>1. pc'[m] = "crashed" /\ ~ ok'[m]
    BY <1>2 DEF Crash, TypeInv, Types, PlaceType
  <2> QED BY <1>1, <2>1, CopyUntouched
<1>3. CASE CleanupStep(m)
  <2>1. /\ pc[m] \in CleanupPcs /\ ok' = ok
        /\ pc'[m] \in {"detach", "deleteSnap", "uncount", "subtract", Outcome(m)}
    BY <1>3 DEF CleanupStep, KillServers, Detach, NextDetach, DeleteSnapshot, CountDown, CountThen,
       SubtractCount, TypeInv, Types, PlaceType, CleanupPcs
  <2> QED BY <1>1, <2>1, CopyUntouched DEF Outcome, CleanupPcs
<1> QED BY <1>2, <1>3

(* The keys are those of its own disks, and the ports are distinct.         *)
LEMMA IdentifyCopies ==
  ASSUME Inv, TypeInv, CopyInv, NEW m \in Migrations, identifyBlockDevices(m) \/ AllocatePorts(m)
  PROVE  CopyOf(m)'
<1> USE DEF Goto, Error, At
<1>1. UNCHANGED <<job, got, servers>> /\ pc[m] \in {"identify", "ports"}
  BY DEF identifyBlockDevices, AllocatePorts, proxyVars
<1>2. \/ identifyBlockDevices(m) /\ pc'[m] = "ports"
      \/ AllocatePorts(m) /\ pc'[m] = "copy"
      \/ pc'[m] = "kill" /\ ~ ok'[m]
  BY DEF identifyBlockDevices, AllocatePorts, TypeInv, Types, PlaceType
<1>3. CASE identifyBlockDevices(m) /\ pc'[m] = "ports"
  <2>1. \A d \in DiskNos : slots[key[m][d]] = Disk(m, d)
    <3>1. \A d \in DiskNos : key[m][d] # 0
      BY <1>3 DEF identifyBlockDevices, TypeInv, KeysKnown, KnownOf
    <3>2. \A d \in DiskNos : Holds(m, d)
      BY <1>3, <3>1 DEF identifyBlockDevices, Holds, CleanupPcs, Ended
    <3> QED BY <3>2 DEF Inv, OwnDisk
  <2>2. dev'[m] = [d \in DiskNos |-> slots[key[m][d]]]
    BY <1>3 DEF identifyBlockDevices, TypeInv, Types, PlaceType, CopyType
  <2> QED BY <1>1, <1>3, <2>1, <2>2 DEF CopyInv, CopyOf, BeforeCopy, CleanupPcs, Disk
<1>4. CASE AllocatePorts(m) /\ pc'[m] = "copy"
  <2>1. PICK f \in findFreePorts(m) : port' = [port EXCEPT ![m] = f]
    BY <1>4 DEF AllocatePorts, TypeInv, Types, PlaceType
  <2>2. /\ f \in [DiskNos -> FreePorts]
        /\ \A d, e \in DiskNos : d < e => f[d] < f[e]
    BY DEF findFreePorts
  <2>3. FreePorts \subseteq Nat /\ FreePorts \subseteq Ports
    BY DEF FreePorts, Ports
  <2>4. \A d, e \in DiskNos : d # e => f[d] # f[e]
    <3> SUFFICES ASSUME NEW d \in DiskNos, NEW e \in DiskNos, d # e PROVE f[d] # f[e]
      OBVIOUS
    <3>1. d < e \/ e < d
      BY Numbers
    <3>2. f[d] < f[e] \/ f[e] < f[d]
      BY <2>2, <3>1
    <3>3. f[d] \in Nat /\ f[e] \in Nat
      BY <2>2, <2>3
    <3> QED BY <3>2, <3>3
  <2>5. port'[m] = f
    BY <2>1 DEF TypeInv, Types, CopyType
  <2>6. \A d \in DiskNos : job[m][d] = "serve" /\ dev[m][d] = Disk(m, d) /\ UNCHANGED dev
    BY <1>4 DEF AllocatePorts, CopyInv, CopyOf, BeforeCopy
  <2>7. \A d \in DiskNos : Served(m, d)'
    BY <1>1, <2>2, <2>3, <2>4, <2>5, <2>6 DEF Served, FreePorts, Disk
  <2> QED BY <1>4, <2>7 DEF CopyOf, BeforeCopy, AttachPcs, CleanupPcs
<1>5. CASE pc'[m] = "kill" /\ ~ ok'[m]
  BY <1>1, <1>5, CopyUntouched
<1> QED BY <1>2, <1>3, <1>4, <1>5

(* A goroutine serves and copies its own disk.                              *)
LEMMA JobCopies ==
  ASSUME Inv, TypeInv, CopyInv, NEW m \in Migrations, NEW d \in DiskNos,
         serveViaNBD(m, d) \/ runNBDCopy(m, d)
  PROVE  CopyOf(m)'
<1>1. UNCHANGED <<pc, port, dev>> /\ pc[m] = "copy"
  BY DEF serveViaNBD, runNBDCopy, Job, At
<1>2. \A e \in DiskNos : Served(m, e)
  BY <1>1 DEF CopyInv, CopyOf, At
<1>3. /\ job[m] \in [DiskNos -> JobStates] /\ got[m] \in [DiskNos -> DiskSet]
      /\ job \in [Migrations -> [DiskNos -> JobStates]] /\ got \in [Migrations -> [DiskNos -> DiskSet]]
      /\ servers \in [Ports -> ServerSet]
  BY DEF TypeInv, Types, CopyType, ProxyType
<1>4. \A e \in DiskNos \ {d} : job'[m][e] = job[m][e] /\ got'[m][e] = got[m][e]
  BY <1>3 DEF serveViaNBD, runNBDCopy, Job
<1>5. \A e \in DiskNos \ {d} : servers'[port[m][e]] = servers[port[m][e]]
  BY <1>2, <1>3 DEF serveViaNBD, runNBDCopy, StartServer, Served, proxyVars
<1>6. Served(m, d)'
  <2>1. CASE serveViaNBD(m, d)
    <3>1. job[m][d] = "serve" /\ job'[m][d] \in {"copy", "unserved"}
      BY <1>3, <2>1 DEF serveViaNBD, Job
    <3>2. job'[m][d] = "copy" => StartServer(m, d)
      BY <1>3, <2>1 DEF serveViaNBD, Job
    <3>3. StartServer(m, d) => servers'[port[m][d]] = Server(m, d, Disk(m, d))
      BY <1>2, <1>3, <3>1 DEF StartServer, Served
    <3> QED BY <1>1, <1>2, <3>1, <3>2, <3>3 DEF Served, Disk, Server
  <2>2. CASE runNBDCopy(m, d)
    <3>1. job[m][d] = "copy" /\ UNCHANGED servers /\ job'[m][d] \in {"copied", "failed"}
      BY <1>3, <2>2 DEF runNBDCopy, Job, proxyVars
    <3>2. job'[m][d] = "copied" => got'[m][d] = Source(m, d) /\ Source(m, d) # NoDisk
      BY <1>3, <2>2 DEF runNBDCopy, Job
    <3>3. Source(m, d) # NoDisk => Source(m, d) = Disk(m, d)
      BY <1>2, <3>1, ServerIsOne DEF Source, Served
    <3> QED BY <1>1, <1>2, <3>1, <3>2, <3>3 DEF Served, Disk, Server
  <2> QED BY <2>1, <2>2
<1>7. \A e \in DiskNos : Served(m, e)'
  BY <1>1, <1>2, <1>4, <1>5, <1>6 DEF Served, Disk, Server
<1> QED BY <1>1, <1>7 DEF CopyOf, At, BeforeCopy, AttachPcs, CleanupPcs

LEMMA WaitCopies ==
  ASSUME TypeInv, CopyInv, NEW m \in Migrations, WaitForJobs(m)
  PROVE  CopyOf(m)'
<1> USE DEF Goto, Error, At
<1>1. UNCHANGED <<job, got>> /\ pc[m] = "copy" /\ pc'[m] = "kill"
  BY DEF WaitForJobs, copyVars, TypeInv, Types, PlaceType
<1>2. CASE \A d \in DiskNos : job[m][d] = "copied"
  <2>1. AllOwn(m)
    BY <1>1, <1>2 DEF CopyInv, CopyOf, Served, AllOwn
  <2> QED BY <1>1, <2>1 DEF CopyOf, BeforeCopy, AttachPcs, AllOwn, Disk
<1>3. CASE ~ \A d \in DiskNos : job[m][d] = "copied"
  <2>1. ~ ok'[m]
    BY <1>3 DEF WaitForJobs, TypeInv, Types, PlaceType
  <2> QED BY <1>1, <2>1, CopyUntouched
<1> QED BY <1>2, <1>3

LEMMA CopyNext ==
  ASSUME Alone, Inv, TypeInv, CopyInv, [Next]_vars
  PROVE  CopyInv'
<1>1. ASSUME NEW m \in Migrations, Helper(m) \/ Crash(m) PROVE CopyInv'
  <2>1. CopyOf(m)'
    BY <1>1, AttachCopies, CleanupCopies, IdentifyCopies, JobCopies, WaitCopies DEF Helper, CopyStep
  <2> QED BY <2>1 DEF CopyInv, Alone
<1>2. ASSUME \/ UNCHANGED vars \/ VpwnedRestarts
             \/ \E m \in Migrations : PhaseFailed(m) \/ MigrationDeleted(m)
      PROVE  CopyInv'
  <2>1. UNCHANGED <<servers, dev, port, job, got, pc, ok>>
    BY <1>2 DEF vars, VpwnedRestarts, PhaseFailed, MigrationDeleted, proxyVars, copyVars
  <2> QED BY <2>1 DEF CopyInv, CopyOf, Served, AllOwn, At, Disk, Server
<1> QED BY <1>1, <1>2 DEF Next, AllEnded

LEMMA CopyInit == Init => CopyInv
BY DEF Init, CopyInv, CopyOf, At, BeforeCopy, CleanupPcs

(* A migration that has the Proxy VM to itself reports success only with    *)
(* the data of its own disks on their volumes (hotadd_copy.go:592), for     *)
(* every number of disks, slots and ports, every failing call and clean-up, *)
(* and although vpwned may restart and the Migration be deleted.            *)
THEOREM CopiesItsOwn ==
  ASSUME Alone
  PROVE  Spec => []CopiedOwn
<1>1. Inv /\ TypeInv /\ CopyInv /\ [Next]_vars => Inv' /\ TypeInv' /\ CopyInv'
  BY InvNext, TypeNext, CopyNext
<1>2. CopyInv => CopiedOwn
  BY DEF CopyInv, CopyOf, AllOwn, CopiedOwn, At
<1>3. Init => Inv /\ TypeInv /\ CopyInv
  BY InvInit, TypeInit, CopyInit
<1> QED BY <1>1, <1>2, <1>3, PTL DEF Spec
=============================================================================
