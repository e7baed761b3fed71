------------------------------- MODULE HotAdd -------------------------------
(***************************************************************************)
(* HotAddCopyDisks of v2v-helper, run by the pods of several migrations    *)
(* that share one Proxy VM: each snapshots its source VM, attaches the     *)
(* frozen disks to the Proxy VM, serves them there with qemu-nbd, copies   *)
(* them with nbdcopy and cleans up.  Attaching is serialised by a lock     *)
(* that vpwned keeps in memory; detaching, the NBD ports and the count of  *)
(* attached disks in the ProxyVM's status are not.                         *)
(*                                                                         *)
(* Data.  A disk is a migration's n-th disk; its device key on the Proxy   *)
(* VM is the slot (controller and unit number) it sits in, which is how    *)
(* vCenter numbers disks.  The n-th transfer goes to the n-th volume: that *)
(* is its own if getFrozenVMDKs, which takes flat backings only, leaves    *)
(* out no disk that GetVMInfo lists, which leaves out raw device mappings  *)
(* only; nothing checks it, and the model takes it for granted.            *)
(***************************************************************************)
EXTENDS Integers, FiniteSets

CONSTANTS
  Migrations,  \* the migrations that use the Proxy VM
  None,        \* nobody
  NumDisks,    \* disks of each source VM
  NumSlots,    \* places for disks on the Proxy VM
  NumPorts,    \* ports HotAddPortRangeMin .. HotAddPortRangeMax
  MaxFaults,   \* bound: calls before the clean-up that fail
  MaxLeftovers,\* bound: clean-up calls that fail
  MaxLost,     \* bound: lock releases that do not reach vpwned
  MaxRestarts, \* bound: restarts of vpwned
  MaxDeletes,  \* bound: Migrations deleted while their pod runs
  MaxCrashes   \* bound: pods that die

DiskNos == 1 .. NumDisks
Slots == 1 .. NumSlots
Ports == 1 .. NumPorts

ASSUME HotAddAssumption ==
  /\ None \notin Migrations
  /\ {NumDisks, NumSlots, NumPorts} \subseteq Nat \ {0}
  /\ {MaxFaults, MaxLeftovers, MaxLost, MaxRestarts, MaxDeletes, MaxCrashes} \subseteq Nat

VARIABLES
  lock,     \* vpwned: the holder of the Proxy VM's lock, or None
  stale,    \* Migrations that are gone or in phase Failed
  slots,    \* the disk in each slot of the Proxy VM
  servers,  \* the qemu-nbd bound to each port: whose it is, what it serves
  count,    \* ProxyVM.Status.AttachedDiskCount
  snap,     \* migrations whose source VM has the hot-add snapshot
  pc,       \* where each helper is
  ok,       \* HotAddCopyDisks has met no error
  disk,     \* the index of its running loop over transfers
  before,   \* keysBefore
  pick,     \* the slot assigned to the disk being attached
  key,      \* transfers[d].DiskKey, 0: not attached
  dev,      \* transfers[d].BlockDevice, as the disk behind it
  port,     \* transfers[d].NBDPort
  job,      \* the goroutine that copies transfers[d]
  got,      \* the disk whose data transfers[d].DestDevice holds
  seen,     \* the AttachedDiskCount read by adjustProxyDiskCount
  budget    \* how often the bounded events happened

lockVars  == <<lock, stale>>
proxyVars == <<slots, servers, snap>>
attachVars == <<before, pick, key>>
copyVars  == <<dev, port, job, got>>
countVars == <<count, seen>>
vars == <<lockVars, proxyVars, attachVars, copyVars, countVars, pc, ok, disk, budget>>

Disk(m, d) == [vm |-> m, no |-> d]
NoDisk == [no |-> 0]
Server(m, d, what) == [by |-> m, no |-> d, disk |-> what]
NoServer == [no |-> 0]

AttachPcs == {"keys", "slot", "add", "find"}
CleanupPcs == {"kill", "detach", "deleteSnap", "uncount", "subtract"}
Running == {"start", "lock", "release", "count", "add_count", "identify", "ports",
            "copy"} \cup AttachPcs \cup CleanupPcs
Ended == {"done", "failed", "crashed"}

At(m, label) == pc[m] = label
Goto(m, label) == pc' = [pc EXCEPT ![m] = label]
Error(m, label) == Goto(m, label) /\ ok' = [ok EXCEPT ![m] = FALSE]
Spend(what, max) ==
  /\ budget[what] < max
  /\ budget' = [budget EXCEPT ![what] = @ + 1]

Init ==
  /\ lock = None /\ stale = {}
  /\ slots = [s \in Slots |-> NoDisk] /\ servers = [p \in Ports |-> NoServer]
  /\ count = 0 /\ snap = {}
  /\ pc = [m \in Migrations |-> "start"]
  /\ ok = [m \in Migrations |-> TRUE]
  /\ disk = [m \in Migrations |-> 1]
  /\ before = [m \in Migrations |-> {}]
  /\ pick = [m \in Migrations |-> 0]
  /\ key = [m \in Migrations |-> [d \in DiskNos |-> 0]]
  /\ dev = [m \in Migrations |-> [d \in DiskNos |-> NoDisk]]
  /\ port = [m \in Migrations |-> [d \in DiskNos |-> 0]]
  /\ job = [m \in Migrations |-> [d \in DiskNos |-> "serve"]]
  /\ got = [m \in Migrations |-> [d \in DiskNos |-> NoDisk]]
  /\ seen = [m \in Migrations |-> 0]
  /\ budget = [fault |-> 0, leftover |-> 0, lost |-> 0, restart |-> 0,
               delete |-> 0, crash |-> 0]

-----------------------------------------------------------------------------
(* The preparation concerns the migration's own VM only: power off, replace *)
(* the snapshot, connect.  An error removes the snapshot, or tries to.      *)

Prepare(m) ==
  /\ At(m, "start")
  /\ \/ snap' = snap \cup {m} /\ Goto(m, "lock") /\ UNCHANGED <<ok, budget>>
     \/ /\ Spend("fault", MaxFaults) /\ Error(m, "failed")
        /\ snap' \in {snap, snap \cup {m}}
  /\ UNCHANGED <<lockVars, slots, servers, attachVars, copyVars, countVars, disk>>

-----------------------------------------------------------------------------
(* The lock. *)

(* Mutant: whoever holds the lock is taken for stale.                       *)
GrantedAlways(m) == TRUE

Granted(m) == lock \in {None, m} \cup stale

(* The answer may be lost: the helper gives up without a release.           *)
acquire(m) ==
  /\ At(m, "lock") /\ Granted(m)
  /\ lock' = m
  /\ \/ Goto(m, "keys") /\ UNCHANGED <<ok, budget>>
     \/ Spend("fault", MaxFaults) /\ Error(m, "kill")
  /\ UNCHANGED <<stale, proxyVars, attachVars, copyVars, countVars, disk>>

(* It polls while the lock is another's, until it times out; any other      *)
(* error ends the wait at once.                                             *)
WaitForProxyVMLockFails(m) ==
  /\ At(m, "lock")
  /\ \/ ~ Granted(m) /\ UNCHANGED budget
     \/ Spend("fault", MaxFaults)
  /\ Error(m, "kill")
  /\ UNCHANGED <<lockVars, proxyVars, attachVars, copyVars, countVars, disk>>

(* Mutant: the lock is kept.                                                *)
releaseNothing(m) == UNCHANGED lock

release(m) == lock' = IF lock = m THEN None ELSE lock

(* Deferred in attachAllDisks; an error is only logged.                     *)
ReleaseLock(m) ==
  /\ At(m, "release")
  /\ \/ release(m) /\ UNCHANGED budget
     \/ Spend("lost", MaxLost) /\ UNCHANGED lock
  /\ Goto(m, IF ok[m] THEN "count" ELSE "kill")
  /\ UNCHANGED <<stale, proxyVars, attachVars, copyVars, countVars, ok, disk>>

(* SetupMigrationPhase reports a helper's error; the migration of a helper  *)
(* that copied its disks may still fail later.                              *)
PhaseFailed(m) ==
  /\ pc[m] \in {"failed", "done"} /\ m \notin stale
  /\ stale' = stale \cup {m}
  /\ UNCHANGED <<lock, proxyVars, attachVars, copyVars, countVars, pc, ok, disk, budget>>

(* The object is gone at once, the pod has a grace period of two minutes.   *)
MigrationDeleted(m) ==
  /\ pc[m] \in Running /\ m \notin stale
  /\ Spend("delete", MaxDeletes)
  /\ stale' = stale \cup {m}
  /\ UNCHANGED <<lock, proxyVars, attachVars, copyVars, countVars, pc, ok, disk>>

VpwnedRestarts ==
  /\ lock # None /\ lock' = None
  /\ Spend("restart", MaxRestarts)
  /\ UNCHANGED <<stale, proxyVars, attachVars, copyVars, countVars, pc, ok, disk>>

(* The pod dies, or its grace period ends.                                  *)
Crash(m) ==
  /\ pc[m] \in Running
  /\ IF m \in stale THEN UNCHANGED budget ELSE Spend("crash", MaxCrashes)
  /\ Error(m, "crashed")
  /\ UNCHANGED <<lockVars, proxyVars, attachVars, copyVars, countVars, disk>>

-----------------------------------------------------------------------------
(* attachDiskToProxy: four calls to vCenter.                                *)

getDiskKeys == {s \in Slots : slots[s] # NoDisk}

(* Mutant: the keys before the attach are not read.                         *)
KeysBeforeSkipped(m) ==
  /\ At(m, "keys") /\ Goto(m, "slot")
  /\ UNCHANGED <<lockVars, proxyVars, attachVars, copyVars, countVars, ok, disk, budget>>

KeysBefore(m) ==
  /\ At(m, "keys") /\ Goto(m, "slot")
  /\ before' = [before EXCEPT ![m] = getDiskKeys]
  /\ UNCHANGED <<lockVars, proxyVars, pick, key, copyVars, countVars, ok, disk, budget>>

AssignController(m) ==
  /\ At(m, "slot")
  /\ LET free == Slots \ getDiskKeys
     IN IF free = {}
        THEN Error(m, "release") /\ UNCHANGED pick
        ELSE /\ \E s \in free : /\ \A t \in free : s <= t
                               /\ pick' = [pick EXCEPT ![m] = s]
             /\ Goto(m, "add") /\ UNCHANGED ok
  /\ UNCHANGED <<lockVars, proxyVars, before, key, copyVars, countVars, disk, budget>>

AddDevice(m) ==
  /\ At(m, "add")
  /\ IF slots[pick[m]] # NoDisk
     THEN Error(m, "release") /\ UNCHANGED slots
     ELSE /\ slots' = [slots EXCEPT ![pick[m]] = Disk(m, disk[m])]
          /\ Goto(m, "find") /\ UNCHANGED ok
  /\ UNCHANGED <<lockVars, servers, snap, attachVars, copyVars, countVars, disk, budget>>

(* Any new key is taken for the new disk's.                                 *)
KeysAfter(m) ==
  /\ At(m, "find")
  /\ LET new == getDiskKeys \ before[m]
     IN IF new = {}
        THEN Error(m, "release") /\ UNCHANGED <<key, disk>>
        ELSE /\ \E k \in new : key' = [key EXCEPT ![m][disk[m]] = k]
             /\ UNCHANGED ok
             /\ IF disk[m] < NumDisks
                THEN disk' = [disk EXCEPT ![m] = @ + 1] /\ Goto(m, "keys")
                ELSE disk' = [disk EXCEPT ![m] = 1] /\ Goto(m, "release")
  /\ before' = [before EXCEPT ![m] = {}]
  /\ pick' = [pick EXCEPT ![m] = 0]
  /\ UNCHANGED <<lockVars, proxyVars, copyVars, countVars, budget>>

(* A call fails, AddDevice perhaps after the disk was attached.             *)
AttachFails(m) ==
  /\ pc[m] \in AttachPcs
  /\ Spend("fault", MaxFaults)
  /\ \/ UNCHANGED slots
     \/ /\ At(m, "add") /\ slots[pick[m]] = NoDisk
        /\ slots' = [slots EXCEPT ![pick[m]] = Disk(m, disk[m])]
  /\ Error(m, "release")
  /\ UNCHANGED <<lockVars, servers, snap, attachVars, copyVars, countVars, disk>>

-----------------------------------------------------------------------------
(* adjustProxyDiskCount reads the status and writes the sum: the patch      *)
(* carries no resource version.  An error skips it.                         *)

Attached(m) == Cardinality({d \in DiskNos : key[m][d] # 0})
CountThen(m, at, next, end) ==
  /\ At(m, at)
  /\ \/ seen' = [seen EXCEPT ![m] = count] /\ Goto(m, next) /\ UNCHANGED budget
     \/ Spend("leftover", MaxLeftovers) /\ Goto(m, end) /\ UNCHANGED seen
  /\ UNCHANGED <<lockVars, proxyVars, attachVars, copyVars, count, ok, disk>>

(* Mutant: the sum may fall below zero.                                     *)
AddToCountUnclamped(m, delta) ==
  /\ count' = seen[m] + delta
  /\ seen' = [seen EXCEPT ![m] = 0]
AddToCount(m, delta) ==
  /\ count' = IF seen[m] + delta < 0 THEN 0 ELSE seen[m] + delta
  /\ seen' = [seen EXCEPT ![m] = 0]

CountUp(m) == CountThen(m, "count", "add_count", "identify")
AddCount(m) ==
  /\ At(m, "add_count") /\ Goto(m, "identify")
  /\ AddToCount(m, NumDisks)
  /\ UNCHANGED <<lockVars, proxyVars, attachVars, copyVars, ok, disk, budget>>

-----------------------------------------------------------------------------
(* identifyBlockDevices, findFreePorts and the copy of the disks.           *)

identifyBlockDevices(m) ==
  /\ At(m, "identify")
  /\ IF \A d \in DiskNos : slots[key[m][d]] # NoDisk
     THEN /\ dev' = [dev EXCEPT ![m] = [d \in DiskNos |-> slots[key[m][d]]]]
          /\ Goto(m, "ports") /\ UNCHANGED ok
     ELSE Error(m, "kill") /\ UNCHANGED dev
  /\ UNCHANGED <<lockVars, proxyVars, attachVars, port, job, got, countVars, disk, budget>>

FreePorts == {p \in Ports : servers[p] = NoServer}

(* Mutant: each disk looks for a port by itself.                            *)
findFreePortsOneByOne(m) ==
  {f \in [DiskNos -> FreePorts] : \A d \in DiskNos, p \in FreePorts : f[d] <= p}

(* The lowest free ports in order: one such f, if there are enough.         *)
findFreePorts(m) ==
  {f \in [DiskNos -> FreePorts] :
     \A d, e \in DiskNos, p \in FreePorts :
       /\ d < e => f[d] < f[e]
       /\ p < f[d] => p \in {f[c] : c \in DiskNos}}

AllocatePorts(m) ==
  /\ At(m, "ports")
  /\ IF Cardinality(FreePorts) < NumDisks
     THEN Error(m, "kill") /\ UNCHANGED port
     ELSE /\ \E f \in findFreePorts(m) : port' = [port EXCEPT ![m] = f]
          /\ Goto(m, "copy") /\ UNCHANGED ok
  /\ UNCHANGED <<lockVars, proxyVars, attachVars, dev, job, got, countVars, disk, budget>>

CallFails(m) ==
  /\ pc[m] \in {"identify", "ports"}
  /\ Spend("fault", MaxFaults) /\ Error(m, "kill")
  /\ UNCHANGED <<lockVars, proxyVars, attachVars, copyVars, countVars, disk>>

Job(m, d, from, to) ==
  /\ At(m, "copy") /\ job[m][d] = from
  /\ job' = [job EXCEPT ![m][d] = to]

(* qemu-nbd dies when its port is taken; the shell loop sees the port bound *)
(* all the same.                                                            *)
StartServer(m, d) ==
  IF servers[port[m][d]] = NoServer
  THEN servers' = [servers EXCEPT ![port[m][d]] = Server(m, d, dev[m][d])]
  ELSE UNCHANGED servers

(* "unserved": the call failed, and the PID is not known.                   *)
serveViaNBD(m, d) ==
  /\ \/ Job(m, d, "serve", "copy") /\ StartServer(m, d) /\ UNCHANGED budget
     \/ /\ Job(m, d, "serve", "unserved") /\ Spend("fault", MaxFaults)
        /\ StartServer(m, d) \/ UNCHANGED servers
  /\ UNCHANGED <<lockVars, slots, snap, attachVars, dev, port, got, countVars, pc, ok, disk>>

(* The disk that answers on the port, if it is still attached.              *)
Source(m, d) ==
  LET s == servers[port[m][d]]
  IN IF s # NoServer /\ \E k \in Slots : slots[k] = s.disk THEN s.disk ELSE NoDisk

(* nbdcopy refuses a source larger than the destination.                    *)
runNBDCopy(m, d) ==
  /\ \/ /\ Job(m, d, "copy", "copied") /\ Source(m, d) # NoDisk
        /\ got' = [got EXCEPT ![m][d] = Source(m, d)]
        /\ UNCHANGED budget
     \/ /\ Job(m, d, "copy", "failed") /\ Source(m, d) # Disk(m, d)
        /\ UNCHANGED <<got, budget>>
     \/ /\ Job(m, d, "copy", "failed") /\ Spend("fault", MaxFaults)
        /\ UNCHANGED got
  /\ UNCHANGED <<lockVars, proxyVars, attachVars, dev, port, countVars, pc, ok, disk>>

WaitForJobs(m) ==
  /\ At(m, "copy") /\ \A d \in DiskNos : job[m][d] \notin {"serve", "copy"}
  /\ IF \A d \in DiskNos : job[m][d] = "copied"
     THEN Goto(m, "kill") /\ UNCHANGED ok ELSE Error(m, "kill")
  /\ UNCHANGED <<lockVars, proxyVars, attachVars, copyVars, countVars, disk, budget>>

-----------------------------------------------------------------------------
(* cleanupHotAdd: each step is tried, whatever became of the one before.    *)

Killable(m, p) ==
  \E d \in DiskNos : job[m][d] # "unserved" /\ servers[p] = Server(m, d, dev[m][d])
KillServers(m) ==
  /\ At(m, "kill") /\ Goto(m, "detach") /\ disk' = [disk EXCEPT ![m] = 1]
  /\ \/ /\ servers' = [p \in Ports |-> IF Killable(m, p) THEN NoServer ELSE servers[p]]
        /\ UNCHANGED budget
     \/ Spend("leftover", MaxLeftovers) /\ UNCHANGED servers
  /\ UNCHANGED <<lockVars, slots, snap, attachVars, copyVars, countVars, ok>>

NextDetach(m) ==
  IF disk[m] < NumDisks THEN disk' = [disk EXCEPT ![m] = @ + 1] /\ Goto(m, "detach")
                        ELSE disk' = [disk EXCEPT ![m] = 1] /\ Goto(m, "deleteSnap")

(* Mutant: the snapshot goes first.                                         *)
DetachLate(m) ==
  /\ At(m, "detach") /\ NextDetach(m) /\ snap' = snap \ {m}
  /\ slots' = IF key[m][disk[m]] = 0 THEN slots ELSE [slots EXCEPT ![key[m][disk[m]]] = NoDisk]
  /\ UNCHANGED <<lockVars, servers, attachVars, copyVars, countVars, ok, budget>>

Detach(m) ==
  /\ At(m, "detach") /\ NextDetach(m)
  /\ \/ /\ slots' = IF key[m][disk[m]] = 0 THEN slots
                    ELSE [slots EXCEPT ![key[m][disk[m]]] = NoDisk]
        /\ UNCHANGED budget
     \/ key[m][disk[m]] # 0 /\ Spend("leftover", MaxLeftovers) /\ UNCHANGED slots
  /\ UNCHANGED <<lockVars, servers, snap, attachVars, copyVars, countVars, ok>>

Outcome(m) == IF ok[m] THEN "done" ELSE "failed"

DeleteSnapshot(m) ==
  /\ At(m, "deleteSnap")
  /\ Goto(m, IF Attached(m) = 0 THEN Outcome(m) ELSE "uncount")
  /\ \/ snap' = snap \ {m} /\ UNCHANGED budget
     \/ Spend("leftover", MaxLeftovers) /\ UNCHANGED snap
  /\ UNCHANGED <<lockVars, slots, servers, attachVars, copyVars, countVars, ok, disk>>

CountDown(m) == CountThen(m, "uncount", "subtract", Outcome(m))
SubtractCount(m) ==
  /\ At(m, "subtract") /\ Goto(m, Outcome(m))
  /\ AddToCount(m, - Attached(m))
  /\ UNCHANGED <<lockVars, proxyVars, attachVars, copyVars, ok, disk, budget>>

-----------------------------------------------------------------------------
AttachStep(m) ==
  \/ acquire(m) \/ WaitForProxyVMLockFails(m) \/ KeysBefore(m) \/ AssignController(m)
  \/ AddDevice(m) \/ KeysAfter(m) \/ AttachFails(m) \/ ReleaseLock(m)

CopyStep(m) ==
  \/ CountUp(m) \/ AddCount(m) \/ identifyBlockDevices(m) \/ AllocatePorts(m)
  \/ CallFails(m) \/ (\E d \in DiskNos : serveViaNBD(m, d) \/ runNBDCopy(m, d))
  \/ WaitForJobs(m)

CleanupStep(m) ==
  \/ KillServers(m) \/ Detach(m) \/ DeleteSnapshot(m) \/ CountDown(m) \/ SubtractCount(m)

Helper(m) == Prepare(m) \/ AttachStep(m) \/ CopyStep(m) \/ CleanupStep(m)

AllEnded == (\A m \in Migrations : pc[m] \in Ended) /\ UNCHANGED vars

Next ==
  \/ \E m \in Migrations : Helper(m) \/ PhaseFailed(m) \/ MigrationDeleted(m) \/ Crash(m)
  \/ VpwnedRestarts \/ AllEnded

Spec == Init /\ [][Next]_vars

(* Every pod runs; the controller reports a helper that failed.             *)
FairSpec ==
  /\ Spec
  /\ \A m \in Migrations : WF_vars(Helper(m))
  /\ \A m \in Migrations : WF_vars(At(m, "failed") /\ PhaseFailed(m))

-----------------------------------------------------------------------------
DiskSet == [vm : Migrations, no : DiskNos] \cup {NoDisk}

TypeOK ==
  /\ lock \in Migrations \cup {None} /\ stale \subseteq Migrations
  /\ slots \in [Slots -> DiskSet]
  /\ servers \in [Ports -> [by : Migrations, no : DiskNos, disk : DiskSet] \cup {NoServer}]
  /\ count \in Nat /\ snap \subseteq Migrations
  /\ pc \in [Migrations -> Running \cup Ended] /\ ok \in [Migrations -> BOOLEAN]
  /\ disk \in [Migrations -> DiskNos]
  /\ before \in [Migrations -> SUBSET Slots] /\ pick \in [Migrations -> 0 .. NumSlots]
  /\ key \in [Migrations -> [DiskNos -> 0 .. NumSlots]]
  /\ dev \in [Migrations -> [DiskNos -> DiskSet]]
  /\ port \in [Migrations -> [DiskNos -> 0 .. NumPorts]]
  /\ job \in [Migrations -> [DiskNos -> {"serve", "copy", "copied", "unserved", "failed"}]]
  /\ got \in [Migrations -> [DiskNos -> DiskSet]]
  /\ seen \in [Migrations -> Nat]
  /\ budget \in [{"fault", "leftover", "lost", "restart", "delete", "crash"} -> Nat]

-----------------------------------------------------------------------------
(* A slot computed from the device list is still free when the disk goes    *)
(* there: the lock keeps two migrations from computing the same one         *)
(* (hotadd_copy.go:68-73), although others detach disks meanwhile.          *)
NoSlotConflict == \A m \in Migrations : At(m, "add") => slots[pick[m]] = NoDisk

(* A device key kept for a disk leads to that very disk until cleanupHotAdd *)
(* has been there, however attaches and detaches interleave: no migration   *)
(* serves, or detaches, what belongs to another.                            *)
Holds(m, d) ==
  /\ key[m][d] # 0
  /\ pc[m] \notin (CleanupPcs \ {"kill", "detach"}) \cup Ended
  /\ At(m, "detach") => disk[m] <= d
OwnDisk == \A m \in Migrations, d \in DiskNos : Holds(m, d) => slots[key[m][d]] = Disk(m, d)

(* Both: the disks of several migrations on one Proxy VM are kept apart.    *)
DisksApart == NoSlotConflict /\ OwnDisk

(* HotAddCopyDisks returns no error only when each volume holds the data of *)
(* its own disk: "Pre-allocate one NBD port per disk ... so concurrent      *)
(* workers don't race" (hotadd_copy.go:592).                                *)
CopiedOwn ==
  \A m \in Migrations : At(m, "done") => \A d \in DiskNos : got[m][d] = Disk(m, d)

(* The snapshot that freezes the disks outlives their attachment, as long   *)
(* as no detach fails (cleanupHotAdd goes on to the snapshot then, too):    *)
(* once it is gone, a migration that met no error has no disk on the Proxy  *)
(* VM, and one that did has at most the disk at which the attaching stopped,*)
(* one that came although the call failed or whose key is not recognised.   *)
SnapshotLast ==
  \A m \in Migrations, d \in DiskNos, s \in Slots :
    m \notin snap /\ slots[s] = Disk(m, d) =>
      ~ ok[m] /\ key[m][d] = 0 /\ \A e \in DiskNos : e < d => key[m][e] # 0

(* A holder releases the lock, or is recognised as one that "will never     *)
(* release it itself" (proxyvm_lock_handler.go:76), so that the migrations  *)
(* after it get their turn.                                                 *)
LockComesFree == \A m \in Migrations : lock = m ~> lock # m \/ m \in stale

-----------------------------------------------------------------------------
(* What comments say and the code does not keep when several migrations     *)
(* share the Proxy VM: the README lists how.                                *)

(* "Cleanup is deferred here so all resources are released on any return    *)
(* path" (hotadd_copy.go:566): no disk stays behind on the Proxy VM.        *)
AllReleased ==
  \A m \in Migrations : pc[m] \in {"done", "failed"} =>
    \A s \in Slots : slots[s] # NoDisk => slots[s].vm # m

(* adjustProxyDiskCount "atomically adds delta" (hotadd_copy.go:389): when  *)
(* every migration has cleaned up, the status counts the disks that are     *)
(* known to be attached still.                                              *)
KnownAttached ==
  {s \in Slots : \E m \in Migrations, d \in DiskNos : key[m][d] = s /\ slots[s] = Disk(m, d)}
CountExact ==
  (\A m \in Migrations : pc[m] \in {"done", "failed"}) => count = Cardinality(KnownAttached)
=============================================================================
