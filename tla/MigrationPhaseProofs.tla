------------------------ MODULE MigrationPhaseProofs ------------------------
(***************************************************************************)
(* What MigrationPhase keeps for every set of paths and answers and any    *)
(* number of mishaps.  The proof is about one object at a time: what the   *)
(* helper may have said (SaidIn), what the controller may therefore see    *)
(* (SortedFromLog), what its scan may make of that (ScanIs), and what the  *)
(* phase is then (Rebuilt).                                                *)
(***************************************************************************)
EXTENDS MigrationPhase, SequenceTheorems, WellFoundedInduction, TLAPS

Bounds == {"recover", "fail", "crash", "warn", "fault", "tie", "expiry"}
Budget == [Bounds -> Nat]

LEMMA SpendType ==
  ASSUME budget \in Budget, NEW what \in Bounds, NEW max, Spend(what, max)
  PROVE  budget' \in Budget
BY DEF Spend, Budget

LEMMA LeastNumber ==
  ASSUME NEW T \in SUBSET Nat, T # {}
  PROVE  \E x \in T : \A y \in T : x <= y
<1> DEFINE R == {ss \in Nat \X Nat : ss[1] < ss[2]}
<1>1. IsWellFoundedOn(R, Nat)
  BY NatLessThanWellFounded DEF OpToRel
<1>2. PICK x \in T : \A y \in T : <<y, x>> \notin R
  <2> HIDE DEF R
  <2> QED BY <1>1, WFMin
<1>3. \A y \in T : ~ y < x
  BY <1>2
<1>4. \A y \in T : x <= y
  BY <1>3
<1> QED BY <1>4

LEMMA SeqGrows ==
  ASSUME NEW S, NEW T, S \subseteq T, NEW s \in Seq(S)
  PROVE  s \in Seq(T)
<1>1. Len(s) \in Nat /\ s \in [1 .. Len(s) -> S]
  BY LenProperties
<1>2. s \in [1 .. Len(s) -> T]
  BY <1>1
<1> QED BY <1>1, <1>2, SeqDef

(* What the helper may say on each path, besides failures and warnings.     *)
Normal == [
  nbd      |-> {"CopyingDisk", "ChangedBlocks", "Converting", "Created", "Done"},
  nbdTimed |-> {"WaitDataCopy", "CopyingDisk", "WaitCutover", "ChangedBlocks", "Converting",
                "Created", "Done"},
  nbdAdmin |-> {"CopyingDisk", "WaitAdmin", "ChangedBlocks", "Converting", "Created", "Done"},
  hotAdd   |-> {"Snapshot", "Attach", "Identify", "Serving", "Transfer", "Detach", "Converting",
                "Created", "Done"},
  xcopy    |-> {"EsxiConnect", "InitiatorGroup", "CreateVolume", "CinderManage", "MapVolume",
                "Rescan", "CopyingDisk", "Converting", "Created", "Done"},
  dataOnly |-> {"CopyingDisk", "ChangedBlocks", "Converting", "DataCopied", "Done"},
  ldm      |-> {"CopyingDisk", "ChangedBlocks", "Converting", "Created", "Done", "Gate",
                "GateHelp", "Promoting", "Failed"}]

Said == Normal[path] \cup {"Failed", "Warning"}
EventsOf(S) == [msg : S, tie : BOOLEAN]

LEMMA PathNames ==
  /\ DOMAIN Script = {"nbd", "nbdTimed", "nbdAdmin", "hotAdd", "xcopy", "dataOnly", "ldm"}
  /\ DOMAIN Normal = DOMAIN Script
BY DEF Script, Normal

LEMMA NormalFacts ==
  \A p \in DOMAIN Script :
    /\ Normal[p] \subseteq Messages
    /\ "none" \notin Normal[p] /\ "Warning" \notin Normal[p]
    /\ p # "ldm" => {"Gate", "GateHelp", "Promoting", "Failed"} \cap Normal[p] = {}
    /\ p # "nbdAdmin" => "WaitAdmin" \notin Normal[p]
    /\ p = "nbdAdmin" => "Detach" \notin Normal[p] /\ "WaitCutover" \notin Normal[p]
<1> SUFFICES ASSUME NEW p \in DOMAIN Script
             PROVE  /\ Normal[p] \subseteq Messages
                    /\ "none" \notin Normal[p] /\ "Warning" \notin Normal[p]
                    /\ p # "ldm" => {"Gate", "GateHelp", "Promoting", "Failed"} \cap Normal[p] = {}
                    /\ p # "nbdAdmin" => "WaitAdmin" \notin Normal[p]
                    /\ p = "nbdAdmin" => "Detach" \notin Normal[p] /\ "WaitCutover" \notin Normal[p]
  OBVIOUS
<1>1. CASE p = "nbd" BY <1>1 DEF Normal, Messages, Target
<1>2. CASE p = "nbdTimed" BY <1>2 DEF Normal, Messages, Target
<1>3. CASE p = "nbdAdmin" BY <1>3 DEF Normal, Messages, Target
<1>4. CASE p = "hotAdd" BY <1>4 DEF Normal, Messages, Target
<1>5. CASE p = "xcopy" BY <1>5 DEF Normal, Messages, Target
<1>6. CASE p = "dataOnly" BY <1>6 DEF Normal, Messages, Target
<1>7. CASE p = "ldm" BY <1>7 DEF Normal, Messages, Target
<1> QED BY <1>1, <1>2, <1>3, <1>4, <1>5, <1>6, <1>7, PathNames

LEMMA Scripts ==
  ASSUME NEW p \in DOMAIN Script
  PROVE  Script[p] \in Seq(Normal[p] \ {"Failed", "Promoting"})
<1>1. CASE p = "nbd" BY <1>1 DEF Script, Normal
<1>2. CASE p = "nbdTimed" BY <1>2 DEF Script, Normal
<1>3. CASE p = "nbdAdmin" BY <1>3 DEF Script, Normal
<1>4. CASE p = "hotAdd" BY <1>4 DEF Script, Normal
<1>5. CASE p = "xcopy" BY <1>5 DEF Script, Normal
<1>6. CASE p = "dataOnly" BY <1>6 DEF Script, Normal
<1>7. CASE p = "ldm" BY <1>7 DEF Script, Normal
<1> QED BY <1>1, <1>2, <1>3, <1>4, <1>5, <1>6, <1>7, PathNames

LEMMA Answered ==
  /\ AnswerScript["success"] \in Seq(Normal["ldm"] \ {"Failed"})
  /\ AnswerScript["finish"] \in Seq(Normal["ldm"] \ {"Failed", "Promoting"})
  /\ AnswerScript["failed"] = <<"Failed">>
  /\ <<"Failed">> \in Seq(Normal["ldm"] \ {"Promoting"})
  /\ DOMAIN AnswerScript = {"success", "finish", "failed"}
BY DEF AnswerScript, Normal

(* The phases the loop gets from a message.                                 *)
LEMMA TargetPhases ==
  \A m \in DOMAIN Target :
    /\ m \in Messages \ {"Failed", "Warning"}
    /\ Target[m] \in Phases \ {"Failed", "Pending", "PromotingToVirtio", "WaitingForLDMBootSuccess"}
    /\ Target[m] = "Succeeded" => m = "Created"
    /\ Target[m] = "HotAddCleanup" => m = "Detach"
    /\ Target[m] = "AwaitingCutOverStartTime" => m = "WaitCutover"
BY DEF Target, Messages, Phases, VMMigrationStatesEnum

LEMMA Ranks ==
  \A p \in Phases :
    /\ VMMigrationStatesEnum[p] \in 0 .. 17
    /\ p \in {"PromotingToVirtio", "WaitingForLDMBootSuccess", "Succeeded"} => VMMigrationStatesEnum[p] = 17
BY DEF Phases, VMMigrationStatesEnum

LEMMA RankNames ==
  /\ VMMigrationStatesEnum["Pending"] = 0 /\ VMMigrationStatesEnum["Validating"] = 1
  /\ VMMigrationStatesEnum["Copying"] = 11 /\ VMMigrationStatesEnum["AwaitingAdminCutOver"] = 13
  /\ VMMigrationStatesEnum["ConvertingDisk"] = 15 /\ VMMigrationStatesEnum["DataCopied"] = 16
  /\ {"Pending", "Validating", "Copying", "Failed", "Succeeded", "DataCopied", "PromotingToVirtio",
      "WaitingForLDMBootSuccess"} \subseteq Phases
  /\ Target["WaitAdmin"] = "AwaitingAdminCutOver"
BY DEF Phases, VMMigrationStatesEnum, Target

-----------------------------------------------------------------------------
(* Every event the loop looks at is one that is visible.                    *)
LogType ==
  /\ log \in Seq(EventsOf(Said)) /\ seen \in 0 .. Len(log)
  /\ log # <<>> => ~ log[1].tie

LEMMA VisibleIs ==
  ASSUME LogType
  PROVE  /\ Visible \in Seq(EventsOf(Said)) /\ Len(Visible) = seen /\ DOMAIN Visible = 1 .. seen
         /\ \A i \in 1 .. seen : Visible[i] = log[i] /\ i \in 1 .. Len(log)
         /\ seen > 0 => ~ Visible[1].tie
<1>1. Len(log) \in Nat /\ seen \in Nat /\ seen <= Len(log)
  BY LenProperties DEF LogType
<1>2. /\ Len(Visible) = seen
      /\ \A i \in 1 .. seen : Visible[i] = log[i]
      /\ Visible \in Seq(EventsOf(Said))
  BY <1>1, SubSeqProperties DEF Visible, LogType
<1> QED BY <1>1, <1>2, LenProperties DEF LogType

LEMMA SortedFromLog ==
  ASSUME LogType, NEW events \in SortedEvents
  PROVE  /\ Len(events) = seen /\ DOMAIN events = 1 .. seen
         /\ \A i \in 1 .. seen : \E j \in 1 .. seen : events[i] = log[j].msg
<1> DEFINE T == {i \in DOMAIN Visible : Visible[i].tie}
           V(swapped) == [i \in DOMAIN Visible |->
                           IF i \in swapped THEN Visible[i - 1].msg
                           ELSE IF i + 1 \in swapped THEN Visible[i + 1].msg ELSE Visible[i].msg]
<1>0. seen \in Nat
  BY LenProperties DEF LogType
<1>1. PICK swapped \in SUBSET T : events = Reverse(V(swapped))
  BY DEF SortedEvents
<1>2. V(swapped) \in [1 .. seen -> {Visible[j].msg : j \in 1 .. seen}]
  <2> SUFFICES ASSUME NEW i \in 1 .. seen
               PROVE  (IF i \in swapped THEN Visible[i - 1].msg
                       ELSE IF i + 1 \in swapped THEN Visible[i + 1].msg ELSE Visible[i].msg)
                         \in {Visible[j].msg : j \in 1 .. seen}
    BY VisibleIs
  <2>1. CASE i \in swapped
    <3>1. i # 1
      BY <2>1, VisibleIs
    <3>2. i - 1 \in 1 .. seen
      BY <1>0, <3>1
    <3> QED BY <2>1, <3>2
  <2>2. CASE i \notin swapped /\ i + 1 \in swapped
    <3>1. i + 1 \in 1 .. seen
      BY <2>2, VisibleIs
    <3> QED BY <2>2, <3>1
  <2>3. CASE i \notin swapped /\ i + 1 \notin swapped
    BY <2>3
  <2> QED BY <2>1, <2>2, <2>3
<1> HIDE DEF V, T
<1>3. Len(V(swapped)) = seen
  BY <1>0, <1>2
<1>4. events = [i \in 1 .. seen |-> V(swapped)[seen - i + 1]]
  BY <1>1, <1>3 DEF Reverse
<1>5. \A i \in 1 .. seen : seen - i + 1 \in 1 .. seen
  BY <1>0
<1>6. \A i \in 1 .. seen : events[i] \in {Visible[j].msg : j \in 1 .. seen}
  <2> SUFFICES ASSUME NEW i \in 1 .. seen
               PROVE  events[i] \in {Visible[j].msg : j \in 1 .. seen}
    OBVIOUS
  <2>1. seen - i + 1 \in 1 .. seen
    BY <1>5
  <2>2. events[i] = V(swapped)[seen - i + 1]
    BY <1>4
  <2> QED BY <1>2, <2>1, <2>2
<1>7. Len(events) = seen /\ DOMAIN events = 1 .. seen
  BY <1>0, <1>4
<1>8. \A i \in 1 .. seen : \E j \in 1 .. seen : events[i] = log[j].msg
  <2> SUFFICES ASSUME NEW i \in 1 .. seen
               PROVE  \E j \in 1 .. seen : events[i] = log[j].msg
    OBVIOUS
  <2>1. PICK j \in 1 .. seen : events[i] = Visible[j].msg
    BY <1>6
  <2>2. Visible[j] = log[j]
    BY VisibleIs
  <2> QED BY <2>1, <2>2
<1> QED BY <1>7, <1>8

(* The loop ends with the phase it began with, with the wait for the admin  *)
(* undone, with the phase of an event, or with a failure.                   *)
Rank(p) == VMMigrationStatesEnum[p]
CutoverSeen ==
  /\ podSeen.cutover = "yes" /\ Rank(Started) <= 13
  /\ \E j \in 1 .. seen : log[j].msg = "WaitAdmin"

LEMMA StartedType ==
  ASSUME phase \in Phases
  PROVE  Started \in Phases /\ Rank(Started) \in 0 .. 17 /\ Rank(phase) <= Rank(Started)
BY Ranks, RankNames DEF Started, Rank

LEMMA PhaseAtIs ==
  ASSUME LogType, phase \in Phases, NEW events \in SortedEvents, NEW i \in 1 .. seen + 1
  PROVE  \/ PhaseAt(events, i) = Started
         \/ PhaseAt(events, i) = "Copying" /\ CutoverSeen
<1>0. seen \in Nat
  BY LenProperties DEF LogType
<1>1. CASE \E j \in 1 .. i - 1 : Undoes(Started, events[j])
  <2>1. PICK j \in 1 .. i - 1 : Undoes(Started, events[j])
    BY <1>1
  <2>2. j \in 1 .. seen
    BY <1>0, <2>1
  <2>3. CutoverSeen
    <3>1. PICK k \in 1 .. seen : events[j] = log[k].msg
      BY <2>2, SortedFromLog
    <3>2. /\ events[j] = "WaitAdmin" /\ podSeen.cutover = "yes"
          /\ Rank(Started) <= Rank("AwaitingAdminCutOver")
      BY <2>1, RankNames DEF Undoes, Reaches, Rank
    <3> QED BY <3>1, <3>2, RankNames DEF CutoverSeen, Rank
  <2> QED BY <1>1, <2>3 DEF PhaseAt
<1>2. CASE ~ \E j \in 1 .. i - 1 : Undoes(Started, events[j])
  BY <1>2 DEF PhaseAt
<1> QED BY <1>1, <1>2

ScanResult(p) ==
  \/ p = Started
  \/ p = "Copying" /\ CutoverSeen
  \/ \E j \in 1 .. seen :
       /\ log[j].msg \in DOMAIN Target /\ p = Target[log[j].msg]
       /\ Rank(Started) <= Rank(p) \/ CutoverSeen
  \/ p = "Failed" /\ \E j \in 1 .. seen : log[j].msg \in {"Failed", "Warning"}

LEMMA ScanIs ==
  ASSUME LogType, phase \in Phases, NEW events \in SortedEvents
  PROVE  ScanResult(ScanEvents(events))
<1> DEFINE deciding == {i \in DOMAIN events : Decides(PhaseAt(events, i), events[i])}
           first == CHOOSE i \in deciding : \A j \in deciding : i <= j
<1>0. seen \in Nat /\ Len(events) = seen /\ DOMAIN events = 1 .. seen
  BY LenProperties, SortedFromLog DEF LogType
<1>1. CASE deciding = {}
  <2>1. ScanEvents(events) = PhaseAt(events, seen + 1)
    BY <1>0, <1>1 DEF ScanEvents
  <2>2. seen + 1 \in 1 .. seen + 1
    BY <1>0
  <2> HIDE DEF deciding
  <2> QED BY <2>1, <2>2, PhaseAtIs DEF ScanResult
<1>2. CASE deciding # {}
  <2>1. first \in deciding
    <3>1. deciding \in SUBSET Nat
      BY <1>0
    <3>5. \E i \in deciding : \A j \in deciding : i <= j
      BY <1>2, <3>1, LeastNumber
    <3> HIDE DEF deciding
    <3> QED BY <3>5
  <2>2. /\ first \in 1 .. seen /\ Decides(PhaseAt(events, first), events[first])
    <3>1. \A i \in deciding : i \in 1 .. seen /\ Decides(PhaseAt(events, i), events[i])
      BY <1>0
    <3> HIDE DEF first, deciding
    <3> QED BY <2>1, <3>1
  <2>3. ScanEvents(events) = IF Reaches(PhaseAt(events, first), events[first])
                             THEN Target[events[first]] ELSE "Failed"
    BY <1>2 DEF ScanEvents
  <2> HIDE DEF first, deciding
  <2>4. PICK j \in 1 .. seen : events[first] = log[j].msg
    BY <2>2, SortedFromLog
  <2>5. first \in 1 .. seen + 1
    BY <1>0, <2>2
  <2>6. PhaseAt(events, first) = Started \/ CutoverSeen
    BY <2>5, PhaseAtIs
  <2>7. CASE Reaches(PhaseAt(events, first), events[first])
    BY <2>3, <2>4, <2>6, <2>7 DEF Reaches, ScanResult, Rank
  <2>8. CASE ~ Reaches(PhaseAt(events, first), events[first])
    BY <2>2, <2>3, <2>4, <2>8 DEF Decides, Fails, ScanResult
  <2> QED BY <2>7, <2>8
<1> QED BY <1>1, <1>2

-----------------------------------------------------------------------------
(* The inductive invariant.  What has been said, to the reporter, in the    *)
(* pod's condition and in the events, comes from the path of the migration. *)
SaidIn(S) ==
  /\ outbox \in S \cup {"none"} /\ pod.progress \in S \cup {"none"}
  /\ log \in Seq(EventsOf(S))

Types ==
  /\ path \in Paths /\ cutover \in BOOLEAN /\ answer \in AnswerSet
  /\ pod \in Pod /\ podSeen \in Pod /\ podRead \in Pod \cup {NoPod}
  /\ todo \in Seq(Normal[path]) /\ SaidIn(Said) /\ LogType
  /\ server \in {"none", "up"} /\ result \in {"running", "ok", "failed", "crashed"}
  /\ woken \in BOOLEAN /\ migrated \in BOOLEAN /\ phase \in Phases
  /\ budget \in Budget

(* Nobody speaks of the rebuild before the gate is answered, and only a     *)
(* guest with LDM disks comes to the gate.                                  *)
GateInv ==
  /\ pod.boot # "success" =>
       /\ todo \in Seq(Normal[path] \ {"Promoting"}) /\ SaidIn(Said \ {"Promoting"})
       /\ phase # "PromotingToVirtio"
  /\ phase \in {"WaitingForLDMBootSuccess", "PromotingToVirtio"} => path = "ldm"

(* The cutover label the controller sees has been written.                  *)
AdminInv ==
  /\ podSeen.cutover = "yes" => pod.cutover = "yes"
  /\ path = "nbdAdmin" => phase \notin {"HotAddCleanup", "AwaitingCutOverStartTime"}

(* Nobody speaks of a VM that was not created.                              *)
CreatedInv ==
  /\ path # "ldm" /\ server = "none" => SaidIn(Said \ {"Created"}) /\ phase # "Succeeded"
  /\ phase = "Succeeded" => migrated

(* A migration that is Failed is not reconciled.                            *)
ReadInv == podRead # NoPod => phase # "Failed"

Inv == Types /\ GateInv /\ AdminInv /\ CreatedInv /\ ReadInv

LEMMA PathIs ==
  ASSUME Types
  PROVE  /\ path \in DOMAIN Script /\ Normal[path] \subseteq Messages /\ Said \subseteq Messages
         /\ "none" \notin Said
         /\ path # "ldm" => {"Gate", "GateHelp", "Promoting"} \cap Said = {} /\ "Failed" \notin Normal[path]
         /\ path # "nbdAdmin" => "WaitAdmin" \notin Said
         /\ path = "nbdAdmin" => "Detach" \notin Said /\ "WaitCutover" \notin Said
BY NormalFacts, MigrationPhaseAssumption DEF Types, Said, Messages

SaidNext(S) ==
  /\ outbox' \in S \cup {"none"} /\ pod'.progress \in S \cup {"none"}
  /\ log' \in Seq(EventsOf(S))

(* A step that says nothing new.                                            *)
Silent ==
  /\ outbox' \in {outbox, "none"} /\ pod'.progress = pod.progress /\ path' = path
  /\ \/ log' \in {log, <<>>}
     \/ \E tie \in BOOLEAN : outbox # "none" /\ log' = Append(log, [msg |-> outbox, tie |-> tie])

LEMMA SilentSaid ==
  ASSUME Silent, NEW S, SaidIn(S)
  PROVE  SaidNext(S)
<1>1. log' \in Seq(EventsOf(S))
  <2>1. CASE log' \in {log, <<>>}
    <3>1. <<>> \in Seq(EventsOf(S)) /\ log \in Seq(EventsOf(S))
      BY DEF SaidIn
    <3> QED BY <2>1, <3>1
  <2>2. CASE \E tie \in BOOLEAN : outbox # "none" /\ log' = Append(log, [msg |-> outbox, tie |-> tie])
    <3>1. PICK tie \in BOOLEAN : outbox # "none" /\ log' = Append(log, [msg |-> outbox, tie |-> tie])
      BY <2>2
    <3>2. [msg |-> outbox, tie |-> tie] \in EventsOf(S)
      BY <3>1 DEF SaidIn, EventsOf
    <3> QED BY <3>1, <3>2, AppendProperties DEF SaidIn
  <2> QED BY <2>1, <2>2 DEF Silent
<1> QED BY <1>1 DEF Silent, SaidIn, SaidNext

(* A message.                                                               *)
Utter(m) == logMessage(m) /\ UNCHANGED <<log, path>>

LEMMA UtterSaid ==
  ASSUME NEW m, Utter(m), pod \in Pod, NEW S, SaidIn(S), m \in S
  PROVE  SaidNext(S)
BY DEF Utter, logMessage, SaidIn, SaidNext, Pod

LEMMA HeadTail ==
  ASSUME NEW S, todo \in Seq(S), todo # <<>>
  PROVE  Head(todo) \in S /\ Tail(todo) \in Seq(S)
BY HeadTailProperties

-----------------------------------------------------------------------------
(* Steps that leave the helper and its pod alone.                           *)
LEMMA AsideKeeps ==
  ASSUME Inv, \/ InitiateCutover \/ AnswerGate \/ SyncEvents \/ SyncPod \/ Resync \/ UNCHANGED vars
  PROVE  Inv'
<1>1. UNCHANGED <<path, todo, outbox, server, result, pod, log, podRead, phase, migrated, budget>>
  BY DEF InitiateCutover, AnswerGate, SyncEvents, SyncPod, Resync, vars, specVars, helperVars, storeVars,
         cacheVars, ctlVars
<1>2. Types'
  <2>1. cutover' \in BOOLEAN /\ answer' \in AnswerSet /\ podSeen' \in Pod /\ woken' \in BOOLEAN
    <3>1. Answers \subseteq AnswerSet
      BY MigrationPhaseAssumption DEF AnswerSet
    <3> QED BY <3>1 DEF InitiateCutover, AnswerGate, SyncEvents, SyncPod, Resync, vars, specVars,
        cacheVars, Inv, Types
  <2>2. seen' \in 0 .. Len(log)
    <3>1. Len(log) \in Nat /\ seen \in 0 .. Len(log)
      BY LenProperties DEF Inv, Types, LogType
    <3> QED BY <3>1 DEF InitiateCutover, AnswerGate, SyncEvents, SyncPod, Resync, vars, cacheVars
  <2> QED BY <1>1, <2>1, <2>2 DEF Inv, Types, SaidIn, Said, LogType
<1>3. GateInv' /\ CreatedInv' /\ ReadInv'
  BY <1>1 DEF Inv, GateInv, CreatedInv, ReadInv, SaidIn, Said
<1>4. AdminInv'
  <2>1. podSeen' \in {podSeen, pod}
    BY DEF InitiateCutover, AnswerGate, SyncEvents, SyncPod, Resync, vars, cacheVars
  <2> QED BY <1>1, <2>1 DEF Inv, AdminInv
<1> QED BY <1>2, <1>3, <1>4 DEF Inv

(* A message of the helper.                                                 *)
LEMMA UtterKeeps ==
  ASSUME Inv, NEW m \in Said, Utter(m),
         UNCHANGED <<cutover, answer, result, seen, podSeen, podRead, woken, phase, migrated>>,
         todo' \in Seq(Normal[path]), server' \in {"none", "up"}, budget' \in Budget,
         pod.boot # "success" => m # "Promoting" /\ todo' \in Seq(Normal[path] \ {"Promoting"}),
         path # "ldm" /\ server' = "none" => server = "none" /\ m # "Created"
  PROVE  Inv'
<1>1. /\ pod' = [pod EXCEPT !.progress = m] /\ UNCHANGED <<log, path>> /\ Said' = Said
      /\ pod' \in Pod /\ pod'.boot = pod.boot /\ pod'.cutover = pod.cutover
  <2>1. m \in Messages /\ pod \in Pod
    BY PathIs DEF Inv, Types
  <2>2. pod' = [pod EXCEPT !.progress = m]
    BY DEF Utter, logMessage
  <2> QED BY <2>1, <2>2 DEF Utter, Pod, Said
<1>2. \A S \in SUBSET Said : m \in S /\ SaidIn(S) => SaidNext(S)
  BY UtterSaid DEF Inv, Types
<1>3. SaidIn(Said)'
  <2>1. SaidNext(Said)
    BY <1>2 DEF Inv, Types
  <2> QED BY <1>1, <2>1 DEF SaidNext, SaidIn, EventsOf
<1>4. Types'
  BY <1>1, <1>3 DEF Inv, Types, SaidIn, LogType
<1>5. GateInv'
  <2>1. pod.boot # "success" => SaidNext(Said \ {"Promoting"})
    BY <1>2 DEF Inv, GateInv
  <2> QED BY <1>1, <2>1 DEF Inv, GateInv, SaidIn, SaidNext, EventsOf
<1>6. CreatedInv'
  <2>1. path # "ldm" /\ server' = "none" => SaidNext(Said \ {"Created"})
    BY <1>2 DEF Inv, CreatedInv
  <2> QED BY <1>1, <2>1 DEF Inv, CreatedInv, SaidIn, SaidNext, EventsOf
<1>7. AdminInv' /\ ReadInv'
  BY <1>1 DEF Inv, AdminInv, ReadInv
<1> QED BY <1>4, <1>5, <1>6, <1>7 DEF Inv

LEMMA SendKeeps ==
  ASSUME Inv, SendNext \/ CreateRecovered \/ Warn \/ Fail \/ PromotionFails
  PROVE  Inv'
<1> DEFINE N == Normal[path]
<1>1. /\ todo # <<>> /\ todo \in Seq(N) /\ Head(todo) \in N /\ Tail(todo) \in Seq(N)
      /\ <<>> \in Seq(N) /\ <<>> \in Seq(N \ {"Promoting"})
  BY HeadTail DEF SendNext, CreateRecovered, Warn, AwaitsAdmin, Fail, PromotionFails, Inv, Types
<1>2. pod.boot # "success" =>
        /\ todo \in Seq(N \ {"Promoting"}) /\ Head(todo) # "Promoting"
        /\ Tail(todo) \in Seq(N \ {"Promoting"}) /\ pod.progress # "Promoting"
  <2>1. ASSUME pod.boot # "success" PROVE todo \in Seq(N \ {"Promoting"})
    BY <2>1 DEF Inv, GateInv
  <2>2. ASSUME pod.boot # "success" PROVE pod.progress # "Promoting"
    BY <2>2 DEF Inv, GateInv, SaidIn
  <2> QED BY <1>1, <2>1, <2>2, HeadTail
<1>3. budget' \in Budget
  BY SpendType DEF SendNext, CreateRecovered, Warn, Fail, PromotionFails, Bounds, Inv, Types
<1>4. /\ UNCHANGED <<path, log, cutover, answer, result, seen, podSeen, podRead, woken, phase, migrated>>
      /\ server \in {"none", "up"} /\ path \in DOMAIN Script
  BY PathIs DEF SendNext, CreateRecovered, Warn, Fail, PromotionFails, specVars, cacheVars, ctlVars, Inv, Types
<1>5. CASE SendNext
  <2>1. Utter(Head(todo)) /\ todo' = Tail(todo)
    BY <1>4, <1>5 DEF SendNext, Utter
  <2>2. server' \in {"none", "up"}
    BY <1>4, <1>5 DEF SendNext
  <2>3. path # "ldm" /\ server' = "none" => server = "none" /\ Head(todo) # "Created"
    <3>1. path # "ldm" => Head(todo) # "Failed"
      BY <1>1, PathIs DEF Inv
    <3> QED BY <1>4, <1>5, <3>1 DEF SendNext
  <2> QED BY <1>1, <1>2, <1>3, <1>4, <2>1, <2>2, <2>3, UtterKeeps DEF Said
<1>6. CASE CreateRecovered
  <2>1. Utter("Created") /\ todo' = <<>> /\ server' = "up" /\ "Created" \in N
    BY <1>1, <1>4, <1>6 DEF CreateRecovered, Utter
  <2> QED BY <1>1, <1>2, <1>3, <1>4, <2>1, UtterKeeps DEF Said
<1>7. CASE Warn
  <2>1. Utter("Warning") /\ UNCHANGED <<todo, server>>
    BY <1>4, <1>7 DEF Warn, Utter
  <2> QED BY <1>1, <1>2, <1>3, <1>4, <2>1, UtterKeeps DEF Said
<1>8. CASE Fail
  <2>1. Utter("Failed") /\ todo' = <<>> /\ UNCHANGED server
    BY <1>4, <1>8 DEF Fail, Utter
  <2> QED BY <1>1, <1>2, <1>3, <1>4, <2>1, UtterKeeps DEF Said
<1>9. CASE PromotionFails
  <2>1. Utter("Done") /\ todo' = <<>> /\ UNCHANGED server
    BY <1>4, <1>9 DEF PromotionFails, Utter
  <2>2. path = "ldm"
    <3>1. pod.progress = "Promoting" /\ pod.progress \in Said \cup {"none"}
      BY <1>9 DEF PromotionFails, Inv, Types, SaidIn
    <3> QED BY <3>1, PathIs DEF Inv
  <2>3. "Done" \in Said
    BY <2>2 DEF Said, Normal
  <2> QED BY <1>1, <1>2, <1>3, <1>4, <2>1, <2>2, <2>3, UtterKeeps
<1> QED BY <1>5, <1>6, <1>7, <1>8, <1>9

(* A step that says nothing new and leaves the phase alone.                 *)
LEMMA SilentKeeps ==
  ASSUME Inv, Silent,
         pod' \in Pod, podRead' \in Pod \cup {NoPod}, podRead' = podRead \/ phase # "Failed",
         pod.boot = "success" => pod'.boot = "success",
         pod.cutover = "yes" => pod'.cutover = "yes",
         UNCHANGED <<cutover, answer, podSeen, phase, migrated>>, woken' \in BOOLEAN,
         todo' \in Seq(Normal[path]),
         pod'.boot # "success" => todo' \in Seq(Normal[path] \ {"Promoting"}),
         server' \in {"none", "up"}, path # "ldm" /\ server' = "none" => server = "none",
         result' \in {"running", "ok", "failed", "crashed"}, budget' \in Budget,
         seen' \in 0 .. Len(log'), log' # <<>> => ~ log'[1].tie
  PROVE  Inv'
<1>1. path' = path /\ Said' = Said
  BY DEF Silent, Said
<1>2. SaidIn(Said)'
  <2>1. SaidNext(Said)
    BY SilentSaid DEF Inv, Types
  <2> QED BY <1>1, <2>1 DEF SaidNext, SaidIn, EventsOf
<1>3. Types'
  BY <1>1, <1>2 DEF Inv, Types, SaidIn, LogType
<1>4. GateInv'
  <2>1. pod.boot # "success" => SaidNext(Said \ {"Promoting"})
    BY SilentSaid DEF Inv, GateInv
  <2> QED BY <1>1, <2>1 DEF Inv, GateInv, SaidIn, SaidNext, EventsOf
<1>5. CreatedInv'
  <2>1. path # "ldm" /\ server' = "none" => SaidNext(Said \ {"Created"})
    BY SilentSaid DEF Inv, CreatedInv
  <2> QED BY <1>1, <2>1 DEF Inv, CreatedInv, SaidIn, SaidNext, EventsOf
<1>6. AdminInv' /\ ReadInv'
  BY <1>1 DEF Inv, AdminInv, ReadInv
<1> QED BY <1>3, <1>4, <1>5, <1>6 DEF Inv

(* The helper without a word.                                               *)
LEMMA HelperKeeps ==
  ASSUME Inv, PodStarts \/ TakeAnswer \/ DeleteServer \/ Exit \/ Crash
  PROVE  Inv'
<1>1. /\ UNCHANGED <<path, log, cutover, answer, seen, podSeen, podRead, woken, phase, migrated>>
      /\ outbox' \in {outbox, "none"}
  BY DEF PodStarts, TakeAnswer, DeleteServer, Exit, Crash, specVars, helperVars, storeVars, cacheVars, ctlVars
<1>2. /\ pod \in Pod /\ podRead \in Pod \cup {NoPod} /\ woken \in BOOLEAN /\ todo \in Seq(Normal[path])
      /\ server \in {"none", "up"} /\ result \in {"running", "ok", "failed", "crashed"}
      /\ seen \in 0 .. Len(log) /\ (log # <<>> => ~ log[1].tie) /\ budget \in Budget
  BY DEF Inv, Types, LogType
<1>3. pod' = pod \/ \E p \in {"Running", "Succeeded", "Failed"} : pod' = [pod EXCEPT !.phase = p]
  BY DEF PodStarts, TakeAnswer, DeleteServer, Exit, Crash, storeVars
<1>4. pod' \in Pod /\ pod'.boot = pod.boot /\ pod'.cutover = pod.cutover /\ pod'.progress = pod.progress
  BY <1>2, <1>3 DEF Pod
<1>5. budget' \in Budget
  BY <1>2, SpendType DEF PodStarts, TakeAnswer, DeleteServer, Exit, Crash, Bounds
<1>6. /\ todo' \in Seq(Normal[path])
      /\ pod.boot # "success" => todo' \in Seq(Normal[path] \ {"Promoting"})
  <2>1. CASE todo' = todo
    BY <1>2, <2>1 DEF Inv, GateInv
  <2>2. CASE TakeAnswer
    <3>1. path = "ldm"
      <4>1. pod.progress = "GateHelp" /\ pod.progress \in Said \cup {"none"}
        BY <2>2 DEF TakeAnswer, Inv, Types, SaidIn
      <4> QED BY <4>1, PathIs DEF Inv
    <3>2. pod.boot \in DOMAIN AnswerScript /\ todo' = AnswerScript[pod.boot]
      BY <1>2, <2>2 DEF TakeAnswer, Pod, AnswerSet
    <3>3. CASE pod.boot = "success"
      <4>1. todo' \in Seq(Normal["ldm"] \ {"Failed"})
        BY <3>2, <3>3, Answered
      <4>2. todo' \in Seq(Normal["ldm"])
        BY <4>1
      <4> QED BY <3>1, <3>3, <4>2
    <3>4. CASE pod.boot # "success"
      <4>1. todo' \in Seq(Normal["ldm"] \ {"Promoting"})
        <5>1. CASE pod.boot = "finish"
          BY <3>2, <5>1, Answered
        <5>2. CASE pod.boot = "failed"
          BY <3>2, <5>2, Answered
        <5> QED BY <3>2, <3>4, <5>1, <5>2, Answered
      <4>2. todo' \in Seq(Normal["ldm"])
        BY <4>1
      <4> QED BY <3>1, <4>1, <4>2
    <3> QED BY <3>3, <3>4
  <2> QED BY <2>1, <2>2 DEF PodStarts, DeleteServer, Exit, Crash, helperVars
<1>7. server' \in {"none", "up"} /\ (path # "ldm" /\ server' = "none" => server = "none")
  <2>1. CASE server' = server
    BY <1>2, <2>1
  <2>2. CASE DeleteServer
    <3>1. pod.progress = "Promoting" /\ pod.progress \in Said \cup {"none"} /\ server' = "none"
      BY <2>2 DEF DeleteServer, Inv, Types, SaidIn
    <3> QED BY <3>1, PathIs DEF Inv
  <2> QED BY <2>1, <2>2 DEF PodStarts, TakeAnswer, Exit, Crash, helperVars
<1>8. result' \in {"running", "ok", "failed", "crashed"}
  BY <1>2 DEF PodStarts, TakeAnswer, DeleteServer, Exit, Crash, helperVars
<1>9. Silent
  BY <1>1, <1>4 DEF Silent
<1> QED BY <1>1, <1>2, <1>4, <1>5, <1>6, <1>7, <1>8, <1>9, SilentKeeps

(* The reporter and the events.                                             *)
LEMMA EventKeeps ==
  ASSUME Inv, CreateKubernetesEvent \/ EventsExpire
  PROVE  Inv'
<1>1. /\ UNCHANGED <<path, pod, cutover, answer, podSeen, podRead, woken, phase, migrated, todo, server, result>>
      /\ outbox' \in {outbox, "none"}
  BY DEF CreateKubernetesEvent, EventsExpire, specVars, helperVars, cacheVars, ctlVars
<1>2. /\ pod \in Pod /\ podRead \in Pod \cup {NoPod} /\ woken \in BOOLEAN /\ todo \in Seq(Normal[path])
      /\ server \in {"none", "up"} /\ result \in {"running", "ok", "failed", "crashed"}
      /\ log \in Seq(EventsOf(Said)) /\ seen \in 0 .. Len(log) /\ (log # <<>> => ~ log[1].tie)
      /\ budget \in Budget /\ Len(log) \in Nat
  BY LenProperties DEF Inv, Types, LogType
<1>3. budget' \in Budget
  BY <1>2, SpendType DEF CreateKubernetesEvent, EventsExpire, Bounds
<1>4. Silent /\ seen' \in 0 .. Len(log') /\ (log' # <<>> => ~ log'[1].tie)
  <2>1. CASE log' = log /\ seen' = seen
    BY <1>1, <1>2, <2>1 DEF Silent
  <2>2. CASE EventsExpire
    <3>1. log' = <<>> /\ seen' = 0
      BY <2>2 DEF EventsExpire
    <3> QED BY <1>1, <3>1 DEF Silent
  <2>3. CASE \E tie \in BOOLEAN : /\ outbox # "none" /\ log' = Append(log, [msg |-> outbox, tie |-> tie])
                                  /\ tie => log # <<>>
                                  /\ seen' = seen
    <3>1. PICK tie \in BOOLEAN : /\ outbox # "none" /\ log' = Append(log, [msg |-> outbox, tie |-> tie])
                                 /\ tie => log # <<>>
                                 /\ seen' = seen
      BY <2>3
    <3>2. [msg |-> outbox, tie |-> tie] \in EventsOf(Said)
      BY <3>1 DEF EventsOf, Inv, Types, SaidIn
    <3>3. /\ Len(log') = Len(log) + 1 /\ log'[Len(log) + 1] = [msg |-> outbox, tie |-> tie]
          /\ \A i \in 1 .. Len(log) : log'[i] = log[i]
      BY <1>2, <3>1, <3>2, AppendProperties
    <3>4. seen' \in 0 .. Len(log')
      BY <1>2, <3>1, <3>3
    <3>5. CASE log = <<>>
      <4>1. Len(log) = 0
        BY <3>5
      <4> QED BY <1>1, <3>1, <3>3, <3>4, <3>5, <4>1 DEF Silent
    <3>6. CASE log # <<>>
      <4>1. 1 \in 1 .. Len(log)
        BY <1>2, <3>6, EmptySeq
      <4> QED BY <1>1, <1>2, <3>1, <3>3, <3>4, <3>6, <4>1 DEF Silent
    <3> QED BY <3>5, <3>6
  <2>4. CASE CreateKubernetesEvent
    <3>1. seen' = seen /\ outbox # "none"
      BY <2>4 DEF CreateKubernetesEvent, cacheVars
    <3>2. \/ log' = log
          \/ log' = Append(log, [msg |-> outbox, tie |-> FALSE])
          \/ log # <<>> /\ log' = Append(log, [msg |-> outbox, tie |-> TRUE])
      BY <2>4 DEF CreateKubernetesEvent
    <3> QED BY <2>1, <2>3, <3>1, <3>2
  <2> QED BY <2>2, <2>4
<1>5. /\ pod' \in Pod /\ podRead' \in Pod \cup {NoPod} /\ podRead' = podRead
      /\ pod'.boot = pod.boot /\ pod'.cutover = pod.cutover /\ woken' \in BOOLEAN
      /\ todo' \in Seq(Normal[path]) /\ server' \in {"none", "up"} /\ server' = server
      /\ result' \in {"running", "ok", "failed", "crashed"}
      /\ pod.boot # "success" => todo' \in Seq(Normal[path] \ {"Promoting"})
  BY <1>1, <1>2 DEF Inv, GateInv
<1> QED BY <1>1, <1>3, <1>4, <1>5, SilentKeeps

(* The labels are only ever set, and from a pod that is up to date.         *)
LEMMA StartKeeps ==
  ASSUME Inv, ReconcileStart
  PROVE  Inv' /\ (pod.boot # "none" => pod'.boot = pod.boot)
<1> DEFINE labelled == [podSeen EXCEPT !.cutover = SetCutoverLabel(@), !.boot = SetLDMBootStatusLabel(@)]
<1>1. /\ UNCHANGED <<path, log, cutover, answer, seen, podSeen, phase, migrated>>
      /\ UNCHANGED <<todo, outbox, server, result, budget>>
      /\ woken' = FALSE /\ phase # "Failed"
  BY DEF ReconcileStart, specVars, helperVars
<1>2. /\ pod \in Pod /\ podSeen \in Pod /\ todo \in Seq(Normal[path]) /\ answer \in AnswerSet
      /\ server \in {"none", "up"} /\ result \in {"running", "ok", "failed", "crashed"}
      /\ seen \in 0 .. Len(log) /\ (log # <<>> => ~ log[1].tie) /\ budget \in Budget
  BY DEF Inv, Types, LogType
<1>3. /\ labelled \in Pod /\ labelled.progress = podSeen.progress
      /\ podSeen.cutover = "yes" => labelled.cutover = "yes"
      /\ podSeen.boot # "none" => labelled.boot = podSeen.boot
  BY <1>2 DEF Pod, SetCutoverLabel, SetLDMBootStatusLabel
<1>4. /\ pod' = pod \/ (podSeen = pod /\ pod' = labelled)
      /\ podRead' \in {labelled, NoPod}
  BY DEF ReconcileStart
<1> HIDE DEF labelled
<1>5. /\ pod' \in Pod /\ pod'.progress = pod.progress
      /\ pod.cutover = "yes" => pod'.cutover = "yes"
      /\ pod.boot # "none" => pod'.boot = pod.boot
  BY <1>2, <1>3, <1>4
<1>6. Silent
  BY <1>1, <1>5 DEF Silent
<1>7. /\ podRead' \in Pod \cup {NoPod}
      /\ phase # "Failed"
      /\ pod.boot = "success" => pod'.boot = "success"
      /\ pod'.boot # "success" => todo' \in Seq(Normal[path] \ {"Promoting"})
      /\ woken' \in BOOLEAN /\ todo' \in Seq(Normal[path]) /\ server' \in {"none", "up"}
      /\ result' \in {"running", "ok", "failed", "crashed"} /\ budget' \in Budget
      /\ seen' \in 0 .. Len(log') /\ (log' # <<>> => ~ log'[1].tie)
  BY <1>1, <1>2, <1>3, <1>4, <1>5 DEF Inv, GateInv
<1>8. Inv'
  <2>1. UNCHANGED <<cutover, answer, podSeen, phase, migrated>> /\ server' = server
    BY <1>1
  <2> QED BY <2>1, <1>5, <1>6, <1>7, SilentKeeps
<1> QED BY <1>5, <1>8

-----------------------------------------------------------------------------
(* What a reconcile may make of the events it sees.                         *)
Onward(p) ==
  \/ p = "Failed" \/ Rank(phase) <= Rank(p)
  \/ phase = "AwaitingAdminCutOver" /\ pod.cutover = "yes"

Rebuilt(p) ==
  /\ p \in Phases
  /\ p = "PromotingToVirtio" => pod.boot = "success" /\ path = "ldm"
  /\ p = "WaitingForLDMBootSuccess" => path = "ldm"
  /\ path = "nbdAdmin" => p \notin {"HotAddCleanup", "AwaitingCutOverStartTime"}
  /\ p = "Succeeded" /\ path # "ldm" => server = "up"
  /\ p = "Failed" => \E j \in 1 .. seen : log[j].msg \in {"Failed", "Warning"}
  /\ Onward(p)

LEMMA SaidVisible ==
  ASSUME NEW S, SaidIn(S), LogType, NEW j \in 1 .. seen
  PROVE  log[j].msg \in S
<1>1. j \in 1 .. Len(log)
  BY VisibleIs
<1>2. log[j] \in EventsOf(S)
  BY <1>1, ElementOfSeq DEF SaidIn
<1> QED BY <1>2 DEF EventsOf

LEMMA AdminRanks ==
  /\ \A p \in Phases : Rank(p) <= 13 =>
       Rank(p) <= 11 \/ p \in {"HotAddCleanup", "AwaitingCutOverStartTime", "AwaitingAdminCutOver"}
  /\ \A m \in (Normal["nbdAdmin"] \cup {"Failed", "Warning"}) \cap DOMAIN Target : 11 <= Rank(Target[m])
<1>1. ASSUME NEW p \in Phases, Rank(p) <= 13
      PROVE  Rank(p) <= 11 \/ p \in {"HotAddCleanup", "AwaitingCutOverStartTime", "AwaitingAdminCutOver"}
  BY <1>1 DEF Phases, VMMigrationStatesEnum, Rank
<1>2. (Normal["nbdAdmin"] \cup {"Failed", "Warning"}) \cap DOMAIN Target
         \subseteq {"CopyingDisk", "WaitAdmin", "ChangedBlocks", "Converting", "Created"}
  BY DEF Normal, Target
<1>3. /\ Target["CopyingDisk"] = "Copying" /\ Target["WaitAdmin"] = "AwaitingAdminCutOver"
      /\ Target["ChangedBlocks"] = "CopyingChangedBlocks"
      /\ Target["Converting"] = "ConvertingDisk" /\ Target["Created"] = "Succeeded"
  BY DEF Target
<1>4. /\ Rank("Copying") = 11 /\ Rank("AwaitingAdminCutOver") = 13 /\ Rank("CopyingChangedBlocks") = 14
      /\ Rank("ConvertingDisk") = 15 /\ Rank("Succeeded") = 17
  BY DEF VMMigrationStatesEnum, Rank
<1> HIDE DEF Target, Normal, Rank
<1>5. \A m \in {"CopyingDisk", "WaitAdmin", "ChangedBlocks", "Converting", "Created"} : 11 <= Rank(Target[m])
  BY <1>3, <1>4
<1> QED BY <1>1, <1>2, <1>5

LEMMA HeldIs ==
  ASSUME Inv, LDMHeldPhase # "none"
  PROVE  Rebuilt(LDMHeldPhase)
<1>1. \A j \in 1 .. seen : Visible[j] = log[j] /\ log[j].msg \in Said
  BY SaidVisible, VisibleIs DEF Inv, Types
<1>2. DOMAIN Visible = 1 .. seen
  BY VisibleIs DEF Inv, Types
<1>3. path = "ldm"
  <2>1. Sent("Gate", 0)
    BY DEF LDMHeldPhase
  <2>2. "Gate" \in Said
    BY <1>1, <1>2, <2>1 DEF Sent
  <2> QED BY <2>2, PathIs DEF Inv
<1>4. LDMHeldPhase \in {"WaitingForLDMBootSuccess", "PromotingToVirtio"}
  BY DEF LDMHeldPhase
<1>5. LDMHeldPhase = "PromotingToVirtio" => pod.boot = "success"
  <2> SUFFICES ASSUME LDMHeldPhase = "PromotingToVirtio", pod.boot # "success" PROVE FALSE
    OBVIOUS
  <2>1. PICK i \in 1 .. seen : log[i].msg = "Promoting"
    BY <1>1, <1>2 DEF LDMHeldPhase
  <2>2. log[i].msg \in Said \ {"Promoting"}
    BY SaidVisible DEF Inv, GateInv, Types
  <2> QED BY <2>1, <2>2
<1>6. Onward(LDMHeldPhase)
  <2>1. Rank(LDMHeldPhase) = 17
    BY <1>4, Ranks, RankNames DEF Rank
  <2>2. Rank(phase) \in 0 .. 17
    BY Ranks DEF Rank, Inv, Types
  <2> QED BY <2>1, <2>2 DEF Onward
<1> QED BY <1>3, <1>4, <1>5, <1>6, RankNames DEF Rebuilt

LEMMA ScanRebuilds ==
  ASSUME Inv, podRead # NoPod, NEW p, ScanResult(p)
  PROVE  Rebuilt(p)
<1>0. /\ phase \in Phases /\ phase # "Failed" /\ LogType /\ SaidIn(Said)
      /\ Started \in Phases /\ Rank(Started) \in 0 .. 17 /\ Rank(phase) <= Rank(Started)
      /\ Rank(phase) \in 0 .. 17
  BY StartedType, Ranks DEF Inv, Types, ReadInv, Rank
<1>1. ASSUME CutoverSeen
      PROVE  path = "nbdAdmin" /\ pod.cutover = "yes" /\ (Rank(phase) <= 11 \/ phase = "AwaitingAdminCutOver")
  <2>1. PICK j \in 1 .. seen : log[j].msg = "WaitAdmin"
    BY <1>1 DEF CutoverSeen
  <2>2. path = "nbdAdmin"
    BY <1>0, <2>1, SaidVisible, PathIs DEF Inv
  <2>3. Rank(phase) <= 13
    BY <1>0, <1>1 DEF CutoverSeen
  <2> QED BY <1>0, <1>1, <2>2, <2>3, AdminRanks DEF CutoverSeen, Inv, AdminInv
<1>2. CASE p = Started
  <2>1. p = phase \/ p = "Validating"
    BY <1>2 DEF Started
  <2> QED BY <1>0, <1>2, <2>1 DEF Rebuilt, Onward, Inv, GateInv, AdminInv, CreatedInv, Types
<1>3. CASE p = "Copying" /\ CutoverSeen
  <2>1. Onward(p)
    BY <1>1, <1>3, RankNames DEF Onward, Rank
  <2> QED BY <1>3, <2>1, RankNames DEF Rebuilt
<1>4. CASE \E j \in 1 .. seen :
             /\ log[j].msg \in DOMAIN Target /\ p = Target[log[j].msg]
             /\ Rank(Started) <= Rank(p) \/ CutoverSeen
  <2>1. PICK j \in 1 .. seen :
             /\ log[j].msg \in DOMAIN Target /\ p = Target[log[j].msg]
             /\ Rank(Started) <= Rank(p) \/ CutoverSeen
    BY <1>4
  <2> DEFINE m == log[j].msg
  <2>2. /\ m \in Said /\ m \in DOMAIN Target /\ p = Target[m]
        /\ p \in Phases \ {"Failed", "Pending", "PromotingToVirtio", "WaitingForLDMBootSuccess"}
        /\ Rank(p) \in 0 .. 17
    BY <1>0, <2>1, SaidVisible, TargetPhases, Ranks DEF Rank
  <2> HIDE DEF m
  <2>3. Onward(p)
    <3>1. CASE Rank(Started) <= Rank(p)
      BY <1>0, <2>2, <3>1 DEF Onward
    <3>2. CASE CutoverSeen
      <4>1. 11 <= Rank(p)
        BY <1>1, <2>2, <3>2, AdminRanks DEF Said
      <4> QED BY <1>0, <1>1, <2>2, <3>2, <4>1 DEF Onward
    <3> QED BY <2>1, <3>1, <3>2
  <2>4. path = "nbdAdmin" => p \notin {"HotAddCleanup", "AwaitingCutOverStartTime"}
    BY <2>2, TargetPhases, PathIs DEF Inv
  <2>5. p = "Succeeded" /\ path # "ldm" => server = "up"
    <3> SUFFICES ASSUME p = "Succeeded", path # "ldm", server # "up" PROVE FALSE
      OBVIOUS
    <3>1. m = "Created"
      BY <2>2, TargetPhases
    <3>2. SaidIn(Said \ {"Created"})
      BY DEF Inv, CreatedInv, Types
    <3>3. m \in Said \ {"Created"}
      BY <1>0, <3>2, SaidVisible DEF m
    <3> QED BY <3>1, <3>3
  <2> QED BY <2>2, <2>3, <2>4, <2>5 DEF Rebuilt
<1>5. CASE p = "Failed" /\ \E j \in 1 .. seen : log[j].msg \in {"Failed", "Warning"}
  BY <1>5, RankNames DEF Rebuilt, Onward
<1> QED BY <1>2, <1>3, <1>4, <1>5 DEF ScanResult

LEMMA FallbackRebuilds ==
  ASSUME Inv, NEW q, Rebuilt(q)
  PROVE  Rebuilt(TerminalFallback(q))
<1>0. phase \in Phases /\ Rank(phase) \in 0 .. 17 /\ q \in Phases
  BY Ranks DEF Inv, Types, Rank, Rebuilt
<1>1. CASE TerminalFallback(q) = q
  BY <1>1
<1>2. CASE path = "dataOnly" /\ q = "ConvertingDisk" /\ TerminalFallback(q) = "DataCopied"
  <2>1. Onward("DataCopied")
    BY <1>0, <1>2, RankNames DEF Rebuilt, Onward, Rank
  <2> QED BY <1>2, <2>1, RankNames DEF Rebuilt
<1>3. CASE q \in {"WaitingForLDMBootSuccess", "PromotingToVirtio"} /\ TerminalFallback(q) = "Succeeded"
  <2>1. Onward("Succeeded")
    BY <1>0, RankNames, Ranks DEF Onward, Rank
  <2> QED BY <1>3, <2>1, RankNames DEF Rebuilt
<1> QED BY <1>1, <1>2, <1>3 DEF TerminalFallback

(* The reconcile writes such a phase or leaves the one there is.            *)
LEMMA PhaseStep ==
  ASSUME Inv, ReconcilePhase
  PROVE  /\ UNCHANGED <<path, cutover, answer, todo, outbox, server, result, pod, log, seen, podSeen>>
         /\ podRead' = NoPod /\ woken' \in BOOLEAN /\ migrated' \in BOOLEAN /\ budget' \in Budget
         /\ migrated => migrated'
         /\ \/ phase' = phase
            \/ Rebuilt(phase') /\ (phase' = "Succeeded" => migrated')
<1>1. UNCHANGED <<path, cutover, answer, todo, outbox, server, result, pod, log, seen, podSeen>>
      /\ podRead' = NoPod /\ podRead # NoPod
  BY DEF ReconcilePhase, specVars, helperVars, storeVars, Idle
<1>2. PICK events \in SortedEvents :
        LET p == TerminalFallback(SetupMigrationPhase(events))
        IN \/ /\ phase' = p /\ migrated' = (migrated \/ p = "Succeeded")
              /\ woken' \in {woken \/ p # phase, TRUE}
              /\ UNCHANGED budget
           \/ /\ Spend("fault", MaxFaults) /\ UNCHANGED phase
              /\ migrated' \in {migrated, migrated \/ p = "Succeeded"}
              /\ woken' = TRUE
  BY DEF ReconcilePhase
<1>3. Rebuilt(TerminalFallback(SetupMigrationPhase(events)))
  <2>1. Rebuilt(SetupMigrationPhase(events))
    <3>1. CASE LDMHeldPhase # "none"
      BY <3>1, HeldIs DEF SetupMigrationPhase
    <3>2. CASE LDMHeldPhase = "none"
      <4>1. ScanResult(ScanEvents(events))
        BY ScanIs DEF Inv, Types
      <4> QED BY <1>1, <3>2, <4>1, ScanRebuilds DEF SetupMigrationPhase
    <3> QED BY <3>1, <3>2
  <2> QED BY <2>1, FallbackRebuilds
<1>4. budget' \in Budget
  BY <1>2, SpendType DEF Bounds, Inv, Types
<1> DEFINE p == TerminalFallback(SetupMigrationPhase(events))
<1>5. migrated \in BOOLEAN /\ woken \in BOOLEAN
  BY DEF Inv, Types
<1> HIDE DEF p
<1>6. /\ \/ phase' = p /\ migrated' = (migrated \/ p = "Succeeded")
         \/ UNCHANGED phase /\ migrated' \in {migrated, migrated \/ p = "Succeeded"}
      /\ woken' \in {woken \/ p # phase, TRUE}
  BY <1>2 DEF p
<1>7. woken' \in BOOLEAN
  BY <1>5, <1>6, Zenon
<1>8. migrated' \in BOOLEAN /\ (migrated => migrated')
  BY <1>5, <1>6, Zenon
<1>9. phase' = phase \/ (phase' = p /\ (p = "Succeeded" => migrated'))
  BY <1>6
<1> QED BY <1>1, <1>3, <1>4, <1>7, <1>8, <1>9 DEF p

LEMMA PhaseKeeps ==
  ASSUME Inv, ReconcilePhase
  PROVE  Inv'
<1>1. Types'
  <2>1. phase' \in Phases
    BY PhaseStep DEF Rebuilt, Inv, Types
  <2> QED BY <2>1, PhaseStep DEF Inv, Types, SaidIn, Said, LogType
<1>2. GateInv'
  <2>1. pod'.boot # "success" =>
          /\ todo' \in Seq(Normal[path'] \ {"Promoting"}) /\ SaidIn(Said \ {"Promoting"})'
    BY PhaseStep DEF Inv, GateInv, SaidIn, Said
  <2>2. /\ pod.boot # "success" => phase' # "PromotingToVirtio"
        /\ phase' \in {"WaitingForLDMBootSuccess", "PromotingToVirtio"} => path = "ldm"
    BY PhaseStep DEF Inv, GateInv, Rebuilt
  <2>3. pod' = pod /\ path' = path
    BY PhaseStep
  <2> QED BY <2>1, <2>2, <2>3 DEF GateInv
<1>3. AdminInv'
  BY PhaseStep DEF Inv, AdminInv, Rebuilt
<1>4. CreatedInv'
  BY PhaseStep DEF Inv, CreatedInv, Rebuilt, SaidIn, Said
<1>5. ReadInv'
  BY PhaseStep DEF ReadInv
<1> QED BY <1>1, <1>2, <1>3, <1>4, <1>5 DEF Inv

-----------------------------------------------------------------------------
LEMMA InvInit == Init => Inv
<1> SUFFICES ASSUME Init PROVE Inv
  OBVIOUS
<1>1. path \in DOMAIN Script /\ path \in Paths
  BY MigrationPhaseAssumption DEF Init
<1>2. todo \in Seq(Normal[path] \ {"Failed", "Promoting"})
  BY <1>1, Scripts DEF Init
<1>3. todo \in Seq(Normal[path]) /\ todo \in Seq(Normal[path] \ {"Promoting"})
  BY <1>2
<1>4. \A S : SaidIn(S)
  BY DEF Init, SaidIn
<1>5. pod \in Pod /\ podSeen \in Pod
  BY DEF Init, Pod, AnswerSet
<1>6. LogType
  <2>1. log \in Seq(EventsOf(Said)) /\ Len(log) = 0
    BY <1>4 DEF SaidIn, Init
  <2> QED BY <2>1 DEF Init, LogType
<1>7. Types
  <2>1. cutover \in BOOLEAN
    <3>1. cutover = (path = "nbdAdmin")
      BY DEF Init
    <3> QED BY <3>1, Zenon
  <2>2. answer \in AnswerSet /\ podRead \in Pod \cup {NoPod} /\ phase \in Phases
    BY RankNames DEF Init, AnswerSet
  <2>3. woken \in BOOLEAN /\ migrated \in BOOLEAN
    BY DEF Init
  <2>4. server \in {"none", "up"} /\ result \in {"running", "ok", "failed", "crashed"}
    BY DEF Init
  <2>5. budget \in Budget
    BY DEF Init, Budget, Bounds
  <2> QED BY <1>1, <1>3, <1>4, <1>5, <1>6, <2>1, <2>2, <2>3, <2>4, <2>5 DEF Types
<1>8. GateInv /\ AdminInv /\ CreatedInv /\ ReadInv
  BY <1>3, <1>4 DEF Init, GateInv, AdminInv, CreatedInv, ReadInv
<1> QED BY <1>7, <1>8 DEF Inv

LEMMA InvNext ==
  ASSUME Inv, [Next]_vars
  PROVE  Inv'
BY AsideKeeps, SendKeeps, HelperKeeps, EventKeeps, StartKeeps, PhaseKeeps
   DEF Next, Operator, Helper, Mishap, AtRest

LEMMA Invariant == Spec => []Inv
<1>1. Inv /\ [Next]_vars => Inv'
  BY InvNext
<1> QED BY InvInit, <1>1, PTL DEF Spec

(* The objects of the Kubernetes API, the caches and the helper keep their  *)
(* types, for every choice of paths and answers and any number of mishaps.  *)
THEOREM TypeCorrect == Spec => []TypeOK
<1>1. Inv => TypeOK
  <2> SUFFICES ASSUME Inv PROVE TypeOK
    OBVIOUS
  <2>1. /\ todo \in Seq(Messages)
        /\ outbox \in Messages \cup {"none"}
        /\ log \in Seq([msg : Messages, tie : BOOLEAN])
    <3>1. Normal[path] \subseteq Messages /\ Said \subseteq Messages
      BY PathIs DEF Inv
    <3>2. EventsOf(Said) \subseteq [msg : Messages, tie : BOOLEAN]
      BY <3>1 DEF EventsOf
    <3>3. todo \in Seq(Normal[path]) /\ log \in Seq(EventsOf(Said)) /\ outbox \in Said \cup {"none"}
      BY DEF Inv, Types, SaidIn
    <3>4. todo \in Seq(Messages)
      BY <3>1, <3>3, SeqGrows
    <3>5. log \in Seq([msg : Messages, tie : BOOLEAN])
      BY <3>2, <3>3, SeqGrows
    <3> QED BY <3>1, <3>3, <3>4, <3>5
  <2> QED BY <2>1 DEF Inv, Types, LogType, TypeOK, Budget, Bounds
<1> QED BY Invariant, <1>1, PTL

(* A migration is reported Succeeded only when its VM exists in OpenStack   *)
(* and its VMwareMachine is marked (SetupMigrationPhase,                    *)
(* markMigrationSuccessful), whichever events are seen, lost or expired.    *)
THEOREM SucceededIsCreated == Spec => []SucceededMeansCreated
<1>1. Inv => SucceededMeansCreated
  BY DEF Inv, Types, CreatedInv, SucceededMeansCreated
<1> QED BY Invariant, <1>1, PTL

(* PromotingToVirtio is shown only once the operator has answered the gate  *)
(* (LDMHeldPhase).                                                          *)
THEOREM PromotingIsAnswered == Spec => []PromotingMeansAnswered
<1>1. Inv => PromotingMeansAnswered
  BY DEF Inv, GateInv, PromotingMeansAnswered
<1> QED BY Invariant, <1>1, PTL

LEMMA OnlyReconcileMovesPhase ==
  ASSUME [Next]_vars, phase' # phase
  PROVE  ReconcilePhase
BY DEF Next, Operator, Helper, Mishap, AtRest, InitiateCutover, AnswerGate, PodStarts, SendNext, TakeAnswer,
       DeleteServer, Exit, CreateRecovered, Warn, Fail, PromotionFails, Crash, EventsExpire,
       CreateKubernetesEvent, SyncEvents, SyncPod, Resync, ReconcileStart, vars, ctlVars

(* The loop of SetupMigrationPhase never takes the phase back, but to       *)
(* Copying once the cutover has been triggered, or to Failed.               *)
THEOREM PhaseAdvances == Spec => PhaseOnlyAdvances
<1>1. ASSUME Inv, [Next]_vars
      PROVE  [\/ phase' = "Failed"
              \/ VMMigrationStatesEnum[phase] <= VMMigrationStatesEnum[phase']
              \/ phase = "AwaitingAdminCutOver" /\ pod.cutover = "yes"]_phase
  <2> SUFFICES ASSUME phase' # phase
               PROVE  \/ phase' = "Failed"
                      \/ VMMigrationStatesEnum[phase] <= VMMigrationStatesEnum[phase']
                      \/ phase = "AwaitingAdminCutOver" /\ pod.cutover = "yes"
    OBVIOUS
  <2>1. ReconcilePhase
    BY <1>1, OnlyReconcileMovesPhase
  <2>2. Onward(phase')
    BY <1>1, <2>1, PhaseStep DEF Rebuilt
  <2> QED BY <2>2 DEF Onward, Rank
<1> QED BY Invariant, <1>1, PTL DEF Spec, PhaseOnlyAdvances

(* The first answer to the LDM boot gate that is published stays the one    *)
(* the helper acts on (SetLDMBootStatusLabel).                              *)
THEOREM AnswerStays == Spec => AnswerWrittenOnce
<1>1. ASSUME Inv, [Next]_vars
      PROVE  [pod.boot # "none" => pod'.boot = pod.boot]_pod
  <2>0. pod \in Pod
    BY <1>1 DEF Inv, Types
  <2>1. CASE ReconcileStart
    BY <1>1, <2>1, StartKeeps
  <2>2. CASE ~ ReconcileStart
    <3>1. \/ pod' = pod
          \/ \E m : pod' = [pod EXCEPT !.progress = m]
          \/ \E m : pod' = [pod EXCEPT !.phase = m]
      BY <1>1, <2>2 DEF Next, Operator, Helper, Mishap, AtRest, InitiateCutover, AnswerGate, PodStarts,
         SendNext, TakeAnswer, DeleteServer, Exit, CreateRecovered, Warn, Fail, PromotionFails, Crash,
         EventsExpire, CreateKubernetesEvent, SyncEvents, SyncPod, Resync, ReconcilePhase, vars, storeVars,
         logMessage
    <3> QED BY <2>0, <3>1 DEF Pod
  <2> QED BY <2>1, <2>2
<1> QED BY Invariant, <1>1, PTL DEF Spec, AnswerWrittenOnce

-----------------------------------------------------------------------------
(* What is there when nothing is warned about: a failure is spoken of only  *)
(* once it is the last word of the helper.                                  *)
FailInv ==
  /\ SaidIn(Said \ {"Warning"})
  /\ pod.progress # "Failed" => SaidIn(Said \ {"Failed", "Warning"}) /\ phase # "Failed"
  /\ pod.progress = "Failed" => todo = <<>>
  /\ todo = <<"Failed">> \/ todo \in Seq(Normal[path] \ {"Failed"})

LEMMA FailInit == Init => FailInv
<1> SUFFICES ASSUME Init PROVE FailInv
  OBVIOUS
<1>1. path \in DOMAIN Script
  BY MigrationPhaseAssumption DEF Init
<1>2. todo \in Seq(Normal[path] \ {"Failed", "Promoting"})
  BY <1>1, Scripts DEF Init
<1>3. todo \in Seq(Normal[path] \ {"Failed"})
  BY <1>2
<1>4. \A S : SaidIn(S)
  BY DEF Init, SaidIn
<1>5. pod.progress = "none" /\ phase = "Pending"
  BY DEF Init
<1> QED BY <1>3, <1>4, <1>5 DEF FailInv

(* A message of the helper, as far as failures go.                          *)
LEMMA UtterFails ==
  ASSUME Inv, FailInv, NEW m \in Said \ {"Warning"}, Utter(m), phase' = phase, pod.progress # "Failed",
         m = "Failed" => todo' = <<>>,
         todo' = <<"Failed">> \/ todo' \in Seq(Normal[path] \ {"Failed"})
  PROVE  FailInv'
<1>1. pod \in Pod /\ path' = path /\ Said' = Said /\ pod'.progress = m
  BY DEF Inv, Types, Utter, logMessage, Pod, Said
<1>2. \A S : SaidIn(S) /\ m \in S => SaidNext(S)
  BY <1>1, UtterSaid
<1>3. SaidNext(Said \ {"Warning"})
  BY <1>2 DEF FailInv
<1>4. m # "Failed" => SaidNext(Said \ {"Failed", "Warning"})
  BY <1>2 DEF FailInv
<1> QED BY <1>1, <1>3, <1>4 DEF FailInv, SaidNext, SaidIn, EventsOf

LEMMA SendFails ==
  ASSUME Inv, FailInv, MaxWarn = 0, SendNext \/ CreateRecovered \/ Warn \/ Fail \/ PromotionFails
  PROVE  FailInv'
<1> DEFINE N == Normal[path]
<1>1. todo \in Seq(N) /\ todo # <<>> /\ Head(todo) \in N /\ pod.progress # "Failed" /\ <<>> \in Seq(N \ {"Failed"})
  BY HeadTail DEF SendNext, CreateRecovered, Warn, AwaitsAdmin, Fail, PromotionFails, Inv, Types, FailInv
<1>2. UNCHANGED <<path, log, phase>>
  BY DEF SendNext, CreateRecovered, Warn, Fail, PromotionFails, specVars, ctlVars
<1>3. "Warning" \notin N /\ Said = N \cup {"Failed", "Warning"}
  BY PathIs, NormalFacts DEF Inv, Said
<1>4. CASE SendNext
  <2>1. Utter(Head(todo)) /\ todo' = Tail(todo)
    BY <1>2, <1>4 DEF SendNext, Utter
  <2>2. CASE todo = <<"Failed">>
    <3>1. Head(todo) = "Failed" /\ Tail(todo) = <<>>
      BY <2>2
    <3> QED BY <1>1, <1>2, <1>3, <2>1, <3>1, UtterFails
  <2>3. CASE todo \in Seq(N \ {"Failed"})
    <3>1. Head(todo) \in N \ {"Failed"} /\ Tail(todo) \in Seq(N \ {"Failed"})
      BY <1>1, <2>3, HeadTail
    <3> QED BY <1>1, <1>2, <1>3, <2>1, <3>1, UtterFails
  <2> QED BY <2>2, <2>3 DEF FailInv
<1>5. CASE CreateRecovered
  <2>1. Utter("Created") /\ todo' = <<>> /\ "Created" \in N
    BY <1>1, <1>2, <1>5 DEF CreateRecovered, Utter
  <2> QED BY <1>1, <1>2, <1>3, <2>1, UtterFails
<1>6. CASE Warn
  <2>1. budget["warn"] < 0 /\ budget["warn"] \in Nat
    BY <1>6 DEF Warn, Spend, Inv, Types, Budget, Bounds
  <2> QED BY <2>1
<1>7. CASE Fail
  <2>1. Utter("Failed") /\ todo' = <<>>
    BY <1>2, <1>7 DEF Fail, Utter
  <2> QED BY <1>1, <1>2, <1>3, <2>1, UtterFails
<1>8. CASE PromotionFails
  <2>1. Utter("Done") /\ todo' = <<>>
    BY <1>2, <1>8 DEF PromotionFails, Utter
  <2>2. path = "ldm"
    <3>1. pod.progress = "Promoting" /\ pod.progress \in Said \cup {"none"}
      BY <1>8 DEF PromotionFails, Inv, Types, SaidIn
    <3> QED BY <3>1, PathIs DEF Inv
  <2>3. "Done" \in N
    BY <2>2 DEF Normal
  <2> QED BY <1>1, <1>2, <1>3, <2>1, <2>3, UtterFails
<1> QED BY <1>4, <1>5, <1>6, <1>7, <1>8

(* Every other step says nothing new.                                       *)
LEMMA SilentFails ==
  ASSUME FailInv, Silent, phase' = phase \/ phase' # "Failed",
         todo' = todo \/ (pod.progress # "Failed" /\
                           (todo' = <<"Failed">> \/ todo' \in Seq(Normal[path] \ {"Failed"})))
  PROVE  FailInv'
<1>1. path' = path /\ Said' = Said /\ pod'.progress = pod.progress
  BY DEF Silent, Said
<1>2. SaidNext(Said \ {"Warning"})
  BY SilentSaid DEF FailInv
<1>3. pod.progress # "Failed" => SaidNext(Said \ {"Failed", "Warning"})
  BY SilentSaid DEF FailInv
<1> QED BY <1>1, <1>2, <1>3 DEF FailInv, SaidNext, SaidIn, EventsOf

LEMMA RestIsSilent ==
  ASSUME Inv, \/ InitiateCutover \/ AnswerGate \/ PodStarts \/ TakeAnswer \/ DeleteServer \/ Exit \/ Crash
              \/ EventsExpire \/ CreateKubernetesEvent \/ SyncEvents \/ SyncPod \/ Resync
              \/ ReconcileStart \/ UNCHANGED vars
  PROVE  Silent /\ phase' = phase /\ (todo' = todo \/ TakeAnswer)
<1>1. path' = path /\ phase' = phase /\ (todo' = todo \/ TakeAnswer) /\ outbox' \in {outbox, "none"}
  BY DEF InitiateCutover, AnswerGate, PodStarts, TakeAnswer, DeleteServer, Exit, Crash, EventsExpire,
         CreateKubernetesEvent, SyncEvents, SyncPod, Resync, ReconcileStart, vars, specVars, helperVars, ctlVars
<1>2. pod \in Pod /\ podSeen \in Pod
  BY DEF Inv, Types
<1>3. pod'.progress = pod.progress
  <2>1. CASE ReconcileStart
    <3>1. \/ pod' = pod
          \/ pod' = [pod EXCEPT !.cutover = SetCutoverLabel(@), !.boot = SetLDMBootStatusLabel(@)]
      BY <2>1 DEF ReconcileStart
    <3> QED BY <1>2, <3>1 DEF Pod
  <2>2. CASE ~ ReconcileStart
    <3>1. pod' = pod \/ \E p : pod' = [pod EXCEPT !.phase = p]
      BY <2>2 DEF InitiateCutover, AnswerGate, PodStarts, TakeAnswer, DeleteServer, Exit, Crash, EventsExpire,
         CreateKubernetesEvent, SyncEvents, SyncPod, Resync, vars, storeVars
    <3> QED BY <1>2, <3>1 DEF Pod
  <2> QED BY <2>1, <2>2
<1>4. \/ log' \in {log, <<>>}
      \/ \E tie \in BOOLEAN : outbox # "none" /\ log' = Append(log, [msg |-> outbox, tie |-> tie])
  BY DEF InitiateCutover, AnswerGate, PodStarts, TakeAnswer, DeleteServer, Exit, Crash, EventsExpire,
         CreateKubernetesEvent, SyncEvents, SyncPod, Resync, ReconcileStart, vars, storeVars
<1> QED BY <1>1, <1>3, <1>4 DEF Silent

LEMMA RestFails ==
  ASSUME Inv, FailInv, \/ InitiateCutover \/ AnswerGate \/ PodStarts \/ TakeAnswer \/ DeleteServer \/ Exit
                       \/ Crash \/ EventsExpire \/ CreateKubernetesEvent \/ SyncEvents \/ SyncPod \/ Resync
                       \/ ReconcileStart \/ UNCHANGED vars
  PROVE  FailInv'
<1>1. CASE todo' = todo
  BY <1>1, RestIsSilent, SilentFails
<1>2. CASE TakeAnswer
  <2>1. /\ pod.progress = "GateHelp" /\ pod.boot \in DOMAIN AnswerScript
        /\ todo' = AnswerScript[pod.boot]
    BY <1>2 DEF TakeAnswer, Inv, Types, Pod, AnswerSet
  <2>2. path = "ldm"
    <3>1. pod.progress \in Said \cup {"none"}
      BY DEF Inv, Types, SaidIn
    <3> QED BY <2>1, <3>1, PathIs DEF Inv
  <2>3. todo' = <<"Failed">> \/ todo' \in Seq(Normal["ldm"] \ {"Failed"})
    <3>1. CASE pod.boot = "success"
      BY <2>1, <3>1, Answered
    <3>2. CASE pod.boot = "finish"
      <4>1. todo' \in Seq(Normal["ldm"] \ {"Failed", "Promoting"})
        BY <2>1, <3>2, Answered
      <4> QED BY <4>1
    <3>3. CASE pod.boot = "failed"
      BY <2>1, <3>3, Answered
    <3> QED BY <2>1, <3>1, <3>2, <3>3, Answered
  <2> QED BY <1>2, <2>1, <2>2, <2>3, RestIsSilent, SilentFails
<1> QED BY <1>1, <1>2, RestIsSilent

LEMMA PhaseFails ==
  ASSUME Inv, FailInv, ReconcilePhase
  PROVE  FailInv'
<1>1. phase' = "Failed" => pod.progress = "Failed"
  <2> SUFFICES ASSUME phase' = "Failed", pod.progress # "Failed" PROVE FALSE
    OBVIOUS
  <2>1. PICK j \in 1 .. seen : log[j].msg \in {"Failed", "Warning"}
    BY PhaseStep DEF Rebuilt, FailInv
  <2>2. log[j].msg \in Said \ {"Failed", "Warning"}
    BY SaidVisible DEF Inv, Types, FailInv
  <2> QED BY <2>1, <2>2
<1> QED BY <1>1, PhaseStep DEF FailInv, SaidIn, Said

(* As long as the helper warns of nothing, a migration is reported Failed   *)
(* only when its helper said it failed (SetupMigrationPhase, "Failed to").  *)
(* With warnings it is not so: any "Failed to" in a message counts.         *)
THEOREM FailedIsFailed ==
  ASSUME MaxWarn = 0
  PROVE  Spec => []FailedMeansFailed
<1>1. ASSUME Inv, FailInv, [Next]_vars
      PROVE  FailInv'
  BY <1>1, SendFails, RestFails, PhaseFails DEF Next, Operator, Helper, Mishap, AtRest
<1>2. FailInv => FailedMeansFailed
  BY DEF FailInv, FailedMeansFailed
<1> QED BY Invariant, FailInit, <1>1, <1>2, PTL DEF Spec
=============================================================================
