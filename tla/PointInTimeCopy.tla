-------------------------- MODULE PointInTimeCopy --------------------------
(***************************************************************************)
(* What the replication of a VM promises, whatever the number of           *)
(* iterations, sync cycles and failures behind it: blocks of the target    *)
(* only ever come from an instant the copier has cut, and a copy that      *)
(* reports success shows all of its last cut.  A quiescing copier (one     *)
(* that stops the source, as all but mock migrations do) succeeds only     *)
(* with a cut no guest write has overtaken, unless somebody else powered   *)
(* the source on again.                                                    *)
(***************************************************************************)
EXTENDS Naturals

CONSTANTS Disks, Blocks

VARIABLES
  src,       \* source content: a version per block
  power,     \* power state of the source
  quiesce,   \* the copier stops the source before the last cut
  vol,       \* target content
  cut,       \* content of the source at the last cut
  outcome    \* "running", "ok" or "error"

pvars == <<src, power, quiesce, vol, cut, outcome>>

PInit ==
  /\ power \in {"on", "off"} /\ quiesce \in BOOLEAN
  /\ src \in [Disks -> [Blocks -> {1}]]
  /\ vol \in [Disks -> [Blocks -> {0}]]
  /\ cut = vol
  /\ outcome = "running"

Write ==
  /\ power = "on"
  /\ \E d \in Disks, b \in Blocks : src' = [src EXCEPT ![d][b] = @ + 1]
  /\ UNCHANGED <<power, quiesce, vol, cut, outcome>>

SwitchOff ==
  /\ power' = "off"
  /\ UNCHANGED <<src, quiesce, vol, cut, outcome>>

Cut ==
  /\ outcome = "running"
  /\ cut' = src
  /\ UNCHANGED <<src, power, quiesce, vol, outcome>>

(* Any part of the cut reaches one disk of the target. *)
Transfer ==
  /\ outcome = "running"
  /\ \E d \in Disks, bs \in SUBSET Blocks :
       vol' = [vol EXCEPT ![d] = [b \in Blocks |-> IF b \in bs THEN cut[d][b] ELSE @[b]]]
  /\ UNCHANGED <<src, power, quiesce, cut, outcome>>

Succeed ==
  /\ outcome = "running" /\ outcome' = "ok"
  /\ vol = cut
  /\ quiesce => power = "off" /\ cut = src
  /\ UNCHANGED <<src, power, quiesce, vol, cut>>

GiveUp ==
  /\ outcome = "running" /\ outcome' = "error"
  /\ UNCHANGED <<src, power, quiesce, vol, cut>>

PNext == Write \/ SwitchOff \/ Cut \/ Transfer \/ Succeed \/ GiveUp

PSpec == PInit /\ [][PNext]_pvars
=============================================================================
