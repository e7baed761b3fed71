-------------------------- MODULE NetworkOverrides --------------------------
(***************************************************************************)
(* Choosing VMs in the migration form and assigning their addresses: the   *)
(* dialog of useBulkIPEdit, the table rows it edits (vmsWithFlavor), which  *)
(* useVmsSelectionState rebuilds from every answer of the machines query,  *)
(* the copy of the chosen rows in the form (useVmSelection), and the       *)
(* networkOverridesPerVM that createMigrationPlan makes of that copy.       *)
(* "Apply" awaits a validation of the addresses and then works with what   *)
(* was captured when it was clicked.  An interface's addresses are one     *)
(* value: Empty, a single address, or one that stands for several.         *)
(***************************************************************************)
EXTENDS Naturals, FiniteSets

CONSTANTS
  VMs, None,
  Nics,        \* indices of network interfaces, 1..n
  Bare,        \* VMs the inventory lists no interfaces for
  PoweredOff,
  Empty,       \* no address
  Discovered,  \* [VMs -> [Nics -> value]]: the inventory's addresses
  Typed,       \* values the operator may enter
  Multi,       \* values that are several addresses
  Malformed,   \* values that are no address
  Credentials, \* whether openstackCredentials are there: a set of Booleans
  Impatient,   \* the operator edits or leaves the dialog while Apply waits
  Overtaken,   \* the list changes while Apply waits
  Reloads,     \* the machines query starts anew: the list is empty meanwhile
  MaxOpens,    \* bound: times the dialog is opened
  MaxEdits,    \* bound: changes in it
  MaxFaults    \* bound: rejected or failed validations

Flags == [ip : BOOLEAN, mac : BOOLEAN]
Values == Typed \cup {Empty} \cup {Discovered[v][s] : v \in VMs, s \in Nics}

ASSUME OverridesAssumption ==
  /\ Nics \subseteq Nat /\ Nics = 1..Cardinality(Nics) /\ 1 \in Nics
  /\ Bare \subseteq VMs /\ PoweredOff \subseteq VMs
  /\ Multi \cup Malformed \subseteq Values \ {Empty} /\ None \notin Values \cup [Nics -> Flags]
  /\ Credentials \subseteq BOOLEAN /\ {Impatient, Overtaken, Reloads} \subseteq BOOLEAN
  /\ {MaxOpens, MaxEdits, MaxFaults} \subseteq Nat

VARIABLES
  list,     \* vmList: VMs the machines query returned last
  rows,     \* vmsWithFlavor: rows by VM
  original, \* originalIPsPerVM
  selected, \* selectedVMs
  form,     \* params.vms: rows by VM
  payload,  \* lastSelectedVmsPayloadRef
  dialog,   \* the open dialog's maps, or Closed
  status,   \* bulkValidationStatus
  pending,  \* what handleApplyBulkIPs captured before its await, or None
  applied,  \* what the dialog showed of a VM when it was last applied
  opens, edits, faults

table == <<list, rows, original, selected, form, payload>>
bounds == <<opens, edits, faults>>
vars == <<table, dialog, status, pending, applied, bounds>>

Slots(v) == IF v \in Bare THEN {1} ELSE Nics
Both == [ip |-> TRUE, mac |-> TRUE]
Closed == [vms |-> {}]
NoStatus == [v \in VMs |-> [s \in Nics |-> "empty"]]
Only(f, S) == [x \in S \cap DOMAIN f |-> f[x]]

Init ==
  /\ list = {} /\ rows = << >> /\ selected = {} /\ form = << >> /\ payload = << >>
  /\ original = [v \in VMs |-> [s \in Nics |-> None]]
  /\ dialog = Closed /\ status = NoStatus /\ pending = None
  /\ applied = [v \in VMs |-> None]
  /\ opens = 0 /\ edits = 0 /\ faults = 0

-----------------------------------------------------------------------------
(* The table.                                                               *)

(* Mutant: a row seen without an address is taken for discovered. *)
LearnEmpty(rs) ==
  [v \in VMs |-> [s \in Nics |->
    IF v \in DOMAIN rs /\ s \in Slots(v) /\ original[v][s] = None
      THEN rs[v].ips[s] ELSE original[v][s]]]
(* The first address ever seen in a row stays "discovered".                 *)
Learn(rs) ==
  [v \in VMs |-> [s \in Nics |->
    IF v \in DOMAIN rs /\ s \in Slots(v) /\ original[v][s] = None /\ rs[v].ips[s] # Empty
      THEN rs[v].ips[s] ELSE original[v][s]]]

(* Rows and selection change; the effects of useVmSelection drop selected   *)
(* VMs without a row, unless there are no rows, and copy the selected rows  *)
(* to the form when they differ from what was copied last.                  *)
Commit(rs, sel, fm, ap) ==
  LET clean == IF DOMAIN rs = {} THEN sel ELSE sel \cap DOMAIN rs
      p == Only(rs, clean)
  IN  /\ rows' = rs /\ selected' = clean /\ original' = Learn(rs)
      /\ form' = IF p = payload THEN fm ELSE p
      /\ payload' = p
      /\ applied' = [v \in VMs |-> IF v \in clean \cup DOMAIN rs THEN ap[v] ELSE None]

FreshRow(v) ==
  [ips |-> [s \in Slots(v) |-> Discovered[v][s]],
   nic |-> [s \in Slots(v) |-> None], \* the interface's own flags
   keep |-> None]                     \* vm.preserveIp and vm.preserveMac

(* Mutant: a rebuilt row forgets the operator's flags. *)
RebuiltRowForgets(v) ==
  IF v \notin DOMAIN rows THEN FreshRow(v) ELSE [rows[v] EXCEPT !.keep = None]
(* A row of the list, with what the operator applied to it before.          *)
RebuiltRow(v) ==
  IF v \notin DOMAIN rows THEN FreshRow(v)
  ELSE IF v \in Bare /\ rows[v].ips[1] = Empty
    THEN [rows[v] EXCEPT !.ips = FreshRow(v).ips]
    ELSE rows[v]

(* An answer of the machines query; also a rebuild for another reason       *)
(* (flavors, plans already made) when the list is the same.                 *)
ListArrives(l) ==
  /\ l # {} \/ Reloads
  /\ pending = None \/ l = list \/ Overtaken
  /\ list' = l
  /\ Commit([v \in l |-> RebuiltRow(v)], selected, form, applied)
  /\ UNCHANGED <<dialog, status, pending, bounds>>

HandleVmSelection(S) ==
  /\ dialog = Closed /\ (Impatient \/ pending = None)
  /\ S \subseteq DOMAIN rows /\ S # selected
  /\ Commit(rows, S, form, applied)
  /\ UNCHANGED <<list, dialog, status, pending, bounds>>

-----------------------------------------------------------------------------
(* The dialog.                                                              *)

(* handleOpenBulkIPAssignment.                                              *)
HandleOpen ==
  LET shown == selected \cap DOMAIN rows
      existing == [v \in shown |-> [s \in Slots(v) |->
        IF original[v][s] # None THEN original[v][s] ELSE rows[v].ips[s]]]
      kept(v, s) == IF rows[v].keep = None THEN Both ELSE rows[v].keep[s]
      live == [v \in shown |-> [s \in Slots(v) |->
        [kept(v, s) EXCEPT !.ip = @ /\ v \notin PoweredOff]]]
      typed == [v \in shown |-> [s \in Slots(v) |->
        IF live[v][s].ip THEN existing[v][s] ELSE rows[v].ips[s]]]
  IN  /\ dialog = Closed /\ selected # {} /\ opens < MaxOpens
      /\ Impatient \/ pending = None
      /\ opens' = opens + 1
      /\ dialog' = [vms |-> shown, existing |-> existing, typed |-> typed,
                    current |-> [v \in shown |-> rows[v].ips],
                    live |-> live,      \* bulkPreserveIp and bulkPreserveMac
                    snapshot |-> live]  \* bulkEditOverrides
      /\ status' = [v \in VMs |-> [s \in Nics |->
           IF v \in shown /\ s \in Slots(v) /\ typed[v][s] # Empty
             THEN "valid" ELSE "empty"]]
      /\ UNCHANGED <<table, pending, applied, edits, faults>>

HandleClose ==
  /\ dialog # Closed /\ (Impatient \/ pending = None)
  /\ dialog' = Closed /\ status' = NoStatus
  /\ UNCHANGED <<table, pending, applied, bounds>>

(* An edit of the open dialog.                                              *)
Edit ==
  /\ dialog # Closed /\ (Impatient \/ pending = None)
  /\ edits < MaxEdits /\ edits' = edits + 1
  /\ UNCHANGED <<table, pending, applied, opens, faults>>

(* Mutant: several addresses are accepted without Preserve IP. *)
StatusOfAcceptsMulti(x, keepIp) ==
  IF x = Empty THEN "empty" ELSE IF x \in Malformed THEN "invalid" ELSE "valid"
(* The status a value gets while it is entered.                             *)
StatusOf(x, keepIp) ==
  IF x = Empty THEN "empty"
  ELSE IF (x \in Multi /\ ~keepIp) \/ x \in Malformed THEN "invalid" ELSE "valid"

(* handleBulkPreserveIpChange; the snapshot is left as it was.              *)
HandlePreserveIpChange(v, s) ==
  /\ Edit /\ v \notin PoweredOff
  /\ LET on == ~dialog.live[v][s].ip
         x == IF on THEN dialog.existing[v][s] ELSE dialog.current[v][s]
     IN  /\ dialog' = [dialog EXCEPT !.live[v][s].ip = on, !.typed[v][s] = x]
         /\ status' = [status EXCEPT ![v][s] =
              IF on THEN IF x = Empty THEN "empty" ELSE "valid" ELSE StatusOf(x, FALSE)]

HandlePreserveMacChange(v, s) ==
  /\ Edit
  /\ dialog' = [dialog EXCEPT !.live[v][s].mac = ~@]
  /\ UNCHANGED status

(* handleBulkIpChange: the field is disabled for a preserved address.       *)
HandleIpChange(v, s, x) ==
  /\ Edit /\ ~(dialog.live[v][s].ip /\ dialog.existing[v][s] # Empty)
  /\ x # dialog.typed[v][s]
  /\ dialog' = [dialog EXCEPT !.typed[v][s] = x,
                  !.current[v][s] = IF dialog.live[v][s].ip THEN @ ELSE x]
  /\ status' = [status EXCEPT ![v][s] = StatusOf(x, dialog.live[v][s].ip)]

(* handleClearAllIPs.                                                       *)
HandleClearAll ==
  LET all(x) == [v \in dialog.vms |-> [s \in Slots(v) |-> x]]
      off(f) == [v \in dialog.vms |-> [s \in Slots(v) |-> [f[v][s] EXCEPT !.ip = FALSE]]]
  IN  /\ Edit
      /\ dialog' = [dialog EXCEPT !.typed = all(Empty), !.current = all(Empty),
                      !.live = off(@), !.snapshot = off(@)]
      /\ status' = [v \in VMs |-> IF v \in dialog.vms
                                    THEN [s \in Nics |-> "empty"] ELSE status[v]]

-----------------------------------------------------------------------------
(* Apply Changes.                                                           *)

Fields(d) == UNION {{<<v, s>> : s \in Slots(v)} : v \in d.vms}
ToApply(d) ==
  {f \in Fields(d) : LET x == d.typed[f[1]][f[2]]
                         e == d.existing[f[1]][f[2]]
                     IN  x # Empty /\ ~(d.live[f[1]][f[2]].ip /\ e # Empty /\ x = e)}
(* Mutant: an emptied field is left alone. *)
ToClearNothing(d) == {}
(* collectIpsToClear.                                                       *)
ToClear(d) ==
  {f \in Fields(d) : /\ ~d.live[f[1]][f[2]].ip /\ d.typed[f[1]][f[2]] = Empty
                     /\ d.existing[f[1]][f[2]] # Empty}

SomeOff(flags) == \E v \in DOMAIN flags : \E s \in DOMAIN flags[v] :
                    ~flags[v][s].ip \/ ~flags[v][s].mac
HasIpsToApply(d) ==
  (\E f \in Fields(d) : d.typed[f[1]][f[2]] # Empty) \/ SomeOff(d.live) \/ SomeOff(d.snapshot)
HasValidationErrors == \E v \in VMs, s \in Nics : status[v][s] = "invalid"

(* What the operator sees of a VM.                                          *)
View(d, v) ==
  [s \in Slots(v) |-> [preserveIP |-> d.live[v][s].ip, preserveMAC |-> d.live[v][s].mac,
     ip |-> IF d.live[v][s].ip THEN Empty ELSE d.typed[v][s]]]
Viewed(d, rs) ==
  [v \in VMs |-> IF v \in d.vms \cap DOMAIN rs THEN View(d, v) ELSE applied[v]]

(* A row gets the dialog's flags: live ones of the VM, given ones of its    *)
(* interfaces.                                                              *)
Flagged(row, v, d, flags) == [row EXCEPT !.keep = d.live[v], !.nic = flags[v]]

(* The interfaces up to the last one with a change are assigned, those      *)
(* between with an empty value (buildAssignedIpsPerVm); an empty value      *)
(* takes effect only where Preserve IP is off.                              *)
AssignedRow(row, v, d) ==
  LET ap == ToApply(d)
      upTo(s) == \E t \in Slots(v) : t >= s /\ <<v, t>> \in ap \cup ToClear(d)
      ips == [s \in Slots(v) |->
        IF v \in Bare \/ ~upTo(s) THEN row.ips[s]
        ELSE IF <<v, s>> \in ap THEN d.typed[v][s]
        ELSE IF d.live[v][s].ip THEN row.ips[s] ELSE Empty]
  IN  [Flagged(row, v, d, d.snapshot) EXCEPT !.ips = ips]

(* updateVmRowsAndForm with the rows and the selection of a closure, then   *)
(* handleCloseBulkEditDialog.                                               *)
UpdateRows(rs, sel, d) ==
  /\ Commit(rs, selected, Only(rs, sel), Viewed(d, rs))
  /\ dialog' = Closed /\ status' = NoStatus

(* applyIpAssignmentsToRows.                                                *)
ApplyIpAssignments(c) ==
  UpdateRows([v \in DOMAIN c.rows |-> IF v \in c.dialog.vms
                THEN AssignedRow(c.rows[v], v, c.dialog) ELSE c.rows[v]],
             c.selected, c.dialog)

(* applyOverrideChangesOnly or applyPreserveFlagsOnly.                      *)
ApplyFlagsOnly(d) ==
  LET flags == IF SomeOff(d.snapshot) THEN d.snapshot ELSE d.live
  IN  UpdateRows([v \in DOMAIN rows |-> IF v \in d.vms
                    THEN Flagged(rows[v], v, d, flags) ELSE rows[v]], selected, d)

Mark(st, F, x) ==
  [v \in VMs |-> [s \in Nics |-> IF <<v, s>> \in F THEN x ELSE st[v][s]]]

HandleApply ==
  LET d == dialog
      captured == [rows |-> rows, selected |-> selected, dialog |-> d]
  IN  /\ d # Closed /\ pending = None /\ ~HasValidationErrors /\ HasIpsToApply(d)
      /\ IF ToApply(d) \cup ToClear(d) = {}
           THEN ApplyFlagsOnly(d) /\ UNCHANGED pending
           ELSE \/ FALSE \in Credentials /\ ApplyIpAssignments(captured) /\ UNCHANGED pending
                \/ /\ TRUE \in Credentials
                   /\ pending' = captured
                   /\ status' = Mark(status, ToApply(d), "validating")
                   /\ UNCHANGED <<rows, original, selected, form, payload, dialog, applied>>
      /\ UNCHANGED <<list, bounds>>

AllValid ==
  /\ pending # None
  /\ ApplyIpAssignments(pending) /\ pending' = None
  /\ UNCHANGED <<list, bounds>>

(* Some addresses are refused, the service answers 500 (all of them are     *)
(* marked), or the request fails in another way (none is).                  *)
NotValid(refused, marked) ==
  /\ pending # None /\ faults < MaxFaults /\ faults' = faults + 1
  /\ marked \/ refused = {}
  /\ status' = LET ap == ToApply(pending.dialog)
               IN  IF marked THEN Mark(Mark(status, ap, "valid"), refused, "invalid")
                   ELSE status
  /\ pending' = None
  /\ UNCHANGED <<table, dialog, applied, opens, edits>>

-----------------------------------------------------------------------------
Next ==
  \/ \E l \in SUBSET VMs : ListArrives(l)
  \/ \E S \in SUBSET VMs : HandleVmSelection(S)
  \/ HandleOpen \/ HandleClose \/ HandleClearAll \/ HandleApply \/ AllValid
  \/ \E v \in dialog.vms : \E s \in Slots(v) :
       \/ HandlePreserveIpChange(v, s) \/ HandlePreserveMacChange(v, s)
       \/ \E x \in Typed : HandleIpChange(v, s, x)
  \/ pending # None /\ \E refused \in SUBSET ToApply(pending.dialog), marked \in BOOLEAN :
       /\ marked => refused # {}
       /\ NotValid(refused, marked)

Spec == Init /\ [][Next]_vars

-----------------------------------------------------------------------------
(* networkOverridesPerVM: what createMigrationPlan makes of a row.          *)
Overrides(row, v) ==
  [s \in Slots(v) |->
    LET flags == IF row.keep = None THEN Both ELSE row.keep[s]
    IN  [preserveIP |-> flags.ip, preserveMAC |-> flags.mac,
         ip |-> IF flags.ip \/ v \in Bare THEN Empty ELSE row.ips[s]]]

(* The shape of the state; only selected VMs are in the form, and the       *)
(* dialog's fields are those of its VMs.                                    *)
TypeOK ==
  /\ list \subseteq VMs /\ selected \subseteq VMs
  /\ DOMAIN rows \subseteq VMs /\ DOMAIN form \subseteq DOMAIN rows \cap selected
  /\ \A v \in DOMAIN rows :
       /\ rows[v].ips \in [Slots(v) -> Values]
       /\ rows[v].nic \in [Slots(v) -> Flags \cup {None}]
       /\ rows[v].keep \in [Slots(v) -> Flags] \cup {None}
  /\ original \in [VMs -> [Nics -> (Values \ {Empty}) \cup {None}]]
  /\ dialog # Closed =>
       \A v \in dialog.vms : /\ dialog.live[v] \in [Slots(v) -> Flags]
                             /\ dialog.typed[v] \in [Slots(v) -> Values]
  /\ status \in [VMs -> [Nics -> {"empty", "valid", "invalid", "validating"}]]
  /\ opens \in 0..MaxOpens /\ edits \in 0..MaxEdits /\ faults \in 0..MaxFaults

(* The plan says what the dialog showed when it was applied, for every VM   *)
(* that stayed in the table or selected since: the two preserve flags and,  *)
(* where Preserve IP is off, the address entered, or none if the field was  *)
(* empty.  Rebuilt rows keep it, other VMs' dialogs do not touch it, and    *)
(* the form's copy does not lag behind (useBulkIPEdit, useVmsSelectionState,*)
(* useVmSelection, createMigrationPlan).                                    *)
AppliedAsShown ==
  \A v \in DOMAIN form \ Bare :
    applied[v] # None => Overrides(form[v], v) = applied[v]

(* "Multiple IPs are not supported when Preserve IP is disabled", and what  *)
(* is no address is not either: no plan assigns such a value to a running   *)
(* VM, whichever way it got into the field.                                 *)
AssignedWellFormed ==
  \A v \in DOMAIN form \ PoweredOff : \A s \in Slots(v) :
    Overrides(form[v], v)[s].ip \notin Multi \cup Malformed
=============================================================================
