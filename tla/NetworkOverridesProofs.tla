----------------------- MODULE NetworkOverridesProofs -----------------------
(***************************************************************************)
(* For any number of VMs, interfaces, values, edits and answers of the     *)
(* machines query: no plan assigns a running VM what is not one address,   *)
(* as long as the operator waits for an Apply under way; and plans say     *)
(* what the dialog showed, as long as the list waits for it too.           *)
(***************************************************************************)
EXTENDS NetworkOverrides, TLAPS

IllFormed == Multi \cup Malformed

(* VMs without listed interfaces never get an address: the invariant is     *)
(* about the others.                                                        *)
Wired == VMs \ Bare

LEMMA ValueFacts ==
  /\ None \notin Values /\ Empty \in Values /\ Empty \notin IllFormed /\ Typed \subseteq Values
  /\ \A v \in VMs, s \in Nics : Discovered[v][s] \in Values
  /\ Bare \subseteq VMs /\ PoweredOff \subseteq VMs
  /\ \A v \in VMs : Slots(v) \subseteq Nics /\ (v \in Wired => Slots(v) = Nics)
BY OverridesAssumption DEF Values, IllFormed, Slots, Wired

-----------------------------------------------------------------------------
(* The inductive invariant.                                                 *)

(* A row: its addresses are values, and where the operator has switched     *)
(* Preserve IP off, one address or none.                                    *)
RowOK(row, v) ==
  /\ row = [ips |-> row.ips, nic |-> row.nic, keep |-> row.keep]
  /\ DOMAIN row.ips = Slots(v) /\ \A s \in Slots(v) : row.ips[s] \in Values
  /\ v \in Wired /\ row.keep # None =>
       \A s \in Nics : /\ row.keep[s] \in Flags
                       /\ v \notin PoweredOff /\ ~ row.keep[s].ip => row.ips[s] \notin IllFormed

RowsOK(rs) == DOMAIN rs \subseteq VMs /\ \A v \in DOMAIN rs : RowOK(rs[v], v)

(* What the table has learnt of the addresses discovered: where it has      *)
(* learnt nothing, there is nothing in the inventory.                       *)
OriginalOK ==
  /\ original \in [VMs -> [Nics -> (Values \ {Empty}) \cup {None}]]

Seen(rs) ==
  \A v \in DOMAIN rs \cap Wired, s \in Nics : original[v][s] = None => Discovered[v][s] = Empty

Learned ==
  \A v \in DOMAIN rows \cap Wired, s \in Nics : original[v][s] = None => rows[v].ips[s] = Empty

TableInv == RowsOK(rows) /\ RowsOK(form) /\ OriginalOK /\ Seen(rows) /\ Learned

(* The dialog's maps have the fields of its VMs.                            *)
Maps(d) ==
  /\ d = [vms |-> d.vms, existing |-> d.existing, typed |-> d.typed,
          current |-> d.current, live |-> d.live, snapshot |-> d.snapshot]
  /\ d.vms \subseteq VMs
  /\ DOMAIN d.typed = d.vms /\ DOMAIN d.current = d.vms /\ DOMAIN d.live = d.vms
  /\ \A v \in d.vms \cap Wired :
       /\ DOMAIN d.typed[v] = Nics /\ DOMAIN d.current[v] = Nics /\ DOMAIN d.live[v] = Nics
       /\ \A s \in Nics :
            /\ d.existing[v][s] \in Values /\ d.typed[v][s] \in Values
            /\ d.current[v][s] \in Values
            /\ d.live[v][s] \in Flags

(* A field without a discovered address has none in the row either.         *)
NothingBehind(d, rs) ==
  \A v \in d.vms \cap Wired, s \in Nics : d.existing[v][s] = Empty =>
    Discovered[v][s] = Empty /\ (v \in DOMAIN rs => rs[v].ips[s] = Empty)

(* What is shown for assignment and not marked is well formed.              *)
Marked(d, st) ==
  \A v \in (d.vms \cap Wired) \ PoweredOff, s \in Nics :
    ~ d.live[v][s].ip /\ st[v][s] # "invalid" => d.typed[v][s] \notin IllFormed

Checked(d) ==
  \A v \in (d.vms \cap Wired) \ PoweredOff, s \in Nics :
    ~ d.live[v][s].ip => d.typed[v][s] \notin IllFormed

DialogInv ==
  dialog # Closed => Maps(dialog) /\ NothingBehind(dialog, rows) /\ Marked(dialog, status)

StatusOK == status = [v \in VMs |-> [s \in Nics |-> status[v][s]]]

PendingInv ==
  pending # None =>
    /\ pending = [rows |-> pending.rows, selected |-> pending.selected, dialog |-> pending.dialog]
    /\ dialog # Closed /\ pending.dialog = dialog
    /\ Checked(dialog)
    /\ RowsOK(pending.rows) /\ Seen(pending.rows) /\ NothingBehind(dialog, pending.rows)

Inv == TableInv /\ StatusOK /\ DialogInv /\ PendingInv

LEMMA InvInit == Init => Inv
<1> SUFFICES ASSUME Init PROVE Inv
  OBVIOUS
<1>1. TableInv
  BY DEF Init, TableInv, RowsOK, OriginalOK, Seen, Learned
<1>2. StatusOK /\ DialogInv /\ PendingInv
  BY DEF Init, StatusOK, NoStatus, DialogInv, PendingInv
<1> QED BY <1>1, <1>2 DEF Inv

-----------------------------------------------------------------------------
(* Every change of the table goes through Commit.                           *)
LEMMA LearnGrows ==
  ASSUME OriginalOK, NEW rs, RowsOK(rs)
  PROVE  /\ Learn(rs) \in [VMs -> [Nics -> (Values \ {Empty}) \cup {None}]]
         /\ \A v \in VMs, s \in Nics : original[v][s] # None => Learn(rs)[v][s] = original[v][s]
         /\ \A v \in DOMAIN rs \cap Wired, s \in Nics : Learn(rs)[v][s] = None => rs[v].ips[s] = Empty
<1>1. ASSUME NEW v \in VMs, NEW s \in Nics
      PROVE  /\ Learn(rs)[v][s] \in (Values \ {Empty}) \cup {None}
             /\ original[v][s] # None => Learn(rs)[v][s] = original[v][s]
             /\ v \in DOMAIN rs \cap Wired /\ Learn(rs)[v][s] = None => rs[v].ips[s] = Empty
  <2>1. v \in DOMAIN rs /\ s \in Slots(v) => rs[v].ips[s] \in Values
    BY DEF RowsOK, RowOK
  <2>2. original[v][s] \in (Values \ {Empty}) \cup {None}
    BY DEF OriginalOK
  <2>3. Learn(rs)[v][s] = IF v \in DOMAIN rs /\ s \in Slots(v) /\ original[v][s] = None /\ rs[v].ips[s] # Empty
                          THEN rs[v].ips[s] ELSE original[v][s]
    BY DEF Learn
  <2> QED BY <2>1, <2>2, <2>3, ValueFacts
<1> QED BY <1>1 DEF Learn, RowsOK, Wired

LEMMA CommitKeeps ==
  ASSUME TableInv, NEW rs, NEW sel, NEW fm, NEW ap, Commit(rs, sel, fm, ap),
         RowsOK(rs), RowsOK(fm),
         \A v \in DOMAIN rs \cap Wired, s \in Nics :
           original[v][s] = None /\ rs[v].ips[s] = Empty => Discovered[v][s] = Empty
  PROVE  /\ TableInv' /\ rows' = rs
         /\ \A v \in VMs, s \in Nics : original'[v][s] = None => original[v][s] = None
<1>1. rows' = rs /\ original' = Learn(rs)
  BY DEF Commit
<1>2. OriginalOK
  BY DEF TableInv
<1>3. /\ original' \in [VMs -> [Nics -> (Values \ {Empty}) \cup {None}]]
      /\ \A v \in VMs, s \in Nics : original'[v][s] = None => original[v][s] = None
      /\ \A v \in DOMAIN rs \cap Wired, s \in Nics : original'[v][s] = None => rs[v].ips[s] = Empty
  BY <1>1, <1>2, LearnGrows
<1>4. Seen(rs)' /\ Learned' /\ OriginalOK'
  BY <1>1, <1>3 DEF Seen, Learned, OriginalOK, RowsOK
<1>5. RowsOK(form')
  <2>1. ASSUME NEW S PROVE RowsOK(Only(rs, S))
    <3>1. DOMAIN Only(rs, S) = S \cap DOMAIN rs /\ \A v \in S \cap DOMAIN rs : Only(rs, S)[v] = rs[v]
      BY DEF Only
    <3> QED BY <3>1 DEF RowsOK
  <2> QED BY <2>1 DEF Commit
<1>6. RowsOK(rows)' /\ RowsOK(form)' /\ Seen(rows)'
  BY <1>1, <1>4, <1>5 DEF RowsOK, RowOK, Seen
<1> QED BY <1>1, <1>3, <1>4, <1>6 DEF TableInv

(* What the dialog and an Apply under way rely on survives a change of the  *)
(* table that keeps the addresses of each row.                              *)
LEMMA SameAddresses ==
  ASSUME Inv, TableInv', NEW rs, rows' = rs,
         \A v \in DOMAIN rs \cap Wired :
           \/ v \in DOMAIN rows /\ \A s \in Nics : rs[v].ips[s] = rows[v].ips[s]
           \/ \A s \in Nics : rs[v].ips[s] = Discovered[v][s],
         \A v \in VMs, s \in Nics : original'[v][s] = None => original[v][s] = None,
         UNCHANGED <<dialog, status, pending>>
  PROVE  Inv'
<1>1. ASSUME dialog # Closed PROVE NothingBehind(dialog, rows)'
  <2> SUFFICES ASSUME NEW v \in dialog.vms \cap Wired, NEW s \in Nics, dialog.existing[v][s] = Empty
               PROVE  Discovered[v][s] = Empty /\ (v \in DOMAIN rs => rs[v].ips[s] = Empty)
    BY DEF NothingBehind
  <2>1. Discovered[v][s] = Empty /\ (v \in DOMAIN rows => rows[v].ips[s] = Empty)
    BY <1>1 DEF Inv, DialogInv, NothingBehind
  <2> QED BY <2>1 DEF Wired
<1>2. DialogInv'
  BY <1>1 DEF Inv, DialogInv, Maps, Marked
<1>3. PendingInv'
  <2> SUFFICES ASSUME pending # None
               PROVE  /\ pending = [rows |-> pending.rows, selected |-> pending.selected, dialog |-> pending.dialog]
                      /\ dialog # Closed /\ pending.dialog = dialog
                      /\ Checked(dialog)
                      /\ RowsOK(pending.rows)' /\ Seen(pending.rows)' /\ NothingBehind(dialog, pending.rows)
    BY DEF PendingInv, Checked, NothingBehind
  <2>1. Seen(pending.rows)'
    BY DEF Inv, PendingInv, Seen, Wired
  <2>2. RowsOK(pending.rows)'
    BY DEF Inv, PendingInv, RowsOK, RowOK
  <2> QED BY <2>1, <2>2 DEF Inv, PendingInv
<1>4. StatusOK'
  BY DEF Inv, StatusOK
<1> QED BY <1>2, <1>3, <1>4 DEF Inv

LEMMA ListKeeps ==
  ASSUME Inv, NEW l \in SUBSET VMs, ListArrives(l)
  PROVE  Inv'
<1> DEFINE rs == [v \in l |-> RebuiltRow(v)]
<1>1. TableInv /\ Commit(rs, selected, form, applied) /\ UNCHANGED <<dialog, status, pending>>
  BY DEF Inv, ListArrives
<1>2. ASSUME NEW v \in l
      PROVE  /\ RowOK(rs[v], v)
             /\ v \in Wired => \/ v \in DOMAIN rows /\ \A s \in Nics : rs[v].ips[s] = rows[v].ips[s]
                               \/ \A s \in Nics : rs[v].ips[s] = Discovered[v][s]
  <2>0. rs[v] = RebuiltRow(v) /\ v \in VMs
    OBVIOUS
  <2>1. CASE v \notin DOMAIN rows
    <3>1. rs[v] = FreshRow(v)
      BY <2>0, <2>1 DEF RebuiltRow
    <3>2. FreshRow(v).keep = None /\ DOMAIN FreshRow(v).ips = Slots(v) /\ \A s \in Slots(v) : FreshRow(v).ips[s] = Discovered[v][s]
      BY DEF FreshRow
    <3>3. FreshRow(v) = [ips |-> FreshRow(v).ips, nic |-> FreshRow(v).nic, keep |-> FreshRow(v).keep]
      BY DEF FreshRow
    <3> QED BY <3>1, <3>2, <3>3, <2>0, ValueFacts DEF RowOK, Wired
  <2>2. CASE v \in DOMAIN rows /\ ~ (v \in Bare /\ rows[v].ips[1] = Empty)
    <3>1. rs[v] = rows[v] /\ RowOK(rows[v], v)
      BY <2>0, <2>2, <1>1 DEF RebuiltRow, TableInv, RowsOK
    <3> QED BY <3>1, <2>2
  <2>3. CASE v \in DOMAIN rows /\ v \in Bare /\ rows[v].ips[1] = Empty
    <3>1. rs[v] = [rows[v] EXCEPT !.ips = FreshRow(v).ips] /\ RowOK(rows[v], v)
      BY <2>0, <2>3, <1>1 DEF RebuiltRow, TableInv, RowsOK
    <3>2. rs[v] = [ips |-> FreshRow(v).ips, nic |-> rows[v].nic, keep |-> rows[v].keep]
      BY <3>1 DEF RowOK
    <3>3. DOMAIN FreshRow(v).ips = Slots(v) /\ \A s \in Slots(v) : FreshRow(v).ips[s] \in Values
      BY <2>0, ValueFacts DEF FreshRow
    <3> QED BY <2>3, <3>2, <3>3 DEF RowOK, Wired
  <2> QED BY <2>1, <2>2, <2>3
<1>3. DOMAIN rs = l /\ RowsOK(rs)
  BY <1>2 DEF RowsOK
<1>4. \A v \in DOMAIN rs \cap Wired, s \in Nics :
        original[v][s] = None /\ rs[v].ips[s] = Empty => Discovered[v][s] = Empty
  BY <1>1, <1>2, <1>3 DEF TableInv, Seen
<1>5. RowsOK(form)
  BY <1>1 DEF TableInv
<1> HIDE DEF rs
<1>6. /\ TableInv' /\ rows' = rs
      /\ \A v \in VMs, s \in Nics : original'[v][s] = None => original[v][s] = None
  BY <1>1, <1>3, <1>4, <1>5, CommitKeeps
<1> QED BY <1>1, <1>2, <1>3, <1>6, SameAddresses

LEMMA SelectionKeeps ==
  ASSUME Inv, NEW S \in SUBSET VMs, HandleVmSelection(S)
  PROVE  Inv'
<1>1. TableInv /\ Commit(rows, S, form, applied) /\ UNCHANGED <<dialog, status, pending>>
  BY DEF Inv, HandleVmSelection
<1>2. /\ TableInv' /\ rows' = rows
      /\ \A v \in VMs, s \in Nics : original'[v][s] = None => original[v][s] = None
  BY <1>1, CommitKeeps DEF TableInv, Seen
<1> QED BY <1>1, <1>2, SameAddresses

-----------------------------------------------------------------------------
(* The dialog, while no Apply is under way.                                 *)
LEMMA DialogKeeps ==
  ASSUME Inv, UNCHANGED <<table, pending>>, pending = None, StatusOK',
         dialog' # Closed => Maps(dialog') /\ NothingBehind(dialog', rows) /\ Marked(dialog', status')
  PROVE  Inv'
<1>1. UNCHANGED <<rows, original, form>>
  BY DEF table
<1>2. TableInv'
  BY <1>1 DEF Inv, TableInv, RowsOK, RowOK, OriginalOK, Seen, Learned
<1>3. DialogInv' /\ PendingInv'
  BY <1>1 DEF DialogInv, PendingInv, Maps, NothingBehind, Marked
<1> QED BY <1>2, <1>3 DEF Inv

LEMMA OpenKeeps ==
  ASSUME Inv, Impatient = FALSE, HandleOpen
  PROVE  Inv'
<1> DEFINE shown == selected \cap DOMAIN rows
           existing == [v \in shown |-> [s \in Slots(v) |->
             IF original[v][s] # None THEN original[v][s] ELSE rows[v].ips[s]]]
           kept(v, s) == IF rows[v].keep = None THEN Both ELSE rows[v].keep[s]
           live == [v \in shown |-> [s \in Slots(v) |->
             [kept(v, s) EXCEPT !.ip = @ /\ v \notin PoweredOff]]]
           typed == [v \in shown |-> [s \in Slots(v) |->
             IF live[v][s].ip THEN existing[v][s] ELSE rows[v].ips[s]]]
           current == [v \in shown |-> rows[v].ips]
<1>1. /\ pending = None /\ UNCHANGED <<table, pending>>
      /\ dialog' = [vms |-> shown, existing |-> existing, typed |-> typed,
                    current |-> current, live |-> live, snapshot |-> live]
      /\ status' = [v \in VMs |-> [s \in Nics |->
           IF v \in shown /\ s \in Slots(v) /\ typed[v][s] # Empty THEN "valid" ELSE "empty"]]
  BY DEF HandleOpen
<1>2. StatusOK'
  BY <1>1 DEF StatusOK
<1>3. shown \subseteq VMs /\ TableInv
  BY DEF Inv, TableInv, RowsOK
<1>4. ASSUME NEW v \in shown \cap Wired, NEW s \in Nics
      PROVE  /\ existing[v][s] \in Values /\ typed[v][s] \in Values /\ current[v][s] \in Values
             /\ live[v][s] \in Flags
             /\ v \notin PoweredOff /\ ~ live[v][s].ip => typed[v][s] \notin IllFormed
             /\ existing[v][s] = Empty => Discovered[v][s] = Empty /\ rows[v].ips[s] = Empty
  <2>0. Slots(v) = Nics /\ v \in VMs /\ v \in DOMAIN rows
    BY <1>3, ValueFacts
  <2>1. existing[v][s] = IF original[v][s] # None THEN original[v][s] ELSE rows[v].ips[s]
    BY <2>0
  <2>2. RowOK(rows[v], v) /\ rows[v].ips[s] \in Values /\ original[v][s] \in (Values \ {Empty}) \cup {None}
    BY <1>3, <2>0 DEF TableInv, RowsOK, RowOK, OriginalOK
  <2>3. live[v][s] = [kept(v, s) EXCEPT !.ip = @ /\ v \notin PoweredOff]
    BY <2>0
  <2>4. kept(v, s) \in Flags /\ (v \notin PoweredOff /\ ~ kept(v, s).ip => rows[v].ips[s] \notin IllFormed)
    BY <2>2 DEF RowOK, Both, Flags
  <2>5. live[v][s] \in Flags /\ live[v][s].ip = (kept(v, s).ip /\ v \notin PoweredOff)
    <3> HIDE DEF kept
    <3> QED BY <2>3, <2>4 DEF Flags
  <2>6. typed[v][s] = IF live[v][s].ip THEN existing[v][s] ELSE rows[v].ips[s]
    BY <2>0
  <2>7. current[v][s] = rows[v].ips[s]
    OBVIOUS
  <2>8. existing[v][s] = Empty => Discovered[v][s] = Empty /\ rows[v].ips[s] = Empty
    BY <1>3, <2>0, <2>1, <2>2 DEF TableInv, Seen, Learned
  <2>9. existing[v][s] \in Values
    BY <2>1, <2>2
  <2> HIDE DEF existing, live, typed, current, kept
  <2> QED BY <2>2, <2>4, <2>5, <2>6, <2>7, <2>8, <2>9
<1>5. DOMAIN typed = shown /\ DOMAIN current = shown /\ DOMAIN live = shown
  OBVIOUS
<1>6. ASSUME NEW v \in shown \cap Wired
      PROVE  DOMAIN typed[v] = Nics /\ DOMAIN live[v] = Nics /\ DOMAIN current[v] = Nics
  BY <1>3, ValueFacts DEF TableInv, RowsOK, RowOK
<1> HIDE DEF existing, live, typed, current, kept, shown
<1>7. Maps(dialog') /\ NothingBehind(dialog', rows) /\ Marked(dialog', status')
  BY <1>1, <1>3, <1>4, <1>5, <1>6 DEF Maps, NothingBehind, Marked
<1> QED BY <1>1, <1>2, <1>7, DialogKeeps

(* A map after a change of at most one field.                               *)
Touches(f, g, v, s) ==
  /\ DOMAIN g = DOMAIN f
  /\ \A w \in DOMAIN f : /\ DOMAIN g[w] = DOMAIN f[w]
                         /\ \A t \in DOMAIN f[w] : w # v \/ t # s => g[w][t] = f[w][t]

LEMMA TouchesOne ==
  ASSUME NEW f, NEW v \in DOMAIN f, NEW s \in DOMAIN f[v], NEW x
  PROVE  Touches(f, [f EXCEPT ![v][s] = x], v, s) /\ [f EXCEPT ![v][s] = x][v][s] = x
BY DEF Touches

LEMMA TouchesNone ==
  ASSUME NEW f, NEW v, NEW s
  PROVE  Touches(f, f, v, s)
BY DEF Touches

(* An edit changes one field, and its mark with it.                         *)
LEMMA EditKeeps ==
  ASSUME Inv, UNCHANGED <<table, pending>>, pending = None, dialog # Closed,
         NEW v \in dialog.vms, NEW s \in Slots(v), NEW T, NEW C, NEW L,
         dialog' = [vms |-> dialog.vms, existing |-> dialog.existing, typed |-> T,
                    current |-> C, live |-> L, snapshot |-> dialog.snapshot],
         v \in Wired => /\ Touches(dialog.typed, T, v, s) /\ Touches(dialog.current, C, v, s)
                        /\ Touches(dialog.live, L, v, s)
                        /\ T[v][s] \in Values /\ C[v][s] \in Values /\ L[v][s] \in Flags,
         v \in Wired \ PoweredOff /\ ~ L[v][s].ip /\ status'[v][s] # "invalid" => T[v][s] \notin IllFormed,
         v \notin Wired => DOMAIN T = dialog.vms /\ DOMAIN C = dialog.vms /\ DOMAIN L = dialog.vms
                       /\ \A w \in dialog.vms \ {v} : T[w] = dialog.typed[w] /\ C[w] = dialog.current[w] /\ L[w] = dialog.live[w],
         StatusOK', \A w \in VMs, t \in Nics : w # v \/ t # s => status'[w][t] = status[w][t]
  PROVE  Inv'
<1>1. Maps(dialog) /\ NothingBehind(dialog, rows) /\ Marked(dialog, status) /\ v \in VMs /\ s \in Nics
  BY ValueFacts DEF Inv, DialogInv, Maps
<1>2. /\ DOMAIN T = dialog.vms /\ DOMAIN C = dialog.vms /\ DOMAIN L = dialog.vms
      /\ \A w \in dialog.vms \cap Wired :
           /\ DOMAIN T[w] = Nics /\ DOMAIN C[w] = Nics /\ DOMAIN L[w] = Nics
           /\ \A t \in Nics : w # v \/ t # s =>
                /\ T[w][t] = dialog.typed[w][t] /\ C[w][t] = dialog.current[w][t]
                /\ L[w][t] = dialog.live[w][t]
  <2>1. CASE v \in Wired
    BY <1>1, <2>1 DEF Maps, Touches
  <2>2. CASE v \notin Wired
    BY <1>1, <2>2 DEF Maps
  <2> QED BY <2>1, <2>2
<1>3. \A w \in dialog.vms \cap Wired, t \in Nics :
        T[w][t] \in Values /\ C[w][t] \in Values /\ L[w][t] \in Flags
  BY <1>1, <1>2 DEF Maps
<1>4. Maps(dialog')
  BY <1>1, <1>2, <1>3 DEF Maps
<1>5. NothingBehind(dialog', rows)
  BY <1>1 DEF NothingBehind
<1>6. Marked(dialog', status')
  BY <1>1, <1>2 DEF Marked, Wired
<1> QED BY <1>4, <1>5, <1>6, DialogKeeps

LEMMA FieldFacts ==
  ASSUME Inv, dialog # Closed, NEW v \in dialog.vms, NEW s \in Slots(v)
  PROVE  /\ Maps(dialog) /\ v \in VMs /\ s \in Nics
         /\ v \in DOMAIN dialog.typed /\ v \in DOMAIN dialog.current /\ v \in DOMAIN dialog.live
         /\ v \in Wired =>
              /\ s \in DOMAIN dialog.typed[v] /\ s \in DOMAIN dialog.current[v] /\ s \in DOMAIN dialog.live[v]
              /\ dialog.existing[v][s] \in Values /\ dialog.typed[v][s] \in Values
              /\ dialog.current[v][s] \in Values /\ dialog.live[v][s] \in Flags
<1>1. Maps(dialog)
  BY DEF Inv, DialogInv
<1>2. v \in VMs /\ s \in Nics
  BY <1>1, ValueFacts DEF Maps
<1> QED BY <1>1, <1>2 DEF Maps

WithMark(st, v, s, mark) == [st EXCEPT ![v][s] = mark]

LEMMA MarkOne ==
  ASSUME StatusOK, NEW v \in VMs, NEW s \in Nics, NEW mark,
         status' = WithMark(status, v, s, mark)
  PROVE  /\ StatusOK' /\ status'[v][s] = mark
         /\ \A w \in VMs, t \in Nics : w # v \/ t # s => status'[w][t] = status[w][t]
<1>1. DOMAIN status = VMs /\ \A w \in VMs : DOMAIN status[w] = Nics
  BY DEF StatusOK
<1>2. status' = [w \in VMs |-> [t \in Nics |-> IF w = v /\ t = s THEN mark ELSE status[w][t]]]
  BY DEF StatusOK, WithMark
<1>3. \A w \in VMs, t \in Nics : status'[w][t] = IF w = v /\ t = s THEN mark ELSE status[w][t]
  BY <1>2
<1>4. status' = [w \in VMs |-> [t \in Nics |-> status'[w][t]]]
  BY <1>2, <1>3
<1> QED BY <1>3, <1>4 DEF StatusOK

LEMMA PreserveIpKeeps ==
  ASSUME Inv, Impatient = FALSE, dialog # Closed, NEW v \in dialog.vms, NEW s \in Slots(v),
         HandlePreserveIpChange(v, s)
  PROVE  Inv'
<1> DEFINE on == ~ dialog.live[v][s].ip
           x == IF on THEN dialog.existing[v][s] ELSE dialog.current[v][s]
           T == [dialog.typed EXCEPT ![v][s] = x]
           L == [dialog.live EXCEPT ![v][s].ip = on]
           mark == IF on THEN IF x = Empty THEN "empty" ELSE "valid" ELSE StatusOf(x, FALSE)
<1>1. UNCHANGED <<table, pending>> /\ pending = None
  BY DEF HandlePreserveIpChange, Edit
<1>2. /\ dialog' = [dialog EXCEPT !.live[v][s].ip = on, !.typed[v][s] = x]
      /\ status' = [status EXCEPT ![v][s] = mark]
  BY DEF HandlePreserveIpChange
<1>3. dialog' = [vms |-> dialog.vms, existing |-> dialog.existing, typed |-> T,
                 current |-> dialog.current, live |-> L, snapshot |-> dialog.snapshot]
  BY <1>2, FieldFacts DEF Maps
<1>4. L = [dialog.live EXCEPT ![v][s] = [dialog.live[v][s] EXCEPT !.ip = on]]
  OBVIOUS
<1>5. v \in Wired => /\ Touches(dialog.typed, T, v, s) /\ T[v][s] = x
                    /\ Touches(dialog.live, L, v, s) /\ L[v][s] = [dialog.live[v][s] EXCEPT !.ip = on]
  <2> SUFFICES ASSUME v \in Wired
               PROVE  /\ Touches(dialog.typed, T, v, s) /\ T[v][s] = x
                      /\ Touches(dialog.live, L, v, s) /\ L[v][s] = [dialog.live[v][s] EXCEPT !.ip = on]
    OBVIOUS
  <2>1. /\ v \in DOMAIN dialog.typed /\ s \in DOMAIN dialog.typed[v]
        /\ v \in DOMAIN dialog.live /\ s \in DOMAIN dialog.live[v]
    BY FieldFacts
  <2>2. Touches(dialog.typed, T, v, s) /\ T[v][s] = x
    <3> HIDE DEF x
    <3> QED BY <2>1, TouchesOne
  <2>3. Touches(dialog.live, L, v, s) /\ L[v][s] = [dialog.live[v][s] EXCEPT !.ip = on]
    <3> HIDE DEF on
    <3>1. \A y : LET M == [dialog.live EXCEPT ![v][s] = y]
                 IN  Touches(dialog.live, M, v, s) /\ M[v][s] = y
      BY <2>1, TouchesOne
    <3> HIDE DEF L
    <3> QED BY <1>4, <3>1
  <2> QED BY <2>2, <2>3
<1>6. v \in Wired => x \in Values /\ [dialog.live[v][s] EXCEPT !.ip = on] \in Flags
                    /\ [dialog.live[v][s] EXCEPT !.ip = on].ip = on
  <2>1. v \in Wired => /\ dialog.existing[v][s] \in Values /\ dialog.current[v][s] \in Values
                      /\ dialog.live[v][s] \in Flags
    BY FieldFacts
  <2>2. v \in Wired => x \in Values
    BY <2>1
  <2>3. on \in BOOLEAN
    OBVIOUS
  <2> HIDE DEF on, x
  <2>4. dialog.live[v][s] \in Flags =>
          /\ [dialog.live[v][s] EXCEPT !.ip = on] \in Flags
          /\ [dialog.live[v][s] EXCEPT !.ip = on].ip = on
    BY <2>3 DEF Flags
  <2> QED BY <2>1, <2>2, <2>4
<1>7. v \in Wired \ PoweredOff /\ ~ on /\ mark # "invalid" => x \notin IllFormed
  BY ValueFacts DEF StatusOf, IllFormed
<1>8. StatusOK' /\ status'[v][s] = mark /\ \A w \in VMs, t \in Nics : w # v \/ t # s => status'[w][t] = status[w][t]
  <2>1. StatusOK /\ v \in VMs /\ s \in Nics
    BY FieldFacts DEF Inv
  <2>2. status' = WithMark(status, v, s, mark)
    BY <1>2 DEF WithMark
  <2> HIDE DEF on, x, T, L, mark
  <2> QED BY <2>1, <2>2, MarkOne
<1>9. v \notin Wired => DOMAIN T = dialog.vms /\ DOMAIN L = dialog.vms
        /\ \A w \in dialog.vms \ {v} : T[w] = dialog.typed[w] /\ L[w] = dialog.live[w]
  BY FieldFacts DEF Maps
<1>10. Touches(dialog.current, dialog.current, v, s) /\ DOMAIN dialog.current = dialog.vms
       /\ (v \in Wired => dialog.current[v][s] \in Values)
  BY TouchesNone, FieldFacts DEF Maps
<1>11. v \in Wired => T[v][s] \in Values /\ L[v][s] \in Flags /\ L[v][s].ip = on
  <2> HIDE DEF on, x, T, L
  <2> QED BY <1>5, <1>6
<1>12. v \in Wired \ PoweredOff /\ ~ L[v][s].ip /\ status'[v][s] # "invalid" => T[v][s] \notin IllFormed
  <2> HIDE DEF on, x, T, L, mark
  <2> QED BY <1>5, <1>7, <1>8, <1>11
<1> HIDE DEF on, x, T, L, mark
<1> QED BY <1>1, <1>3, <1>5, <1>8, <1>9, <1>10, <1>11, <1>12, EditKeeps

LEMMA PreserveMacKeeps ==
  ASSUME Inv, Impatient = FALSE, dialog # Closed, NEW v \in dialog.vms, NEW s \in Slots(v),
         HandlePreserveMacChange(v, s)
  PROVE  Inv'
<1> DEFINE flags == [dialog.live[v][s] EXCEPT !.mac = ~ @]
           L == [dialog.live EXCEPT ![v][s] = flags]
<1>1. UNCHANGED <<table, pending, status>> /\ pending = None
  BY DEF HandlePreserveMacChange, Edit
<1>2. dialog' = [vms |-> dialog.vms, existing |-> dialog.existing, typed |-> dialog.typed,
                 current |-> dialog.current, live |-> L, snapshot |-> dialog.snapshot]
  BY FieldFacts DEF Maps, HandlePreserveMacChange
<1>3. v \in Wired => /\ Touches(dialog.live, L, v, s) /\ L[v][s] = flags /\ flags \in Flags
                    /\ flags.ip = dialog.live[v][s].ip
  <2>1. v \in Wired => flags \in Flags /\ flags.ip = dialog.live[v][s].ip
    <3>1. v \in Wired => dialog.live[v][s] \in Flags
      BY FieldFacts
    <3> QED BY <3>1 DEF Flags
  <2> HIDE DEF flags
  <2> QED BY <2>1, FieldFacts, TouchesOne
<1>4. v \notin Wired => DOMAIN L = dialog.vms /\ \A w \in dialog.vms \ {v} : L[w] = dialog.live[w]
  BY FieldFacts DEF Maps
<1>5. /\ Touches(dialog.typed, dialog.typed, v, s) /\ Touches(dialog.current, dialog.current, v, s)
      /\ DOMAIN dialog.typed = dialog.vms /\ DOMAIN dialog.current = dialog.vms
      /\ (v \in Wired => dialog.typed[v][s] \in Values /\ dialog.current[v][s] \in Values)
  BY TouchesNone, FieldFacts DEF Maps
<1>6. v \in Wired \ PoweredOff /\ ~ dialog.live[v][s].ip /\ status[v][s] # "invalid"
        => dialog.typed[v][s] \notin IllFormed
  BY FieldFacts DEF Inv, DialogInv, Marked
<1>7. StatusOK'
  BY <1>1 DEF Inv, StatusOK
<1> HIDE DEF flags, L
<1> QED BY <1>1, <1>2, <1>3, <1>4, <1>5, <1>6, <1>7, EditKeeps

LEMMA IpChangeKeeps ==
  ASSUME Inv, Impatient = FALSE, dialog # Closed, NEW v \in dialog.vms, NEW s \in Slots(v),
         NEW x \in Typed, HandleIpChange(v, s, x)
  PROVE  Inv'
<1> DEFINE y == IF dialog.live[v][s].ip THEN dialog.current[v][s] ELSE x
           T == [dialog.typed EXCEPT ![v][s] = x]
           C == [dialog.current EXCEPT ![v][s] = y]
           mark == StatusOf(x, dialog.live[v][s].ip)
<1>1. UNCHANGED <<table, pending>> /\ pending = None
  BY DEF HandleIpChange, Edit
<1>2. /\ dialog' = [dialog EXCEPT !.typed[v][s] = x,
                      !.current[v][s] = IF dialog.live[v][s].ip THEN @ ELSE x]
      /\ status' = [status EXCEPT ![v][s] = mark]
  BY DEF HandleIpChange
<1>3. dialog' = [vms |-> dialog.vms, existing |-> dialog.existing, typed |-> T,
                 current |-> C, live |-> dialog.live, snapshot |-> dialog.snapshot]
  BY <1>2, FieldFacts DEF Maps
<1>4. v \in Wired => /\ Touches(dialog.typed, T, v, s) /\ T[v][s] = x
                    /\ Touches(dialog.current, C, v, s) /\ C[v][s] = y
  <2> HIDE DEF y
  <2> QED BY FieldFacts, TouchesOne
<1>5. x \in Values /\ (v \in Wired => y \in Values)
  BY FieldFacts, ValueFacts
<1>6. v \in Wired \ PoweredOff /\ ~ dialog.live[v][s].ip /\ mark # "invalid" => x \notin IllFormed
  BY ValueFacts DEF StatusOf, IllFormed
<1>7. StatusOK' /\ status'[v][s] = mark /\ \A w \in VMs, t \in Nics : w # v \/ t # s => status'[w][t] = status[w][t]
  <2>1. StatusOK /\ v \in VMs /\ s \in Nics
    BY FieldFacts DEF Inv
  <2>2. status' = WithMark(status, v, s, mark)
    BY <1>2 DEF WithMark
  <2> HIDE DEF mark
  <2> QED BY <2>1, <2>2, MarkOne
<1>8. v \notin Wired => DOMAIN T = dialog.vms /\ DOMAIN C = dialog.vms
        /\ \A w \in dialog.vms \ {v} : T[w] = dialog.typed[w] /\ C[w] = dialog.current[w]
  BY FieldFacts DEF Maps
<1>9. Touches(dialog.live, dialog.live, v, s) /\ DOMAIN dialog.live = dialog.vms
      /\ (v \in Wired => dialog.live[v][s] \in Flags)
  BY TouchesNone, FieldFacts DEF Maps
<1>10. v \in Wired => T[v][s] \in Values /\ C[v][s] \in Values
  <2> HIDE DEF y, T, C
  <2> QED BY <1>4, <1>5
<1>11. v \in Wired \ PoweredOff /\ ~ dialog.live[v][s].ip /\ status'[v][s] # "invalid" => T[v][s] \notin IllFormed
  <2> HIDE DEF T, C, mark
  <2> QED BY <1>4, <1>6, <1>7
<1> HIDE DEF y, T, C, mark
<1> QED BY <1>1, <1>3, <1>4, <1>7, <1>8, <1>9, <1>10, <1>11, EditKeeps

LEMMA ClearAllKeeps ==
  ASSUME Inv, Impatient = FALSE, HandleClearAll
  PROVE  Inv'
<1> DEFINE all == [v \in dialog.vms |-> [s \in Slots(v) |-> Empty]]
           off(f) == [v \in dialog.vms |-> [s \in Slots(v) |-> [f[v][s] EXCEPT !.ip = FALSE]]]
<1>1. /\ UNCHANGED <<table, pending>> /\ pending = None /\ dialog # Closed
      /\ dialog' = [dialog EXCEPT !.typed = all, !.current = all,
                      !.live = off(@), !.snapshot = off(@)]
      /\ status' = [v \in VMs |-> IF v \in dialog.vms
                                    THEN [s \in Nics |-> "empty"] ELSE status[v]]
  BY DEF HandleClearAll, Edit
<1>2. Maps(dialog) /\ NothingBehind(dialog, rows)
  BY <1>1 DEF Inv, DialogInv
<1>3. dialog' = [vms |-> dialog.vms, existing |-> dialog.existing, typed |-> all,
                 current |-> all, live |-> off(dialog.live), snapshot |-> off(dialog.snapshot)]
  BY <1>1, <1>2 DEF Maps
<1>4. DOMAIN all = dialog.vms /\ DOMAIN off(dialog.live) = dialog.vms
  OBVIOUS
<1>5. ASSUME NEW v \in dialog.vms \cap Wired
      PROVE  /\ DOMAIN all[v] = Nics /\ DOMAIN off(dialog.live)[v] = Nics
             /\ \A s \in Nics : all[v][s] = Empty /\ off(dialog.live)[v][s] \in Flags
  <2>1. Slots(v) = Nics
    BY <1>2, ValueFacts DEF Maps
  <2>2. \A s \in Nics : [dialog.live[v][s] EXCEPT !.ip = FALSE] \in Flags
    <3>1. \A s \in Nics : dialog.live[v][s] \in Flags
      BY <1>2 DEF Maps
    <3>2. \A r \in Flags : [r EXCEPT !.ip = FALSE] \in Flags
      BY DEF Flags
    <3> QED BY <3>1, <3>2
  <2> QED BY <2>1, <2>2
<1>6. StatusOK'
  BY <1>1 DEF Inv, StatusOK
<1> HIDE DEF all, off
<1>7. Maps(dialog') /\ NothingBehind(dialog', rows) /\ Marked(dialog', status')
  BY <1>2, <1>3, <1>4, <1>5, ValueFacts DEF Maps, NothingBehind, Marked
<1> QED BY <1>1, <1>6, <1>7, DialogKeeps

LEMMA CloseKeeps ==
  ASSUME Inv, Impatient = FALSE, HandleClose
  PROVE  Inv'
<1>1. /\ UNCHANGED <<table, pending>> /\ pending = None
      /\ dialog' = Closed /\ status' = NoStatus
  BY DEF HandleClose
<1>2. StatusOK'
  BY <1>1 DEF StatusOK, NoStatus
<1> QED BY <1>1, <1>2, DialogKeeps

-----------------------------------------------------------------------------
(* Apply: a field that is neither assigned nor cleared, with Preserve IP    *)
(* off, had no address before.                                              *)
LEMMA NothingLeft ==
  ASSUME NEW d, NEW rs, Maps(d), NothingBehind(d, rs),
         NEW v \in d.vms \cap Wired, NEW s \in Nics, v \in DOMAIN rs,
         ~ d.live[v][s].ip, <<v, s>> \notin ToApply(d) \cup ToClear(d)
  PROVE  rs[v].ips[s] = Empty
<1>1. <<v, s>> \in Fields(d)
  BY ValueFacts DEF Fields, Maps
<1>2. d.typed[v][s] = Empty
  BY <1>1 DEF ToApply
<1>3. d.existing[v][s] = Empty
  BY <1>1, <1>2 DEF ToClear
<1> QED BY <1>3 DEF NothingBehind

LEMMA FlaggedRow ==
  ASSUME NEW row, NEW v, NEW d, NEW flags, row = [ips |-> row.ips, nic |-> row.nic, keep |-> row.keep]
  PROVE  Flagged(row, v, d, flags) = [ips |-> row.ips, nic |-> flags[v], keep |-> d.live[v]]
<1>1. PICK a, b, c : row = [ips |-> a, nic |-> b, keep |-> c]
  OBVIOUS
<1>2. row.ips = a
  BY <1>1
<1>3. Flagged(row, v, d, flags) = [[ips |-> a, nic |-> b, keep |-> c] EXCEPT !.keep = d.live[v], !.nic = flags[v]]
  BY ONLY <1>1 DEF Flagged
<1> QED BY ONLY <1>2, <1>3

LEMMA AssignedRowOK ==
  ASSUME NEW d, NEW rs, Maps(d), NothingBehind(d, rs), Checked(d), RowsOK(rs),
         NEW v \in d.vms, v \in DOMAIN rs
  PROVE  RowOK(AssignedRow(rs[v], v, d), v)
<1> DEFINE row == rs[v]
           ap == ToApply(d)
           upTo(s) == \E t \in Slots(v) : t >= s /\ <<v, t>> \in ap \cup ToClear(d)
           ips == [s \in Slots(v) |->
             IF v \in Bare \/ ~ upTo(s) THEN row.ips[s]
             ELSE IF <<v, s>> \in ap THEN d.typed[v][s]
             ELSE IF d.live[v][s].ip THEN row.ips[s] ELSE Empty]
<1>1. RowOK(row, v) /\ v \in VMs
  BY DEF RowsOK
<1>2. AssignedRow(row, v, d) = [ips |-> ips, nic |-> d.snapshot[v], keep |-> d.live[v]]
  <2>1. AssignedRow(row, v, d) = [Flagged(row, v, d, d.snapshot) EXCEPT !.ips = ips]
    BY DEF AssignedRow
  <2>2. Flagged(row, v, d, d.snapshot) = [ips |-> row.ips, nic |-> d.snapshot[v], keep |-> d.live[v]]
    BY <1>1, FlaggedRow DEF RowOK
  <2> HIDE DEF ips
  <2> QED BY <2>1, <2>2
<1>3. ASSUME NEW s \in Slots(v)
      PROVE  /\ ips[s] \in Values
             /\ v \in Wired \ PoweredOff /\ ~ d.live[v][s].ip => ips[s] \notin IllFormed
  <2>1. s \in Nics /\ row.ips[s] \in Values
    BY <1>1, ValueFacts DEF RowOK
  <2>2. CASE v \in Bare
    BY <2>1, <2>2 DEF Wired
  <2>3. CASE v \notin Bare /\ <<v, s>> \in ap /\ upTo(s)
    <3>1. ips[s] = d.typed[v][s]
      BY <2>3
    <3> QED BY <3>1, <2>1, <2>3, <1>1 DEF Maps, Checked, Wired
  <2>4. CASE v \notin Bare /\ <<v, s>> \notin ap /\ upTo(s)
    <3>1. ips[s] = IF d.live[v][s].ip THEN row.ips[s] ELSE Empty
      BY <2>4
    <3> QED BY <3>1, <2>1, ValueFacts
  <2>5. CASE v \notin Bare /\ ~ upTo(s)
    <3>1. ips[s] = row.ips[s]
      BY <2>5
    <3>2. s >= s
      <4>1. s \in Nat
        BY <2>1, OverridesAssumption
      <4> QED BY <4>1
    <3>4. <<v, s>> \notin ap \cup ToClear(d)
      BY <3>2, <2>5
    <3>3. ~ d.live[v][s].ip => ips[s] = Empty
      BY <3>1, <3>4, <2>1, <2>5, <1>1, NothingLeft DEF Wired
    <3> QED BY <3>1, <3>3, <2>1, ValueFacts
  <2> QED BY <2>2, <2>3, <2>4, <2>5
<1>4. DOMAIN ips = Slots(v)
  OBVIOUS
<1>5. v \in Wired => Slots(v) = Nics /\ \A s \in Nics : d.live[v][s] \in Flags
  BY <1>1, ValueFacts DEF Maps
<1> HIDE DEF ips, row
<1>6. RowOK([ips |-> ips, nic |-> d.snapshot[v], keep |-> d.live[v]], v)
  BY <1>3, <1>4, <1>5 DEF RowOK
<1> QED BY <1>2, <1>6 DEF row

LEMMA FlaggedOK ==
  ASSUME NEW d, NEW rs, Maps(d), NothingBehind(d, rs), ToApply(d) \cup ToClear(d) = {}, RowsOK(rs),
         NEW v \in d.vms, v \in DOMAIN rs, NEW flags
  PROVE  RowOK(Flagged(rs[v], v, d, flags), v) /\ Flagged(rs[v], v, d, flags).ips = rs[v].ips
<1>1. RowOK(rs[v], v) /\ v \in VMs
  BY DEF RowsOK
<1>2. Flagged(rs[v], v, d, flags) = [ips |-> rs[v].ips, nic |-> flags[v], keep |-> d.live[v]]
  BY <1>1, FlaggedRow DEF RowOK
<1>3. v \in Wired => \A s \in Nics : ~ d.live[v][s].ip => rs[v].ips[s] = Empty
  <2> SUFFICES ASSUME v \in Wired, NEW s \in Nics, ~ d.live[v][s].ip
               PROVE  rs[v].ips[s] = Empty
    OBVIOUS
  <2>1. <<v, s>> \notin ToApply(d) \cup ToClear(d)
    OBVIOUS
  <2> QED BY <2>1, NothingLeft
<1>4. v \in Wired => \A s \in Nics : d.live[v][s] \in Flags
  BY DEF Maps
<1> QED BY <1>1, <1>2, <1>3, <1>4, ValueFacts DEF RowOK

LEMMA OnlyOK ==
  ASSUME NEW rs, NEW S, RowsOK(rs)
  PROVE  RowsOK(Only(rs, S))
<1>1. DOMAIN Only(rs, S) = S \cap DOMAIN rs /\ \A v \in S \cap DOMAIN rs : Only(rs, S)[v] = rs[v]
  BY DEF Only
<1> QED BY <1>1 DEF RowsOK

(* Rows in the place of others that were seen before.                       *)
LEMMA UpdateKeeps ==
  ASSUME TableInv, NEW rs, NEW sel, NEW d, UpdateRows(rs, sel, d), RowsOK(rs), pending' = None,
         NEW old, Seen(old), DOMAIN rs \subseteq DOMAIN old
  PROVE  Inv'
<1>1. Commit(rs, selected, Only(rs, sel), Viewed(d, rs)) /\ dialog' = Closed /\ status' = NoStatus
  BY DEF UpdateRows
<1>2. RowsOK(Only(rs, sel))
  BY OnlyOK
<1>3. \A v \in DOMAIN rs \cap Wired, s \in Nics :
        original[v][s] = None /\ rs[v].ips[s] = Empty => Discovered[v][s] = Empty
  BY DEF Seen
<1>4. TableInv'
  BY <1>1, <1>2, <1>3, CommitKeeps
<1>5. StatusOK' /\ DialogInv' /\ PendingInv'
  BY <1>1 DEF StatusOK, NoStatus, DialogInv, PendingInv
<1> QED BY <1>4, <1>5 DEF Inv

LEMMA AssignKeeps ==
  ASSUME TableInv, NEW c, ApplyIpAssignments(c), pending' = None, RowsOK(c.rows), Seen(c.rows),
         Maps(c.dialog), NothingBehind(c.dialog, c.rows), Checked(c.dialog)
  PROVE  Inv'
<1> DEFINE rs == [v \in DOMAIN c.rows |-> IF v \in c.dialog.vms
                    THEN AssignedRow(c.rows[v], v, c.dialog) ELSE c.rows[v]]
<1>1. UpdateRows(rs, c.selected, c.dialog)
  BY DEF ApplyIpAssignments
<1>2. RowsOK(rs)
  <2>1. ASSUME NEW v \in DOMAIN c.rows PROVE RowOK(rs[v], v)
    <3>1. CASE v \in c.dialog.vms
      <4>1. rs[v] = AssignedRow(c.rows[v], v, c.dialog)
        BY <3>1
      <4> QED BY <3>1, <4>1, AssignedRowOK
    <3>2. CASE v \notin c.dialog.vms
      BY <3>2 DEF RowsOK
    <3> QED BY <3>1, <3>2
  <2>2. DOMAIN rs = DOMAIN c.rows
    OBVIOUS
  <2> HIDE DEF rs
  <2> QED BY <2>1, <2>2 DEF RowsOK
<1>3. DOMAIN rs \subseteq DOMAIN c.rows
  OBVIOUS
<1> HIDE DEF rs
<1> QED BY <1>1, <1>2, <1>3, UpdateKeeps

LEMMA FlagsKeep ==
  ASSUME Inv, dialog # Closed, ToApply(dialog) \cup ToClear(dialog) = {},
         ApplyFlagsOnly(dialog), pending' = None
  PROVE  Inv'
<1> DEFINE flags == IF SomeOff(dialog.snapshot) THEN dialog.snapshot ELSE dialog.live
           rs == [v \in DOMAIN rows |-> IF v \in dialog.vms
                    THEN Flagged(rows[v], v, dialog, flags) ELSE rows[v]]
<1>1. UpdateRows(rs, selected, dialog)
  BY DEF ApplyFlagsOnly
<1>2. Maps(dialog) /\ NothingBehind(dialog, rows) /\ TableInv /\ RowsOK(rows) /\ Seen(rows)
  BY DEF Inv, DialogInv, TableInv
<1>3. DOMAIN rs = DOMAIN rows
  OBVIOUS
<1>4. ASSUME NEW v \in DOMAIN rows PROVE RowOK(rs[v], v)
  <2>1. CASE v \in dialog.vms
    <3>1. rs[v] = Flagged(rows[v], v, dialog, flags)
      BY <2>1
    <3> HIDE DEF flags, rs
    <3> QED BY <2>1, <3>1, <1>2, FlaggedOK
  <2>2. CASE v \notin dialog.vms
    BY <2>2, <1>2 DEF RowsOK
  <2> QED BY <2>1, <2>2
<1> HIDE DEF rs, flags
<1>5. RowsOK(rs)
  BY <1>2, <1>3, <1>4 DEF RowsOK
<1> QED BY <1>1, <1>2, <1>3, <1>5, UpdateKeeps

LEMMA TableSame ==
  ASSUME TableInv, UNCHANGED <<rows, original, form>>
  PROVE  TableInv'
<1>1. RowsOK(rows)'
  BY DEF TableInv, RowsOK, RowOK
<1>2. RowsOK(form)'
  BY DEF TableInv, RowsOK, RowOK
<1>3. OriginalOK' /\ Seen(rows)' /\ Learned'
  BY DEF TableInv, OriginalOK, Seen, Learned
<1> QED BY <1>1, <1>2, <1>3 DEF TableInv

LEMMA ApplyKeeps ==
  ASSUME Inv, HandleApply
  PROVE  Inv'
<1> DEFINE captured == [rows |-> rows, selected |-> selected, dialog |-> dialog]
<1>1. dialog # Closed /\ pending = None /\ ~ HasValidationErrors
  BY DEF HandleApply
<1>2. /\ TableInv /\ RowsOK(rows) /\ Seen(rows) /\ StatusOK
      /\ Maps(dialog) /\ NothingBehind(dialog, rows) /\ Marked(dialog, status)
  BY <1>1 DEF Inv, DialogInv, TableInv
<1>3. Checked(dialog)
  BY <1>1, <1>2 DEF HasValidationErrors, Marked, Checked, Maps
<1>4. CASE /\ ToApply(dialog) \cup ToClear(dialog) = {}
           /\ ApplyFlagsOnly(dialog) /\ UNCHANGED pending
  BY <1>1, <1>4, FlagsKeep
<1>5. CASE ApplyIpAssignments(captured) /\ UNCHANGED pending
  <2>1. captured.rows = rows /\ captured.dialog = dialog
    OBVIOUS
  <2> HIDE DEF captured
  <2> QED BY <1>1, <1>2, <1>3, <1>5, <2>1, AssignKeeps
<1>6. CASE /\ pending' = captured
           /\ status' = Mark(status, ToApply(dialog), "validating")
           /\ UNCHANGED <<rows, original, selected, form, payload, dialog, applied>>
  <2>1. TableInv'
    BY <1>2, <1>6, TableSame
  <2>2. StatusOK'
    BY <1>6 DEF StatusOK, Mark
  <2>3. DialogInv'
    BY <1>2, <1>3, <1>6 DEF DialogInv, Maps, NothingBehind, Marked, Checked
  <2>4. PendingInv'
    <3>1. RowsOK(rows)' /\ Seen(rows)'
      BY <2>1 DEF TableInv
    <3>3. NothingBehind(dialog, rows)' /\ Checked(dialog)'
      BY <1>2, <1>3, <1>6 DEF NothingBehind, Checked
    <3>2. pending' = [rows |-> rows', selected |-> selected', dialog |-> dialog']
      BY <1>6
    <3> QED BY <1>1, <1>6, <3>1, <3>2, <3>3 DEF PendingInv, RowsOK, RowOK, Seen, NothingBehind, Checked
  <2> QED BY <2>1, <2>2, <2>3, <2>4 DEF Inv
<1> HIDE DEF captured
<1>7. \/ /\ ToApply(dialog) \cup ToClear(dialog) = {}
         /\ ApplyFlagsOnly(dialog) /\ UNCHANGED pending
      \/ ApplyIpAssignments(captured) /\ UNCHANGED pending
      \/ /\ pending' = captured
         /\ status' = Mark(status, ToApply(dialog), "validating")
         /\ UNCHANGED <<rows, original, selected, form, payload, dialog, applied>>
  BY DEF HandleApply, captured
<1> QED BY <1>4, <1>5, <1>6, <1>7

LEMMA AllValidKeeps ==
  ASSUME Inv, AllValid
  PROVE  Inv'
<1>1. pending # None /\ ApplyIpAssignments(pending) /\ pending' = None
  BY DEF AllValid
<1>2. /\ TableInv /\ RowsOK(pending.rows) /\ Seen(pending.rows)
      /\ dialog # Closed /\ pending.dialog = dialog /\ Checked(dialog)
      /\ NothingBehind(dialog, pending.rows) /\ Maps(dialog)
  BY <1>1 DEF Inv, PendingInv, DialogInv
<1> QED BY <1>1, <1>2, AssignKeeps

LEMMA NotValidKeeps ==
  ASSUME Inv, NEW refused, NEW marked \in BOOLEAN, NotValid(refused, marked)
  PROVE  Inv'
<1>1. /\ pending # None /\ pending' = None /\ UNCHANGED <<table, dialog>>
      /\ \/ status' = Mark(Mark(status, ToApply(pending.dialog), "valid"), refused, "invalid")
         \/ status' = status
  BY DEF NotValid
<1>2. UNCHANGED <<rows, original, form>>
  BY <1>1 DEF table
<1>3. TableInv'
  BY <1>2, TableSame DEF Inv
<1>6. PendingInv'
  BY <1>1 DEF PendingInv
<1>4. StatusOK'
  BY <1>1 DEF Inv, StatusOK, Mark
<1>5. DialogInv'
  BY <1>1, <1>2 DEF Inv, PendingInv, DialogInv, Maps, NothingBehind, Marked, Checked
<1> QED BY <1>3, <1>4, <1>5, <1>6 DEF Inv

LEMMA InvNext ==
  ASSUME Inv, Impatient = FALSE, [Next]_vars
  PROVE  Inv'
<1>1. ASSUME NEW l \in SUBSET VMs, ListArrives(l) PROVE Inv'
  BY <1>1, ListKeeps
<1>2. ASSUME NEW S \in SUBSET VMs, HandleVmSelection(S) PROVE Inv'
  BY <1>2, SelectionKeeps
<1>3. CASE HandleOpen
  BY <1>3, OpenKeeps
<1>4. CASE HandleClose
  BY <1>4, CloseKeeps
<1>5. CASE HandleClearAll
  BY <1>5, ClearAllKeeps
<1>6. CASE HandleApply
  BY <1>6, ApplyKeeps
<1>7. CASE AllValid
  BY <1>7, AllValidKeeps
<1>8. ASSUME NEW v \in dialog.vms, NEW s \in Slots(v),
             \/ HandlePreserveIpChange(v, s) \/ HandlePreserveMacChange(v, s)
             \/ \E x \in Typed : HandleIpChange(v, s, x)
      PROVE  Inv'
  <2>1. dialog # Closed
    BY <1>8 DEF HandlePreserveIpChange, HandlePreserveMacChange, HandleIpChange, Edit
  <2>2. CASE HandlePreserveIpChange(v, s)
    BY <2>1, <2>2, PreserveIpKeeps
  <2>3. CASE HandlePreserveMacChange(v, s)
    BY <2>1, <2>3, PreserveMacKeeps
  <2>4. ASSUME NEW x \in Typed, HandleIpChange(v, s, x) PROVE Inv'
    BY <2>1, <2>4, IpChangeKeeps
  <2> QED BY <1>8, <2>2, <2>3, <2>4
<1>9. ASSUME NEW refused, NEW marked \in BOOLEAN, NotValid(refused, marked) PROVE Inv'
  BY <1>9, NotValidKeeps
<1>10. CASE UNCHANGED vars
  <2>1. UNCHANGED <<rows, original, form, dialog, status, pending>>
    BY <1>10 DEF vars, table
  <2>2. TableInv'
    BY <2>1, TableSame DEF Inv
  <2>3. StatusOK'
    BY <2>1 DEF Inv, StatusOK
  <2>4. DialogInv'
    BY <2>1 DEF Inv, DialogInv, Maps, NothingBehind, Marked
  <2>5. PendingInv'
    BY <2>1 DEF Inv, PendingInv, RowsOK, RowOK, Seen, NothingBehind, Checked
  <2> QED BY <2>2, <2>3, <2>4, <2>5 DEF Inv
<1> QED BY <1>1, <1>2, <1>3, <1>4, <1>5, <1>6, <1>7, <1>8, <1>9, <1>10 DEF Next

LEMMA InvImplies == Inv => AssignedWellFormed
<1> SUFFICES ASSUME Inv, NEW v \in DOMAIN form \ PoweredOff, NEW s \in Slots(v)
             PROVE  Overrides(form[v], v)[s].ip \notin Multi \cup Malformed
  BY DEF AssignedWellFormed
<1> DEFINE flags == IF form[v].keep = None THEN Both ELSE form[v].keep[s]
<1>1. Overrides(form[v], v)[s].ip = IF flags.ip \/ v \in Bare THEN Empty ELSE form[v].ips[s]
  BY DEF Overrides
<1>2. RowOK(form[v], v) /\ v \in VMs /\ s \in Nics
  BY ValueFacts DEF Inv, TableInv, RowsOK
<1>3. ~ flags.ip /\ v \notin Bare => form[v].ips[s] \notin IllFormed
  BY <1>2 DEF RowOK, Wired, Both
<1> HIDE DEF flags
<1> QED BY <1>1, <1>3, ValueFacts DEF IllFormed

(* No plan assigns a running VM several addresses, or what is none, for one *)
(* interface (AssignedWellFormed of NetworkOverrides): not when the field   *)
(* is typed, restored by Preserve IP, cleared or left alone, nor after the  *)
(* list was rebuilt or emptied in between (useBulkIPEdit,                   *)
(* useVmsSelectionState), provided the operator leaves the dialog alone     *)
(* while its addresses are being validated.                                 *)
THEOREM PlansAssignOneAddress ==
  ASSUME Impatient = FALSE
  PROVE  Spec => []AssignedWellFormed
<1>1. Init => Inv
  BY InvInit
<1>2. Inv /\ [Next]_vars => Inv'
  BY InvNext
<1>3. Inv => AssignedWellFormed
  BY InvImplies
<1> QED BY <1>1, <1>2, <1>3, PTL DEF Spec

-----------------------------------------------------------------------------
(* Types.  A grid has a value for every interface of each of its VMs.       *)

Grid(f, V, T) == DOMAIN f = V /\ \A v \in V : f[v] \in [Slots(v) -> T]

RowType(v) ==
  [ips : [Slots(v) -> Values], nic : [Slots(v) -> Flags \cup {None}],
   keep : [Slots(v) -> Flags] \cup {None}]
RowsTyped(rs) == DOMAIN rs \subseteq VMs /\ \A v \in DOMAIN rs : rs[v] \in RowType(v)

DialogTyped(d) ==
  /\ d = [vms |-> d.vms, existing |-> d.existing, typed |-> d.typed,
          current |-> d.current, live |-> d.live, snapshot |-> d.snapshot]
  /\ d.vms \subseteq VMs
  /\ Grid(d.existing, d.vms, Values) /\ Grid(d.typed, d.vms, Values)
  /\ Grid(d.current, d.vms, Values)
  /\ Grid(d.live, d.vms, Flags) /\ Grid(d.snapshot, d.vms, Flags)

Statuses == {"empty", "valid", "invalid", "validating"}

TypeInv ==
  /\ list \subseteq VMs /\ selected \subseteq VMs
  /\ RowsTyped(rows) /\ RowsTyped(form) /\ OriginalOK
  /\ dialog # Closed => DialogTyped(dialog)
  /\ status \in [VMs -> [Nics -> Statuses]]
  /\ pending # None =>
       RowsTyped(pending.rows) /\ pending.selected \subseteq VMs /\ DialogTyped(pending.dialog)
  /\ opens \in 0..MaxOpens /\ edits \in 0..MaxEdits /\ faults \in 0..MaxFaults

LEMMA LearnTyped ==
  ASSUME OriginalOK, NEW rs, RowsTyped(rs)
  PROVE  Learn(rs) \in [VMs -> [Nics -> (Values \ {Empty}) \cup {None}]]
<1>1. ASSUME NEW v \in VMs, NEW s \in Nics
      PROVE  Learn(rs)[v][s] \in (Values \ {Empty}) \cup {None}
  <2>1. v \in DOMAIN rs /\ s \in Slots(v) => rs[v].ips[s] \in Values
    BY DEF RowsTyped, RowType
  <2>2. original[v][s] \in (Values \ {Empty}) \cup {None}
    BY DEF OriginalOK
  <2>3. Learn(rs)[v][s] = IF v \in DOMAIN rs /\ s \in Slots(v) /\ original[v][s] = None /\ rs[v].ips[s] # Empty
                          THEN rs[v].ips[s] ELSE original[v][s]
    BY DEF Learn
  <2> QED BY <2>1, <2>2, <2>3
<1> QED BY <1>1 DEF Learn

LEMMA OnlyTyped ==
  ASSUME NEW rs, NEW S, RowsTyped(rs)
  PROVE  RowsTyped(Only(rs, S))
<1>1. DOMAIN Only(rs, S) = S \cap DOMAIN rs /\ \A v \in S \cap DOMAIN rs : Only(rs, S)[v] = rs[v]
  BY DEF Only
<1> QED BY <1>1 DEF RowsTyped

LEMMA CommitTyped ==
  ASSUME OriginalOK, NEW rs, NEW sel \in SUBSET VMs, NEW fm, NEW ap, Commit(rs, sel, fm, ap),
         RowsTyped(rs), RowsTyped(fm)
  PROVE  RowsTyped(rows)' /\ RowsTyped(form)' /\ OriginalOK' /\ selected' \subseteq VMs
<1>1. rows' = rs /\ original' = Learn(rs) /\ selected' \subseteq VMs
  BY DEF Commit
<1>2. OriginalOK'
  BY <1>1, LearnTyped DEF OriginalOK
<1>3. RowsTyped(form')
  BY OnlyTyped DEF Commit
<1> QED BY <1>1, <1>2, <1>3 DEF RowsTyped, RowType

LEMMA FreshTyped ==
  ASSUME NEW v \in VMs
  PROVE  FreshRow(v) \in RowType(v)
BY ValueFacts DEF FreshRow, RowType

LEMMA RebuiltTyped ==
  ASSUME RowsTyped(rows), NEW v \in VMs
  PROVE  RebuiltRow(v) \in RowType(v)
<1>1. v \in DOMAIN rows => rows[v] \in RowType(v)
  BY DEF RowsTyped
<1>2. FreshRow(v) \in RowType(v)
  BY FreshTyped
<1>3. \A r \in RowType(v) : [r EXCEPT !.ips = FreshRow(v).ips] \in RowType(v)
  BY <1>2 DEF RowType
<1> QED BY <1>1, <1>2, <1>3 DEF RebuiltRow

LEMMA GridExcept ==
  ASSUME NEW V, NEW T, NEW f, Grid(f, V, T), NEW v \in V, NEW s \in Slots(v), NEW x \in T
  PROVE  Grid([f EXCEPT ![v][s] = x], V, T)
BY DEF Grid

LEMMA FlaggedTyped ==
  ASSUME NEW v \in VMs, NEW row \in RowType(v), NEW d, NEW flags,
         d.live[v] \in [Slots(v) -> Flags], flags[v] \in [Slots(v) -> Flags]
  PROVE  Flagged(row, v, d, flags) \in RowType(v)
BY DEF Flagged, RowType

LEMMA AssignedTyped ==
  ASSUME NEW d, DialogTyped(d), NEW v \in d.vms, NEW row \in RowType(v)
  PROVE  AssignedRow(row, v, d) \in RowType(v)
<1> DEFINE ap == ToApply(d)
           upTo(s) == \E t \in Slots(v) : t >= s /\ <<v, t>> \in ap \cup ToClear(d)
           ips == [s \in Slots(v) |->
             IF v \in Bare \/ ~ upTo(s) THEN row.ips[s]
             ELSE IF <<v, s>> \in ap THEN d.typed[v][s]
             ELSE IF d.live[v][s].ip THEN row.ips[s] ELSE Empty]
<1>1. v \in VMs /\ d.live[v] \in [Slots(v) -> Flags] /\ d.snapshot[v] \in [Slots(v) -> Flags]
      /\ d.typed[v] \in [Slots(v) -> Values] /\ row.ips \in [Slots(v) -> Values]
  BY DEF DialogTyped, Grid, RowType
<1>2. ips \in [Slots(v) -> Values]
  <2>1. ASSUME NEW s \in Slots(v) PROVE ips[s] \in Values
    <3> HIDE DEF ap, upTo
    <3> QED BY <1>1, ValueFacts
  <2> HIDE DEF ap, upTo
  <2> QED BY <2>1
<1>3. Flagged(row, v, d, d.snapshot) \in RowType(v)
  BY <1>1, FlaggedTyped
<1>4. AssignedRow(row, v, d) = [Flagged(row, v, d, d.snapshot) EXCEPT !.ips = ips]
  BY DEF AssignedRow
<1> HIDE DEF ips
<1> QED BY <1>2, <1>3, <1>4 DEF RowType

LEMMA UpdateTyped ==
  ASSUME TypeInv, NEW rs, NEW sel, NEW d, UpdateRows(rs, sel, d), RowsTyped(rs),
         UNCHANGED list, UNCHANGED bounds,
         pending' = None \/ UNCHANGED pending
  PROVE  TypeInv'
<1>1. Commit(rs, selected, Only(rs, sel), Viewed(d, rs)) /\ dialog' = Closed /\ status' = NoStatus
  BY DEF UpdateRows
<1>2. RowsTyped(Only(rs, sel))
  BY OnlyTyped
<1>3. RowsTyped(rows)' /\ RowsTyped(form)' /\ OriginalOK' /\ selected' \subseteq VMs
  BY <1>1, <1>2, CommitTyped DEF TypeInv
<1>4. status' \in [VMs -> [Nics -> Statuses]]
  BY <1>1 DEF NoStatus, Statuses
<1> QED BY <1>1, <1>3, <1>4 DEF TypeInv, bounds

LEMMA AssignTyped ==
  ASSUME TypeInv, NEW c, ApplyIpAssignments(c), RowsTyped(c.rows), DialogTyped(c.dialog),
         UNCHANGED list, UNCHANGED bounds,
         pending' = None \/ UNCHANGED pending
  PROVE  TypeInv'
<1> DEFINE rs == [v \in DOMAIN c.rows |-> IF v \in c.dialog.vms
                    THEN AssignedRow(c.rows[v], v, c.dialog) ELSE c.rows[v]]
<1>1. UpdateRows(rs, c.selected, c.dialog)
  BY DEF ApplyIpAssignments
<1>2. RowsTyped(rs)
  <2>1. ASSUME NEW v \in DOMAIN c.rows PROVE rs[v] \in RowType(v)
    BY AssignedTyped DEF RowsTyped
  <2> QED BY <2>1 DEF RowsTyped
<1> HIDE DEF rs
<1> QED BY <1>1, <1>2, UpdateTyped

LEMMA FlagsTyped ==
  ASSUME TypeInv, dialog # Closed, ApplyFlagsOnly(dialog), UNCHANGED <<list, pending, bounds>>
  PROVE  TypeInv'
<1> DEFINE flags == IF SomeOff(dialog.snapshot) THEN dialog.snapshot ELSE dialog.live
           rs == [v \in DOMAIN rows |-> IF v \in dialog.vms
                    THEN Flagged(rows[v], v, dialog, flags) ELSE rows[v]]
<1>1. UpdateRows(rs, selected, dialog)
  BY DEF ApplyFlagsOnly
<1>2. \A v \in dialog.vms : /\ v \in VMs /\ dialog.live[v] \in [Slots(v) -> Flags]
                            /\ flags[v] \in [Slots(v) -> Flags]
  BY DEF TypeInv, DialogTyped, Grid
<1>3. RowsTyped(rs)
  <2>1. ASSUME NEW v \in DOMAIN rows PROVE rs[v] \in RowType(v)
    <3>1. rows[v] \in RowType(v)
      BY DEF TypeInv, RowsTyped
    <3>2. rs[v] = IF v \in dialog.vms THEN Flagged(rows[v], v, dialog, flags) ELSE rows[v]
      OBVIOUS
    <3> HIDE DEF flags, rs
    <3> QED BY <1>2, <3>1, <3>2, FlaggedTyped
  <2>2. DOMAIN rs = DOMAIN rows
    OBVIOUS
  <2> HIDE DEF rs
  <2> QED BY <2>1, <2>2 DEF RowsTyped, TypeInv
<1> HIDE DEF rs
<1> QED BY <1>1, <1>3, UpdateTyped

LEMMA MarkTyped ==
  ASSUME NEW st \in [VMs -> [Nics -> Statuses]], NEW F, NEW x \in Statuses
  PROVE  Mark(st, F, x) \in [VMs -> [Nics -> Statuses]]
BY DEF Mark

LEMMA ApplyTyped ==
  ASSUME TypeInv, HandleApply
  PROVE  TypeInv'
<1> DEFINE captured == [rows |-> rows, selected |-> selected, dialog |-> dialog]
<1>1. dialog # Closed /\ UNCHANGED <<list, bounds>> /\ DialogTyped(dialog) /\ RowsTyped(rows)
  BY DEF HandleApply, TypeInv
<1>2. captured.rows = rows /\ captured.selected = selected /\ captured.dialog = dialog
  OBVIOUS
<1>3. \/ ApplyFlagsOnly(dialog) /\ UNCHANGED pending
      \/ ApplyIpAssignments(captured) /\ UNCHANGED pending
      \/ /\ pending' = captured
         /\ status' = Mark(status, ToApply(dialog), "validating")
         /\ UNCHANGED <<rows, original, selected, form, payload, dialog, applied>>
  BY DEF HandleApply
<1> HIDE DEF captured
<1>4. CASE ApplyFlagsOnly(dialog) /\ UNCHANGED pending
  BY <1>1, <1>4, FlagsTyped
<1>5. CASE ApplyIpAssignments(captured) /\ UNCHANGED pending
  BY <1>1, <1>2, <1>5, AssignTyped
<1>6. CASE /\ pending' = captured
           /\ status' = Mark(status, ToApply(dialog), "validating")
           /\ UNCHANGED <<rows, original, selected, form, payload, dialog, applied>>
  <2>1. status' \in [VMs -> [Nics -> Statuses]]
    BY <1>6, MarkTyped DEF TypeInv, Statuses
  <2> QED BY <1>1, <1>2, <1>6, <2>1 DEF TypeInv, OriginalOK, bounds
<1> QED BY <1>3, <1>4, <1>5, <1>6

(* A step of the dialog alone.                                              *)
LEMMA DialogStepTyped ==
  ASSUME TypeInv, UNCHANGED <<list, rows, original, selected, form, pending>>,
         dialog' # Closed => DialogTyped(dialog'), status' \in [VMs -> [Nics -> Statuses]],
         opens' \in 0..MaxOpens, edits' \in 0..MaxEdits, faults' \in 0..MaxFaults
  PROVE  TypeInv'
BY DEF TypeInv, RowsTyped, RowType, OriginalOK, DialogTyped, Grid

LEMMA ListTyped ==
  ASSUME TypeInv, NEW l \in SUBSET VMs, ListArrives(l)
  PROVE  TypeInv'
<1> DEFINE rs == [v \in l |-> RebuiltRow(v)]
<1>1. /\ Commit(rs, selected, form, applied) /\ list' = l
      /\ UNCHANGED <<dialog, status, pending, opens, edits, faults>>
  BY DEF ListArrives, bounds
<1>2. RowsTyped(rs)
  BY RebuiltTyped DEF RowsTyped, TypeInv
<1> HIDE DEF rs
<1>3. RowsTyped(rows)' /\ RowsTyped(form)' /\ OriginalOK' /\ selected' \subseteq VMs
  BY <1>1, <1>2, CommitTyped DEF TypeInv
<1> QED BY <1>1, <1>3 DEF TypeInv

LEMMA SelectionTyped ==
  ASSUME TypeInv, NEW S \in SUBSET VMs, HandleVmSelection(S)
  PROVE  TypeInv'
<1>1. /\ Commit(rows, S, form, applied) /\ UNCHANGED <<list, dialog, status, pending, opens, edits, faults>>
  BY DEF HandleVmSelection, bounds
<1>2. RowsTyped(rows)' /\ RowsTyped(form)' /\ OriginalOK' /\ selected' \subseteq VMs
  BY <1>1, CommitTyped DEF TypeInv
<1> QED BY <1>1, <1>2 DEF TypeInv

LEMMA OpenTyped ==
  ASSUME TypeInv, HandleOpen
  PROVE  TypeInv'
<1> DEFINE shown == selected \cap DOMAIN rows
           existing == [v \in shown |-> [s \in Slots(v) |->
             IF original[v][s] # None THEN original[v][s] ELSE rows[v].ips[s]]]
           kept(v, s) == IF rows[v].keep = None THEN Both ELSE rows[v].keep[s]
           live == [v \in shown |-> [s \in Slots(v) |->
             [kept(v, s) EXCEPT !.ip = @ /\ v \notin PoweredOff]]]
           typed == [v \in shown |-> [s \in Slots(v) |->
             IF live[v][s].ip THEN existing[v][s] ELSE rows[v].ips[s]]]
           current == [v \in shown |-> rows[v].ips]
<1>1. /\ UNCHANGED <<table, pending, applied, edits, faults>> /\ opens < MaxOpens /\ opens' = opens + 1
      /\ dialog' = [vms |-> shown, existing |-> existing, typed |-> typed,
                    current |-> current, live |-> live, snapshot |-> live]
      /\ status' = [v \in VMs |-> [s \in Nics |->
           IF v \in shown /\ s \in Slots(v) /\ typed[v][s] # Empty THEN "valid" ELSE "empty"]]
  BY DEF HandleOpen
<1>2. status' \in [VMs -> [Nics -> Statuses]]
  <2> HIDE DEF typed, shown
  <2> QED BY <1>1 DEF Statuses
<1>3. shown \subseteq VMs /\ \A v \in shown : rows[v] \in RowType(v)
  BY DEF TypeInv, RowsTyped
<1>4. ASSUME NEW v \in shown, NEW s \in Slots(v)
      PROVE  existing[v][s] \in Values /\ live[v][s] \in Flags /\ rows[v].ips[s] \in Values
  <2>1. v \in VMs /\ s \in Nics /\ rows[v] \in RowType(v)
    BY <1>3, ValueFacts
  <2>2. rows[v].ips[s] \in Values /\ original[v][s] \in Values \cup {None}
    BY <2>1 DEF RowType, TypeInv, OriginalOK
  <2>3. kept(v, s) \in Flags
    BY <2>1 DEF RowType, Both, Flags
  <2>4. live[v][s] = [kept(v, s) EXCEPT !.ip = @ /\ v \notin PoweredOff]
    OBVIOUS
  <2>5. existing[v][s] = IF original[v][s] # None THEN original[v][s] ELSE rows[v].ips[s]
    OBVIOUS
  <2> HIDE DEF existing, live, kept, shown
  <2>6. live[v][s] \in Flags
    BY <2>3, <2>4 DEF Flags
  <2> QED BY <2>2, <2>5, <2>6
<1>5. ASSUME NEW v \in shown
      PROVE  /\ existing[v] \in [Slots(v) -> Values] /\ live[v] \in [Slots(v) -> Flags]
             /\ typed[v] \in [Slots(v) -> Values] /\ current[v] \in [Slots(v) -> Values]
  <2>1. rows[v].ips \in [Slots(v) -> Values]
    BY <1>3 DEF RowType
  <2>2. existing[v] = [s \in Slots(v) |-> existing[v][s]] /\ live[v] = [s \in Slots(v) |-> live[v][s]]
        /\ typed[v] = [s \in Slots(v) |-> IF live[v][s].ip THEN existing[v][s] ELSE rows[v].ips[s]]
        /\ current[v] = rows[v].ips
    OBVIOUS
  <2> HIDE DEF existing, live, typed, current, shown
  <2> QED BY <1>4, <2>1, <2>2
<1>6. DOMAIN existing = shown /\ DOMAIN typed = shown /\ DOMAIN current = shown /\ DOMAIN live = shown
  OBVIOUS
<1> HIDE DEF existing, live, typed, current, shown
<1>7. DialogTyped(dialog')
  BY <1>1, <1>3, <1>5, <1>6 DEF DialogTyped, Grid
<1>8. opens' \in 0..MaxOpens /\ edits' \in 0..MaxEdits /\ faults' \in 0..MaxFaults
  BY <1>1, OverridesAssumption DEF TypeInv
<1> QED BY <1>1, <1>2, <1>7, <1>8, DialogStepTyped DEF table

LEMMA EditTyped ==
  ASSUME TypeInv, Edit
  PROVE  /\ UNCHANGED <<list, rows, original, selected, form, pending>>
         /\ opens' \in 0..MaxOpens /\ edits' \in 0..MaxEdits /\ faults' \in 0..MaxFaults
         /\ dialog # Closed /\ DialogTyped(dialog)
BY OverridesAssumption DEF Edit, TypeInv, table

LEMMA WithMarkTyped ==
  ASSUME NEW st \in [VMs -> [Nics -> Statuses]], NEW v \in VMs, NEW s \in Nics, NEW x \in Statuses
  PROVE  WithMark(st, v, s, x) \in [VMs -> [Nics -> Statuses]]
BY DEF WithMark

LEMMA PreserveIpTyped ==
  ASSUME TypeInv, NEW v \in dialog.vms, NEW s \in Slots(v), HandlePreserveIpChange(v, s)
  PROVE  TypeInv'
<1> DEFINE on == ~ dialog.live[v][s].ip
           x == IF on THEN dialog.existing[v][s] ELSE dialog.current[v][s]
           flags == [dialog.live[v][s] EXCEPT !.ip = on]
           T == [dialog.typed EXCEPT ![v][s] = x]
           L == [dialog.live EXCEPT ![v][s] = flags]
           mark == IF on THEN IF x = Empty THEN "empty" ELSE "valid" ELSE StatusOf(x, FALSE)
<1>1. Edit /\ DialogTyped(dialog)
  BY EditTyped DEF HandlePreserveIpChange
<1>2. /\ dialog' = [dialog EXCEPT !.live[v][s].ip = on, !.typed[v][s] = x]
      /\ status' = [status EXCEPT ![v][s] = mark]
  BY DEF HandlePreserveIpChange
<1>3. dialog' = [vms |-> dialog.vms, existing |-> dialog.existing, typed |-> T,
                 current |-> dialog.current, live |-> L, snapshot |-> dialog.snapshot]
  BY <1>1, <1>2 DEF DialogTyped
<1>4. x \in Values /\ flags \in Flags /\ v \in VMs /\ s \in Nics
  <2>1. x \in Values /\ dialog.live[v][s] \in Flags /\ v \in VMs /\ s \in Nics /\ on \in BOOLEAN
    BY <1>1, ValueFacts DEF DialogTyped, Grid
  <2>2. \A r \in Flags, b \in BOOLEAN : [r EXCEPT !.ip = b] \in Flags
    BY DEF Flags
  <2> HIDE DEF on, x
  <2> QED BY <2>1, <2>2
<1>5. mark \in Statuses
  BY DEF StatusOf, Statuses
<1>6. status' = WithMark(status, v, s, mark)
  BY <1>2 DEF WithMark
<1> HIDE DEF on, x, flags, mark
<1>7. Grid(T, dialog.vms, Values) /\ Grid(L, dialog.vms, Flags)
  BY <1>1, <1>4, GridExcept DEF DialogTyped
<1> HIDE DEF T, L
<1>8. DialogTyped(dialog')
  BY <1>1, <1>3, <1>7 DEF DialogTyped
<1>9. status' \in [VMs -> [Nics -> Statuses]]
  BY <1>4, <1>5, <1>6, WithMarkTyped DEF TypeInv
<1> QED BY <1>1, <1>8, <1>9, EditTyped, DialogStepTyped

LEMMA PreserveMacTyped ==
  ASSUME TypeInv, NEW v \in dialog.vms, NEW s \in Slots(v), HandlePreserveMacChange(v, s)
  PROVE  TypeInv'
<1> DEFINE flags == [dialog.live[v][s] EXCEPT !.mac = ~ @]
           L == [dialog.live EXCEPT ![v][s] = flags]
<1>1. Edit /\ DialogTyped(dialog) /\ UNCHANGED status
  BY EditTyped DEF HandlePreserveMacChange
<1>2. dialog' = [vms |-> dialog.vms, existing |-> dialog.existing, typed |-> dialog.typed,
                 current |-> dialog.current, live |-> L, snapshot |-> dialog.snapshot]
  BY <1>1 DEF DialogTyped, HandlePreserveMacChange
<1>3. flags \in Flags
  <2>1. dialog.live[v][s] \in Flags
    BY <1>1 DEF DialogTyped, Grid
  <2>2. \A r \in Flags : [r EXCEPT !.mac = ~ @] \in Flags
    BY DEF Flags
  <2> QED BY <2>1, <2>2
<1> HIDE DEF flags
<1>4. Grid(L, dialog.vms, Flags)
  BY <1>1, <1>3, GridExcept DEF DialogTyped
<1> HIDE DEF L
<1>5. DialogTyped(dialog')
  BY <1>1, <1>2, <1>4 DEF DialogTyped
<1> QED BY <1>1, <1>5, EditTyped, DialogStepTyped DEF TypeInv

LEMMA IpChangeTyped ==
  ASSUME TypeInv, NEW v \in dialog.vms, NEW s \in Slots(v), NEW x \in Typed, HandleIpChange(v, s, x)
  PROVE  TypeInv'
<1> DEFINE y == IF dialog.live[v][s].ip THEN dialog.current[v][s] ELSE x
           T == [dialog.typed EXCEPT ![v][s] = x]
           C == [dialog.current EXCEPT ![v][s] = y]
           mark == StatusOf(x, dialog.live[v][s].ip)
<1>1. Edit /\ DialogTyped(dialog)
  BY EditTyped DEF HandleIpChange
<1>2. /\ dialog' = [dialog EXCEPT !.typed[v][s] = x,
                      !.current[v][s] = IF dialog.live[v][s].ip THEN @ ELSE x]
      /\ status' = [status EXCEPT ![v][s] = mark]
  BY DEF HandleIpChange
<1>3. dialog' = [vms |-> dialog.vms, existing |-> dialog.existing, typed |-> T,
                 current |-> C, live |-> dialog.live, snapshot |-> dialog.snapshot]
  BY <1>1, <1>2 DEF DialogTyped
<1>4. x \in Values /\ y \in Values /\ v \in VMs /\ s \in Nics
  BY <1>1, ValueFacts DEF DialogTyped, Grid
<1>5. mark \in Statuses
  BY DEF StatusOf, Statuses
<1>6. status' = WithMark(status, v, s, mark)
  BY <1>2 DEF WithMark
<1> HIDE DEF y, mark
<1>7. Grid(T, dialog.vms, Values) /\ Grid(C, dialog.vms, Values)
  BY <1>1, <1>4, GridExcept DEF DialogTyped
<1> HIDE DEF T, C
<1>8. DialogTyped(dialog')
  BY <1>1, <1>3, <1>7 DEF DialogTyped
<1>9. status' \in [VMs -> [Nics -> Statuses]]
  BY <1>4, <1>5, <1>6, WithMarkTyped DEF TypeInv
<1> QED BY <1>1, <1>8, <1>9, EditTyped, DialogStepTyped

LEMMA ClearAllTyped ==
  ASSUME TypeInv, HandleClearAll
  PROVE  TypeInv'
<1> DEFINE all == [v \in dialog.vms |-> [s \in Slots(v) |-> Empty]]
           off(f) == [v \in dialog.vms |-> [s \in Slots(v) |-> [f[v][s] EXCEPT !.ip = FALSE]]]
<1>1. Edit /\ DialogTyped(dialog)
  BY EditTyped DEF HandleClearAll
<1>2. /\ dialog' = [dialog EXCEPT !.typed = all, !.current = all,
                      !.live = off(@), !.snapshot = off(@)]
      /\ status' = [v \in VMs |-> IF v \in dialog.vms
                                    THEN [s \in Nics |-> "empty"] ELSE status[v]]
  BY DEF HandleClearAll
<1>3. dialog' = [vms |-> dialog.vms, existing |-> dialog.existing, typed |-> all,
                 current |-> all, live |-> off(dialog.live), snapshot |-> off(dialog.snapshot)]
  BY <1>1, <1>2 DEF DialogTyped
<1>4. Grid(all, dialog.vms, Values)
  BY ValueFacts DEF Grid
<1>5. ASSUME NEW f, Grid(f, dialog.vms, Flags) PROVE Grid(off(f), dialog.vms, Flags)
  <2>1. \A r \in Flags : [r EXCEPT !.ip = FALSE] \in Flags
    BY DEF Flags
  <2> QED BY <1>5, <2>1 DEF Grid
<1>6. status' \in [VMs -> [Nics -> Statuses]]
  BY <1>2 DEF TypeInv, Statuses
<1> HIDE DEF all, off
<1>7. DialogTyped(dialog')
  BY <1>1, <1>3, <1>4, <1>5 DEF DialogTyped
<1> QED BY <1>1, <1>6, <1>7, EditTyped, DialogStepTyped

LEMMA AllValidTyped ==
  ASSUME TypeInv, AllValid
  PROVE  TypeInv'
<1>1. /\ ApplyIpAssignments(pending) /\ pending' = None /\ UNCHANGED <<list, bounds>>
      /\ RowsTyped(pending.rows) /\ DialogTyped(pending.dialog)
  BY DEF AllValid, TypeInv
<1> QED BY <1>1, AssignTyped

LEMMA NotValidTyped ==
  ASSUME TypeInv, NEW refused, NEW marked \in BOOLEAN, NotValid(refused, marked)
  PROVE  TypeInv'
<1>1. status' \in [VMs -> [Nics -> Statuses]]
  BY MarkTyped DEF NotValid, TypeInv, Statuses
<1>2. faults' \in 0..MaxFaults
  BY OverridesAssumption DEF NotValid, TypeInv
<1> QED BY <1>1, <1>2 DEF NotValid, TypeInv, table, OriginalOK, RowsTyped, RowType, DialogTyped, Grid

LEMMA TypeNext ==
  ASSUME TypeInv, [Next]_vars
  PROVE  TypeInv'
<1>1. ASSUME NEW l \in SUBSET VMs, ListArrives(l) PROVE TypeInv'
  BY <1>1, ListTyped
<1>2. ASSUME NEW S \in SUBSET VMs, HandleVmSelection(S) PROVE TypeInv'
  BY <1>2, SelectionTyped
<1>3. CASE HandleOpen
  BY <1>3, OpenTyped
<1>4. CASE HandleClose
  <2>1. UNCHANGED <<list, rows, original, selected, form, pending, opens, edits, faults>>
    BY <1>4 DEF HandleClose, table, bounds
  <2>2. dialog' = Closed /\ status' \in [VMs -> [Nics -> Statuses]]
    BY <1>4 DEF HandleClose, NoStatus, Statuses
  <2> QED BY <2>1, <2>2, DialogStepTyped DEF TypeInv
<1>5. CASE HandleClearAll
  BY <1>5, ClearAllTyped
<1>6. CASE HandleApply
  BY <1>6, ApplyTyped
<1>7. CASE AllValid
  BY <1>7, AllValidTyped
<1>8. ASSUME NEW v \in dialog.vms, NEW s \in Slots(v),
             \/ HandlePreserveIpChange(v, s) \/ HandlePreserveMacChange(v, s)
             \/ \E x \in Typed : HandleIpChange(v, s, x)
      PROVE  TypeInv'
  BY <1>8, PreserveIpTyped, PreserveMacTyped, IpChangeTyped
<1>9. ASSUME NEW refused, NEW marked \in BOOLEAN, NotValid(refused, marked) PROVE TypeInv'
  BY <1>9, NotValidTyped
<1>10. CASE UNCHANGED vars
  <2>1. UNCHANGED <<list, rows, original, selected, form, pending, dialog, status, opens, edits, faults>>
    BY <1>10 DEF vars, table, bounds
  <2> QED BY <2>1, DialogStepTyped DEF TypeInv
<1> QED BY <1>1, <1>2, <1>3, <1>4, <1>5, <1>6, <1>7, <1>8, <1>9, <1>10 DEF Next

LEMMA TypeInit == Init => TypeInv
<1> SUFFICES ASSUME Init PROVE TypeInv
  OBVIOUS
<1>1. RowsTyped(rows) /\ RowsTyped(form) /\ OriginalOK
  BY DEF Init, RowsTyped, OriginalOK
<1>2. status \in [VMs -> [Nics -> Statuses]]
  BY DEF Init, NoStatus, Statuses
<1>3. opens \in 0..MaxOpens /\ edits \in 0..MaxEdits /\ faults \in 0..MaxFaults
  BY OverridesAssumption DEF Init
<1> QED BY <1>1, <1>2, <1>3 DEF Init, TypeInv

-----------------------------------------------------------------------------
(* What the operator was shown is in the rows, and the form's copy of the   *)
(* selected rows never lags behind.  An Apply under way works on rows that  *)
(* are still those of the table.                                            *)

ShownInv ==
  /\ list = DOMAIN rows /\ selected \subseteq list
  /\ form = Only(rows, selected) /\ payload = form
  /\ \A v \in VMs \ list : applied[v] = None
  /\ \A v \in list \cap Wired : applied[v] # None => Overrides(rows[v], v) = applied[v]
  /\ pending # None =>
       /\ DOMAIN pending.rows = list /\ pending.selected = selected
       /\ \A v \in list \cap Wired : pending.rows[v] = rows[v]

Patient == Impatient = FALSE /\ Overtaken = FALSE /\ Reloads = FALSE

LEMMA OnlyTwice ==
  ASSUME NEW f, NEW S
  PROVE  Only(f, S \cap DOMAIN f) = Only(f, S) /\ DOMAIN Only(f, S) = S \cap DOMAIN f
<1>1. (S \cap DOMAIN f) \cap DOMAIN f = S \cap DOMAIN f
  OBVIOUS
<1> QED BY <1>1 DEF Only

LEMMA CommitShows ==
  ASSUME NEW rs, NEW sel, NEW fm, NEW ap, Commit(rs, sel, fm, ap), payload = form,
         sel \subseteq DOMAIN rs \/ DOMAIN rs # {}, fm = form \/ fm = Only(rs, sel)
  PROVE  /\ rows' = rs /\ selected' = sel \cap DOMAIN rs
         /\ form' = Only(rs, sel \cap DOMAIN rs) /\ payload' = form'
         /\ applied' = [v \in VMs |-> IF v \in DOMAIN rs THEN ap[v] ELSE None]
<1> DEFINE clean == IF DOMAIN rs = {} THEN sel ELSE sel \cap DOMAIN rs
<1>1. clean = sel \cap DOMAIN rs /\ clean \cup DOMAIN rs = DOMAIN rs
  OBVIOUS
<1>2. /\ rows' = rs /\ selected' = clean
      /\ form' = IF Only(rs, clean) = payload THEN fm ELSE Only(rs, clean)
      /\ payload' = Only(rs, clean)
      /\ applied' = [v \in VMs |-> IF v \in clean \cup DOMAIN rs THEN ap[v] ELSE None]
  BY DEF Commit
<1> HIDE DEF clean
<1> QED BY <1>1, <1>2, OnlyTwice

LEMMA ListShows ==
  ASSUME Patient, TableInv, ShownInv, NEW l \in SUBSET VMs, ListArrives(l)
  PROVE  ShownInv'
<1> DEFINE rs == [v \in l |-> RebuiltRow(v)]
<1>1. /\ l # {} /\ (pending = None \/ l = list) /\ list' = l
      /\ Commit(rs, selected, form, applied) /\ UNCHANGED pending
  BY DEF ListArrives, Patient
<1>2. DOMAIN rs = l
  OBVIOUS
<1>3. \A v \in l \cap Wired : v \in list => rs[v] = rows[v]
  BY DEF RebuiltRow, Wired, ShownInv
<1> HIDE DEF rs
<1>4. /\ rows' = rs /\ selected' = selected \cap l
      /\ form' = Only(rs, selected \cap l) /\ payload' = form'
      /\ applied' = [v \in VMs |-> IF v \in l THEN applied[v] ELSE None]
  <2>1. payload = form /\ form = form
    BY DEF ShownInv
  <2>2. selected \subseteq DOMAIN rs \/ DOMAIN rs # {}
    BY <1>1, <1>2
  <2>3. /\ rows' = rs /\ selected' = selected \cap DOMAIN rs
        /\ form' = Only(rs, selected \cap DOMAIN rs) /\ payload' = form'
        /\ applied' = [v \in VMs |-> IF v \in DOMAIN rs THEN applied[v] ELSE None]
    BY <1>1, <2>1, <2>2, CommitShows
  <2> QED BY <1>2, <2>3
<1>5. ASSUME NEW v \in l \cap Wired, applied'[v] # None
      PROVE  Overrides(rs[v], v) = applied'[v]
  <2>1. v \in list /\ applied'[v] = applied[v]
    BY <1>4, <1>5 DEF ShownInv, Wired
  <2> QED BY <1>3, <1>5, <2>1 DEF ShownInv
<1>6. pending # None => /\ DOMAIN pending.rows = l /\ pending.selected = selected'
                        /\ \A v \in l \cap Wired : pending.rows[v] = rs[v]
  <2>1. selected \subseteq list
    BY DEF ShownInv
  <2> QED BY <1>1, <1>3, <1>4, <2>1 DEF ShownInv
<1>7. \A v \in VMs \ l : applied'[v] = None
  BY <1>4
<1>8. \A v \in l \cap Wired : applied'[v] # None => Overrides(rows'[v], v) = applied'[v]
  BY <1>4, <1>5
<1> QED BY <1>1, <1>2, <1>4, <1>6, <1>7, <1>8 DEF ShownInv, Overrides

LEMMA SelectionShows ==
  ASSUME Patient, ShownInv, NEW S \in SUBSET VMs, HandleVmSelection(S)
  PROVE  ShownInv'
<1>1. /\ pending = None /\ S \subseteq list /\ UNCHANGED <<list, pending>>
      /\ Commit(rows, S, form, applied) /\ DOMAIN rows = list /\ payload = form
  BY DEF HandleVmSelection, ShownInv, Patient
<1>2. /\ rows' = rows /\ selected' = S \cap list
      /\ form' = Only(rows, S \cap list) /\ payload' = form'
      /\ applied' = [v \in VMs |-> IF v \in list THEN applied[v] ELSE None]
  <2>1. S \subseteq DOMAIN rows \/ DOMAIN rows # {}
    BY <1>1
  <2>2. /\ rows' = rows /\ selected' = S \cap DOMAIN rows
        /\ form' = Only(rows, S \cap DOMAIN rows) /\ payload' = form'
        /\ applied' = [v \in VMs |-> IF v \in DOMAIN rows THEN applied[v] ELSE None]
    BY <1>1, <2>1, CommitShows
  <2> QED BY <1>1, <2>2
<1>3. \A v \in list \cap Wired : applied'[v] = applied[v]
  BY <1>2 DEF Wired
<1>4. \A v \in VMs \ list : applied'[v] = None
  BY <1>2
<1> QED BY <1>1, <1>2, <1>3, <1>4 DEF ShownInv, Overrides

(* The flags of a dialog are there, whatever they are.                      *)
LEMMA LiveIsThere ==
  ASSUME NEW d, DialogTyped(d), NEW v \in d.vms \cap Wired
  PROVE  d.live[v] # None
<1>1. d.live[v] \in [Nics -> Flags]
  BY ValueFacts DEF DialogTyped, Grid
<1>2. None \notin [Nics -> Flags]
  BY OverridesAssumption
<1> QED BY <1>1, <1>2

(* A row the dialog was applied to is assigned what the dialog showed.      *)
LEMMA AssignedAsShown ==
  ASSUME NEW d, NEW rs, DialogTyped(d), Maps(d), NothingBehind(d, rs), RowsOK(rs),
         NEW v \in d.vms \cap Wired, v \in DOMAIN rs
  PROVE  Overrides(AssignedRow(rs[v], v, d), v) = View(d, v)
<1> DEFINE row == rs[v]
           ap == ToApply(d)
           upTo(s) == \E t \in Slots(v) : t >= s /\ <<v, t>> \in ap \cup ToClear(d)
           ips == [s \in Slots(v) |->
             IF v \in Bare \/ ~ upTo(s) THEN row.ips[s]
             ELSE IF <<v, s>> \in ap THEN d.typed[v][s]
             ELSE IF d.live[v][s].ip THEN row.ips[s] ELSE Empty]
<1>1. RowOK(row, v) /\ v \in VMs /\ v \notin Bare /\ Slots(v) = Nics
  BY ValueFacts DEF RowsOK, Wired
<1>2. AssignedRow(row, v, d) = [ips |-> ips, nic |-> d.snapshot[v], keep |-> d.live[v]]
  <2>1. AssignedRow(row, v, d) = [Flagged(row, v, d, d.snapshot) EXCEPT !.ips = ips]
    BY DEF AssignedRow
  <2>2. Flagged(row, v, d, d.snapshot) = [ips |-> row.ips, nic |-> d.snapshot[v], keep |-> d.live[v]]
    BY <1>1, FlaggedRow DEF RowOK
  <2> HIDE DEF ips
  <2> QED BY <2>1, <2>2
<1>3. ASSUME NEW s \in Slots(v), ~ d.live[v][s].ip
      PROVE  ips[s] = d.typed[v][s]
  <2>1. <<v, s>> \in Fields(d) /\ s \in Nics
    BY <1>1 DEF Fields
  <2>2. <<v, s>> \notin ap => d.typed[v][s] = Empty
    BY <1>3, <2>1 DEF ToApply
  <2>3. CASE upTo(s)
    BY <1>1, <1>3, <2>2, <2>3
  <2>4. CASE ~ upTo(s)
    <3>1. s >= s
      <4>1. s \in Nat
        BY <2>1, OverridesAssumption
      <4> QED BY <4>1
    <3>2. <<v, s>> \notin ap \cup ToClear(d)
      BY <2>4, <3>1
    <3>3. row.ips[s] = Empty
      BY <1>3, <2>1, <3>2, NothingLeft
    <3> QED BY <2>2, <2>4, <3>2, <3>3
  <2> QED BY <2>3, <2>4
<1>4. d.live[v] # None
  BY <1>1, LiveIsThere
<1> HIDE DEF ips, row
<1>5. Overrides([ips |-> ips, nic |-> d.snapshot[v], keep |-> d.live[v]], v) = View(d, v)
  BY <1>1, <1>3, <1>4 DEF Overrides, View
<1> QED BY <1>2, <1>5 DEF row

LEMMA FlaggedAsShown ==
  ASSUME NEW d, NEW rs, DialogTyped(d), Maps(d), NothingBehind(d, rs), RowsOK(rs),
         ToApply(d) \cup ToClear(d) = {},
         NEW v \in d.vms \cap Wired, v \in DOMAIN rs, NEW flags
  PROVE  Overrides(Flagged(rs[v], v, d, flags), v) = View(d, v)
<1>1. RowOK(rs[v], v) /\ v \in VMs /\ v \notin Bare /\ Slots(v) = Nics
  BY ValueFacts DEF RowsOK, Wired
<1>2. Flagged(rs[v], v, d, flags) = [ips |-> rs[v].ips, nic |-> flags[v], keep |-> d.live[v]]
  BY <1>1, FlaggedRow DEF RowOK
<1>3. ASSUME NEW s \in Slots(v), ~ d.live[v][s].ip
      PROVE  rs[v].ips[s] = d.typed[v][s]
  <2>1. <<v, s>> \in Fields(d) /\ s \in Nics /\ <<v, s>> \notin ToApply(d) \cup ToClear(d)
    BY <1>1 DEF Fields
  <2>2. d.typed[v][s] = Empty
    BY <1>3, <2>1 DEF ToApply
  <2>3. rs[v].ips[s] = Empty
    BY <1>3, <2>1, NothingLeft
  <2> QED BY <2>2, <2>3
<1>4. d.live[v] # None
  BY LiveIsThere
<1>5. Overrides([ips |-> rs[v].ips, nic |-> flags[v], keep |-> d.live[v]], v) = View(d, v)
  BY <1>1, <1>3, <1>4 DEF Overrides, View
<1> QED BY <1>2, <1>5

(* An Apply puts what it shows into the rows and, at once, into the form.   *)
LEMMA UpdateShows ==
  ASSUME ShownInv, NEW rs, NEW d, UpdateRows(rs, selected, d), DOMAIN rs = list,
         UNCHANGED list, pending' = None, DOMAIN rs \subseteq VMs,
         \A v \in list \cap Wired :
           IF v \in d.vms THEN Overrides(rs[v], v) = View(d, v) ELSE rs[v] = rows[v]
  PROVE  ShownInv'
<1>1. Commit(rs, selected, Only(rs, selected), Viewed(d, rs)) /\ selected \subseteq DOMAIN rs
      /\ payload = form
  BY DEF UpdateRows, ShownInv
<1>2. /\ rows' = rs /\ selected' = selected \cap DOMAIN rs
      /\ form' = Only(rs, selected \cap DOMAIN rs) /\ payload' = form'
      /\ applied' = [v \in VMs |-> IF v \in DOMAIN rs THEN Viewed(d, rs)[v] ELSE None]
  BY <1>1, CommitShows
<1>3. ASSUME NEW v \in list \cap Wired, applied'[v] # None
      PROVE  Overrides(rs[v], v) = applied'[v]
  <2>1. v \in VMs /\ applied'[v] = IF v \in d.vms THEN View(d, v) ELSE applied[v]
    BY <1>2 DEF Viewed, Wired
  <2> QED BY <1>3, <2>1 DEF ShownInv
<1>4. \A v \in VMs \ list : applied'[v] = None
  BY <1>2
<1>5. list' = DOMAIN rows' /\ selected' \subseteq list' /\ form' = Only(rows', selected')
  BY <1>1, <1>2
<1>6. \A v \in list' \cap Wired : applied'[v] # None => Overrides(rows'[v], v) = applied'[v]
  BY <1>2, <1>3
<1> QED BY <1>2, <1>4, <1>5, <1>6 DEF ShownInv, Overrides

LEMMA AssignShows ==
  ASSUME ShownInv, NEW c, ApplyIpAssignments(c), UNCHANGED list, pending' = None,
         DialogTyped(c.dialog), Maps(c.dialog), NothingBehind(c.dialog, c.rows), RowsOK(c.rows),
         DOMAIN c.rows = list, c.selected = selected,
         \A v \in list \cap Wired : c.rows[v] = rows[v]
  PROVE  ShownInv'
<1> DEFINE rs == [v \in DOMAIN c.rows |-> IF v \in c.dialog.vms
                    THEN AssignedRow(c.rows[v], v, c.dialog) ELSE c.rows[v]]
<1>1. UpdateRows(rs, selected, c.dialog) /\ DOMAIN rs = list /\ DOMAIN rs \subseteq VMs
  BY DEF ApplyIpAssignments, RowsOK
<1>2. ASSUME NEW v \in list \cap Wired
      PROVE  IF v \in c.dialog.vms THEN Overrides(rs[v], v) = View(c.dialog, v) ELSE rs[v] = rows[v]
  <2>1. rs[v] = IF v \in c.dialog.vms THEN AssignedRow(c.rows[v], v, c.dialog) ELSE rows[v]
    OBVIOUS
  <2> HIDE DEF rs
  <2> QED BY <2>1, AssignedAsShown
<1> HIDE DEF rs
<1> QED BY <1>1, <1>2, UpdateShows

LEMMA FlagsShow ==
  ASSUME Inv, TypeInv, ShownInv, dialog # Closed, ToApply(dialog) \cup ToClear(dialog) = {},
         ApplyFlagsOnly(dialog), UNCHANGED list, pending' = None
  PROVE  ShownInv'
<1> DEFINE flags == IF SomeOff(dialog.snapshot) THEN dialog.snapshot ELSE dialog.live
           rs == [v \in DOMAIN rows |-> IF v \in dialog.vms
                    THEN Flagged(rows[v], v, dialog, flags) ELSE rows[v]]
<1>1. UpdateRows(rs, selected, dialog) /\ DOMAIN rs = list
  BY DEF ApplyFlagsOnly, ShownInv
<1>2. /\ DialogTyped(dialog) /\ Maps(dialog) /\ NothingBehind(dialog, rows) /\ RowsOK(rows)
      /\ DOMAIN rows = list /\ list \subseteq VMs
  BY DEF Inv, DialogInv, TableInv, TypeInv, ShownInv
<1>3. ASSUME NEW v \in list \cap Wired
      PROVE  IF v \in dialog.vms THEN Overrides(rs[v], v) = View(dialog, v) ELSE rs[v] = rows[v]
  <2>1. rs[v] = IF v \in dialog.vms THEN Flagged(rows[v], v, dialog, flags) ELSE rows[v]
    BY <1>2
  <2> HIDE DEF rs, flags
  <2> QED BY <1>2, <2>1, FlaggedAsShown
<1> HIDE DEF rs
<1> QED BY <1>1, <1>2, <1>3, UpdateShows

LEMMA ApplyShows ==
  ASSUME Inv, TypeInv, ShownInv, HandleApply
  PROVE  ShownInv'
<1> DEFINE captured == [rows |-> rows, selected |-> selected, dialog |-> dialog]
<1>1. /\ dialog # Closed /\ pending = None /\ UNCHANGED list
      /\ DialogTyped(dialog) /\ Maps(dialog) /\ NothingBehind(dialog, rows) /\ RowsOK(rows)
      /\ DOMAIN rows = list
  BY DEF HandleApply, Inv, DialogInv, TableInv, TypeInv, ShownInv
<1>2. captured.rows = rows /\ captured.selected = selected /\ captured.dialog = dialog
  OBVIOUS
<1>3. \/ ToApply(dialog) \cup ToClear(dialog) = {} /\ ApplyFlagsOnly(dialog) /\ UNCHANGED pending
      \/ ApplyIpAssignments(captured) /\ UNCHANGED pending
      \/ pending' = captured /\ UNCHANGED <<rows, original, selected, form, payload, dialog, applied>>
  BY DEF HandleApply
<1> HIDE DEF captured
<1>4. CASE ToApply(dialog) \cup ToClear(dialog) = {} /\ ApplyFlagsOnly(dialog) /\ UNCHANGED pending
  BY <1>1, <1>4, FlagsShow
<1>5. CASE ApplyIpAssignments(captured) /\ UNCHANGED pending
  BY <1>1, <1>2, <1>5, AssignShows
<1>6. CASE pending' = captured /\ UNCHANGED <<rows, original, selected, form, payload, dialog, applied>>
  BY <1>1, <1>2, <1>6 DEF ShownInv, Overrides
<1> QED BY <1>3, <1>4, <1>5, <1>6

LEMMA ShownNext ==
  ASSUME Patient, Inv, TypeInv, ShownInv, [Next]_vars
  PROVE  ShownInv'
<1>1. ASSUME NEW l \in SUBSET VMs, ListArrives(l) PROVE ShownInv'
  BY <1>1, ListShows DEF Inv
<1>2. ASSUME NEW S \in SUBSET VMs, HandleVmSelection(S) PROVE ShownInv'
  BY <1>2, SelectionShows
<1>3. CASE HandleApply
  BY <1>3, ApplyShows
<1>4. CASE AllValid
  <2>1. pending # None /\ ApplyIpAssignments(pending) /\ pending' = None /\ UNCHANGED list
    BY <1>4 DEF AllValid
  <2>2. /\ DialogTyped(pending.dialog) /\ Maps(pending.dialog)
        /\ NothingBehind(pending.dialog, pending.rows) /\ RowsOK(pending.rows)
    BY <2>1 DEF Inv, PendingInv, DialogInv, TypeInv
  <2>3. DOMAIN pending.rows = list /\ pending.selected = selected
        /\ \A v \in list \cap Wired : pending.rows[v] = rows[v]
    BY <2>1 DEF ShownInv
  <2> QED BY <2>1, <2>2, <2>3, AssignShows
<1>5. CASE UNCHANGED <<table, applied>> /\ (pending' = pending \/ pending' = None)
  BY <1>5 DEF ShownInv, table, Overrides
<1>6. HandleOpen \/ HandleClose \/ HandleClearAll \/ UNCHANGED vars =>
        UNCHANGED <<table, applied, pending>>
  BY DEF HandleOpen, HandleClose, HandleClearAll, Edit, vars
<1>7. ASSUME NEW v, NEW s, \/ HandlePreserveIpChange(v, s) \/ HandlePreserveMacChange(v, s)
                         \/ \E x \in Typed : HandleIpChange(v, s, x)
      PROVE  UNCHANGED <<table, applied, pending>>
  BY <1>7 DEF HandlePreserveIpChange, HandlePreserveMacChange, HandleIpChange, Edit
<1>8. ASSUME NEW refused, NEW marked, NotValid(refused, marked)
      PROVE  UNCHANGED <<table, applied>> /\ pending' = None
  BY <1>8 DEF NotValid
<1> QED BY <1>1, <1>2, <1>3, <1>4, <1>5, <1>6, <1>7, <1>8 DEF Next

LEMMA ShownInit == Init => ShownInv
<1> SUFFICES ASSUME Init PROVE ShownInv
  OBVIOUS
<1>1. rows = << >> /\ DOMAIN rows = {} /\ selected = {} /\ list = {} /\ form = rows /\ payload = form
  BY DEF Init
<1>2. Only(rows, selected) = form
  BY <1>1 DEF Only
<1>3. applied = [v \in VMs |-> None] /\ pending = None
  BY DEF Init
<1> QED BY <1>1, <1>2, <1>3 DEF ShownInv

(* The shape of the state, and what the form may hold: only rows of the     *)
(* table that are selected, although the form's copy is written elsewhere   *)
(* than the table (useVmSelection).                                         *)
THEOREM TypeCorrect ==
  ASSUME Patient
  PROVE  Spec => []TypeOK
<1>1. Inv /\ TypeInv /\ ShownInv /\ [Next]_vars => (Inv /\ TypeInv /\ ShownInv)'
  BY InvNext, TypeNext, ShownNext DEF Patient
<1>2. Inv /\ TypeInv /\ ShownInv => TypeOK
  <2> SUFFICES ASSUME TypeInv, ShownInv PROVE TypeOK
    OBVIOUS
  <2>1. DOMAIN form = selected \cap DOMAIN rows
    BY OnlyTwice DEF ShownInv
  <2>2. \A v \in DOMAIN rows : /\ rows[v].ips \in [Slots(v) -> Values]
                              /\ rows[v].nic \in [Slots(v) -> Flags \cup {None}]
                              /\ rows[v].keep \in [Slots(v) -> Flags] \cup {None}
    BY DEF TypeInv, RowsTyped, RowType
  <2>3. dialog # Closed =>
          \A v \in dialog.vms : /\ dialog.live[v] \in [Slots(v) -> Flags]
                                /\ dialog.typed[v] \in [Slots(v) -> Values]
    BY DEF TypeInv, DialogTyped, Grid
  <2> QED BY <2>1, <2>2, <2>3 DEF TypeOK, TypeInv, RowsTyped, OriginalOK, Statuses
<1> QED BY <1>1, <1>2, InvInit, TypeInit, ShownInit, PTL DEF Spec

(* The plan says of every VM what the dialog showed when it was applied,    *)
(* through rebuilt rows, other dialogs and refused validations              *)
(* (useBulkIPEdit, useVmsSelectionState, createMigrationPlan), provided the *)
(* operator and the list leave an Apply under way alone and the machines    *)
(* query never starts anew.                                                 *)
THEOREM PlansSayWhatWasShown ==
  ASSUME Patient
  PROVE  Spec => []AppliedAsShown
<1>1. Inv /\ TypeInv /\ ShownInv /\ [Next]_vars => (Inv /\ TypeInv /\ ShownInv)'
  BY InvNext, TypeNext, ShownNext DEF Patient
<1>2. Inv /\ TypeInv /\ ShownInv => AppliedAsShown
  <2> SUFFICES ASSUME TypeInv, ShownInv, NEW v \in DOMAIN form \ Bare, applied[v] # None
               PROVE  Overrides(form[v], v) = applied[v]
    BY DEF AppliedAsShown
  <2>1. v \in selected \cap DOMAIN rows /\ form[v] = rows[v] /\ v \in VMs
    BY OnlyTwice DEF ShownInv, Only, TypeInv, RowsTyped
  <2> QED BY <2>1 DEF ShownInv, Wired
<1> QED BY <1>1, <1>2, InvInit, TypeInit, ShownInit, PTL DEF Spec
=============================================================================
