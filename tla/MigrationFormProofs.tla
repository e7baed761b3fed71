------------------------ MODULE MigrationFormProofs ------------------------
(***************************************************************************)
(* Proofs about the form that starts a migration.                          *)
(*                                                                         *)
(* Types is the shape of the state.  It needs Room: a template is created  *)
(* for a request that some choice caused, so there are never more of them  *)
(* and of the requests that may still create one than 2 * edits.           *)
(*                                                                         *)
(* Names says whose a template is.  A mount owns a name that its form, its *)
(* requests, its submit or its plans hold; no name has two owners, and     *)
(* only a mount that is gone has a deletion under way.  If the operator    *)
(* leaves the drawer alone while a submit runs, Kept follows: a template   *)
(* that a submit or a plan uses exists and is not being deleted.           *)
(*                                                                         *)
(* The rest is about which request comes last, so it needs the requests of *)
(* one channel served in order.  CredsFollow: the last read of a side's    *)
(* credentials is that of the chosen cluster, or, with none under way, the *)
(* form has them.  TemplateFollows: the last patch of the form's template  *)
(* says what was chosen, or, with none under way, the template does.       *)
(*                                                                         *)
(* While a submit runs its choices are Frozen, and Promises holds: the     *)
(* last patch that is served before the request of updateMigrationTemplate *)
(* carries what Start showed, or, with none under way, the template says   *)
(* so.  A later patch cannot say otherwise.  A rejected read or patch is   *)
(* sent by nobody again, hence Failing without the two.                    *)
(***************************************************************************)
EXTENDS MigrationForm, FiniteSetTheorems, SequenceTheorems, TLAPS

Sources == Clusters["source"]
Targets == Clusters["target"]
Bodies == [source : Creds, destination : Creds, cluster : Targets \cup {None}, useGPU : BOOLEAN]
Reads == [side : Sides, cred : Creds]
Wants == [source : Creds, destination : Creds, cluster : Targets, useGPU : BOOLEAN, method : Methods]
Requests == [kind : Kinds, name : Nat, arg : Bodies \cup Reads \cup {None}, mount : Nat]
Pcs == {"idle", "done", "stuck"} \cup SubmitKinds

FormTypes ==
  /\ mounts \in 0 .. MaxMounts /\ mount \in {0, mounts}
  /\ params \in [source : Sources \cup {None}, target : Targets \cup {None}, useGPU : BOOLEAN]
  /\ creds \in [Sides -> Creds \cup {None}]
  /\ template \in [name : 0 .. made, ready : BOOLEAN]
  /\ mount = 0 => template.name = 0
  /\ edits \in 0 .. MaxEdits /\ faults \in 0 .. MaxFaults

ServerTypes ==
  /\ made \in Nat
  /\ templates \in [1 .. MaxTemplates -> Template \cup {None}]
  /\ \A n \in DOMAIN templates : templates[n] # None => n <= made

RequestOK(r) ==
  /\ r.mount \in 1 .. mounts /\ r.name <= made
  /\ r.kind \in {"post", "patch"} => r.arg \in Bodies
  /\ r.kind = "creds" => r.arg \in Reads
  /\ r.kind \in {"patch", "poll", "delete"} => r.name # 0
  /\ r.kind \in SubmitKinds => submits[r.mount].pc = r.kind /\ submits[r.mount].want \in Wants

NetTypes ==
  /\ net \in Seq(Requests)
  /\ \A k \in DOMAIN net : RequestOK(net[k])
  /\ \A j, k \in DOMAIN net :
       /\ net[j].kind \in SubmitKinds /\ net[k].kind \in SubmitKinds
       /\ net[j].mount = net[k].mount
       => j = k
SubmitTypes ==
  /\ submits \in [Mounts -> [pc : Pcs, name : Nat, want : Wants \cup {None}]]
  /\ \A m \in Mounts : submits[m].pc \in SubmitKinds =>
       \E k \in DOMAIN net : net[k].mount = m /\ net[k].kind = submits[m].pc

Posting == {k \in DOMAIN net : net[k].kind \in {"post", "creds"}}
Room == made + Cardinality(Posting) <= 2 * edits

Types == FormTypes /\ ServerTypes /\ NetTypes /\ SubmitTypes /\ Room


-----------------------------------------------------------------------------
(* What a step does to the requests under way: i is answered (0: none is),  *)
(* the others stay in their order, and e is sent.                           *)
Rest(i) == IF i = 0 THEN Len(net) ELSE Len(net) - 1
Old(i, j) == IF i = 0 \/ j < i THEN j ELSE j + 1
New(i, k) == IF i = 0 \/ k < i THEN k ELSE k - 1

Flow(i, e) ==
  /\ net' \in Seq(Requests)
  /\ \A j \in DOMAIN net' :
       \/ \E k \in DOMAIN net \ {i} : j = New(i, k) /\ net'[j] = net[k]
       \/ \E x \in DOMAIN e : j = Rest(i) + x /\ net'[j] = e[x]
  /\ \A k \in DOMAIN net \ {i} :
       New(i, k) \in DOMAIN net' /\ net'[New(i, k)] = net[k] /\ New(i, k) <= Rest(i)
  /\ \A x \in DOMAIN e : Rest(i) + x \in DOMAIN net' /\ net'[Rest(i) + x] = e[x]
  /\ \A j, k \in DOMAIN net \ {i} : j < k => New(i, j) < New(i, k)

LEMMA NewOld ==
  ASSUME NEW n \in Nat, NEW i \in 0 .. n
  PROVE  LET rest == IF i = 0 THEN n ELSE n - 1
         IN  /\ \A j \in 1 .. rest : Old(i, j) \in (1 .. n) \ {i} /\ New(i, Old(i, j)) = j
             /\ \A k \in (1 .. n) \ {i} : New(i, k) \in 1 .. rest /\ Old(i, New(i, k)) = k
             /\ \A j, k \in (1 .. n) \ {i} : j < k => New(i, j) < New(i, k)
BY DEF Old, New

LEMMA WithoutIs ==
  ASSUME net \in Seq(Requests), NEW i \in DOMAIN net
  PROVE  /\ Without(i) \in Seq(Requests) /\ Len(Without(i)) = Len(net) - 1
         /\ \A j \in 1 .. Len(net) - 1 : Without(i)[j] = net[Old(i, j)]
<1>1. Len(net) \in Nat /\ DOMAIN net = 1 .. Len(net) /\ \A k \in 1 .. Len(net) : net[k] \in Requests
  BY LenProperties, ElementOfSeq
<1> DEFINE a == SubSeq(net, 1, i - 1)
           b == SubSeq(net, i + 1, Len(net))
<1>2. /\ a \in Seq(Requests) /\ Len(a) = i - 1
      /\ \A j \in 1 .. i - 1 : a[j] = net[j]
  BY <1>1, SubSeqProperties
<1>3. /\ b \in Seq(Requests) /\ Len(b) = Len(net) - i
      /\ \A j \in 1 .. Len(net) - i : b[j] = net[i + j]
  BY <1>1, SubSeqProperties
<1>4. Without(i) = a \o b
  BY DEF Without
<1> HIDE DEF a, b
<1>5. /\ Without(i) \in Seq(Requests) /\ Len(Without(i)) = Len(net) - 1
      /\ \A j \in 1 .. Len(net) - 1 : Without(i)[j] = IF j <= i - 1 THEN a[j] ELSE b[j - (i - 1)]
  <2>1. /\ a \o b \in Seq(Requests) /\ Len(a \o b) = Len(a) + Len(b)
        /\ \A j \in 1 .. Len(a) + Len(b) : (a \o b)[j] = IF j <= Len(a) THEN a[j] ELSE b[j - Len(a)]
    BY <1>2, <1>3, ConcatProperties
  <2>2. Len(a) = i - 1 /\ Len(a) + Len(b) = Len(net) - 1
    BY <1>1, <1>2, <1>3
  <2> QED BY <1>4, <2>1, <2>2
<1>6. ASSUME NEW j \in 1 .. Len(net) - 1
      PROVE  Without(i)[j] = net[Old(i, j)]
  <2>1. CASE j < i
    BY <1>1, <1>2, <1>5, <2>1 DEF Old
  <2>2. CASE ~ j < i
    <3>1. j - (i - 1) \in 1 .. Len(net) - i /\ i + (j - (i - 1)) = j + 1 /\ ~ j <= i - 1 /\ i # 0
      BY <1>1, <2>2
    <3>2. Without(i)[j] = b[j - (i - 1)]
      BY <1>5, <3>1
    <3>3. b[j - (i - 1)] = net[i + (j - (i - 1))]
      BY <1>3, <3>1
    <3> QED BY <2>2, <3>1, <3>2, <3>3 DEF Old
  <2> QED BY <2>1, <2>2
<1> QED BY <1>5, <1>6

LEMMA FlowIs ==
  ASSUME net \in Seq(Requests), NEW i \in {0} \cup DOMAIN net, NEW e \in Seq(Requests),
         net' = (IF i = 0 THEN net ELSE Without(i)) \o e
  PROVE  Flow(i, e)
<1> DEFINE kept == IF i = 0 THEN net ELSE Without(i)
<1>1. Len(net) \in Nat /\ DOMAIN net = 1 .. Len(net) /\ Len(e) \in Nat /\ DOMAIN e = 1 .. Len(e)
  BY LenProperties
<1>2. /\ kept \in Seq(Requests) /\ Len(kept) = Rest(i)
      /\ \A j \in 1 .. Rest(i) : kept[j] = net[Old(i, j)]
  BY WithoutIs DEF Rest, Old
<1>3. Rest(i) \in Nat /\ i \in 0 .. Len(net)
  BY <1>1 DEF Rest
<1> HIDE DEF kept
<1>4. /\ net' \in Seq(Requests) /\ Len(net') = Rest(i) + Len(e)
      /\ \A j \in 1 .. Rest(i) + Len(e) : net'[j] = IF j <= Rest(i) THEN kept[j] ELSE e[j - Rest(i)]
  <2>1. /\ kept \o e \in Seq(Requests) /\ Len(kept \o e) = Len(kept) + Len(e)
        /\ \A j \in 1 .. Len(kept) + Len(e) :
             (kept \o e)[j] = IF j <= Len(kept) THEN kept[j] ELSE e[j - Len(kept)]
    BY <1>2, ConcatProperties
  <2>2. net' = kept \o e
    BY DEF kept
  <2> QED BY <1>2, <2>1, <2>2
<1>5. DOMAIN net' = 1 .. Rest(i) + Len(e)
  BY <1>4, LenProperties
<1>6. /\ \A j \in 1 .. Rest(i) : Old(i, j) \in DOMAIN net \ {i} /\ New(i, Old(i, j)) = j
      /\ \A k \in DOMAIN net \ {i} : New(i, k) \in 1 .. Rest(i) /\ Old(i, New(i, k)) = k
      /\ \A j, k \in DOMAIN net \ {i} : j < k => New(i, j) < New(i, k)
  <2>1. LET rest == IF i = 0 THEN Len(net) ELSE Len(net) - 1
        IN  /\ \A j \in 1 .. rest : Old(i, j) \in (1 .. Len(net)) \ {i} /\ New(i, Old(i, j)) = j
            /\ \A k \in (1 .. Len(net)) \ {i} : New(i, k) \in 1 .. rest /\ Old(i, New(i, k)) = k
            /\ \A j, k \in (1 .. Len(net)) \ {i} : j < k => New(i, j) < New(i, k)
    BY <1>1, <1>3, NewOld
  <2> QED BY <1>1, <2>1 DEF Rest
<1>7. ASSUME NEW j \in DOMAIN net'
      PROVE  \/ \E k \in DOMAIN net \ {i} : j = New(i, k) /\ net'[j] = net[k]
             \/ \E x \in DOMAIN e : j = Rest(i) + x /\ net'[j] = e[x]
  <2>1. CASE j <= Rest(i)
    <3>1. j \in 1 .. Rest(i)
      BY <1>1, <1>3, <1>5, <2>1
    <3>2. net'[j] = net[Old(i, j)]
      BY <1>2, <1>4, <1>5, <2>1, <3>1
    <3> QED BY <1>6, <3>1, <3>2
  <2>2. CASE ~ j <= Rest(i)
    <3>1. j - Rest(i) \in DOMAIN e /\ j = Rest(i) + (j - Rest(i))
      BY <1>1, <1>3, <1>5, <2>2
    <3>2. net'[j] = e[j - Rest(i)]
      BY <1>4, <1>5, <2>2
    <3> QED BY <3>1, <3>2
  <2> QED BY <2>1, <2>2
<1>8. ASSUME NEW k \in DOMAIN net \ {i}
      PROVE  New(i, k) \in DOMAIN net' /\ net'[New(i, k)] = net[k] /\ New(i, k) <= Rest(i)
  <2>1. New(i, k) \in 1 .. Rest(i) /\ Old(i, New(i, k)) = k
    BY <1>6
  <2>2. New(i, k) \in 1 .. Rest(i) + Len(e) /\ New(i, k) <= Rest(i)
    BY <1>1, <1>3, <2>1
  <2>3. net'[New(i, k)] = kept[New(i, k)]
    BY <1>4, <2>2
  <2> QED BY <1>2, <1>5, <2>1, <2>2, <2>3
<1>9. ASSUME NEW x \in DOMAIN e
      PROVE  Rest(i) + x \in DOMAIN net' /\ net'[Rest(i) + x] = e[x]
  <2>1. /\ Rest(i) + x \in 1 .. Rest(i) + Len(e) /\ ~ Rest(i) + x <= Rest(i)
        /\ Rest(i) + x - Rest(i) = x
    BY <1>1, <1>3
  <2>2. Rest(i) + x \in DOMAIN net'
    BY <1>5, <2>1
  <2>3. net'[Rest(i) + x] = e[x]
    <3>1. PICK y \in 1 .. Rest(i) + Len(e) : y = Rest(i) + x
      BY <2>1
    <3>2. ~ y <= Rest(i) /\ y - Rest(i) = x
      BY <1>1, <1>3, <3>1
    <3>3. net'[y] = e[y - Rest(i)]
      BY <1>4, <3>2
    <3> QED BY <3>1, <3>2, <3>3
  <2> QED BY <2>2, <2>3
<1> QED BY <1>4, <1>6, <1>7, <1>8, <1>9 DEF Flow

-----------------------------------------------------------------------------
LEMMA Facts ==
  /\ None \notin Creds /\ None \notin Template /\ ValidCreds \subseteq Creds
  /\ \A s \in Sides : None \notin Clusters[s] /\ \A c \in Clusters[s] : CredOf[c] \in Creds
  /\ Methods \subseteq CopyMethods
  /\ SubmitKinds \subseteq Kinds /\ {"idle", "done", "stuck"} \cap Kinds = {}
  /\ MaxMounts \in Nat /\ MaxEdits \in Nat /\ MaxFaults \in Nat
  /\ MaxTemplates \in Nat /\ MaxTemplates = 2 * (MaxEdits + MaxMounts)
<1>1. \A s \in Sides : \A c \in Clusters[s] : CredOf[c] \in Creds
  BY DEF Sides, Creds
<1>2. SubmitKinds \subseteq Kinds /\ {"idle", "done", "stuck"} \cap Kinds = {}
  BY DEF SubmitKinds, Kinds
<1>3. MaxTemplates \in Nat /\ MaxTemplates = 2 * (MaxEdits + MaxMounts)
  BY FormAssumption DEF MaxTemplates
<1> QED BY <1>1, <1>2, <1>3, FormAssumption

LEMMA KindFacts ==
  /\ {"creds", "post", "patch", "poll", "delete"} \subseteq Kinds \ SubmitKinds
  /\ SubmitKinds = {"network", "storage", "array", "mapping", "plan"}
  /\ \A method : StorageKind(method) \in {"storage", "array"}
BY DEF SubmitKinds, Kinds, StorageKind

LEMMA OneSent ==
  ASSUME NEW r \in Requests
  PROVE  <<r>> \in Seq(Requests) /\ Len(<<r>>) = 1 /\ DOMAIN <<r>> = {1} /\ <<r>>[1] = r
OBVIOUS

LEMMA NoneSent == << >> \in Seq(Requests) /\ Len(<< >>) = 0 /\ DOMAIN << >> = {}
OBVIOUS

(* What the sync effect sends, if anything.                                 *)
Synced(pa, cr, n) == Request(IF n = 0 THEN "post" ELSE "patch", n, Body(pa, cr))

LEMMA SyncIs ==
  ASSUME NEW pa, NEW cr, NEW n, NEW pa2, NEW cr2, NEW n2
  PROVE  \/ SyncTemplate(pa, cr, n, pa2, cr2, n2) = << >>
         \/ /\ SyncTemplate(pa, cr, n, pa2, cr2, n2) = <<Synced(pa2, cr2, n2)>>
            /\ Validated(cr2)
BY DEF SyncTemplate, Synced

LEMMA SyncSends ==
  ASSUME NEW pa, NEW cr, NEW n, NEW pa2, NEW cr2, NEW n2,
         SyncDeps(pa, cr, n) # SyncDeps(pa2, cr2, n2), Validated(cr2)
  PROVE  SyncTemplate(pa, cr, n, pa2, cr2, n2) = <<Synced(pa2, cr2, n2)>>
BY DEF SyncTemplate, Synced

ParamsSet == [source : Sources \cup {None}, target : Targets \cup {None}, useGPU : BOOLEAN]
CredsSet == [Sides -> Creds \cup {None}]

LEMMA BodyType ==
  ASSUME NEW pa \in ParamsSet, NEW cr \in CredsSet, Validated(cr)
  PROVE  Body(pa, cr) \in Bodies
<1>1. cr.source \in Creds /\ cr.target \in Creds
  BY Facts DEF Validated, Sides
<1> QED BY <1>1 DEF Body, Bodies, ParamsSet

LEMMA SyncedType ==
  ASSUME FormTypes, mount # 0, NEW pa \in ParamsSet, NEW cr \in CredsSet, Validated(cr), NEW n \in Nat
  PROVE  /\ Synced(pa, cr, n) \in Requests
         /\ Synced(pa, cr, n) = [kind |-> IF n = 0 THEN "post" ELSE "patch", name |-> n,
                                 arg |-> Body(pa, cr), mount |-> mount]
         /\ Body(pa, cr) \in Bodies
<1>1. mount \in Nat
  BY Facts DEF FormTypes
<1>2. Body(pa, cr) \in Bodies
  BY BodyType
<1> QED BY <1>1, <1>2, KindFacts DEF Synced, Request, Requests

(* The effect sends nothing, or the body of the state after the commit.     *)
LEMMA SyncType ==
  ASSUME FormTypes, mount # 0, NEW pa, NEW cr, NEW n,
         NEW pa2 \in ParamsSet, NEW cr2 \in CredsSet, NEW n2 \in Nat,
         NEW e, e = SyncTemplate(pa, cr, n, pa2, cr2, n2)
  PROVE  /\ e \in Seq(Requests) /\ Len(e) \in {0, 1} /\ DOMAIN e \subseteq {1}
         /\ \A x \in DOMAIN e : e[x] = Synced(pa2, cr2, n2) /\ Validated(cr2)
<1>1. CASE e = << >>
  BY <1>1, NoneSent
<1>2. CASE e = <<Synced(pa2, cr2, n2)>> /\ Validated(cr2)
  <2>1. Synced(pa2, cr2, n2) \in Requests
    BY <1>2, SyncedType
  <2> QED BY <1>2, <2>1, OneSent
<1> QED BY <1>1, <1>2, SyncIs

-----------------------------------------------------------------------------
LEMMA Answers ==
  ASSUME net \in Seq(Requests), NEW i \in DOMAIN net, NEW e \in Seq(Requests), net' = Without(i) \o e
  PROVE  Flow(i, e)
<1>1. DOMAIN net = 1 .. Len(net) /\ Len(net) \in Nat
  BY LenProperties
<1>2. i # 0
  BY <1>1
<1> QED BY <1>2, FlowIs

LEMMA Sends ==
  ASSUME net \in Seq(Requests), NEW e \in Seq(Requests), net' = net \o e
  PROVE  Flow(0, e)
BY FlowIs

LEMMA AnswersOnly ==
  ASSUME net \in Seq(Requests), NEW i \in DOMAIN net, net' = Without(i)
  PROVE  Flow(i, << >>)
<1>1. Without(i) \o << >> = Without(i)
  BY WithoutIs, ConcatEmptySeq
<1> QED BY <1>1, NoneSent, Answers

LEMMA AnswersAndSends ==
  ASSUME net \in Seq(Requests), NEW i \in DOMAIN net, NEW r \in Requests,
         net' = Append(Without(i), r)
  PROVE  Flow(i, <<r>>)
<1>1. Append(Without(i), r) = Without(i) \o <<r>>
  BY WithoutIs, AppendIsConcat
<1> QED BY <1>1, OneSent, Answers

LEMMA SendsOne ==
  ASSUME net \in Seq(Requests), NEW r \in Requests, net' = Append(net, r)
  PROVE  Flow(0, <<r>>)
<1>1. Append(net, r) = net \o <<r>>
  BY AppendIsConcat
<1> QED BY <1>1, OneSent, Sends

LEMMA SendsNone ==
  ASSUME net \in Seq(Requests), net' = net
  PROVE  Flow(0, << >>)
<1>1. net \o << >> = net
  BY ConcatEmptySeq
<1> QED BY <1>1, NoneSent, Sends

(* RequestOK of a request after the step.                                   *)
RequestNext(r) ==
  /\ r.mount \in 1 .. mounts' /\ r.name <= made'
  /\ r.kind \in {"post", "patch"} => r.arg \in Bodies
  /\ r.kind = "creds" => r.arg \in Reads
  /\ r.kind \in {"patch", "poll", "delete"} => r.name # 0
  /\ r.kind \in SubmitKinds => submits'[r.mount].pc = r.kind /\ submits'[r.mount].want \in Wants

(* A step that moves no submit along.                                       *)
LEMMA QuietSubmits ==
  ASSUME Types, NEW i \in {0} \cup DOMAIN net, NEW e, Flow(i, e),
         i # 0 => net[i].kind \notin SubmitKinds,
         submits' = submits, mounts \in Nat, mounts' \in Nat, mounts <= mounts',
         made' \in Nat, made <= made',
         \A x \in DOMAIN e : RequestNext(e[x]) /\ e[x].kind \notin SubmitKinds
  PROVE  NetTypes' /\ SubmitTypes'
<1>0. 0 \notin DOMAIN net
  BY LenProperties DEF Types, NetTypes
<1>1. /\ net \in Seq(Requests) /\ made \in Nat
      /\ \A k \in DOMAIN net : net[k] \in Requests /\ RequestOK(net[k])
  BY LenProperties, ElementOfSeq DEF Types, NetTypes, ServerTypes
<1>2. net' \in Seq(Requests)
  BY DEF Flow
<1>3. \A k \in DOMAIN net \ {i} : RequestNext(net[k])
  <2> SUFFICES ASSUME NEW k \in DOMAIN net \ {i} PROVE RequestNext(net[k])
    OBVIOUS
  <2>1. net[k].mount \in 1 .. mounts' /\ net[k].name <= made'
    BY <1>1 DEF RequestOK, Requests
  <2> QED BY <1>1, <2>1 DEF RequestOK, RequestNext
<1>4. \A j \in DOMAIN net' : RequestNext(net'[j])
  BY <1>3 DEF Flow
<1>5. \A j \in DOMAIN net' : net'[j].kind \in SubmitKinds =>
        \E k \in DOMAIN net \ {i} : j = New(i, k) /\ net'[j] = net[k]
  BY DEF Flow
<1>6. \A j, k \in DOMAIN net' :
        /\ net'[j].kind \in SubmitKinds /\ net'[k].kind \in SubmitKinds
        /\ net'[j].mount = net'[k].mount
        => j = k
  BY <1>5 DEF Types, NetTypes
<1>7. NetTypes'
  BY <1>2, <1>4, <1>6 DEF NetTypes, RequestOK, RequestNext
<1>8. SubmitTypes'
  <2> SUFFICES ASSUME NEW m \in Mounts, submits[m].pc \in SubmitKinds
               PROVE  \E j \in DOMAIN net' : net'[j].mount = m /\ net'[j].kind = submits[m].pc
    BY DEF SubmitTypes, Types
  <2>1. PICK k \in DOMAIN net : net[k].mount = m /\ net[k].kind = submits[m].pc
    BY DEF Types, SubmitTypes
  <2>2. k # i
    BY <1>0, <2>1
  <2> QED BY <2>1, <2>2 DEF Flow
<1> QED BY <1>7, <1>8

(* A step of the submit of m, which goes on with r or ends.                 *)
LEMMA SubmitMoves ==
  ASSUME Types, NEW i \in {0} \cup DOMAIN net, NEW e, Flow(i, e), NEW m \in 1 .. mounts,
         \/ i = 0 /\ submits[m].pc \notin SubmitKinds
         \/ i # 0 /\ net[i].mount = m /\ net[i].kind \in SubmitKinds,
         NEW t \in [pc : Pcs, name : Nat, want : Wants \cup {None}],
         submits' = [submits EXCEPT ![m] = t], mounts' = mounts, made' = made,
         \/ e = << >> /\ t.pc \notin SubmitKinds
         \/ \E r \in Requests :
              /\ e = <<r>> /\ r.kind = t.pc /\ r.kind \in SubmitKinds
              /\ r.mount = m /\ r.name <= made /\ t.want \in Wants
  PROVE  NetTypes' /\ SubmitTypes'
<1>0. 0 \notin DOMAIN net
  BY LenProperties DEF Types, NetTypes
<1>1. /\ net \in Seq(Requests) /\ mounts \in 0 .. MaxMounts /\ MaxMounts \in Nat
      /\ \A k \in DOMAIN net : net[k] \in Requests /\ RequestOK(net[k])
  BY LenProperties, ElementOfSeq, Facts DEF Types, NetTypes, FormTypes
<1>2. m \in Mounts
  BY <1>1 DEF Mounts
<1>3. /\ submits \in [Mounts -> [pc : Pcs, name : Nat, want : Wants \cup {None}]]
      /\ submits' \in [Mounts -> [pc : Pcs, name : Nat, want : Wants \cup {None}]]
      /\ submits'[m] = t /\ \A q \in Mounts \ {m} : submits'[q] = submits[q]
  BY <1>2 DEF Types, SubmitTypes
<1>4. \A k \in DOMAIN net \ {i} : net[k].kind \in SubmitKinds => net[k].mount # m
  BY <1>1 DEF Types, NetTypes, RequestOK
<1>5. \A k \in DOMAIN net \ {i} : RequestNext(net[k])
  <2> SUFFICES ASSUME NEW k \in DOMAIN net \ {i} PROVE RequestNext(net[k])
    OBVIOUS
  <2>1. RequestOK(net[k]) /\ net[k].mount \in Mounts
    BY <1>1 DEF RequestOK, Mounts
  <2> QED BY <1>3, <1>4, <2>1 DEF RequestOK, RequestNext
<1>6. \A x \in DOMAIN e : RequestNext(e[x]) /\ e[x].kind = t.pc /\ e[x].mount = m /\ x = 1
  <2>1. CASE e = << >>
    BY <2>1, NoneSent
  <2>2. ASSUME NEW r \in Requests,
               e = <<r>>, r.kind = t.pc, r.kind \in SubmitKinds,
               r.mount = m, r.name <= made, t.want \in Wants
        PROVE  \A x \in DOMAIN e : RequestNext(e[x]) /\ e[x].kind = t.pc /\ e[x].mount = m /\ x = 1
    <3>1. RequestNext(r)
      BY <1>3, <2>2, KindFacts DEF RequestNext
    <3> QED BY <2>2, <3>1, OneSent
  <2> QED BY <2>1, <2>2
<1>7. \A j \in DOMAIN net' : RequestNext(net'[j])
  BY <1>5, <1>6 DEF Flow
<1>8. ASSUME NEW j \in DOMAIN net', NEW k \in DOMAIN net',
             net'[j].kind \in SubmitKinds, net'[k].kind \in SubmitKinds, net'[j].mount = net'[k].mount
      PROVE  j = k
  <2>1. \A q \in {j, k} : \/ net'[q].mount = m /\ q = Rest(i) + 1
                          \/ /\ net'[q].mount # m
                             /\ \E p \in DOMAIN net \ {i} : q = New(i, p) /\ net'[q] = net[p]
    BY <1>4, <1>6, <1>8 DEF Flow
  <2> QED BY <1>8, <2>1 DEF Types, NetTypes
<1>9. NetTypes'
  <2>1. net' \in Seq(Requests)
    BY DEF Flow
  <2> QED BY <2>1, <1>7, <1>8 DEF NetTypes, RequestOK, RequestNext
<1>10. ASSUME NEW q \in Mounts, submits'[q].pc \in SubmitKinds
       PROVE  \E j \in DOMAIN net' : net'[j].mount = q /\ net'[j].kind = submits'[q].pc
  <2>1. CASE q = m
    <3>1. PICK r \in Requests : e = <<r>> /\ r.kind = t.pc /\ r.mount = m
      BY <1>3, <1>10, <2>1
    <3>2. 1 \in DOMAIN e /\ e[1] = r
      BY <3>1, OneSent
    <3> QED BY <1>3, <2>1, <3>1, <3>2 DEF Flow
  <2>2. CASE q # m
    <3>1. PICK k \in DOMAIN net : net[k].mount = q /\ net[k].kind = submits[q].pc
      BY <1>3, <1>10, <2>2 DEF Types, SubmitTypes
    <3>2. k # i
      BY <1>0, <2>2, <3>1
    <3> QED BY <1>3, <2>2, <3>1, <3>2 DEF Flow
  <2> QED BY <2>1, <2>2
<1>11. SubmitTypes'
  BY <1>3, <1>10 DEF SubmitTypes
<1> QED BY <1>9, <1>11

(* Room for every template: each change of a choice makes room for two, one *)
(* for what its own commit posts and one for what its answer posts.         *)
LEMMA PostingFlow ==
  ASSUME net \in Seq(Requests), NEW i \in {0} \cup DOMAIN net, NEW e, Flow(i, e),
         NEW X, IsFiniteSet(X),
         \A x \in DOMAIN e : e[x].kind \in {"post", "creds"} => Rest(i) + x \in X
  PROVE  /\ Cardinality(Posting) \in Nat /\ Cardinality(Posting') \in Nat /\ Cardinality(X) \in Nat
         /\ Cardinality(Posting') <= Cardinality(Posting \ {i}) + Cardinality(X)
         /\ Cardinality(Posting \ {i}) =
              IF i \in Posting THEN Cardinality(Posting) - 1 ELSE Cardinality(Posting)
<1>1. Len(net) \in Nat /\ DOMAIN net = 1 .. Len(net)
  BY LenProperties
<1>2. IsFiniteSet(Posting) /\ Cardinality(Posting) \in Nat
  <2>1. IsFiniteSet(1 .. Len(net))
    BY <1>1, FS_Interval
  <2>2. Posting \in SUBSET (1 .. Len(net))
    BY <1>1 DEF Posting
  <2> QED BY <2>1, <2>2, FS_Subset, FS_CardinalityType
<1> DEFINE S == Posting \ {i}
           f == [k \in S |-> New(i, k)]
           T == {f[k] : k \in S}
<1>3. IsFiniteSet(S) /\ Cardinality(S) =
         IF i \in Posting THEN Cardinality(Posting) - 1 ELSE Cardinality(Posting)
  BY <1>2, FS_RemoveElement
<1>4. f \in Surjection(S, T)
  BY DEF Surjection
<1>5. IsFiniteSet(T) /\ Cardinality(T) <= Cardinality(S)
  <2> HIDE DEF S, f, T
  <2> QED BY <1>3, <1>4, FS_Surjection
<1>6. Posting' \subseteq T \cup X
  <2> SUFFICES ASSUME NEW j \in Posting' PROVE j \in T \cup X
    OBVIOUS
  <2>1. j \in DOMAIN net' /\ net'[j].kind \in {"post", "creds"}
    BY DEF Posting
  <2>2. CASE \E k \in DOMAIN net \ {i} : j = New(i, k) /\ net'[j] = net[k]
    <3>1. PICK k \in DOMAIN net \ {i} : j = New(i, k) /\ net'[j] = net[k]
      BY <2>2
    <3>2. k \in S
      BY <2>1, <3>1 DEF Posting
    <3> QED BY <3>1, <3>2
  <2>3. CASE \E x \in DOMAIN e : j = Rest(i) + x /\ net'[j] = e[x]
    BY <2>1, <2>3
  <2> QED BY <2>1, <2>2, <2>3 DEF Flow
<1>7. IsFiniteSet(T \cup X) /\ Cardinality(T \cup X) <= Cardinality(T) + Cardinality(X)
  <2> HIDE DEF T
  <2>1. IsFiniteSet(T \cap X) /\ Cardinality(T \cap X) \in Nat
    BY <1>5, FS_Intersection, FS_CardinalityType
  <2>2. Cardinality(T) \in Nat /\ Cardinality(X) \in Nat
    BY <1>5, FS_CardinalityType
  <2>3. /\ IsFiniteSet(T \cup X)
        /\ Cardinality(T \cup X) = Cardinality(T) + Cardinality(X) - Cardinality(T \cap X)
    BY <1>5, FS_Union
  <2> QED BY <2>1, <2>2, <2>3
<1>8. Cardinality(Posting') <= Cardinality(T \cup X) /\ IsFiniteSet(Posting')
  <2> HIDE DEF T
  <2> QED BY <1>6, <1>7, FS_Subset
<1>9. /\ Cardinality(Posting') \in Nat /\ Cardinality(S) \in Nat /\ Cardinality(T) \in Nat
      /\ Cardinality(X) \in Nat /\ Cardinality(T \cup X) \in Nat
  <2> HIDE DEF S, T
  <2> QED BY <1>3, <1>5, <1>7, <1>8, FS_CardinalityType
<1> QED BY <1>2, <1>3, <1>5, <1>7, <1>8, <1>9

-----------------------------------------------------------------------------
(* What each action does to the requests.                                   *)
ReadOf(s, c) ==
  [kind |-> "creds", name |-> 0, arg |-> [side |-> s, cred |-> CredOf[c]], mount |-> mount]

LEMMA ParamsAfter ==
  ASSUME Types, NEW s \in Sides, NEW c \in Clusters[s]
  PROVE  /\ [params EXCEPT ![s] = c] \in ParamsSet /\ [params EXCEPT ![s] = c][s] = c
         /\ \A t \in Sides \ {s} : [params EXCEPT ![s] = c][t] = params[t]
<1>1. params \in ParamsSet
  BY DEF Types, FormTypes, ParamsSet
<1>2. CASE s = "source"
  BY <1>1, <1>2 DEF ParamsSet, Sources, Sides
<1>3. CASE s = "target"
  BY <1>1, <1>3 DEF ParamsSet, Targets, Sides
<1> QED BY <1>2, <1>3 DEF Sides

LEMMA ChangeFlow ==
  ASSUME Types, NEW s \in Sides, NEW c \in Clusters[s], ClusterChange(s, c)
  PROVE  \E e : /\ Flow(0, e) /\ DOMAIN e \subseteq {1, 2} /\ 1 \in DOMAIN e
                /\ e[1] = ReadOf(s, c) /\ ReadOf(s, c) \in Requests
                /\ 2 \in DOMAIN e => e[2] = Synced(params', creds, template.name) /\ Validated(creds)
<1>1. /\ net \in Seq(Requests) /\ FormTypes /\ mount # 0 /\ creds \in CredsSet
      /\ template.name \in Nat /\ mount \in Nat
  BY Facts DEF Types, NetTypes, FormTypes, ServerTypes, ClusterChange, CredsSet
<1>2. params' \in ParamsSet
  BY ParamsAfter DEF ClusterChange
<1>3. ReadOf(s, c) \in Requests
  BY <1>1, Facts, KindFacts DEF ReadOf, Requests, Reads
<1> DEFINE y == SyncTemplate(params, creds, template.name, params', creds, template.name)
<1>4. /\ y \in Seq(Requests) /\ Len(y) \in {0, 1} /\ DOMAIN y \subseteq {1}
      /\ \A x \in DOMAIN y : y[x] = Synced(params', creds, template.name) /\ Validated(creds)
  BY <1>1, <1>2, SyncType
<1>5. net' = (net \o <<ReadOf(s, c)>>) \o y
  BY DEF ClusterChange, Request, ReadOf
<1> HIDE DEF y
<1>6. net' = net \o (<<ReadOf(s, c)>> \o y)
  BY <1>1, <1>3, <1>4, <1>5, OneSent, ConcatAssociative
<1> DEFINE e == <<ReadOf(s, c)>> \o y
<1>7. /\ e \in Seq(Requests) /\ Len(e) = 1 + Len(y)
      /\ \A x \in 1 .. 1 + Len(y) : e[x] = IF x <= 1 THEN <<ReadOf(s, c)>>[x] ELSE y[x - 1]
  BY <1>3, <1>4, OneSent, ConcatProperties
<1>8. Flow(0, e)
  BY <1>1, <1>6, <1>7, Sends
<1> HIDE DEF e
<1>9. DOMAIN e = 1 .. 1 + Len(y) /\ DOMAIN y = 1 .. Len(y)
  BY <1>4, <1>7, LenProperties
<1>10. DOMAIN e \subseteq {1, 2} /\ 1 \in DOMAIN e /\ e[1] = ReadOf(s, c)
  BY <1>3, <1>4, <1>7, <1>9, OneSent
<1>11. 2 \in DOMAIN e => e[2] = y[1] /\ 1 \in DOMAIN y
  BY <1>4, <1>7, <1>9
<1> QED BY <1>3, <1>4, <1>8, <1>10, <1>11

LEMMA GPUFlow ==
  ASSUME Types, UseGPUChange
  PROVE  /\ params' \in ParamsSet
         /\ \E e : /\ Flow(0, e) /\ DOMAIN e \subseteq {1}
                   /\ e = SyncTemplate(params, creds, template.name, params', creds, template.name)
                   /\ \A x \in DOMAIN e : e[x] = Synced(params', creds, template.name) /\ Validated(creds)
<1>1. /\ net \in Seq(Requests) /\ FormTypes /\ mount # 0 /\ creds \in CredsSet
      /\ template.name \in Nat /\ params \in ParamsSet
  BY DEF Types, NetTypes, FormTypes, ServerTypes, UseGPUChange, CredsSet, ParamsSet
<1>2. params' \in ParamsSet
  <2>1. params.useGPU \in BOOLEAN
    BY <1>1 DEF ParamsSet
  <2>2. (~ params.useGPU) \in BOOLEAN
    BY <2>1
  <2> QED BY <1>1, <2>2 DEF UseGPUChange, ParamsSet
<1> DEFINE e == SyncTemplate(params, creds, template.name, params', creds, template.name)
<1>3. /\ e \in Seq(Requests) /\ DOMAIN e \subseteq {1}
      /\ \A x \in DOMAIN e : e[x] = Synced(params', creds, template.name) /\ Validated(creds)
  BY <1>1, <1>2, SyncType
<1>4. net' = net \o e
  BY DEF UseGPUChange
<1> HIDE DEF e
<1>5. Flow(0, e)
  BY <1>1, <1>3, <1>4, Sends
<1> QED BY <1>2, <1>3, <1>5 DEF e

RequestOf(kind, n) == [kind |-> kind, name |-> n, arg |-> None, mount |-> mount]

LEMMA PlainRequest ==
  ASSUME Types, NEW kind \in Kinds, NEW n \in Nat
  PROVE  RequestOf(kind, n) \in Requests /\ Request(kind, n, None) = RequestOf(kind, n)
<1>1. mount \in Nat
  BY Facts DEF Types, FormTypes
<1> QED BY <1>1 DEF RequestOf, Requests, Request

LEMMA PollFlow ==
  ASSUME Types, PollTemplate
  PROVE  Flow(0, <<RequestOf("poll", template.name)>>) /\ RequestOf("poll", template.name) \in Requests
<1>1. net \in Seq(Requests) /\ template.name \in Nat
  BY DEF Types, NetTypes, FormTypes, ServerTypes
<1>2. RequestOf("poll", template.name) \in Requests
  BY <1>1, PlainRequest, KindFacts
<1>3. net' = Append(net, RequestOf("poll", template.name))
  BY DEF PollTemplate, Request, RequestOf
<1> QED BY <1>1, <1>2, <1>3, SendsOne

LEMMA CloseFlow ==
  ASSUME Types, HandleClose
  PROVE  /\ template.name = 0 => Flow(0, << >>)
         /\ template.name # 0 => /\ Flow(0, <<RequestOf("delete", template.name)>>)
                                 /\ RequestOf("delete", template.name) \in Requests
<1>1. net \in Seq(Requests) /\ template.name \in Nat
  BY DEF Types, NetTypes, FormTypes, ServerTypes
<1>2. CASE template.name = 0
  BY <1>1, <1>2, SendsNone DEF HandleClose
<1>3. CASE template.name # 0
  <2>1. RequestOf("delete", template.name) \in Requests
    BY <1>1, PlainRequest, KindFacts
  <2>2. net' = Append(net, RequestOf("delete", template.name))
    BY <1>3 DEF HandleClose, Request, RequestOf
  <2> QED BY <1>1, <1>3, <2>1, <2>2, SendsOne
<1> QED BY <1>2, <1>3

FirstKind(method, required) == IF required THEN "network" ELSE StorageKind(method)

LEMMA SubmitFlow ==
  ASSUME Types, NEW method \in Methods, NEW required \in BOOLEAN, HandleSubmit(method, required)
  PROVE  LET r == RequestOf(FirstKind(method, required), template.name)
         IN  Flow(0, <<r>>) /\ r \in Requests /\ r.kind \in {"network", "storage", "array"}
<1> DEFINE r == RequestOf(FirstKind(method, required), template.name)
<1>1. net \in Seq(Requests) /\ template.name \in Nat
  BY DEF Types, NetTypes, FormTypes, ServerTypes
<1>2. FirstKind(method, required) \in {"network", "storage", "array"}
  BY KindFacts DEF FirstKind
<1>3. FirstKind(method, required) \in Kinds
  BY <1>2, Facts, KindFacts
<1>4. r \in Requests /\ r.kind = FirstKind(method, required)
  BY <1>1, <1>3, PlainRequest DEF RequestOf
<1>5. net' = Append(net, r)
  BY DEF HandleSubmit, Request, RequestOf, FirstKind
<1> HIDE DEF r
<1>6. Flow(0, <<r>>)
  BY <1>1, <1>4, <1>5, SendsOne
<1> QED BY <1>2, <1>4, <1>6 DEF r

LEMMA AnswerTypes ==
  ASSUME Types, NEW i \in DOMAIN net
  PROVE  /\ net \in Seq(Requests) /\ net[i] \in Requests /\ RequestOK(net[i]) /\ i \in Nat /\ i # 0
         /\ net[i].mount \in Mounts /\ net[i].mount \in 1 .. mounts /\ net[i].name \in 0 .. made
<1>1. net \in Seq(Requests) /\ DOMAIN net = 1 .. Len(net) /\ RequestOK(net[i])
  BY LenProperties DEF Types, NetTypes
<1>2. net[i] \in Requests
  BY <1>1, ElementOfSeq
<1>3. i \in Nat /\ i # 0
  <2>1. Len(net) \in Nat
    BY <1>1, LenProperties
  <2> QED BY <1>1, <2>1
<1>4. net[i].mount \in 1 .. mounts /\ net[i].name <= made
  BY <1>1 DEF RequestOK
<1>5. net[i].mount \in Mounts
  <2>1. mounts \in 0 .. MaxMounts /\ MaxMounts \in Nat
    BY Facts DEF Types, FormTypes
  <2> QED BY <1>4, <2>1 DEF Mounts
<1>6. net[i].name \in 0 .. made
  <2>1. net[i].name \in Nat
    BY <1>2 DEF Requests
  <2>2. made \in Nat
    BY DEF Types, ServerTypes
  <2> QED BY <1>4, <2>1, <2>2
<1> QED BY <1>1, <1>2, <1>3, <1>4, <1>5, <1>6

LEMMA ContinueFlow ==
  ASSUME Types, NEW i \in DOMAIN net, NEW k \in SubmitKinds, Continue(i, k)
  PROVE  /\ Flow(i, <<[net[i] EXCEPT !.kind = k]>>)
         /\ [net[i] EXCEPT !.kind = k] \in Requests
         /\ [net[i] EXCEPT !.kind = k] =
              [kind |-> k, name |-> net[i].name, arg |-> net[i].arg, mount |-> net[i].mount]
<1>1. [net[i] EXCEPT !.kind = k] \in Requests
  BY AnswerTypes, Facts DEF Requests
<1>2. [net[i] EXCEPT !.kind = k] =
              [kind |-> k, name |-> net[i].name, arg |-> net[i].arg, mount |-> net[i].mount]
  BY AnswerTypes DEF Requests
<1>3. net' = Append(Without(i), [net[i] EXCEPT !.kind = k])
  BY DEF Continue
<1>4. Flow(i, <<[net[i] EXCEPT !.kind = k]>>)
  BY <1>1, <1>3, AnswersAndSends, AnswerTypes
<1> QED BY <1>1, <1>2, <1>4

(* The credentials arrive.                                                  *)
LEMMA CredsFlow ==
  ASSUME Types, NEW i \in DOMAIN net, CredsAnswer(i)
  PROVE  /\ net[i].kind = "creds" /\ net[i].arg \in Reads /\ creds' \in CredsSet
         /\ net[i].mount # mount => Flow(i, << >>) /\ UNCHANGED <<creds, template>>
         /\ net[i].mount = mount =>
              /\ creds' = [creds EXCEPT ![net[i].arg.side] = net[i].arg.cred]
              /\ template' = ResetTemplate(creds, creds', template)
              /\ \E e : /\ Flow(i, e) /\ DOMAIN e \subseteq {1}
                        /\ e = SyncTemplate(params, creds, template.name, params, creds', template.name)
                        /\ \A x \in DOMAIN e : e[x] = Synced(params, creds', template.name) /\ Validated(creds')
<1>1. /\ net \in Seq(Requests) /\ FormTypes /\ creds \in CredsSet
      /\ template.name \in Nat /\ params \in ParamsSet
  BY DEF Types, NetTypes, FormTypes, ServerTypes, CredsSet, ParamsSet
<1>2. net[i].kind = "creds" /\ net[i].arg \in Reads
  BY AnswerTypes DEF CredsAnswer, RequestOK
<1>3. CASE net[i].mount # mount
  <2>1. net' = Without(i) /\ UNCHANGED <<creds, template>>
    BY <1>3 DEF CredsAnswer
  <2> QED BY <1>1, <1>2, <1>3, <2>1, AnswersOnly
<1>4. CASE net[i].mount = mount
  <2>1. /\ creds' = [creds EXCEPT ![net[i].arg.side] = net[i].arg.cred]
        /\ template' = ResetTemplate(creds, creds', template)
        /\ net' = Without(i) \o SyncTemplate(params, creds, template.name, params, creds', template.name)
    BY <1>4 DEF CredsAnswer
  <2>2. creds' \in CredsSet
    BY <1>1, <1>2, <2>1 DEF CredsSet, Reads
  <2>3. mount # 0
    BY <1>4, AnswerTypes DEF RequestOK
  <2> DEFINE e == SyncTemplate(params, creds, template.name, params, creds', template.name)
  <2>4. /\ e \in Seq(Requests) /\ DOMAIN e \subseteq {1}
        /\ \A x \in DOMAIN e : e[x] = Synced(params, creds', template.name) /\ Validated(creds')
    BY <1>1, <2>2, <2>3, SyncType
  <2>5. net' = Without(i) \o e
    BY <2>1
  <2> HIDE DEF e
  <2>6. Flow(i, e)
    BY <1>1, <2>4, <2>5, Answers
  <2> QED BY <1>2, <1>4, <2>1, <2>2, <2>4, <2>6 DEF e
<1> QED BY <1>3, <1>4

(* An answer that brings the template.                                      *)
LEMMA ArrivesFlow ==
  ASSUME Types, NEW i \in DOMAIN net, NEW n \in Nat, TemplateArrives(i, n)
  PROVE  /\ net[i].mount # mount => Flow(i, << >>) /\ template' = template
         /\ net[i].mount = mount =>
              /\ template' = [name |-> n, ready |-> templates'[n].ready]
              /\ \E e : /\ Flow(i, e) /\ DOMAIN e \subseteq {1}
                        /\ e = SyncTemplate(params, creds, template.name, params, creds, n)
                        /\ \A x \in DOMAIN e : e[x] = Synced(params, creds, n) /\ Validated(creds)
<1>1. /\ net \in Seq(Requests) /\ FormTypes /\ creds \in CredsSet /\ params \in ParamsSet
  BY DEF Types, NetTypes, FormTypes, ServerTypes, CredsSet, ParamsSet
<1>2. CASE net[i].mount # mount
  BY <1>1, <1>2, AnswersOnly DEF TemplateArrives
<1>3. CASE net[i].mount = mount
  <2>1. mount # 0
    BY <1>3, AnswerTypes DEF RequestOK
  <2> DEFINE e == SyncTemplate(params, creds, template.name, params, creds, n)
  <2>2. /\ e \in Seq(Requests) /\ DOMAIN e \subseteq {1}
        /\ \A x \in DOMAIN e : e[x] = Synced(params, creds, n) /\ Validated(creds)
    BY <1>1, <2>1, SyncType
  <2>3. net' = Without(i) \o e /\ template' = [name |-> n, ready |-> templates'[n].ready]
    BY <1>3 DEF TemplateArrives
  <2> HIDE DEF e
  <2>4. Flow(i, e)
    BY <1>1, <2>2, <2>3, Answers
  <2> QED BY <1>3, <2>2, <2>3, <2>4 DEF e
<1> QED BY <1>2, <1>3

-----------------------------------------------------------------------------
(* Type correctness, action by action.                                      *)
LEMMA RoomStays ==
  ASSUME Types, NEW i \in {0} \cup DOMAIN net, NEW e, Flow(i, e),
         \A x \in DOMAIN e : e[x].kind \notin {"post", "creds"},
         made' = made, edits' = edits
  PROVE  Room'
<1>1. IsFiniteSet({}) /\ Cardinality({}) = 0
  BY FS_EmptySet
<1>2. net \in Seq(Requests) /\ made \in Nat /\ edits \in Nat
  BY Facts DEF Types, NetTypes, ServerTypes, FormTypes
<1>3. /\ Cardinality(Posting) \in Nat /\ Cardinality(Posting') \in Nat
      /\ Cardinality(Posting') <= Cardinality(Posting \ {i}) + 0
      /\ Cardinality(Posting \ {i}) =
           IF i \in Posting THEN Cardinality(Posting) - 1 ELSE Cardinality(Posting)
  BY <1>1, <1>2, PostingFlow
<1> QED BY <1>2, <1>3 DEF Types, Room

(* One request less and one more, or one template more.                     *)
LEMMA RoomMoves ==
  ASSUME Types, NEW i \in DOMAIN net, NEW e, Flow(i, e), net[i].kind \in {"post", "creds"},
         DOMAIN e \subseteq {1}, edits' = edits,
         \/ made' = made
         \/ made' = made + 1 /\ \A x \in DOMAIN e : e[x].kind \notin {"post", "creds"}
  PROVE  Room'
<1>1. net \in Seq(Requests) /\ made \in Nat /\ edits \in Nat /\ i \in Posting
  BY Facts DEF Types, NetTypes, ServerTypes, FormTypes, Posting
<1>2. CASE made' = made
  <2> DEFINE X == {Rest(i) + 1}
  <2>1. IsFiniteSet(X) /\ Cardinality(X) = 1
    BY FS_Singleton
  <2>2. \A x \in DOMAIN e : Rest(i) + x \in X
    OBVIOUS
  <2> HIDE DEF X
  <2>3. /\ Cardinality(Posting) \in Nat /\ Cardinality(Posting') \in Nat
        /\ Cardinality(Posting') <= Cardinality(Posting \ {i}) + 1
        /\ Cardinality(Posting \ {i}) = Cardinality(Posting) - 1
    BY <1>1, <2>1, <2>2, PostingFlow
  <2> QED BY <1>1, <1>2, <2>3 DEF Types, Room
<1>3. CASE made' = made + 1 /\ \A x \in DOMAIN e : e[x].kind \notin {"post", "creds"}
  <2>1. IsFiniteSet({}) /\ Cardinality({}) = 0
    BY FS_EmptySet
  <2>2. /\ Cardinality(Posting) \in Nat /\ Cardinality(Posting') \in Nat
        /\ Cardinality(Posting') <= Cardinality(Posting \ {i}) + 0
        /\ Cardinality(Posting \ {i}) = Cardinality(Posting) - 1
    BY <1>1, <1>3, <2>1, PostingFlow
  <2> QED BY <1>1, <1>3, <2>2 DEF Types, Room
<1> QED BY <1>2, <1>3

LEMMA RoomGrows ==
  ASSUME Types, NEW e, Flow(0, e), DOMAIN e \subseteq {1, 2}, made' = made, edits' = edits + 1
  PROVE  Room'
<1>1. net \in Seq(Requests) /\ made \in Nat /\ edits \in Nat /\ 0 \notin Posting
  BY Facts, LenProperties DEF Types, NetTypes, ServerTypes, FormTypes, Posting
<1> DEFINE X == {Rest(0) + 1} \cup {Rest(0) + 2}
<1>2. IsFiniteSet(X) /\ Cardinality(X) <= 2 /\ Cardinality(X) \in Nat
  <2>1. IsFiniteSet({Rest(0) + 1}) /\ Cardinality({Rest(0) + 1}) = 1
    BY FS_Singleton
  <2>2. /\ IsFiniteSet(X)
        /\ Cardinality(X) = IF Rest(0) + 2 \in {Rest(0) + 1} THEN Cardinality({Rest(0) + 1})
                            ELSE Cardinality({Rest(0) + 1}) + 1
    BY <2>1, FS_AddElement
  <2> HIDE DEF X
  <2> QED BY <2>1, <2>2
<1>3. \A x \in DOMAIN e : Rest(0) + x \in X
  OBVIOUS
<1> HIDE DEF X
<1>4. /\ Cardinality(Posting) \in Nat /\ Cardinality(Posting') \in Nat
      /\ Cardinality(Posting') <= Cardinality(Posting \ {0}) + Cardinality(X)
      /\ Cardinality(Posting \ {0}) = Cardinality(Posting)
  BY <1>1, <1>2, <1>3, PostingFlow
<1>5. 2 * (edits + 1) = 2 * edits + 2
  BY <1>1
<1> QED BY <1>1, <1>2, <1>4, <1>5 DEF Types, Room

LEMMA SyncedOK ==
  ASSUME Types, mount # 0, NEW pa \in ParamsSet, NEW cr \in CredsSet, Validated(cr), NEW n \in Nat,
         NEW r, r = Synced(pa, cr, n), n <= made', UNCHANGED mounts
  PROVE  RequestNext(r) /\ r.kind \in {"post", "patch"} /\ r.kind \notin SubmitKinds
         /\ r.name = n /\ r.mount = mount /\ (r.kind = "post" <=> n = 0)
         /\ r.arg = Body(pa, cr)
<1>1. FormTypes /\ mount \in 1 .. mounts
  BY Facts DEF Types, FormTypes
<1>2. /\ r = [kind |-> IF n = 0 THEN "post" ELSE "patch", name |-> n,
              arg |-> Body(pa, cr), mount |-> mount]
      /\ Body(pa, cr) \in Bodies
  BY <1>1, SyncedType
<1>3. r.kind \in {"post", "patch"} /\ (r.kind = "post" <=> n = 0)
  BY <1>2
<1> QED BY <1>1, <1>2, <1>3, KindFacts DEF RequestNext

LEMMA OpenTypes ==
  ASSUME Types, OpenForm
  PROVE  Types'
<1>1. Flow(0, << >>)
  BY SendsNone DEF Types, NetTypes, OpenForm
<1>2. mounts \in Nat /\ mounts' = mounts + 1 /\ mounts < MaxMounts /\ made \in Nat
  BY Facts DEF Types, FormTypes, ServerTypes, OpenForm
<1>3. NetTypes' /\ SubmitTypes'
  BY <1>1, <1>2, NoneSent, QuietSubmits DEF OpenForm
<1>4. Room'
  BY <1>1, NoneSent, RoomStays DEF OpenForm
<1>5. FormTypes'
  <2>1. mounts' \in 0 .. MaxMounts /\ mount' = mounts' /\ mount' # 0
    BY <1>2, Facts DEF OpenForm
  <2>2. params' \in ParamsSet /\ creds' \in CredsSet
    BY DEF OpenForm, NoParams, NoCreds, ParamsSet, CredsSet
  <2>3. template' \in [name : 0 .. made', ready : BOOLEAN]
    BY <1>2 DEF OpenForm, NoTemplate
  <2> QED BY <2>1, <2>2, <2>3 DEF OpenForm, Types, FormTypes, ParamsSet, CredsSet
<1>6. ServerTypes'
  BY DEF OpenForm, Types, ServerTypes
<1> QED BY <1>3, <1>4, <1>5, <1>6 DEF Types

LEMMA ResetType ==
  ASSUME Types, NEW cr, NEW cr2
  PROVE  /\ ResetTemplate(cr, cr2, template) \in {template, NoTemplate}
         /\ ResetTemplate(cr, cr2, template) \in [name : 0 .. made, ready : BOOLEAN]
         /\ mount = 0 => ResetTemplate(cr, cr2, template).name = 0
<1>1. NoTemplate \in [name : 0 .. made, ready : BOOLEAN] /\ NoTemplate.name = 0
  BY DEF Types, ServerTypes, NoTemplate
<1> QED BY <1>1 DEF Types, FormTypes, ResetTemplate

LEMMA ChangeTypes ==
  ASSUME Types, NEW s \in Sides, NEW c \in Clusters[s], ClusterChange(s, c)
  PROVE  Types'
<1>1. /\ UNCHANGED <<mount, mounts, submits, templates, made, plans, faults>>
      /\ mount # 0 /\ edits < MaxEdits /\ edits' = edits + 1
  BY DEF ClusterChange
<1>2. PICK e : /\ Flow(0, e) /\ DOMAIN e \subseteq {1, 2} /\ 1 \in DOMAIN e
               /\ e[1] = ReadOf(s, c) /\ ReadOf(s, c) \in Requests
               /\ 2 \in DOMAIN e => e[2] = Synced(params', creds, template.name) /\ Validated(creds)
  BY ChangeFlow
<1>3. params' \in ParamsSet /\ creds \in CredsSet /\ template.name \in 0 .. made /\ made \in Nat
      /\ mounts \in Nat /\ mount \in 1 .. mounts /\ edits \in Nat
  <2>1. params' \in ParamsSet
    BY ParamsAfter DEF ClusterChange
  <2> QED BY <1>1, <2>1, Facts DEF Types, FormTypes, ServerTypes, CredsSet
<1>4. \A x \in DOMAIN e : RequestNext(e[x]) /\ e[x].kind \notin SubmitKinds
  <2>1. RequestNext(ReadOf(s, c)) /\ ReadOf(s, c).kind \notin SubmitKinds
    BY <1>1, <1>3, Facts, KindFacts DEF RequestNext, ReadOf, Reads
  <2>2. 2 \in DOMAIN e => RequestNext(e[2]) /\ e[2].kind \notin SubmitKinds
    BY <1>1, <1>2, <1>3, SyncedOK
  <2> QED BY <1>2, <2>1, <2>2
<1>5. NetTypes' /\ SubmitTypes'
  BY <1>1, <1>2, <1>3, <1>4, QuietSubmits
<1>6. Room'
  BY <1>1, <1>2, RoomGrows
<1>7. FormTypes'
  <2>1. creds' \in CredsSet
    BY <1>3 DEF ClusterChange, CredsSet
  <2>2. template' \in [name : 0 .. made, ready : BOOLEAN]
    BY ResetType DEF ClusterChange
  <2>3. edits' \in 0 .. MaxEdits
    BY <1>1, <1>3, Facts
  <2> QED BY <1>1, <1>3, <2>1, <2>2, <2>3 DEF Types, FormTypes, ParamsSet, CredsSet
<1>8. ServerTypes'
  BY <1>1 DEF Types, ServerTypes
<1> QED BY <1>5, <1>6, <1>7, <1>8 DEF Types

LEMMA GPUTypes ==
  ASSUME Types, UseGPUChange
  PROVE  Types'
<1>1. /\ UNCHANGED <<mount, mounts, creds, template, submits, templates, made, plans, faults>>
      /\ mount # 0 /\ edits < MaxEdits /\ edits' = edits + 1
  BY DEF UseGPUChange
<1>2. PICK e : /\ Flow(0, e) /\ DOMAIN e \subseteq {1}
               /\ \A x \in DOMAIN e : e[x] = Synced(params', creds, template.name) /\ Validated(creds)
  BY GPUFlow
<1>3. params' \in ParamsSet /\ creds \in CredsSet /\ template.name \in 0 .. made /\ made \in Nat
      /\ mounts \in Nat /\ mount \in 1 .. mounts /\ edits \in Nat
  BY <1>1, Facts, GPUFlow DEF Types, FormTypes, ServerTypes, CredsSet
<1>4. \A x \in DOMAIN e : RequestNext(e[x]) /\ e[x].kind \notin SubmitKinds
  BY <1>1, <1>2, <1>3, SyncedOK
<1>5. NetTypes' /\ SubmitTypes'
  BY <1>1, <1>2, <1>3, <1>4, QuietSubmits
<1>6. Room'
  BY <1>1, <1>2, RoomGrows
<1>7. FormTypes'
  <2>1. edits' \in 0 .. MaxEdits
    BY <1>1, <1>3, Facts
  <2> QED BY <1>1, <1>3, <2>1 DEF Types, FormTypes, ParamsSet
<1>8. ServerTypes'
  BY <1>1 DEF Types, ServerTypes
<1> QED BY <1>5, <1>6, <1>7, <1>8 DEF Types

(* The others change nothing but the requests, the form or the server.      *)
LEMMA PollTypes ==
  ASSUME Types, PollTemplate
  PROVE  Types'
<1>1. UNCHANGED <<formVars, submits, templates, made, plans, edits, faults>> /\ mount # 0 /\ template.name # 0
  BY DEF PollTemplate
<1> DEFINE r == RequestOf("poll", template.name)
<1>2. Flow(0, <<r>>) /\ r \in Requests
  BY PollFlow
<1>3. mounts \in Nat /\ mount \in 1 .. mounts /\ template.name \in 0 .. made /\ made \in Nat
  BY <1>1, Facts DEF Types, FormTypes, ServerTypes
<1>4. RequestNext(r) /\ r.kind = "poll"
  BY <1>1, <1>3, KindFacts DEF RequestNext, RequestOf, formVars
<1> HIDE DEF r
<1>5. \A x \in DOMAIN <<r>> : RequestNext(<<r>>[x]) /\ <<r>>[x].kind = "poll"
  BY <1>2, <1>4, OneSent
<1>6. NetTypes' /\ SubmitTypes'
  BY <1>1, <1>2, <1>3, <1>5, KindFacts, QuietSubmits DEF formVars
<1>7. Room'
  BY <1>1, <1>2, <1>5, RoomStays
<1>8. FormTypes' /\ ServerTypes'
  BY <1>1 DEF Types, FormTypes, ServerTypes, formVars
<1> QED BY <1>6, <1>7, <1>8 DEF Types

LEMMA UnmountTypes ==
  ASSUME Types, UNCHANGED <<mounts, made, edits>>, faults' \in 0 .. MaxFaults,
         Unmount \/ UNCHANGED formVars
  PROVE  FormTypes'
<1>1. CASE Unmount
  <2>1. params' \in ParamsSet /\ creds' \in CredsSet /\ mount' = 0
    BY <1>1 DEF Unmount, NoParams, NoCreds, ParamsSet, CredsSet
  <2>2. template' \in [name : 0 .. made, ready : BOOLEAN] /\ template'.name = 0
    BY <1>1 DEF Types, ServerTypes, Unmount, NoTemplate
  <2> QED BY <2>1, <2>2 DEF Types, FormTypes, ParamsSet, CredsSet
<1>2. CASE UNCHANGED formVars
  BY <1>2 DEF Types, FormTypes, formVars
<1> QED BY <1>1, <1>2

LEMMA CloseTypes ==
  ASSUME Types, HandleClose
  PROVE  Types'
<1>1. UNCHANGED <<mounts, submits, templates, made, plans, edits, faults>> /\ mount # 0 /\ Unmount
  BY DEF HandleClose
<1>2. mounts \in Nat /\ mount \in 1 .. mounts /\ template.name \in 0 .. made /\ made \in Nat
  BY <1>1, Facts DEF Types, FormTypes, ServerTypes
<1>3. NetTypes' /\ SubmitTypes' /\ Room'
  <2>1. CASE template.name = 0
    <3>1. Flow(0, << >>)
      BY <2>1, CloseFlow
    <3>2. NetTypes' /\ SubmitTypes'
      BY <1>1, <1>2, <3>1, NoneSent, QuietSubmits
    <3>3. Room'
      BY <1>1, <3>1, NoneSent, RoomStays
    <3> QED BY <3>2, <3>3
  <2>2. CASE template.name # 0
    <3> DEFINE r == RequestOf("delete", template.name)
    <3>1. Flow(0, <<r>>) /\ r \in Requests
      BY <2>2, CloseFlow
    <3>2. RequestNext(r) /\ r.kind = "delete"
      BY <1>1, <1>2, <2>2, KindFacts DEF RequestNext, RequestOf
    <3> HIDE DEF r
    <3>3. \A x \in DOMAIN <<r>> : RequestNext(<<r>>[x]) /\ <<r>>[x].kind = "delete"
      BY <3>1, <3>2, OneSent
    <3>4. NetTypes' /\ SubmitTypes'
      BY <1>1, <1>2, <3>1, <3>3, KindFacts, QuietSubmits
    <3>5. Room'
      BY <1>1, <3>1, <3>3, RoomStays
    <3> QED BY <3>4, <3>5
  <2> QED BY <2>1, <2>2
<1>4. FormTypes' /\ ServerTypes'
  BY <1>1, UnmountTypes DEF Types, FormTypes, ServerTypes
<1> QED BY <1>3, <1>4 DEF Types

LEMMA SubmitTypesStep ==
  ASSUME Types, NEW method \in Methods, NEW required \in BOOLEAN, HandleSubmit(method, required)
  PROVE  Types' /\ Chosen(method) \in Wants
<1>1. /\ UNCHANGED <<formVars, templates, made, plans, edits, faults>>
      /\ mount # 0 /\ Validated(creds) /\ params.source # None /\ params.target # None
      /\ ~ Submitting(mount)
      /\ submits' = [submits EXCEPT ![mount] =
           [pc |-> FirstKind(method, required), name |-> template.name, want |-> Chosen(method)]]
  BY DEF HandleSubmit, DisableSubmit, FirstKind
<1>2. /\ mounts \in Nat /\ mount \in 1 .. mounts /\ template.name \in 0 .. made /\ made \in Nat
      /\ params \in ParamsSet
  BY <1>1, Facts DEF Types, FormTypes, ServerTypes, ParamsSet
<1>3. Chosen(method) \in Wants
  <2>1. params.source \in Clusters["source"] /\ params.target \in Clusters["target"] /\ params.useGPU \in BOOLEAN
    BY <1>1, <1>2 DEF ParamsSet, Sources, Targets
  <2>2. CredOf[params.source] \in Creds /\ CredOf[params.target] \in Creds
    BY <2>1, Facts DEF Sides
  <2> QED BY <2>1, <2>2 DEF Chosen, Wants, Targets
<1> DEFINE r == RequestOf(FirstKind(method, required), template.name)
           t == [pc |-> FirstKind(method, required), name |-> template.name, want |-> Chosen(method)]
<1>4. Flow(0, <<r>>) /\ r \in Requests /\ r.kind \in {"network", "storage", "array"}
  BY SubmitFlow
<1>5. r.kind = t.pc /\ r.mount = mount /\ r.name = template.name /\ t.want = Chosen(method)
  BY DEF RequestOf
<1>6. t \in [pc : Pcs, name : Nat, want : Wants \cup {None}] /\ r.kind \in SubmitKinds
  BY <1>2, <1>3, <1>4, <1>5, KindFacts DEF Pcs
<1>7. submits[mount].pc \notin SubmitKinds
  BY <1>1, KindFacts DEF Submitting
<1> HIDE DEF r, t
<1>8. NetTypes' /\ SubmitTypes'
  <2>1. /\ r \in Requests /\ <<r>> = <<r>> /\ r.kind = t.pc /\ r.kind \in SubmitKinds
        /\ r.mount = mount /\ r.name <= made /\ t.want \in Wants
    BY <1>2, <1>3, <1>4, <1>5, <1>6
  <2>2. submits' = [submits EXCEPT ![mount] = t] /\ mounts' = mounts /\ made' = made
    BY <1>1 DEF t, formVars
  <2> QED BY <1>2, <1>4, <1>6, <1>7, <2>1, <2>2, SubmitMoves
<1>9. Room'
  <2>1. \A x \in DOMAIN <<r>> : <<r>>[x].kind \notin {"post", "creds"}
    BY <1>4, OneSent
  <2> QED BY <1>1, <1>4, <2>1, RoomStays
<1>10. FormTypes' /\ ServerTypes'
  BY <1>1 DEF Types, FormTypes, ServerTypes, formVars
<1> QED BY <1>3, <1>8, <1>9, <1>10 DEF Types

LEMMA CredsTypes ==
  ASSUME Types, NEW i \in DOMAIN net, CredsAnswer(i)
  PROVE  Types'
<1>1. UNCHANGED <<mount, mounts, params, submits, templates, made, plans, edits, faults>>
      /\ net[i].kind = "creds" /\ net[i].kind \notin SubmitKinds
  BY KindFacts DEF CredsAnswer
<1>2. /\ mounts \in Nat /\ template.name \in 0 .. made /\ made \in Nat /\ params \in ParamsSet
      /\ creds' \in CredsSet
  BY Facts, CredsFlow DEF Types, FormTypes, ServerTypes, ParamsSet
<1>3. PICK e : /\ Flow(i, e) /\ DOMAIN e \subseteq {1}
               /\ \A x \in DOMAIN e : RequestNext(e[x]) /\ e[x].kind \notin SubmitKinds
  <2>1. CASE net[i].mount # mount
    BY <2>1, CredsFlow, NoneSent
  <2>2. CASE net[i].mount = mount
    <3>1. PICK e : /\ Flow(i, e) /\ DOMAIN e \subseteq {1}
                   /\ \A x \in DOMAIN e : e[x] = Synced(params, creds', template.name) /\ Validated(creds')
      BY <2>2, CredsFlow
    <3>2. mount # 0
      BY <2>2, AnswerTypes
    <3>3. \A x \in DOMAIN e : RequestNext(e[x]) /\ e[x].kind \notin SubmitKinds
      BY <1>1, <1>2, <3>1, <3>2, SyncedOK
    <3> QED BY <3>1, <3>3
  <2> QED BY <2>1, <2>2
<1>4. NetTypes' /\ SubmitTypes'
  <2>1. /\ mounts' \in Nat /\ mounts <= mounts' /\ made' \in Nat /\ made <= made'
        /\ i \in {0} \cup DOMAIN net /\ submits' = submits
    BY <1>1, <1>2
  <2> QED BY <1>1, <1>2, <1>3, <2>1, QuietSubmits
<1>5. Room'
  BY <1>1, <1>3, RoomMoves
<1>6. template' \in [name : 0 .. made, ready : BOOLEAN] /\ (mount = 0 => template'.name = 0)
  <2>1. template' = template \/ template' = ResetTemplate(creds, creds', template)
    BY CredsFlow
  <2> QED BY <2>1, ResetType DEF Types, FormTypes
<1>7. FormTypes' /\ ServerTypes'
  BY <1>1, <1>2, <1>6 DEF Types, FormTypes, ServerTypes, CredsSet
<1> QED BY <1>4, <1>5, <1>7 DEF Types

(* An answer that brings the template n.                                    *)
LEMMA ArrivesTypes ==
  ASSUME Types, NEW i \in DOMAIN net, NEW n \in Nat, TemplateArrives(i, n),
         net[i].kind \notin SubmitKinds, UNCHANGED <<mount, mounts, params, creds, submits, edits, faults>>,
         n \in 1 .. made', n <= MaxTemplates, made' \in Nat, ServerTypes', templates'[n] # None,
         \/ made' = made
         \/ made' = made + 1 /\ net[i].kind = "post"
  PROVE  Types'
<1>1. /\ mounts \in Nat /\ made \in Nat /\ params \in ParamsSet /\ creds \in CredsSet
  BY Facts DEF Types, FormTypes, ServerTypes, ParamsSet, CredsSet
<1>2. PICK e : /\ Flow(i, e) /\ DOMAIN e \subseteq {1}
               /\ \A x \in DOMAIN e : RequestNext(e[x]) /\ e[x].kind \notin SubmitKinds \cup {"post", "creds"}
  <2>1. CASE net[i].mount # mount
    BY <2>1, ArrivesFlow, NoneSent
  <2>2. CASE net[i].mount = mount
    <3>1. PICK e : /\ Flow(i, e) /\ DOMAIN e \subseteq {1}
                   /\ \A x \in DOMAIN e : e[x] = Synced(params, creds, n) /\ Validated(creds)
      BY <2>2, ArrivesFlow
    <3>2. mount # 0
      BY <2>2, AnswerTypes
    <3>3. \A x \in DOMAIN e : /\ RequestNext(e[x]) /\ e[x].kind \notin SubmitKinds
                              /\ e[x].kind \in {"post", "patch"} /\ e[x].kind # "post"
      BY <1>1, <3>1, <3>2, SyncedOK
    <3> QED BY <3>1, <3>3
  <2> QED BY <2>1, <2>2
<1>3. NetTypes' /\ SubmitTypes'
  <2>1. /\ mounts' \in Nat /\ mounts <= mounts' /\ made <= made'
        /\ i \in {0} \cup DOMAIN net /\ submits' = submits
    BY <1>1
  <2> QED BY <1>1, <1>2, <2>1, QuietSubmits
<1>4. Room'
  <2>1. CASE made' = made
    BY <1>2, <2>1, RoomStays
  <2>2. CASE made' = made + 1 /\ net[i].kind = "post"
    BY <1>2, <2>2, RoomMoves
  <2> QED BY <2>1, <2>2
<1>5. template' \in [name : 0 .. made', ready : BOOLEAN] /\ (mount = 0 => template'.name = 0)
  <2>1. CASE net[i].mount # mount
    <3>1. template' = template
      BY <2>1, ArrivesFlow
    <3> QED BY <1>1, <3>1 DEF Types, FormTypes
  <2>2. CASE net[i].mount = mount
    <3>1. template' = [name |-> n, ready |-> templates'[n].ready] /\ mount # 0
      BY <2>2, ArrivesFlow, AnswerTypes
    <3>2. templates'[n] \in Template
      BY <1>1, Facts DEF ServerTypes
    <3>3. templates'[n].ready \in BOOLEAN
      BY <3>2 DEF Template
    <3> QED BY <3>1, <3>3
  <2> QED BY <2>1, <2>2
<1>6. FormTypes'
  BY <1>5 DEF Types, FormTypes
<1> QED BY <1>3, <1>4, <1>6 DEF Types

LEMMA PostIs ==
  ASSUME Types, NEW i \in DOMAIN net, PostAnswer(i)
  PROVE  /\ net[i].kind = "post" /\ net[i].kind \notin SubmitKinds
         /\ NewName \in 1 .. MaxTemplates /\ made' = NewName /\ NewName = made + 1 /\ made \in Nat
         /\ TemplateArrives(i, NewName)
         /\ UNCHANGED <<mount, mounts, params, creds, submits, plans, edits, faults>>
         /\ templates' \in [1 .. MaxTemplates -> Template \cup {None}] /\ templates'[NewName] # None
         /\ \A n \in (1 .. MaxTemplates) \ {NewName} : templates'[n] = templates[n]
<1>1. /\ net[i].kind = "post" /\ net[i].kind \notin SubmitKinds /\ made' = NewName /\ NewName = made + 1
      /\ TemplateArrives(i, NewName)
      /\ UNCHANGED <<mount, mounts, params, creds, submits, plans, edits, faults>>
  BY KindFacts DEF PostAnswer, NewName
<1>2. /\ made \in Nat /\ edits \in 0 .. MaxEdits /\ net \in Seq(Requests)
      /\ templates \in [1 .. MaxTemplates -> Template \cup {None}]
  BY DEF Types, FormTypes, ServerTypes, NetTypes
<1>3. NewName \in 1 .. MaxTemplates
  <2>1. i \in Posting
    BY <1>1 DEF Posting
  <2>2. IsFiniteSet(Posting) /\ Cardinality(Posting) \in Nat /\ Cardinality(Posting) # 0
    <3>1. Len(net) \in Nat /\ DOMAIN net = 1 .. Len(net)
      BY <1>2, LenProperties
    <3>2. IsFiniteSet(1 .. Len(net)) /\ Posting \in SUBSET (1 .. Len(net))
      BY <3>1, FS_Interval DEF Posting
    <3>3. IsFiniteSet(Posting)
      BY <3>2, FS_Subset
    <3> QED BY <2>1, <3>3, FS_CardinalityType, FS_EmptySet
  <2>3. made + Cardinality(Posting) <= 2 * edits
    BY DEF Types, Room
  <2>4. MaxEdits \in Nat /\ MaxMounts \in Nat /\ MaxTemplates = 2 * (MaxEdits + MaxMounts)
    BY Facts
  <2>5. made + 1 <= 2 * edits /\ 2 * edits <= MaxTemplates /\ edits \in Nat
    BY <1>2, <2>2, <2>3, <2>4
  <2> QED BY <1>1, <1>2, <2>4, <2>5
<1> DEFINE t == [source |-> net[i].arg.source, destination |-> net[i].arg.destination,
                 cluster |-> net[i].arg.cluster, useGPU |-> net[i].arg.useGPU,
                 method |-> None, ready |-> FALSE]
<1>4. t \in Template
  <2>1. net[i].arg \in Bodies
    BY <1>1, AnswerTypes DEF RequestOK
  <2> QED BY <2>1 DEF Bodies, Template, Targets
<1>5. templates' = [templates EXCEPT ![NewName] = t]
  BY DEF PostAnswer
<1> HIDE DEF t
<1>6. /\ templates' \in [1 .. MaxTemplates -> Template \cup {None}] /\ templates'[NewName] # None
      /\ \A n \in (1 .. MaxTemplates) \ {NewName} : templates'[n] = templates[n]
  BY <1>2, <1>3, <1>4, <1>5, Facts
<1> QED BY <1>1, <1>2, <1>3, <1>6

LEMMA PostTypes ==
  ASSUME Types, NEW i \in DOMAIN net, PostAnswer(i)
  PROVE  Types'
<1>1. ServerTypes'
  <2>1. \A n \in 1 .. MaxTemplates : templates'[n] # None => n <= made'
    <3> SUFFICES ASSUME NEW n \in 1 .. MaxTemplates, templates'[n] # None PROVE n <= made'
      OBVIOUS
    <3>1. CASE n = NewName
      BY <3>1, PostIs
    <3>2. CASE n # NewName
      BY <3>2, PostIs DEF Types, ServerTypes
    <3> QED BY <3>1, <3>2
  <2>2. made' \in Nat /\ templates' \in [1 .. MaxTemplates -> Template \cup {None}]
    BY PostIs
  <2> QED BY <2>1, <2>2 DEF ServerTypes
<1>2. NewName \in Nat /\ NewName \in 1 .. made' /\ NewName <= MaxTemplates /\ made' \in Nat
  BY PostIs, Facts
<1> QED BY <1>1, <1>2, PostIs, ArrivesTypes

Says(n, b) ==
  /\ templates[n] # None
  /\ templates[n].source = b.source /\ templates[n].destination = b.destination
  /\ templates[n].cluster = b.cluster /\ templates[n].useGPU = b.useGPU

(* The template says so after the step.                                      *)
SaysNext(n, b) ==
  /\ templates'[n] # None
  /\ templates'[n].source = b.source /\ templates'[n].destination = b.destination
  /\ templates'[n].cluster = b.cluster /\ templates'[n].useGPU = b.useGPU

(* There is room for every template that was created.                       *)
LEMMA RoomBounds ==
  ASSUME Types
  PROVE  made <= MaxTemplates /\ Cardinality(Posting) \in Nat
<1>1. made \in Nat /\ edits \in 0 .. MaxEdits /\ net \in Seq(Requests)
  BY DEF Types, FormTypes, ServerTypes, NetTypes
<1>2. Cardinality(Posting) \in Nat
  <2>1. Len(net) \in Nat /\ DOMAIN net = 1 .. Len(net)
    BY <1>1, LenProperties
  <2>2. IsFiniteSet(1 .. Len(net)) /\ Posting \in SUBSET (1 .. Len(net))
    BY <2>1, FS_Interval DEF Posting
  <2> QED BY <2>2, FS_Subset, FS_CardinalityType
<1> QED BY <1>1, <1>2, Facts DEF Types, Room

LEMMA PatchIs ==
  ASSUME Types, NEW i \in DOMAIN net, PatchAnswer(i)
  PROVE  /\ net[i].kind = "patch" /\ net[i].kind \notin SubmitKinds
         /\ net[i].name \in 1 .. MaxTemplates /\ net[i].name \in 1 .. made
         /\ templates[net[i].name] # None /\ TemplateArrives(i, net[i].name)
         /\ UNCHANGED <<mount, mounts, params, creds, submits, made, plans, edits, faults>>
         /\ templates' \in [1 .. MaxTemplates -> Template \cup {None}] /\ templates'[net[i].name] # None
         /\ \A n \in (1 .. MaxTemplates) \ {net[i].name} : templates'[n] = templates[n]
         /\ net[i].arg \in Bodies /\ SaysNext(net[i].name, net[i].arg)
<1> DEFINE n == net[i].name
<1>1. /\ net[i].kind = "patch" /\ net[i].kind \notin SubmitKinds /\ Found(n)
      /\ TemplateArrives(i, n)
      /\ UNCHANGED <<mount, mounts, params, creds, submits, made, plans, edits, faults>>
  BY KindFacts DEF PatchAnswer
<1>2. n \in 1 .. made /\ templates[n] # None
  BY <1>1, AnswerTypes DEF Found, Types, ServerTypes
<1>3. templates \in [1 .. MaxTemplates -> Template \cup {None}] /\ net[i].arg \in Bodies
  BY <1>1, AnswerTypes DEF Types, ServerTypes, RequestOK
<1> DEFINE u == [templates[n] EXCEPT !.source = net[i].arg.source, !.destination = net[i].arg.destination,
                                     !.cluster = net[i].arg.cluster, !.useGPU = net[i].arg.useGPU]
<1>4. n \in 1 .. MaxTemplates /\ templates[n] \in Template
  <2>1. made \in Nat /\ made <= MaxTemplates /\ MaxTemplates \in Nat
    BY RoomBounds, Facts DEF Types, ServerTypes
  <2>2. n \in 1 .. MaxTemplates
    BY <1>2, <2>1
  <2> QED BY <1>2, <1>3, <2>2
<1>5. /\ u \in Template /\ u.source = net[i].arg.source /\ u.destination = net[i].arg.destination
      /\ u.cluster = net[i].arg.cluster /\ u.useGPU = net[i].arg.useGPU
  BY <1>3, <1>4 DEF Bodies, Template, Targets
<1>6. templates' = [templates EXCEPT ![n] = u]
  BY DEF PatchAnswer
<1> HIDE DEF u
<1>7. /\ templates' \in [1 .. MaxTemplates -> Template \cup {None}] /\ templates'[n] = u
      /\ \A q \in (1 .. MaxTemplates) \ {n} : templates'[q] = templates[q]
  BY <1>3, <1>4, <1>5, <1>6
<1>8. templates'[n] # None
  BY <1>5, <1>7, Facts
<1> QED BY <1>1, <1>2, <1>3, <1>4, <1>5, <1>7, <1>8 DEF SaysNext

LEMMA PatchTypes ==
  ASSUME Types, NEW i \in DOMAIN net, PatchAnswer(i)
  PROVE  Types'
<1>1. ServerTypes'
  <2>1. UNCHANGED made /\ templates' \in [1 .. MaxTemplates -> Template \cup {None}] /\ made \in Nat
    BY PatchIs DEF Types, ServerTypes
  <2>2. \A n \in 1 .. MaxTemplates : templates'[n] # None => n <= made
    BY PatchIs, Facts DEF Types, ServerTypes
  <2> QED BY <2>1, <2>2 DEF ServerTypes
<1>2. net[i].name \in Nat /\ net[i].name \in 1 .. made' /\ net[i].name <= MaxTemplates /\ made' \in Nat
  BY PatchIs, Facts DEF Types, ServerTypes
<1> QED BY <1>1, <1>2, PatchIs, ArrivesTypes

LEMMA PollTypesStep ==
  ASSUME Types, NEW i \in DOMAIN net, PollAnswer(i)
  PROVE  Types'
<1>1. /\ net[i].kind = "poll" /\ net[i].kind \notin SubmitKinds /\ Found(net[i].name)
      /\ TemplateArrives(i, net[i].name)
      /\ UNCHANGED <<templates, mount, mounts, params, creds, submits, made, plans, edits, faults>>
  BY KindFacts DEF PollAnswer
<1>2. ServerTypes'
  BY <1>1 DEF Types, ServerTypes
<1>3. made \in Nat /\ made <= MaxTemplates /\ MaxTemplates \in Nat
  BY RoomBounds, Facts DEF Types, ServerTypes
<1>4. net[i].name \in 1 .. made /\ templates[net[i].name] # None
  BY <1>1, AnswerTypes DEF Found
<1>5. net[i].name \in Nat /\ net[i].name \in 1 .. made' /\ net[i].name <= MaxTemplates /\ made' \in Nat
  BY <1>1, <1>3, <1>4
<1> QED BY <1>1, <1>2, <1>4, <1>5, ArrivesTypes

(* An answer after which no submit moves and no request is sent.            *)
LEMMA DropTypes ==
  ASSUME Types, NEW i \in DOMAIN net, net[i].kind \notin SubmitKinds, net' = Without(i),
         UNCHANGED <<mounts, submits, made, edits>>, faults' \in 0 .. MaxFaults,
         Unmount \/ UNCHANGED formVars, ServerTypes'
  PROVE  Types'
<1>1. Flow(i, << >>)
  BY AnswersOnly DEF Types, NetTypes
<1>2. mounts \in Nat /\ made \in Nat
  BY Facts DEF Types, FormTypes, ServerTypes
<1>3. NetTypes' /\ SubmitTypes'
  BY <1>1, <1>2, NoneSent, QuietSubmits
<1>4. Room'
  BY <1>1, NoneSent, RoomStays
<1>5. FormTypes'
  BY UnmountTypes
<1> QED BY <1>3, <1>4, <1>5 DEF Types

LEMMA DeleteIs ==
  ASSUME Types, NEW i \in DOMAIN net, DeleteAnswer(i)
  PROVE  /\ net[i].kind = "delete" /\ net[i].kind \notin SubmitKinds /\ net' = Without(i)
         /\ net[i].name \in 1 .. made /\ net[i].name \in 1 .. MaxTemplates
         /\ templates' \in [1 .. MaxTemplates -> Template \cup {None}] /\ templates'[net[i].name] = None
         /\ \A q \in (1 .. MaxTemplates) \ {net[i].name} : templates'[q] = templates[q]
         /\ UNCHANGED <<formVars, submits, made, plans, edits, faults>>
<1> DEFINE n == net[i].name
<1>1. /\ net[i].kind = "delete" /\ net[i].kind \notin SubmitKinds /\ net' = Without(i) /\ Found(n)
      /\ templates' = [templates EXCEPT ![n] = None]
      /\ UNCHANGED <<formVars, submits, made, plans, edits, faults>>
  BY KindFacts DEF DeleteAnswer
<1>2. /\ made \in Nat /\ made <= MaxTemplates /\ MaxTemplates \in Nat
      /\ templates \in [1 .. MaxTemplates -> Template \cup {None}]
  BY RoomBounds, Facts DEF Types, ServerTypes
<1>3. n \in 1 .. made
  BY <1>1, AnswerTypes DEF Found
<1>4. n \in 1 .. MaxTemplates
  BY <1>2, <1>3
<1> HIDE DEF n
<1>5. /\ templates' \in [1 .. MaxTemplates -> Template \cup {None}] /\ templates'[n] = None
      /\ \A q \in (1 .. MaxTemplates) \ {n} : templates'[q] = templates[q]
  BY <1>1, <1>2, <1>4
<1> QED BY <1>1, <1>3, <1>4, <1>5 DEF n

LEMMA DeleteTypes ==
  ASSUME Types, NEW i \in DOMAIN net, DeleteAnswer(i)
  PROVE  Types'
<1>1. ServerTypes'
  <2>1. UNCHANGED made /\ templates' \in [1 .. MaxTemplates -> Template \cup {None}] /\ made \in Nat
    BY DeleteIs DEF Types, ServerTypes
  <2>2. \A n \in 1 .. MaxTemplates : templates'[n] # None => n <= made
    BY DeleteIs DEF Types, ServerTypes
  <2> QED BY <2>1, <2>2 DEF ServerTypes
<1>2. faults \in 0 .. MaxFaults
  BY DEF Types, FormTypes
<1> QED BY <1>1, <1>2, DeleteIs, DropTypes DEF formVars

LEMMA ContinueTypes ==
  ASSUME Types, NEW i \in DOMAIN net, net[i].kind \in SubmitKinds, NEW k \in SubmitKinds, Continue(i, k),
         UNCHANGED <<formVars, made, edits, faults>>, ServerTypes'
  PROVE  Types'
<1> DEFINE m == net[i].mount
           t == [pc |-> k, name |-> submits[m].name, want |-> submits[m].want]
           r == [kind |-> k, name |-> net[i].name, arg |-> net[i].arg, mount |-> m]
<1>1. /\ Flow(i, <<r>>) /\ r \in Requests
  BY ContinueFlow
<1>2. m \in 1 .. mounts /\ m \in Mounts /\ submits[m].want \in Wants /\ net[i].name <= made
  BY AnswerTypes DEF RequestOK
<1>3. submits \in [Mounts -> [pc : Pcs, name : Nat, want : Wants \cup {None}]]
  BY DEF Types, SubmitTypes
<1>4. t \in [pc : Pcs, name : Nat, want : Wants \cup {None}]
  BY <1>2, <1>3 DEF Pcs
<1>5. submits' = [submits EXCEPT ![m] = t]
  <2>1. [submits[m] EXCEPT !.pc = k] = t
    <3>1. submits[m] \in [pc : Pcs, name : Nat, want : Wants \cup {None}]
      BY <1>2, <1>3
    <3> QED BY <3>1
  <2>2. submits' = [submits EXCEPT ![m].pc = k]
    BY DEF Continue
  <2> QED BY <2>1, <2>2
<1>6. /\ r.kind = t.pc /\ r.kind = k /\ r.mount = m /\ r.name <= made /\ t.want \in Wants
  BY <1>2
<1> HIDE DEF r, t, m
<1>7. NetTypes' /\ SubmitTypes'
  <2>1. i # 0 /\ net[i].mount = m /\ UNCHANGED <<mounts, made>>
    BY AnswerTypes DEF m, formVars
  <2>2. \E q \in Requests :
              /\ <<r>> = <<q>> /\ q.kind = t.pc /\ q.kind \in SubmitKinds
              /\ q.mount = m /\ q.name <= made /\ t.want \in Wants
    BY <1>1, <1>6
  <2> QED BY <1>1, <1>2, <1>4, <1>5, <2>1, <2>2, SubmitMoves
<1>8. Room'
  <2>1. \A x \in DOMAIN <<r>> : <<r>>[x].kind \notin {"post", "creds"}
    BY <1>1, <1>6, OneSent, KindFacts
  <2> QED BY <1>1, <2>1, RoomStays
<1>9. FormTypes'
  BY DEF Types, FormTypes, formVars
<1> QED BY <1>7, <1>8, <1>9 DEF Types

(* It ends.                                                                 *)
Ended(i, p) == submits' = [submits EXCEPT ![net[i].mount].pc = p]

LEMMA StopTypes ==
  ASSUME Types, NEW i \in DOMAIN net, net[i].kind \in SubmitKinds, NEW p \in {"idle", "done", "stuck"},
         Ended(i, p), net' = Without(i),
         UNCHANGED <<mounts, made, templates, edits>>, faults' \in 0 .. MaxFaults,
         Unmount \/ UNCHANGED formVars
  PROVE  Types'
<1> DEFINE m == net[i].mount
           t == [pc |-> p, name |-> submits[m].name, want |-> submits[m].want]
<1>1. Flow(i, << >>)
  BY AnswersOnly DEF Types, NetTypes
<1>2. m \in 1 .. mounts /\ m \in Mounts /\ i # 0
  BY AnswerTypes
<1>3. submits \in [Mounts -> [pc : Pcs, name : Nat, want : Wants \cup {None}]]
  BY DEF Types, SubmitTypes
<1>4. submits[m] \in [pc : Pcs, name : Nat, want : Wants \cup {None}]
  BY <1>2, <1>3
<1>5. t \in [pc : Pcs, name : Nat, want : Wants \cup {None}] /\ t.pc = p
  BY <1>4 DEF Pcs
<1>6. submits' = [submits EXCEPT ![m] = t]
  <2>1. [submits[m] EXCEPT !.pc = p] = t
    BY <1>4
  <2>2. submits' = [submits EXCEPT ![m].pc = p]
    BY DEF Ended
  <2> QED BY <2>1, <2>2
<1>7. net[i].mount = m
  OBVIOUS
<1> HIDE DEF t, m
<1>8. NetTypes' /\ SubmitTypes'
  <2>1. t.pc \notin SubmitKinds
    BY <1>5, Facts
  <2>2. mounts' = mounts /\ made' = made /\ net[i].mount = m /\ net[i].kind \in SubmitKinds
    BY <1>7
  <2>3. /\ i \in {0} \cup DOMAIN net
        /\ \/ i = 0 /\ submits[m].pc \notin SubmitKinds
           \/ i # 0 /\ net[i].mount = m /\ net[i].kind \in SubmitKinds
    BY <1>2, <2>2
  <2> QED BY <1>1, <1>2, <1>5, <1>6, <2>1, <2>2, <2>3, SubmitMoves
<1>9. Room'
  BY <1>1, NoneSent, RoomStays
<1>10. FormTypes' /\ ServerTypes'
  BY UnmountTypes DEF Types, ServerTypes
<1> QED BY <1>8, <1>9, <1>10 DEF Types

LEMMA NetworkTypes ==
  ASSUME Types, NEW i \in DOMAIN net, NetworkAnswer(i) \/ StorageAnswer(i)
  PROVE  Types' /\ net[i].kind \in {"network", "storage", "array"}
         /\ UNCHANGED <<formVars, templates, made, plans, edits, faults>>
         /\ \E k \in {"storage", "array", "mapping"} : Continue(i, k)
<1>1. /\ net[i].kind \in {"network", "storage", "array"}
      /\ UNCHANGED <<formVars, templates, made, plans, edits, faults>>
      /\ \E k \in {"storage", "array", "mapping"} : Continue(i, k)
  BY KindFacts DEF NetworkAnswer, StorageAnswer
<1>2. PICK k \in {"storage", "array", "mapping"} : Continue(i, k)
  BY <1>1
<1>3. k \in SubmitKinds /\ net[i].kind \in SubmitKinds
  BY <1>1, KindFacts
<1>4. ServerTypes'
  BY <1>1 DEF Types, ServerTypes
<1> QED BY <1>1, <1>2, <1>3, <1>4, ContinueTypes

LEMMA MappingIs ==
  ASSUME Types, NEW i \in DOMAIN net, MappingAnswer(i)
  PROVE  /\ net[i].kind = "mapping" /\ Continue(i, "plan") /\ UNCHANGED <<formVars, made, plans, edits, faults>>
         /\ net[i].name \in 1 .. made /\ net[i].name \in 1 .. MaxTemplates /\ templates[net[i].name] # None
         /\ submits[net[i].mount].want \in Wants
         /\ templates' \in [1 .. MaxTemplates -> Template \cup {None}] /\ templates'[net[i].name] # None
         /\ templates'[net[i].name] = [templates[net[i].name] EXCEPT !.method = submits[net[i].mount].want.method]
         /\ \A q \in (1 .. MaxTemplates) \ {net[i].name} : templates'[q] = templates[q]
<1> DEFINE n == net[i].name
           method == submits[net[i].mount].want.method
           u == [templates[n] EXCEPT !.method = method]
<1>1. /\ net[i].kind = "mapping" /\ Continue(i, "plan") /\ UNCHANGED <<formVars, made, plans, edits, faults>>
      /\ Found(n)
  BY DEF MappingAnswer
<1>2. /\ made \in Nat /\ made <= MaxTemplates /\ MaxTemplates \in Nat
      /\ templates \in [1 .. MaxTemplates -> Template \cup {None}]
  BY RoomBounds, Facts DEF Types, ServerTypes
<1>3. n \in 1 .. made /\ templates[n] # None
  BY <1>1, AnswerTypes DEF Found
<1>4. n \in 1 .. MaxTemplates /\ templates[n] \in Template
  BY <1>2, <1>3
<1>5. submits[net[i].mount].want \in Wants
  BY <1>1, AnswerTypes, KindFacts DEF RequestOK
<1>6. method \in CopyMethods
  BY <1>5, Facts DEF Wants
<1>7. templates' = [templates EXCEPT ![n] = u]
  BY DEF MappingAnswer
<1> HIDE DEF method
<1>8. u \in Template
  BY <1>4, <1>6 DEF Template
<1> HIDE DEF u, n
<1>9. /\ templates' \in [1 .. MaxTemplates -> Template \cup {None}] /\ templates'[n] = u
      /\ \A q \in (1 .. MaxTemplates) \ {n} : templates'[q] = templates[q]
  BY <1>2, <1>4, <1>7, <1>8
<1>10. u # None
  BY <1>8, Facts
<1> QED BY <1>1, <1>3, <1>4, <1>5, <1>9, <1>10 DEF u, n, method

LEMMA MappingTypes ==
  ASSUME Types, NEW i \in DOMAIN net, MappingAnswer(i)
  PROVE  Types'
<1>1. ServerTypes'
  <2>1. UNCHANGED made /\ templates' \in [1 .. MaxTemplates -> Template \cup {None}] /\ made \in Nat
    BY MappingIs DEF Types, ServerTypes
  <2>2. \A n \in 1 .. MaxTemplates : templates'[n] # None => n <= made
    BY MappingIs, Facts DEF Types, ServerTypes
  <2> QED BY <2>1, <2>2 DEF ServerTypes
<1>2. net[i].kind \in SubmitKinds /\ "plan" \in SubmitKinds
  BY MappingIs, KindFacts
<1> QED BY <1>1, <1>2, MappingIs, ContinueTypes

LEMMA PlanTypesStep ==
  ASSUME Types, NEW i \in DOMAIN net, PlanAnswer(i)
  PROVE  Types'
<1>1. /\ net[i].kind \in SubmitKinds /\ net' = Without(i)
      /\ Ended(i, "done")
      /\ UNCHANGED <<mounts, templates, made, edits, faults>>
      /\ Unmount \/ UNCHANGED formVars
  BY KindFacts DEF PlanAnswer, AfterSubmit, OnClose, Ended, formVars
<1>2. faults' \in 0 .. MaxFaults
  BY <1>1 DEF Types, FormTypes
<1> QED BY <1>1, <1>2, StopTypes

LEMMA RejectedIs ==
  ASSUME Types, NEW i \in DOMAIN net, Rejected(i)
  PROVE  /\ net' = Without(i) /\ UNCHANGED <<mounts, templates, made, plans, edits>>
         /\ faults' \in 0 .. MaxFaults /\ faults <= faults'
         /\ Unmount \/ UNCHANGED formVars
         /\ net[i].kind # "delete" => UNCHANGED formVars
         /\ \/ net[i].kind \in {"patch", "poll", "delete", "mapping"} /\ ~ Found(net[i].name)
            \/ net[i].kind \in Failing /\ faults' # 0
         /\ net[i].kind \notin SubmitKinds => submits' = submits
         /\ net[i].kind \in SubmitKinds =>
              \E p \in {"idle", "stuck"} : Ended(i, p)
<1> DEFINE missing == net[i].kind \in {"patch", "poll", "delete", "mapping"} /\ ~ Found(net[i].name)
<1>1. /\ missing \/ (net[i].kind \in Failing /\ faults < MaxFaults)
      /\ faults' = IF missing THEN faults ELSE faults + 1
      /\ net' = Without(i) /\ UNCHANGED <<mounts, templates, made, plans, edits>>
      /\ IF net[i].kind = "delete" THEN OnClose ELSE UNCHANGED formVars
  BY DEF Rejected, OnClose, formVars
<1>2. faults \in 0 .. MaxFaults /\ MaxFaults \in Nat
  BY Facts DEF Types, FormTypes
<1>3. Unmount \/ UNCHANGED formVars
  BY <1>1 DEF OnClose
<1>4. submits' = IF net[i].kind \in SubmitKinds
                   THEN [submits EXCEPT ![net[i].mount].pc = AfterRejection(net[i].kind)] ELSE submits
  BY DEF Rejected
<1>5. AfterRejection(net[i].kind) \in {"idle", "stuck"}
  BY DEF AfterRejection
<1>6. /\ faults' \in 0 .. MaxFaults /\ faults <= faults'
      /\ missing \/ (net[i].kind \in Failing /\ faults' # 0)
  BY <1>1, <1>2
<1> QED BY <1>1, <1>3, <1>4, <1>5, <1>6 DEF Ended

LEMMA RejectedTypes ==
  ASSUME Types, NEW i \in DOMAIN net, Rejected(i)
  PROVE  Types'
<1>1. CASE net[i].kind \in SubmitKinds
  <2>1. PICK p \in {"idle", "stuck"} : Ended(i, p)
    BY <1>1, RejectedIs
  <2> QED BY <1>1, <2>1, RejectedIs, StopTypes
<1>2. CASE net[i].kind \notin SubmitKinds
  <2>1. ServerTypes'
    BY RejectedIs DEF Types, ServerTypes
  <2> QED BY <1>2, <2>1, RejectedIs, DropTypes
<1> QED BY <1>1, <1>2

LEMMA ResolveIs ==
  ASSUME Types, NEW n \in DOMAIN templates, Resolve(n)
  PROVE  /\ templates' \in [1 .. MaxTemplates -> Template \cup {None}]
         /\ UNCHANGED <<formVars, submits, net, made, plans, edits, faults>>
         /\ \A q \in 1 .. MaxTemplates :
              /\ templates'[q] # None <=> templates[q] # None
              /\ templates[q] # None =>
                   /\ templates'[q].source = templates[q].source
                   /\ templates'[q].destination = templates[q].destination
                   /\ templates'[q].cluster = templates[q].cluster
                   /\ templates'[q].useGPU = templates[q].useGPU
                   /\ templates'[q].method = templates[q].method
<1> DEFINE u == [templates[n] EXCEPT !.ready = TRUE]
<1>1. templates \in [1 .. MaxTemplates -> Template \cup {None}] /\ n \in 1 .. MaxTemplates
  BY DEF Types, ServerTypes
<1>2. templates[n] \in Template /\ templates' = [templates EXCEPT ![n] = u]
      /\ UNCHANGED <<formVars, submits, net, made, plans, edits, faults>>
  BY <1>1 DEF Resolve
<1>3. /\ u \in Template /\ u.source = templates[n].source /\ u.destination = templates[n].destination
      /\ u.cluster = templates[n].cluster /\ u.useGPU = templates[n].useGPU /\ u.method = templates[n].method
  BY <1>2 DEF Template
<1> HIDE DEF u
<1>4. /\ templates' \in [1 .. MaxTemplates -> Template \cup {None}] /\ templates'[n] = u
      /\ \A q \in (1 .. MaxTemplates) \ {n} : templates'[q] = templates[q]
  BY <1>1, <1>2, <1>3
<1> QED BY <1>1, <1>2, <1>3, <1>4, Facts

LEMMA ResolveTypes ==
  ASSUME Types, NEW n \in DOMAIN templates, Resolve(n)
  PROVE  Types'
<1>1. UNCHANGED <<formVars, submits, net, made, plans, edits, faults>>
  BY ResolveIs
<1>2. ServerTypes'
  <2>1. made' = made /\ made \in Nat /\ templates' \in [1 .. MaxTemplates -> Template \cup {None}]
    BY <1>1, ResolveIs DEF Types, ServerTypes
  <2>2. \A q \in 1 .. MaxTemplates : templates'[q] # None => q <= made
    BY ResolveIs DEF Types, ServerTypes
  <2> QED BY <2>1, <2>2 DEF ServerTypes
<1> QED BY <1>1, <1>2 DEF Types, FormTypes, NetTypes, SubmitTypes, Room, Posting, RequestOK, formVars

LEMMA SameTypes ==
  ASSUME Types, UNCHANGED vars
  PROVE  Types'
BY DEF Types, FormTypes, ServerTypes, NetTypes, SubmitTypes, Room, Posting, RequestOK, vars, formVars

LEMMA TypesInit == Init => Types
<1> SUFFICES ASSUME Init PROVE Types
  OBVIOUS
<1>1. net = << >> /\ net \in Seq(Requests) /\ DOMAIN net = {}
  BY NoneSent DEF Init
<1>2. FormTypes
  BY Facts DEF Init, FormTypes, NoParams, NoCreds, NoTemplate
<1>3. ServerTypes
  BY Facts DEF Init, ServerTypes
<1>4. NetTypes
  BY <1>1 DEF NetTypes
<1>5. SubmitTypes
  BY Facts DEF Init, SubmitTypes, Idle, Pcs
<1>6. Room
  <2>1. Posting = {}
    BY <1>1 DEF Posting
  <2> QED BY <2>1, FS_EmptySet DEF Room, Init
<1> QED BY <1>2, <1>3, <1>4, <1>5, <1>6 DEF Types

LEMMA AnswerStays ==
  ASSUME Types, NEW i \in DOMAIN net, Answer(i)
  PROVE  Types'
<1> USE DEF Answer
<1>1. CASE CredsAnswer(i)
  BY <1>1, CredsTypes
<1>2. CASE PostAnswer(i)
  BY <1>2, PostTypes
<1>3. CASE PatchAnswer(i)
  BY <1>3, PatchTypes
<1>4. CASE PollAnswer(i)
  BY <1>4, PollTypesStep
<1>5. CASE DeleteAnswer(i)
  BY <1>5, DeleteTypes
<1>6. CASE NetworkAnswer(i) \/ StorageAnswer(i)
  BY <1>6, NetworkTypes
<1>7. CASE MappingAnswer(i)
  BY <1>7, MappingTypes
<1>8. CASE PlanAnswer(i)
  BY <1>8, PlanTypesStep
<1>9. CASE Rejected(i)
  BY <1>9, RejectedTypes
<1> QED BY <1>1, <1>2, <1>3, <1>4, <1>5, <1>6, <1>7, <1>8, <1>9

LEMMA TypesNext == Types /\ [Next]_vars => Types'
<1> SUFFICES ASSUME Types, [Next]_vars PROVE Types'
  OBVIOUS
<1>1. CASE OpenForm
  BY <1>1, OpenTypes
<1>2. ASSUME NEW s \in Sides, NEW c \in Clusters[s], ClusterChange(s, c) PROVE Types'
  BY <1>2, ChangeTypes
<1>3. CASE UseGPUChange
  BY <1>3, GPUTypes
<1>4. CASE PollTemplate
  BY <1>4, PollTypes
<1>5. CASE HandleClose
  BY <1>5, CloseTypes
<1>6. ASSUME NEW method \in Methods, NEW required \in BOOLEAN, HandleSubmit(method, required) PROVE Types'
  BY <1>6, SubmitTypesStep
<1>7. ASSUME NEW i \in DOMAIN net, Answer(i) PROVE Types'
  BY <1>7, AnswerStays
<1>8. ASSUME NEW n \in DOMAIN templates, Resolve(n) PROVE Types'
  BY <1>8, ResolveTypes
<1>9. CASE Finished \/ UNCHANGED vars
  BY <1>9, SameTypes DEF Finished
<1> QED BY <1>1, <1>2, <1>3, <1>4, <1>5, <1>6, <1>7, <1>8, <1>9 DEF Next

LEMMA TypesAreOK == Types => TypeOK
<1> SUFFICES ASSUME Types PROVE TypeOK
  OBVIOUS
<1>1. /\ made \in Nat /\ made <= MaxTemplates /\ MaxTemplates \in Nat
  BY RoomBounds, Facts DEF Types, ServerTypes
<1>2. /\ mounts \in 0..MaxMounts /\ mount \in {0, mounts}
      /\ template.name \in 0..made /\ template.ready \in BOOLEAN
      /\ edits \in 0..MaxEdits /\ faults \in 0..MaxFaults
      /\ params.useGPU \in BOOLEAN
  BY DEF Types, FormTypes
<1>3. \A s \in Sides : params[s] \in Clusters[s] \cup {None} /\ creds[s] \in Creds \cup {None}
  BY DEF Types, FormTypes, Sides, Sources, Targets
<1>4. \A n \in DOMAIN templates : templates[n] # None => templates[n] \in Template /\ n <= made
  BY DEF Types, ServerTypes
<1>5. \A i \in DOMAIN net : net[i].kind \in Kinds /\ net[i].mount \in 1..mounts
  <2> SUFFICES ASSUME NEW i \in DOMAIN net PROVE net[i].kind \in Kinds /\ net[i].mount \in 1..mounts
    OBVIOUS
  <2> QED BY AnswerTypes DEF Requests
<1>6. \A m \in Mounts, k \in SubmitKinds : submits[m].pc = k => InFlight(m, {k})
  BY DEF Types, SubmitTypes, InFlight
<1> QED BY <1>1, <1>2, <1>3, <1>4, <1>5, <1>6 DEF TypeOK

LEMMA TypesHold == Spec => []Types
<1>1. Init => Types
  BY TypesInit
<1>2. Types /\ [Next]_vars => Types'
  BY TypesNext
<1> QED BY <1>1, <1>2, PTL DEF Spec

(* The choices, the credentials, the requests under way, the runs of        *)
(* handleSubmit and the templates on the server keep their shape through    *)
(* every order of answers, rejections and mounts: a submit that runs waits  *)
(* for a request of its own, and the names the server gives stay in bounds. *)
THEOREM FormTypesHold == Spec => []TypeOK
BY TypesHold, TypesAreOK, PTL

-----------------------------------------------------------------------------
(* Whose a template is: the mount that has its name, that asked for it, or  *)
(* that made a plan of it.                                                  *)
Owns(m, n) ==
  \/ mount = m /\ template.name = n
  \/ \E k \in DOMAIN net : net[k].mount = m /\ net[k].name = n
  \/ \E p \in plans : p.mount = m /\ p.name = n

PlanTypes == \A p \in plans : p.mount \in 1 .. mounts /\ p.name \in 0 .. made
OneOwner == \A n \in 1 .. made, a, b \in Mounts : Owns(a, n) /\ Owns(b, n) => a = b
(* Only a drawer that is closed has asked for a deletion.                   *)
DeletesClosed == \A k \in DOMAIN net : net[k].kind = "delete" => net[k].mount # mount
(* The templates of the drawer that is open are there.                      *)
Mine == \A m \in Mounts, n \in 1 .. made : m = mount /\ Owns(m, n) => templates[n] # None
Names == PlanTypes /\ OneOwner /\ DeletesClosed /\ Mine

(* The names a step hands on: those owned before, and a new one.            *)
Comes(m, n) == n = 0 \/ Owns(m, n) \/ (n > made /\ m = mount)
Handed(e) == \A x \in DOMAIN e : Comes(e[x].mount, e[x].name)
PlanComes(p) ==
  /\ p.mount \in 1 .. mounts /\ p.name \in 0 .. made
  /\ p \in plans \/ p.name = 0 \/ Owns(p.mount, p.name)

LEMMA OwnersCome ==
  ASSUME Types, NEW i \in {0} \cup DOMAIN net, NEW e, Flow(i, e), Handed(e),
         mount' = 0 \/ Comes(mount', template'.name),
         \A p \in plans' : PlanComes(p),
         NEW m \in Mounts, NEW n \in Nat, n # 0, Owns(m, n)'
  PROVE  Comes(m, n)
<1>1. m # 0
  BY DEF Mounts
<1>2. CASE mount' = m /\ template'.name = n
  BY <1>1, <1>2
<1>3. ASSUME NEW k \in DOMAIN net', net'[k].mount = m, net'[k].name = n
      PROVE  Comes(m, n)
  <2>1. CASE \E j \in DOMAIN net \ {i} : k = New(i, j) /\ net'[k] = net[j]
    <3>1. PICK j \in DOMAIN net \ {i} : net'[k] = net[j]
      BY <2>1
    <3>2. j \in DOMAIN net /\ net[j].mount = m /\ net[j].name = n
      BY <1>3, <3>1
    <3> HIDE <1>3, <2>1, <3>1
    <3>3. Owns(m, n)
      BY <3>2 DEF Owns
    <3> QED BY <3>3 DEF Comes
  <2>2. CASE \E x \in DOMAIN e : k = Rest(i) + x /\ net'[k] = e[x]
    BY <1>3, <2>2 DEF Handed
  <2> QED BY <2>1, <2>2 DEF Flow
<1>4. ASSUME NEW p \in plans', p.mount = m, p.name = n
      PROVE  Comes(m, n)
  <2>1. p \in plans \/ p.name = 0 \/ Owns(p.mount, p.name)
    BY DEF PlanComes
  <2>2. CASE p \in plans
    <3>1. Owns(m, n)
      BY <1>4, <2>2 DEF Owns
    <3> QED BY <3>1 DEF Comes
  <2>3. CASE p.name = 0 \/ Owns(p.mount, p.name)
    BY <1>4, <2>3 DEF Comes
  <2> QED BY <2>1, <2>2, <2>3
<1> QED BY <1>2, <1>3, <1>4 DEF Owns

(* Nobody owns a template that is not made yet, or that the mounts to come. *)
LEMMA OwnedIsMade ==
  ASSUME Types, PlanTypes, NEW m \in Mounts, NEW n \in Nat, n # 0, Owns(m, n)
  PROVE  n <= made /\ m <= mounts
<1>1. made \in Nat /\ mounts \in Nat /\ mount \in {0, mounts} /\ template.name \in 0 .. made /\ m # 0
  BY Facts DEF Types, FormTypes, ServerTypes, Mounts
<1>2. CASE mount = m /\ template.name = n
  BY <1>1, <1>2
<1>3. ASSUME NEW k \in DOMAIN net, net[k].mount = m, net[k].name = n
      PROVE  n <= made /\ m <= mounts
  BY <1>1, <1>3, AnswerTypes
<1>4. ASSUME NEW p \in plans, p.mount = m, p.name = n
      PROVE  n <= made /\ m <= mounts
  BY <1>1, <1>4 DEF PlanTypes
<1> QED BY <1>2, <1>3, <1>4 DEF Owns

LEMMA NamesFlow ==
  ASSUME Types, Types', Names, NEW i \in {0} \cup DOMAIN net, NEW e, Flow(i, e), Handed(e),
         \A x \in DOMAIN e : e[x].kind = "delete" => mount' = 0,
         mounts' = mounts, mount' \in {mount, 0},
         mount' = 0 \/ Comes(mount', template'.name),
         \A p \in plans' : PlanComes(p),
         made' = made \/ (made' = made + 1 /\ templates'[made + 1] # None),
         \A m \in Mounts, n \in 1 .. made : m = mount' /\ Owns(m, n) => templates'[n] # None
  PROVE  Names'
<1>1. made \in Nat /\ made' \in Nat /\ made <= made' /\ mounts \in 0 .. MaxMounts /\ MaxMounts \in Nat
      /\ mount \in {0, mounts}
  <2>1. made \in Nat
    BY DEF Types, ServerTypes
  <2>2. made' = made \/ made' = made + 1
    OBVIOUS
  <2>3. mounts \in 0 .. MaxMounts /\ mount \in {0, mounts}
    BY DEF Types, FormTypes
  <2> QED BY <2>1, <2>2, <2>3, Facts
<1>2. \A m \in Mounts, n \in Nat : n # 0 /\ Owns(m, n)' => Comes(m, n)
  BY OwnersCome
<1>3. \A m \in Mounts, n \in Nat : n # 0 /\ Owns(m, n) => n <= made
  BY OwnedIsMade DEF Names
<1>4. PlanTypes'
  BY <1>1 DEF PlanTypes, PlanComes
<1>5. OneOwner'
  <2> SUFFICES ASSUME NEW n \in 1 .. made', NEW a \in Mounts, NEW b \in Mounts, Owns(a, n)', Owns(b, n)'
               PROVE  a = b
    BY DEF OneOwner
  <2>1. n \in Nat /\ n # 0
    BY <1>1
  <2>2. Comes(a, n) /\ Comes(b, n)
    BY <1>2, <2>1
  <2>3. CASE n <= made
    <3>1. n \in 1 .. made
      BY <1>1, <2>1, <2>3
    <3>2. Owns(a, n) /\ Owns(b, n)
      BY <1>1, <2>1, <2>2, <2>3 DEF Comes
    <3> QED BY <3>1, <3>2 DEF Names, OneOwner
  <2>4. CASE ~ n <= made
    BY <1>3, <2>1, <2>2, <2>4 DEF Comes
  <2> QED BY <2>3, <2>4
<1>6. DeletesClosed'
  <2> SUFFICES ASSUME NEW k \in DOMAIN net', net'[k].kind = "delete" PROVE net'[k].mount # mount'
    BY DEF DeletesClosed
  <2>1. net'[k].mount # 0
    BY DEF Types, NetTypes, RequestOK
  <2>2. CASE mount' = 0
    BY <2>1, <2>2
  <2>3. CASE mount' = mount /\ mount' # 0
    <3>1. PICK j \in DOMAIN net \ {i} : net'[k] = net[j]
      BY <2>3 DEF Flow
    <3> QED BY <2>3, <3>1 DEF Names, DeletesClosed
  <2> QED BY <2>2, <2>3
<1>7. Mine'
  <2> SUFFICES ASSUME NEW m \in Mounts, NEW n \in 1 .. made', m = mount', Owns(m, n)'
               PROVE  templates'[n] # None
    BY DEF Mine
  <2>1. mount' = mount /\ m # 0 /\ n \in Nat /\ n # 0
    BY <1>1 DEF Mounts
  <2>2. Comes(m, n)
    BY <1>2, <2>1
  <2>3. CASE n <= made
    <3>1. n \in 1 .. made /\ Owns(m, n)
      BY <1>1, <2>1, <2>2, <2>3 DEF Comes
    <3> QED BY <3>1
  <2>4. CASE ~ n <= made
    BY <1>1, <2>4
  <2> QED BY <2>3, <2>4
<1> QED BY <1>4, <1>5, <1>6, <1>7 DEF Names

LEMMA NumberFacts ==
  ASSUME Types
  PROVE  /\ made \in Nat /\ mounts \in 0 .. MaxMounts /\ MaxMounts \in Nat /\ mount \in {0, mounts}
         /\ template.name \in 0 .. made /\ (mount # 0 => mount \in Mounts)
         /\ template.name = 0 \/ Owns(mount, template.name)
         /\ Comes(mount, template.name) /\ mount \in Nat /\ template.name \in Nat
BY Facts DEF Types, FormTypes, ServerTypes, Mounts, Owns, Comes

LEMMA PlansCome ==
  ASSUME Types, Names, plans' = plans
  PROVE  \A p \in plans' : PlanComes(p)
BY DEF Names, PlanTypes, PlanComes

LEMMA TemplatesStay ==
  ASSUME Types, Names, mount' \in {mount, 0},
         \A n \in 1 .. made : templates[n] # None => templates'[n] # None
  PROVE  \A m \in Mounts, n \in 1 .. made : m = mount' /\ Owns(m, n) => templates'[n] # None
BY DEF Names, Mine, Mounts

LEMMA SyncedHanded ==
  ASSUME Types, NEW pa, NEW cr, NEW n, NEW r, r = Synced(pa, cr, n), Comes(mount, n)
  PROVE  Comes(r.mount, r.name) /\ r.kind # "delete"
BY DEF Synced, Request

LEMMA ContinuedHanded ==
  ASSUME Types, NEW i \in DOMAIN net, NEW r, r.mount = net[i].mount, r.name = net[i].name
  PROVE  Comes(r.mount, r.name)
BY DEF Comes, Owns

LEMMA OpenNames ==
  ASSUME Types, Types', Names, OpenForm
  PROVE  Names'
<1>1. /\ mount = 0 /\ mount' = mounts + 1 /\ mounts' = mounts + 1 /\ template'.name = 0
      /\ UNCHANGED <<net, templates, made, plans>>
  BY DEF OpenForm, NoTemplate
<1>2. made \in Nat /\ mounts \in Nat
  BY NumberFacts
<1>3. ASSUME NEW m \in Mounts, NEW n \in 1 .. made, Owns(m, n)'
      PROVE  Owns(m, n) /\ m # mount'
  <2>1. Owns(m, n)
    BY <1>1, <1>3 DEF Owns
  <2>2. m <= mounts
    BY <1>2, <1>3, <2>1, OwnedIsMade DEF Names
  <2> QED BY <1>1, <1>2, <2>1, <2>2
<1>4. PlanTypes'
  BY <1>1, <1>2 DEF Names, PlanTypes
<1>5. OneOwner'
  BY <1>1, <1>3 DEF Names, OneOwner
<1>6. DeletesClosed'
  <2> SUFFICES ASSUME NEW k \in DOMAIN net PROVE net[k].mount # mount'
    BY <1>1 DEF DeletesClosed
  <2> QED BY <1>1, <1>2, AnswerTypes
<1>7. Mine'
  BY <1>1, <1>3 DEF Mine
<1> QED BY <1>4, <1>5, <1>6, <1>7 DEF Names

LEMMA ChangeNames ==
  ASSUME Types, Types', Names, NEW s \in Sides, NEW c \in Clusters[s], ClusterChange(s, c)
  PROVE  Names'
<1>1. UNCHANGED <<mount, mounts, templates, made, plans>>
  BY DEF ClusterChange
<1>2. PICK e : /\ Flow(0, e) /\ DOMAIN e \subseteq {1, 2}
               /\ 1 \in DOMAIN e /\ e[1] = ReadOf(s, c)
               /\ 2 \in DOMAIN e => e[2] = Synced(params', creds, template.name) /\ Validated(creds)
  BY ChangeFlow
<1>3. ASSUME NEW x \in DOMAIN e PROVE Comes(e[x].mount, e[x].name) /\ e[x].kind # "delete"
  <2>1. CASE x = 1
    BY <1>2, <2>1 DEF ReadOf, Comes
  <2>2. CASE x = 2
    BY <1>2, <2>2, NumberFacts, SyncedHanded
  <2> QED BY <1>2, <2>1, <2>2
<1>4. Comes(mount', template'.name)
  <2>1. template' = ResetTemplate(creds, creds', template)
    BY DEF ClusterChange
  <2>2. template'.name = template.name \/ template'.name = 0
    BY <2>1 DEF ResetTemplate, NoTemplate
  <2> QED BY <1>1, <2>2, NumberFacts DEF Comes
<1>5. \A m \in Mounts, n \in 1 .. made : m = mount' /\ Owns(m, n) => templates'[n] # None
  BY <1>1, TemplatesStay
<1>6. \A p \in plans' : PlanComes(p)
  BY <1>1, PlansCome
<1> QED BY <1>1, <1>2, <1>3, <1>4, <1>5, <1>6, NamesFlow DEF Handed

LEMMA GPUNames ==
  ASSUME Types, Types', Names, UseGPUChange
  PROVE  Names'
<1>1. UNCHANGED <<mount, mounts, template, templates, made, plans>>
  BY DEF UseGPUChange
<1>2. PICK e : /\ Flow(0, e)
               /\ \A x \in DOMAIN e : e[x] = Synced(params', creds, template.name) /\ Validated(creds)
  BY GPUFlow
<1>3. \A x \in DOMAIN e : Comes(e[x].mount, e[x].name) /\ e[x].kind # "delete"
  BY <1>2, NumberFacts, SyncedHanded
<1>4. Comes(mount', template'.name)
  BY <1>1, NumberFacts
<1>5. \A m \in Mounts, n \in 1 .. made : m = mount' /\ Owns(m, n) => templates'[n] # None
  BY <1>1, TemplatesStay
<1>6. \A p \in plans' : PlanComes(p)
  BY <1>1, PlansCome
<1> QED BY <1>1, <1>2, <1>3, <1>4, <1>5, <1>6, NamesFlow DEF Handed

(* Nothing happens to the form or the server, and r is sent.                *)
LEMMA SendNames ==
  ASSUME Types, Types', Names, NEW r \in Requests, Flow(0, <<r>>), r.mount = mount, r.name = template.name,
         UNCHANGED <<mounts, templates, made, plans>>,
         \/ Unmount
         \/ UNCHANGED formVars /\ r.kind # "delete"
  PROVE  Names'
<1>1. \A x \in DOMAIN <<r>> : <<r>>[x] = r
  BY OneSent
<1>2. Handed(<<r>>)
  BY <1>1, NumberFacts DEF Handed
<1>3. /\ \A x \in DOMAIN <<r>> : <<r>>[x].kind = "delete" => mount' = 0
      /\ mount' \in {mount, 0}
      /\ mount' = 0 \/ Comes(mount', template'.name)
  BY <1>1, NumberFacts DEF Unmount, formVars
<1>4. \A m \in Mounts, n \in 1 .. made : m = mount' /\ Owns(m, n) => templates'[n] # None
  BY <1>3, TemplatesStay
<1>5. \A p \in plans' : PlanComes(p)
  BY PlansCome
<1> QED BY <1>2, <1>3, <1>4, <1>5, NamesFlow

(* No request is sent.                                                      *)
LEMMA DropNames ==
  ASSUME Types, Types', Names, NEW i \in {0} \cup DOMAIN net, Flow(i, << >>),
         UNCHANGED <<mounts, made>>, Unmount \/ UNCHANGED formVars,
         \A p \in plans' : PlanComes(p),
         \A m \in Mounts, n \in 1 .. made : m = mount' /\ Owns(m, n) => templates'[n] # None
  PROVE  Names'
<1>1. Handed(<< >>) /\ DOMAIN << >> = {}
  BY NoneSent DEF Handed
<1>2. mount' \in {mount, 0} /\ (mount' = 0 \/ Comes(mount', template'.name))
  BY NumberFacts DEF Unmount, formVars
<1> QED BY <1>1, <1>2, NamesFlow

LEMMA CloseNames ==
  ASSUME Types, Types', Names, HandleClose
  PROVE  Names'
<1>1. UNCHANGED <<mounts, templates, made, plans>> /\ Unmount /\ mount' = 0
  BY DEF HandleClose, Unmount
<1>2. CASE template.name = 0
  <2>1. \A m \in Mounts, n \in 1 .. made : m = mount' /\ Owns(m, n) => templates'[n] # None
    BY <1>1, TemplatesStay
  <2> QED BY <1>1, <1>2, <2>1, CloseFlow, PlansCome, DropNames
<1>3. CASE template.name # 0
  <2> DEFINE r == RequestOf("delete", template.name)
  <2>1. Flow(0, <<r>>) /\ r \in Requests
    BY <1>3, CloseFlow
  <2>2. r.mount = mount /\ r.name = template.name
    BY DEF RequestOf
  <2> HIDE DEF r
  <2> QED BY <1>1, <2>1, <2>2, SendNames
<1> QED BY <1>2, <1>3

LEMMA PollNames ==
  ASSUME Types, Types', Names, PollTemplate
  PROVE  Names'
<1> DEFINE r == RequestOf("poll", template.name)
<1>1. Flow(0, <<r>>) /\ r \in Requests
  BY PollFlow
<1>2. r.mount = mount /\ r.name = template.name /\ r.kind = "poll"
  BY DEF RequestOf
<1>3. UNCHANGED formVars /\ UNCHANGED <<mounts, templates, made, plans>>
  BY DEF PollTemplate, formVars
<1> HIDE DEF r
<1> QED BY <1>1, <1>2, <1>3, SendNames

LEMMA SubmitNames ==
  ASSUME Types, Types', Names, NEW method \in Methods, NEW required \in BOOLEAN,
         HandleSubmit(method, required)
  PROVE  Names'
<1> DEFINE r == RequestOf(FirstKind(method, required), template.name)
<1>1. Flow(0, <<r>>) /\ r \in Requests /\ r.kind \in {"network", "storage", "array"}
  BY SubmitFlow
<1>2. r.mount = mount /\ r.name = template.name
  BY DEF RequestOf
<1>3. UNCHANGED formVars /\ UNCHANGED <<mounts, templates, made, plans>>
  BY DEF HandleSubmit, formVars
<1> HIDE DEF r
<1> QED BY <1>1, <1>2, <1>3, SendNames

LEMMA CredsNames ==
  ASSUME Types, Types', Names, NEW i \in DOMAIN net, CredsAnswer(i)
  PROVE  Names'
<1>1. UNCHANGED <<mount, mounts, params, templates, made, plans>>
  BY DEF CredsAnswer
<1>2. \A m \in Mounts, n \in 1 .. made : m = mount' /\ Owns(m, n) => templates'[n] # None
  BY <1>1, TemplatesStay
<1>3. \A p \in plans' : PlanComes(p)
  BY <1>1, PlansCome
<1>4. CASE net[i].mount # mount
  <2>1. Flow(i, << >>) /\ UNCHANGED <<creds, template>>
    BY <1>4, CredsFlow
  <2>2. UNCHANGED formVars
    BY <1>1, <2>1 DEF formVars
  <2> QED BY <1>1, <1>2, <1>3, <2>1, <2>2, DropNames
<1>5. CASE net[i].mount = mount
  <2>1. PICK e : /\ Flow(i, e)
                 /\ \A x \in DOMAIN e : e[x] = Synced(params, creds', template.name) /\ Validated(creds')
    BY <1>5, CredsFlow
  <2>2. \A x \in DOMAIN e : Comes(e[x].mount, e[x].name) /\ e[x].kind # "delete"
    BY <2>1, NumberFacts, SyncedHanded
  <2>3. template' = ResetTemplate(creds, creds', template)
    BY <1>5, CredsFlow
  <2>4. template'.name = template.name \/ template'.name = 0
    BY <2>3 DEF ResetTemplate, NoTemplate
  <2>5. Comes(mount', template'.name)
    BY <1>1, <2>4, NumberFacts DEF Comes
  <2> QED BY <1>1, <1>2, <1>3, <2>1, <2>2, <2>5, NamesFlow DEF Handed
<1> QED BY <1>4, <1>5

LEMMA ArrivesNames ==
  ASSUME Types, Types', Names, NEW i \in DOMAIN net, NEW n \in Nat, TemplateArrives(i, n),
         UNCHANGED <<mount, mounts, params, creds, plans>>,
         n = net[i].name \/ n > made,
         made' = made \/ (made' = made + 1 /\ templates'[made + 1] # None),
         \A q \in 1 .. made : templates[q] # None => templates'[q] # None
  PROVE  Names'
<1>1. \A m \in Mounts, q \in 1 .. made : m = mount' /\ Owns(m, q) => templates'[q] # None
  BY TemplatesStay
<1>2. \A p \in plans' : PlanComes(p)
  BY PlansCome
<1>3. PICK e : /\ Flow(i, e)
               /\ \A x \in DOMAIN e : Comes(e[x].mount, e[x].name) /\ e[x].kind # "delete"
  <2>1. CASE net[i].mount # mount
    BY <2>1, ArrivesFlow, NoneSent
  <2>2. CASE net[i].mount = mount
    <3>1. PICK e : /\ Flow(i, e) /\ \A x \in DOMAIN e : e[x] = Synced(params, creds, n)
      BY <2>2, ArrivesFlow
    <3>2. Comes(mount, n)
      BY <2>2 DEF Comes, Owns
    <3> QED BY <3>1, <3>2, SyncedHanded
  <2> QED BY <2>1, <2>2
<1>4. Comes(mount', template'.name)
  <2>1. CASE net[i].mount # mount
    BY <2>1, ArrivesFlow, NumberFacts
  <2>2. CASE net[i].mount = mount
    <3>1. template'.name = n
      BY <2>2, ArrivesFlow
    <3> QED BY <2>2, <3>1 DEF Comes, Owns
  <2> QED BY <2>1, <2>2
<1> QED BY <1>1, <1>2, <1>3, <1>4, NamesFlow DEF Handed

(* The template deleted is not that of the open drawer.                     *)
LEMMA DeleteNames ==
  ASSUME Types, Types', Names, NEW i \in DOMAIN net, DeleteAnswer(i)
  PROVE  Names'
<1> DEFINE d == net[i].name
<1>1. /\ net' = Without(i) /\ d \in 1 .. made /\ net[i].kind = "delete"
      /\ \A q \in (1 .. MaxTemplates) \ {d} : templates'[q] = templates[q]
      /\ UNCHANGED <<formVars, submits, made, plans, edits, faults>>
  BY DeleteIs
<1>2. net[i].mount \in Mounts /\ Owns(net[i].mount, d) /\ net[i].mount # mount
  BY <1>1, AnswerTypes DEF Owns, Names, DeletesClosed
<1>3. made \in Nat /\ made <= MaxTemplates /\ MaxTemplates \in Nat
  BY RoomBounds, Facts DEF Types, ServerTypes
<1>4. UNCHANGED formVars /\ mount' = mount
  BY <1>1 DEF formVars
<1> HIDE DEF d
<1>5. \A m \in Mounts, n \in 1 .. made : m = mount' /\ Owns(m, n) => templates'[n] # None
  <2> SUFFICES ASSUME NEW m \in Mounts, NEW n \in 1 .. made, m = mount, Owns(m, n)
               PROVE  templates'[n] # None
    BY <1>4
  <2>1. n # d
    BY <1>1, <1>2 DEF Names, OneOwner
  <2>2. n \in (1 .. MaxTemplates) \ {d}
    BY <1>3, <2>1
  <2>3. templates[n] # None
    BY DEF Names, Mine
  <2> QED BY <1>1, <2>2, <2>3
<1>6. Flow(i, << >>)
  BY <1>1, AnswersOnly, AnswerTypes
<1>7. \A p \in plans' : PlanComes(p)
  BY <1>1, PlansCome
<1>8. mounts' = mounts /\ made' = made
  BY <1>1 DEF formVars
<1> QED BY <1>4, <1>5, <1>6, <1>7, <1>8, DropNames

LEMMA PostNames ==
  ASSUME Types, Types', Names, NEW i \in DOMAIN net, PostAnswer(i)
  PROVE  Names'
<1>1. /\ TemplateArrives(i, NewName) /\ UNCHANGED <<mount, mounts, params, creds, plans>>
      /\ made' = made + 1 /\ NewName = made + 1 /\ made \in Nat /\ NewName \in 1 .. MaxTemplates
      /\ \A n \in (1 .. MaxTemplates) \ {NewName} : templates'[n] = templates[n]
      /\ templates'[NewName] # None
  BY PostIs
<1>2. MaxTemplates \in Nat
  BY Facts
<1>3. \A q \in 1 .. made : templates[q] # None => templates'[q] # None
  <2> SUFFICES ASSUME NEW q \in 1 .. made, templates[q] # None PROVE templates'[q] # None
    OBVIOUS
  <2>1. q \in (1 .. MaxTemplates) \ {NewName}
    BY <1>1, <1>2
  <2> QED BY <1>1, <2>1
<1>4. NewName \in Nat /\ NewName > made /\ templates'[made + 1] # None
  BY <1>1
<1> QED BY <1>1, <1>3, <1>4, ArrivesNames

LEMMA PatchNames ==
  ASSUME Types, Types', Names, NEW i \in DOMAIN net, PatchAnswer(i) \/ PollAnswer(i)
  PROVE  Names'
<1>1. /\ TemplateArrives(i, net[i].name) /\ UNCHANGED <<mount, mounts, params, creds, made, plans>>
      /\ net[i].name \in Nat
  BY AnswerTypes DEF PatchAnswer, PollAnswer, Requests
<1>2. made \in Nat /\ made <= MaxTemplates /\ MaxTemplates \in Nat
  BY RoomBounds, Facts DEF Types, ServerTypes
<1>3. \A q \in 1 .. made : templates[q] # None => templates'[q] # None
  <2>1. CASE PollAnswer(i)
    BY <2>1 DEF PollAnswer
  <2>2. CASE PatchAnswer(i)
    <3> SUFFICES ASSUME NEW q \in 1 .. made, templates[q] # None PROVE templates'[q] # None
      OBVIOUS
    <3>1. q \in 1 .. MaxTemplates
      BY <1>2
    <3>2. templates'[net[i].name] # None /\ \A n \in (1 .. MaxTemplates) \ {net[i].name} : templates'[n] = templates[n]
      BY <2>2, PatchIs
    <3>3. CASE q = net[i].name
      BY <3>2, <3>3
    <3>4. CASE q # net[i].name
      BY <3>1, <3>2, <3>4
    <3> QED BY <3>3, <3>4
  <2> QED BY <2>1, <2>2
<1> QED BY <1>1, <1>3, ArrivesNames

LEMMA ContinueNames ==
  ASSUME Types, Types', Names, NEW i \in DOMAIN net, NEW k \in SubmitKinds, Continue(i, k),
         UNCHANGED <<formVars, made, plans>>,
         \A q \in 1 .. made : templates[q] # None => templates'[q] # None
  PROVE  Names'
<1> DEFINE r == [net[i] EXCEPT !.kind = k]
<1>1. /\ Flow(i, <<r>>) /\ r \in Requests
      /\ r = [kind |-> k, name |-> net[i].name, arg |-> net[i].arg, mount |-> net[i].mount]
  BY ContinueFlow
<1>2. r.mount = net[i].mount /\ r.name = net[i].name /\ r.kind = k
  BY <1>1
<1> HIDE DEF r
<1>3. Comes(r.mount, r.name) /\ r.kind # "delete"
  BY <1>2, ContinuedHanded, KindFacts
<1>4. \A x \in DOMAIN <<r>> : <<r>>[x] = r
  BY <1>1, OneSent
<1>5. Handed(<<r>>) /\ \A x \in DOMAIN <<r>> : <<r>>[x].kind # "delete"
  BY <1>3, <1>4 DEF Handed
<1>6. mount' = mount /\ mounts' = mounts /\ template' = template /\ made' = made
  BY DEF formVars
<1>7. \A m \in Mounts, n \in 1 .. made : m = mount' /\ Owns(m, n) => templates'[n] # None
  BY <1>6, TemplatesStay
<1>8. \A p \in plans' : PlanComes(p)
  BY PlansCome
<1>9. Comes(mount', template'.name)
  BY <1>6, NumberFacts
<1> QED BY <1>1, <1>5, <1>6, <1>7, <1>8, <1>9, NamesFlow

(* A plan is made of the template the submit captured.                      *)
LEMMA PlanIs ==
  ASSUME Types, NEW i \in DOMAIN net, PlanAnswer(i)
  PROVE  /\ net[i].kind = "plan" /\ net[i].kind \in SubmitKinds /\ net' = Without(i)
         /\ UNCHANGED <<mounts, templates, made, edits, faults>>
         /\ Unmount \/ (UNCHANGED formVars /\ mount = 0)
         /\ \E p : /\ plans' = plans \cup {p}
                   /\ p.mount = net[i].mount /\ p.name = net[i].name /\ p.want = submits[net[i].mount].want
                   /\ Found(p.name) =>
                        p.seen = [source |-> templates[p.name].source,
                                  destination |-> templates[p.name].destination,
                                  cluster |-> templates[p.name].cluster,
                                  useGPU |-> templates[p.name].useGPU,
                                  method |-> templates[p.name].method]
<1> DEFINE n == net[i].name
           p == [mount |-> net[i].mount, name |-> n, want |-> submits[net[i].mount].want,
                 seen |-> IF Found(n)
                            THEN [source |-> templates[n].source,
                                  destination |-> templates[n].destination,
                                  cluster |-> templates[n].cluster,
                                  useGPU |-> templates[n].useGPU,
                                  method |-> templates[n].method]
                            ELSE None]
<1>1. /\ net[i].kind = "plan" /\ net' = Without(i) /\ plans' = plans \cup {p}
      /\ UNCHANGED <<templates, made, edits, faults>> /\ OnClose
  BY DEF PlanAnswer, AfterSubmit
<1>2. UNCHANGED mounts /\ (Unmount \/ (UNCHANGED formVars /\ mount = 0))
  BY <1>1 DEF OnClose, formVars
<1>3. /\ p.mount = net[i].mount /\ p.name = n /\ p.want = submits[net[i].mount].want
      /\ Found(p.name) => p.seen = [source |-> templates[p.name].source,
                                    destination |-> templates[p.name].destination,
                                    cluster |-> templates[p.name].cluster,
                                    useGPU |-> templates[p.name].useGPU,
                                    method |-> templates[p.name].method]
  OBVIOUS
<1> HIDE DEF p
<1> QED BY <1>1, <1>2, <1>3, KindFacts

LEMMA PlanNames ==
  ASSUME Types, Types', Names, NEW i \in DOMAIN net, PlanAnswer(i)
  PROVE  Names'
<1>1. PICK p : plans' = plans \cup {p} /\ p.mount = net[i].mount /\ p.name = net[i].name
  BY PlanIs
<1>2. /\ net' = Without(i) /\ UNCHANGED <<mounts, templates, made>>
      /\ Unmount \/ UNCHANGED formVars
      /\ mount' \in {mount, 0}
  <2>1. /\ net' = Without(i) /\ UNCHANGED <<mounts, templates, made>>
        /\ Unmount \/ (UNCHANGED formVars /\ mount = 0)
    BY PlanIs
  <2> QED BY <2>1 DEF Unmount, formVars
<1>3. \A q \in plans' : PlanComes(q)
  <2> SUFFICES ASSUME NEW q \in plans' PROVE PlanComes(q)
    OBVIOUS
  <2>1. CASE q \in plans
    BY <2>1 DEF PlanComes, Names, PlanTypes
  <2>2. CASE q = p
    BY <1>1, <2>2, AnswerTypes DEF PlanComes, Owns
  <2> QED BY <1>1, <2>1, <2>2
<1>4. \A m \in Mounts, n \in 1 .. made : m = mount' /\ Owns(m, n) => templates'[n] # None
  BY <1>2, TemplatesStay
<1>5. Flow(i, << >>)
  BY <1>2, AnswersOnly, AnswerTypes
<1> QED BY <1>2, <1>3, <1>4, <1>5, DropNames

LEMMA RejectedNames ==
  ASSUME Types, Types', Names, NEW i \in DOMAIN net, Rejected(i)
  PROVE  Names'
<1>1. /\ net' = Without(i) /\ UNCHANGED <<mounts, templates, made, plans>>
      /\ Unmount \/ UNCHANGED formVars
  BY RejectedIs
<1>2. mount' \in {mount, 0}
  BY <1>1 DEF Unmount, formVars
<1>3. \A m \in Mounts, n \in 1 .. made : m = mount' /\ Owns(m, n) => templates'[n] # None
  BY <1>1, <1>2, TemplatesStay
<1>4. Flow(i, << >>) /\ \A p \in plans' : PlanComes(p)
  BY <1>1, AnswersOnly, AnswerTypes, PlansCome
<1> QED BY <1>1, <1>3, <1>4, DropNames

LEMMA ResolveNames ==
  ASSUME Types, Types', Names, NEW n \in DOMAIN templates, Resolve(n)
  PROVE  Names'
<1>1. UNCHANGED <<formVars, net, made, plans>> /\ mount' = mount /\ mounts' = mounts
  BY ResolveIs DEF formVars
<1>2. made \in Nat /\ made <= MaxTemplates /\ MaxTemplates \in Nat
  BY RoomBounds, Facts DEF Types, ServerTypes
<1>3. \A q \in 1 .. made : templates[q] # None => templates'[q] # None
  BY <1>2, ResolveIs
<1>4. \A m \in Mounts, q \in 1 .. made : m = mount' /\ Owns(m, q) => templates'[q] # None
  BY <1>1, <1>3, TemplatesStay
<1>5. Flow(0, << >>) /\ \A p \in plans' : PlanComes(p)
  BY <1>1, SendsNone, PlansCome DEF Types, NetTypes
<1> QED BY <1>1, <1>4, <1>5, DropNames

LEMMA AnswerNames ==
  ASSUME Types, Types', Names, NEW i \in DOMAIN net, Answer(i)
  PROVE  Names'
<1> USE DEF Answer
<1>1. CASE CredsAnswer(i)
  BY <1>1, CredsNames
<1>2. CASE PostAnswer(i)
  BY <1>2, PostNames
<1>3. CASE PatchAnswer(i) \/ PollAnswer(i)
  BY <1>3, PatchNames
<1>4. CASE DeleteAnswer(i)
  BY <1>4, DeleteNames
<1>5. CASE NetworkAnswer(i) \/ StorageAnswer(i)
  <2>1. PICK k \in {"storage", "array", "mapping"} : Continue(i, k)
    BY <1>5, NetworkTypes
  <2>2. UNCHANGED <<formVars, templates, made, plans>> /\ k \in SubmitKinds
    BY <1>5, NetworkTypes, KindFacts
  <2> QED BY <2>1, <2>2, ContinueNames
<1>6. CASE MappingAnswer(i)
  <2>1. Continue(i, "plan") /\ UNCHANGED <<formVars, made, plans>> /\ "plan" \in SubmitKinds
    BY <1>6, MappingIs, KindFacts
  <2>2. made \in Nat /\ made <= MaxTemplates /\ MaxTemplates \in Nat
    BY RoomBounds, Facts DEF Types, ServerTypes
  <2>3. \A q \in 1 .. made : templates[q] # None => templates'[q] # None
    <3> SUFFICES ASSUME NEW q \in 1 .. made, templates[q] # None PROVE templates'[q] # None
      OBVIOUS
    <3>1. q \in 1 .. MaxTemplates
      BY <2>2
    <3>2. templates'[net[i].name] # None /\ \A n \in (1 .. MaxTemplates) \ {net[i].name} : templates'[n] = templates[n]
      BY <1>6, MappingIs
    <3>3. CASE q = net[i].name
      BY <3>2, <3>3
    <3>4. CASE q # net[i].name
      BY <3>1, <3>2, <3>4
    <3> QED BY <3>3, <3>4
  <2> QED BY <2>1, <2>3, ContinueNames
<1>7. CASE PlanAnswer(i)
  BY <1>7, PlanNames
<1>8. CASE Rejected(i)
  BY <1>8, RejectedNames
<1> QED BY <1>1, <1>2, <1>3, <1>4, <1>5, <1>6, <1>7, <1>8

LEMMA NamesNext == Types /\ Types' /\ Names /\ [Next]_vars => Names'
<1> SUFFICES ASSUME Types, Types', Names, [Next]_vars PROVE Names'
  OBVIOUS
<1>1. CASE OpenForm
  BY <1>1, OpenNames
<1>2. ASSUME NEW s \in Sides, NEW c \in Clusters[s], ClusterChange(s, c) PROVE Names'
  BY <1>2, ChangeNames
<1>3. CASE UseGPUChange
  BY <1>3, GPUNames
<1>4. CASE PollTemplate
  BY <1>4, PollNames
<1>5. CASE HandleClose
  BY <1>5, CloseNames
<1>6. ASSUME NEW method \in Methods, NEW required \in BOOLEAN, HandleSubmit(method, required) PROVE Names'
  BY <1>6, SubmitNames
<1>7. ASSUME NEW i \in DOMAIN net, Answer(i) PROVE Names'
  BY <1>7, AnswerNames
<1>8. ASSUME NEW n \in DOMAIN templates, Resolve(n) PROVE Names'
  BY <1>8, ResolveNames
<1>9. CASE Finished \/ UNCHANGED vars
  BY <1>9 DEF Finished, vars, formVars, Names, PlanTypes, OneOwner, Owns, DeletesClosed, Mine
<1> QED BY <1>1, <1>2, <1>3, <1>4, <1>5, <1>6, <1>7, <1>8, <1>9 DEF Next

LEMMA NamesInit == Init => Names
<1> SUFFICES ASSUME Init PROVE Names
  OBVIOUS
<1>1. DOMAIN net = {} /\ plans = {} /\ mount = 0 /\ made = 0
  BY NoneSent DEF Init
<1>2. 1 .. made = {} /\ 0 \notin Mounts
  BY <1>1 DEF Mounts
<1> QED BY <1>1, <1>2 DEF Names, PlanTypes, OneOwner, DeletesClosed, Mine

LEMMA NamesHold == Spec => []Names
<1>1. Init => Names
  BY NamesInit
<1>2. Types /\ Types' /\ Names /\ [Next]_vars => Names'
  BY NamesNext
<1> QED BY <1>1, <1>2, TypesHold, PTL DEF Spec

-----------------------------------------------------------------------------
(* A patient operator does not close the drawer while its submit runs.      *)
Deleting(m) == \E k \in DOMAIN net : net[k].mount = m /\ net[k].kind = "delete"
Used(m, n) ==
  \/ \E k \in DOMAIN net : net[k].mount = m /\ net[k].name = n /\ net[k].kind \in SubmitKinds
  \/ \E p \in plans : p.mount = m /\ p.name = n
Kept ==
  /\ \A p \in plans : p.mount # mount /\ p.name # 0
  /\ \A m \in Mounts, n \in 1 .. made : Used(m, n) => templates[n] # None /\ ~ Deleting(m)
  /\ \A k \in DOMAIN net : net[k].kind = "plan" => net[k].name # 0

Uses(m, n) == Used(m, n) \/ (mount = m /\ template.name = n)

LEMMA UsedIsOwned ==
  ASSUME NEW m, NEW n, Uses(m, n)
  PROVE  Owns(m, n)
BY DEF Uses, Used, Owns

LEMMA UsedIsMade ==
  ASSUME Types, Names, NEW m \in Mounts, NEW n \in Nat, n # 0, Uses(m, n)
  PROVE  n \in 1 .. made
<1>1. Owns(m, n)
  BY UsedIsOwned
<1>2. n <= made
  BY <1>1, OwnedIsMade DEF Names
<1> QED BY <1>2, NumberFacts

LEMMA UsedStays ==
  ASSUME Types, Names, Kept, \A q \in 1 .. made : templates[q] # None => templates'[q] # None
  PROVE  \A m \in Mounts, n \in 1 .. made : Uses(m, n) => templates'[n] # None
<1> SUFFICES ASSUME NEW m \in Mounts, NEW n \in 1 .. made, Uses(m, n) PROVE templates[n] # None
  OBVIOUS
<1>1. CASE Used(m, n)
  BY <1>1 DEF Kept
<1>2. CASE mount = m /\ template.name = n
  <2>1. Owns(m, n)
    BY UsedIsOwned
  <2> QED BY <1>2, <2>1 DEF Names, Mine
<1> QED BY <1>1, <1>2 DEF Uses

(* What is used after a step was used before, was sent or was planned.      *)
LEMMA UsedComes ==
  ASSUME NEW i \in {0} \cup DOMAIN net, NEW e, Flow(i, e), NEW m, NEW n, Used(m, n)'
  PROVE  \/ Used(m, n)
         \/ \E x \in DOMAIN e : e[x].mount = m /\ e[x].name = n /\ e[x].kind \in SubmitKinds
         \/ \E p \in plans' \ plans : p.mount = m /\ p.name = n
<1>1. ASSUME NEW k \in DOMAIN net', net'[k].mount = m, net'[k].name = n, net'[k].kind \in SubmitKinds
      PROVE  \/ Used(m, n)
             \/ \E x \in DOMAIN e : e[x].mount = m /\ e[x].name = n /\ e[x].kind \in SubmitKinds
  <2>1. CASE \E j \in DOMAIN net \ {i} : k = New(i, j) /\ net'[k] = net[j]
    BY <1>1, <2>1 DEF Used
  <2>2. CASE \E x \in DOMAIN e : k = Rest(i) + x /\ net'[k] = e[x]
    BY <1>1, <2>2
  <2> QED BY <2>1, <2>2 DEF Flow
<1>2. ASSUME NEW p \in plans', p.mount = m, p.name = n
      PROVE  Used(m, n) \/ \E q \in plans' \ plans : q.mount = m /\ q.name = n
  BY <1>2 DEF Used
<1> QED BY <1>1, <1>2 DEF Used

LEMMA KeptFlow ==
  ASSUME Types, Types', Names, Kept, NEW i \in {0} \cup DOMAIN net, NEW e, Flow(i, e),
         \A m \in Mounts, n \in 1 .. made : Uses(m, n) => templates'[n] # None,
         \A x \in DOMAIN e :
           /\ e[x].kind \in SubmitKinds => e[x].name = 0 \/ Uses(e[x].mount, e[x].name)
           /\ e[x].kind = "plan" => e[x].name # 0,
         \A x \in DOMAIN e, m \in Mounts, n \in 1 .. made :
           e[x].kind = "delete" /\ e[x].mount = m => ~ Used(m, n)',
         \A p \in plans' :
           /\ p.mount # mount' /\ p.name # 0
           /\ p \in plans \/ Uses(p.mount, p.name)
  PROVE  Kept'
<1>1. made' \in Nat /\ made \in Nat
  BY DEF Types, ServerTypes
<1>2. ASSUME NEW m \in Mounts, NEW n \in 1 .. made', Used(m, n)'
      PROVE  Uses(m, n) /\ n \in 1 .. made
  <2>1. n \in Nat /\ n # 0
    BY <1>1
  <2>2. \/ Used(m, n)
        \/ \E x \in DOMAIN e : e[x].mount = m /\ e[x].name = n /\ e[x].kind \in SubmitKinds
        \/ \E p \in plans' \ plans : p.mount = m /\ p.name = n
    BY <1>2, UsedComes
  <2>3. Uses(m, n)
    <3>1. CASE Used(m, n)
      BY <3>1 DEF Uses
    <3>2. CASE \E x \in DOMAIN e : e[x].mount = m /\ e[x].name = n /\ e[x].kind \in SubmitKinds
      BY <2>1, <3>2
    <3>3. CASE \E p \in plans' \ plans : p.mount = m /\ p.name = n
      BY <3>3
    <3> QED BY <2>2, <3>1, <3>2, <3>3
  <2> QED BY <2>1, <2>3, UsedIsMade
<1>3. ASSUME NEW m \in Mounts, NEW n \in 1 .. made', Used(m, n)', Deleting(m)'
      PROVE  FALSE
  <2>1. Uses(m, n) /\ n \in 1 .. made
    BY <1>2, <1>3
  <2>2. PICK k \in DOMAIN net' : net'[k].mount = m /\ net'[k].kind = "delete"
    BY <1>3 DEF Deleting
  <2>3. CASE \E j \in DOMAIN net \ {i} : k = New(i, j) /\ net'[k] = net[j]
    <3>1. PICK j \in DOMAIN net : net[j].mount = m /\ net[j].kind = "delete"
      BY <2>2, <2>3
    <3>2. Deleting(m) /\ m # mount
      BY <3>1 DEF Deleting, Names, DeletesClosed
    <3> QED BY <2>1, <3>2 DEF Uses, Kept
  <2>4. CASE \E x \in DOMAIN e : k = Rest(i) + x /\ net'[k] = e[x]
    <3>1. PICK x \in DOMAIN e : e[x].mount = m /\ e[x].kind = "delete"
      BY <2>2, <2>4
    <3> QED BY <1>3, <2>1, <3>1
  <2> QED BY <2>3, <2>4 DEF Flow
<1>4. ASSUME NEW k \in DOMAIN net', net'[k].kind = "plan"
      PROVE  net'[k].name # 0
  BY <1>4 DEF Flow, Kept
<1>5. \A p \in plans' : p.mount # mount' /\ p.name # 0
  OBVIOUS
<1>6. \A m \in Mounts, n \in 1 .. made' : Used(m, n)' => templates'[n] # None /\ ~ Deleting(m)'
  BY <1>2, <1>3
<1> QED BY <1>4, <1>5, <1>6 DEF Kept

(* No submit moves along, and no deletion is sent.                          *)
LEMMA KeptQuiet ==
  ASSUME Types, Types', Names, Kept, NEW i \in {0} \cup DOMAIN net, NEW e, Flow(i, e),
         \A x \in DOMAIN e : e[x].kind \notin SubmitKinds \cup {"delete"},
         plans' = plans, mount' \in {mount, 0, mounts + 1},
         \A q \in 1 .. made : templates[q] # None => templates'[q] # None
  PROVE  Kept'
<1>1. \A m \in Mounts, n \in 1 .. made : Uses(m, n) => templates'[n] # None
  BY UsedStays
<1>2. \A p \in plans' : p.mount # mount' /\ p.name # 0 /\ p \in plans
  <2> SUFFICES ASSUME NEW p \in plans PROVE p.mount # mount' /\ p.name # 0
    OBVIOUS
  <2>1. p.mount \in 1 .. mounts /\ mounts \in Nat
    BY NumberFacts DEF Names, PlanTypes
  <2>2. p.mount # mount /\ p.name # 0
    BY DEF Kept
  <2> QED BY <2>1, <2>2
<1>3. \A x \in DOMAIN e : e[x].kind # "plan" /\ e[x].kind # "delete" /\ e[x].kind \notin SubmitKinds
  BY KindFacts
<1> QED BY <1>1, <1>2, <1>3, KeptFlow

LEMMA OpenKept ==
  ASSUME Types, Types', Names, Kept, OpenForm
  PROVE  Kept'
<1>1. mount' = mounts + 1 /\ UNCHANGED <<net, templates, plans>>
  BY DEF OpenForm
<1>2. Flow(0, << >>)
  BY <1>1, SendsNone DEF Types, NetTypes
<1> QED BY <1>1, <1>2, NoneSent, KeptQuiet

LEMMA ChangeKept ==
  ASSUME Types, Types', Names, Kept, NEW s \in Sides, NEW c \in Clusters[s], ClusterChange(s, c)
  PROVE  Kept'
<1>1. UNCHANGED <<mount, templates, plans>>
  BY DEF ClusterChange
<1>2. PICK e : /\ Flow(0, e) /\ DOMAIN e \subseteq {1, 2}
               /\ 1 \in DOMAIN e /\ e[1] = ReadOf(s, c)
               /\ 2 \in DOMAIN e => e[2] = Synced(params', creds, template.name) /\ Validated(creds)
  BY ChangeFlow
<1>3. \A x \in DOMAIN e : e[x].kind \in {"creds", "post", "patch"}
  BY <1>2 DEF ReadOf, Synced, Request
<1>4. \A x \in DOMAIN e : e[x].kind \notin SubmitKinds \cup {"delete"}
  BY <1>3, KindFacts
<1> QED BY <1>1, <1>2, <1>4, KeptQuiet

LEMMA GPUKept ==
  ASSUME Types, Types', Names, Kept, UseGPUChange
  PROVE  Kept'
<1>1. UNCHANGED <<mount, templates, plans>>
  BY DEF UseGPUChange
<1>2. PICK e : /\ Flow(0, e)
               /\ \A x \in DOMAIN e : e[x] = Synced(params', creds, template.name) /\ Validated(creds)
  BY GPUFlow
<1>3. \A x \in DOMAIN e : e[x].kind \in {"post", "patch"}
  BY <1>2 DEF Synced, Request
<1>4. \A x \in DOMAIN e : e[x].kind \notin SubmitKinds \cup {"delete"}
  BY <1>3, KindFacts
<1> QED BY <1>1, <1>2, <1>4, KeptQuiet

LEMMA PollKept ==
  ASSUME Types, Types', Names, Kept, PollTemplate
  PROVE  Kept'
<1> DEFINE r == RequestOf("poll", template.name)
<1>1. Flow(0, <<r>>) /\ r \in Requests
  BY PollFlow
<1>2. r.kind = "poll"
  BY DEF RequestOf
<1> HIDE DEF r
<1>3. \A x \in DOMAIN <<r>> : <<r>>[x].kind \notin SubmitKinds \cup {"delete"}
  BY <1>1, <1>2, OneSent, KindFacts
<1>4. UNCHANGED <<mount, templates, plans>>
  BY DEF PollTemplate, formVars
<1> QED BY <1>1, <1>3, <1>4, KeptQuiet

LEMMA CloseKept ==
  ASSUME Types, Types', Names, Kept, HandleClose, Impatient = FALSE
  PROVE  Kept'
<1>1. UNCHANGED <<templates, plans>> /\ mount' = 0 /\ ~ InFlight(mount, SubmitKinds)
  BY DEF HandleClose, Unmount, Free
<1>2. CASE template.name = 0
  BY <1>1, <1>2, CloseFlow, NoneSent, KeptQuiet
<1>3. CASE template.name # 0
  <2> DEFINE r == RequestOf("delete", template.name)
  <2>1. Flow(0, <<r>>) /\ r \in Requests
    BY <1>3, CloseFlow
  <2>2. r.kind = "delete" /\ r.mount = mount
    BY DEF RequestOf
  <2> HIDE DEF r
  <2>3. \A x \in DOMAIN <<r>> : <<r>>[x] = r
    BY <2>1, OneSent
  <2>4. ASSUME NEW n, Used(mount, n) PROVE FALSE
    BY <1>1, <2>4 DEF Used, InFlight, Kept
  <2>5. \A x \in DOMAIN <<r>>, m \in Mounts, n \in 1 .. made :
          <<r>>[x].kind = "delete" /\ <<r>>[x].mount = m => ~ Used(m, n)'
    <3> SUFFICES ASSUME NEW m \in Mounts, NEW n \in 1 .. made, m = mount, Used(m, n)'
                 PROVE  FALSE
      BY <2>2, <2>3
    <3>1. Used(m, n)
      BY <1>1, <2>1, <2>2, <2>3, UsedComes, KindFacts
    <3> QED BY <2>4, <3>1
  <2>6. \A x \in DOMAIN <<r>> : <<r>>[x].kind \notin SubmitKinds /\ <<r>>[x].kind # "plan"
    BY <2>2, <2>3, KindFacts
  <2>7. \A m \in Mounts, n \in 1 .. made : Uses(m, n) => templates'[n] # None
    BY <1>1, UsedStays
  <2>8. \A p \in plans' : p.mount # mount' /\ p.name # 0 /\ p \in plans
    <3> SUFFICES ASSUME NEW p \in plans PROVE p.mount # 0 /\ p.name # 0
      BY <1>1
    <3> QED BY DEF Names, PlanTypes, Kept
  <2> QED BY <2>1, <2>5, <2>6, <2>7, <2>8, KeptFlow
<1> QED BY <1>2, <1>3

LEMMA SubmitKept ==
  ASSUME Types, Types', Names, Kept, NEW method \in Methods, NEW required \in BOOLEAN,
         HandleSubmit(method, required)
  PROVE  Kept'
<1> DEFINE r == RequestOf(FirstKind(method, required), template.name)
<1>1. Flow(0, <<r>>) /\ r \in Requests /\ r.kind \in {"network", "storage", "array"}
  BY SubmitFlow
<1>2. r.mount = mount /\ r.name = template.name
  BY DEF RequestOf
<1> HIDE DEF r
<1>3. \A x \in DOMAIN <<r>> : <<r>>[x] = r
  BY <1>1, OneSent
<1>4. UNCHANGED <<mount, templates, plans>>
  BY DEF HandleSubmit, formVars
<1>5. Uses(r.mount, r.name) /\ r.kind # "plan" /\ r.kind # "delete"
  BY <1>1, <1>2 DEF Uses
<1>6. \A m \in Mounts, n \in 1 .. made : Uses(m, n) => templates'[n] # None
  BY <1>4, UsedStays
<1>7. \A p \in plans' : p.mount # mount' /\ p.name # 0 /\ p \in plans
  BY <1>4 DEF Kept
<1> QED BY <1>1, <1>3, <1>5, <1>6, <1>7, KeptFlow

LEMMA CredsKept ==
  ASSUME Types, Types', Names, Kept, NEW i \in DOMAIN net, CredsAnswer(i)
  PROVE  Kept'
<1>1. UNCHANGED <<mount, templates, plans>>
  BY DEF CredsAnswer
<1>2. PICK e : Flow(i, e) /\ \A x \in DOMAIN e : e[x].kind \in {"post", "patch"}
  <2>1. CASE net[i].mount # mount
    BY <2>1, CredsFlow, NoneSent
  <2>2. CASE net[i].mount = mount
    <3>1. PICK e : /\ Flow(i, e)
                   /\ \A x \in DOMAIN e : e[x] = Synced(params, creds', template.name) /\ Validated(creds')
      BY <2>2, CredsFlow
    <3> QED BY <3>1 DEF Synced, Request
  <2> QED BY <2>1, <2>2
<1>3. \A x \in DOMAIN e : e[x].kind \notin SubmitKinds \cup {"delete"}
  BY <1>2, KindFacts
<1> QED BY <1>1, <1>2, <1>3, KeptQuiet

LEMMA ArrivesKept ==
  ASSUME Types, Types', Names, Kept, NEW i \in DOMAIN net, NEW n \in Nat, TemplateArrives(i, n),
         UNCHANGED <<mount, mounts, params, creds, plans>>,
         \A q \in 1 .. made : templates[q] # None => templates'[q] # None
  PROVE  Kept'
<1>1. PICK e : Flow(i, e) /\ \A x \in DOMAIN e : e[x].kind \in {"post", "patch"}
  <2>1. CASE net[i].mount # mount
    BY <2>1, ArrivesFlow, NoneSent
  <2>2. CASE net[i].mount = mount
    <3>1. PICK e : Flow(i, e) /\ \A x \in DOMAIN e : e[x] = Synced(params, creds, n)
      BY <2>2, ArrivesFlow
    <3> QED BY <3>1 DEF Synced, Request
  <2> QED BY <2>1, <2>2
<1>2. \A x \in DOMAIN e : e[x].kind \notin SubmitKinds \cup {"delete"}
  BY <1>1, KindFacts
<1> QED BY <1>1, <1>2, KeptQuiet

(* The template deleted is used by nobody.                                  *)
LEMMA DeleteKept ==
  ASSUME Types, Types', Names, Kept, NEW i \in DOMAIN net, DeleteAnswer(i)
  PROVE  Kept'
<1> DEFINE d == net[i].name
<1>1. /\ net' = Without(i) /\ d \in 1 .. made /\ net[i].kind = "delete"
      /\ \A q \in (1 .. MaxTemplates) \ {d} : templates'[q] = templates[q]
      /\ UNCHANGED <<formVars, plans>>
  BY DeleteIs
<1>2. net[i].mount \in Mounts /\ Owns(net[i].mount, d) /\ net[i].mount # mount /\ Deleting(net[i].mount)
  BY <1>1, AnswerTypes DEF Owns, Names, DeletesClosed, Deleting
<1>3. made \in Nat /\ made <= MaxTemplates /\ MaxTemplates \in Nat
  BY RoomBounds, Facts DEF Types, ServerTypes
<1>4. mount' = mount /\ plans' = plans
  BY <1>1 DEF formVars
<1> HIDE DEF d
<1>5. \A m \in Mounts, n \in 1 .. made : Uses(m, n) => templates'[n] # None
  <2> SUFFICES ASSUME NEW m \in Mounts, NEW n \in 1 .. made, Uses(m, n)
               PROVE  templates'[n] # None
    OBVIOUS
  <2>1. n # d
    <3> SUFFICES ASSUME n = d PROVE FALSE
      OBVIOUS
    <3>1. Owns(m, d)
      BY UsedIsOwned
    <3>2. m = net[i].mount
      BY <1>1, <1>2, <3>1 DEF Names, OneOwner
    <3>3. Used(m, n)
      BY <1>2, <3>2 DEF Uses
    <3> QED BY <1>2, <3>2, <3>3 DEF Kept
  <2>2. n \in (1 .. MaxTemplates) \ {d}
    BY <1>3, <2>1
  <2>3. templates[n] # None
    <3>1. CASE Used(m, n)
      BY <3>1 DEF Kept
    <3>2. CASE mount = m /\ template.name = n
      <4>1. Owns(m, n)
        BY UsedIsOwned
      <4> QED BY <3>2, <4>1 DEF Names, Mine
    <3> QED BY <3>1, <3>2 DEF Uses
  <2> QED BY <1>1, <2>2, <2>3
<1>6. Flow(i, << >>)
  BY <1>1, AnswersOnly, AnswerTypes
<1>7. \A p \in plans' : p.mount # mount' /\ p.name # 0 /\ p \in plans
  BY <1>4 DEF Kept
<1> QED BY <1>5, <1>6, <1>7, NoneSent, KeptFlow

LEMMA ContinueKept ==
  ASSUME Types, Types', Names, Kept, NEW i \in DOMAIN net, net[i].kind \in SubmitKinds,
         NEW k \in SubmitKinds, Continue(i, k), k = "plan" => net[i].name # 0,
         UNCHANGED <<formVars, plans>>,
         \A q \in 1 .. made : templates[q] # None => templates'[q] # None
  PROVE  Kept'
<1> DEFINE r == [net[i] EXCEPT !.kind = k]
<1>1. /\ Flow(i, <<r>>) /\ r \in Requests
      /\ r = [kind |-> k, name |-> net[i].name, arg |-> net[i].arg, mount |-> net[i].mount]
  BY ContinueFlow
<1>2. r.mount = net[i].mount /\ r.name = net[i].name /\ r.kind = k
  BY <1>1
<1> HIDE DEF r
<1>3. \A x \in DOMAIN <<r>> : <<r>>[x] = r
  BY <1>1, OneSent
<1>4. Uses(r.mount, r.name) /\ r.kind # "delete" /\ (r.kind = "plan" => r.name # 0)
  BY <1>2, KindFacts DEF Uses, Used
<1>5. \A m \in Mounts, n \in 1 .. made : Uses(m, n) => templates'[n] # None
  BY UsedStays
<1>6. \A p \in plans' : p.mount # mount' /\ p.name # 0 /\ p \in plans
  BY DEF Kept, formVars
<1> QED BY <1>1, <1>3, <1>4, <1>5, <1>6, KeptFlow

(* The drawer of a submit is closed with its plan.                          *)
LEMMA PlanKept ==
  ASSUME Types, Types', Names, Kept, NEW i \in DOMAIN net, PlanAnswer(i)
  PROVE  Kept'
<1>1. PICK p : plans' = plans \cup {p} /\ p.mount = net[i].mount /\ p.name = net[i].name
  BY PlanIs
<1>2. /\ net' = Without(i) /\ UNCHANGED templates /\ mount' = 0
      /\ net[i].kind = "plan" /\ net[i].kind \in SubmitKinds
  <2>1. /\ net' = Without(i) /\ UNCHANGED templates
        /\ Unmount \/ (UNCHANGED formVars /\ mount = 0)
        /\ net[i].kind = "plan" /\ net[i].kind \in SubmitKinds
    BY PlanIs
  <2> QED BY <2>1 DEF Unmount, formVars
<1>3. \A q \in plans' : /\ q.mount # mount' /\ q.name # 0
                        /\ q \in plans \/ Uses(q.mount, q.name)
  <2> SUFFICES ASSUME NEW q \in plans'
               PROVE  q.mount # 0 /\ q.name # 0 /\ (q \in plans \/ Uses(q.mount, q.name))
    BY <1>2
  <2>1. CASE q \in plans
    BY <2>1 DEF Names, PlanTypes, Kept
  <2>2. CASE q = p
    <3>1. p.mount # 0 /\ p.name # 0
      BY <1>1, <1>2, AnswerTypes DEF Kept
    <3>2. Uses(p.mount, p.name)
      BY <1>1, <1>2 DEF Uses, Used
    <3> QED BY <2>2, <3>1, <3>2
  <2> QED BY <1>1, <2>1, <2>2
<1>4. \A m \in Mounts, n \in 1 .. made : Uses(m, n) => templates'[n] # None
  BY <1>2, UsedStays
<1>5. Flow(i, << >>)
  BY <1>2, AnswersOnly, AnswerTypes
<1> QED BY <1>3, <1>4, <1>5, NoneSent, KeptFlow

LEMMA RejectedKept ==
  ASSUME Types, Types', Names, Kept, NEW i \in DOMAIN net, Rejected(i)
  PROVE  Kept'
<1>1. /\ net' = Without(i) /\ UNCHANGED <<templates, plans>>
      /\ Unmount \/ UNCHANGED formVars
  BY RejectedIs
<1>2. mount' \in {mount, 0}
  BY <1>1 DEF Unmount, formVars
<1>3. Flow(i, << >>)
  BY <1>1, AnswersOnly, AnswerTypes
<1> QED BY <1>1, <1>2, <1>3, NoneSent, KeptQuiet

LEMMA ResolveKept ==
  ASSUME Types, Types', Names, Kept, NEW n \in DOMAIN templates, Resolve(n)
  PROVE  Kept'
<1>1. UNCHANGED <<formVars, net, plans>> /\ mount' = mount
  BY ResolveIs DEF formVars
<1>2. made \in Nat /\ made <= MaxTemplates /\ MaxTemplates \in Nat
  BY RoomBounds, Facts DEF Types, ServerTypes
<1>3. \A q \in 1 .. made : templates[q] # None => templates'[q] # None
  BY <1>2, ResolveIs
<1>4. Flow(0, << >>)
  BY <1>1, SendsNone DEF Types, NetTypes
<1> QED BY <1>1, <1>3, <1>4, NoneSent, KeptQuiet

(* The templates that stay when an answer brings one.                       *)
LEMMA TemplatesKept ==
  ASSUME Types, NEW i \in DOMAIN net,
         PostAnswer(i) \/ PatchAnswer(i) \/ PollAnswer(i) \/ MappingAnswer(i)
  PROVE  \A q \in 1 .. made : templates[q] # None => templates'[q] # None
<1> SUFFICES ASSUME NEW q \in 1 .. made, templates[q] # None PROVE templates'[q] # None
  OBVIOUS
<1>1. made \in Nat /\ made <= MaxTemplates /\ MaxTemplates \in Nat
  BY RoomBounds, Facts DEF Types, ServerTypes
<1>2. q \in 1 .. MaxTemplates
  BY <1>1
<1>3. CASE PollAnswer(i)
  BY <1>3 DEF PollAnswer
<1>4. \/ PollAnswer(i)
      \/ \E n : templates'[n] # None /\ \A p \in (1 .. MaxTemplates) \ {n} : templates'[p] = templates[p]
  BY PostIs, PatchIs, MappingIs
<1>5. CASE \E n : templates'[n] # None /\ \A p \in (1 .. MaxTemplates) \ {n} : templates'[p] = templates[p]
  BY <1>2, <1>5
<1> QED BY <1>3, <1>4, <1>5

LEMMA AnswerKept ==
  ASSUME Types, Types', Names, Kept, NEW i \in DOMAIN net, Answer(i)
  PROVE  Kept'
<1> USE DEF Answer
<1>1. CASE CredsAnswer(i)
  BY <1>1, CredsKept
<1>2. CASE PostAnswer(i)
  <2>1. NewName \in Nat /\ TemplateArrives(i, NewName) /\ UNCHANGED <<mount, mounts, params, creds, plans>>
    BY <1>2, PostIs
  <2> QED BY <1>2, <2>1, TemplatesKept, ArrivesKept
<1>3. CASE PatchAnswer(i) \/ PollAnswer(i)
  <2>1. /\ net[i].name \in Nat /\ TemplateArrives(i, net[i].name)
        /\ UNCHANGED <<mount, mounts, params, creds, plans>>
    BY <1>3, AnswerTypes DEF PatchAnswer, PollAnswer, Requests
  <2> QED BY <1>3, <2>1, TemplatesKept, ArrivesKept
<1>4. CASE DeleteAnswer(i)
  BY <1>4, DeleteKept
<1>5. CASE NetworkAnswer(i) \/ StorageAnswer(i)
  <2>1. PICK k \in {"storage", "array", "mapping"} : Continue(i, k)
    BY <1>5, NetworkTypes
  <2>2. /\ UNCHANGED <<formVars, templates, plans>> /\ k \in SubmitKinds /\ k # "plan"
        /\ net[i].kind \in SubmitKinds
    BY <1>5, NetworkTypes, KindFacts
  <2> QED BY <2>1, <2>2, ContinueKept
<1>6. CASE MappingAnswer(i)
  <2>1. /\ Continue(i, "plan") /\ UNCHANGED <<formVars, plans>> /\ "plan" \in SubmitKinds
        /\ net[i].kind \in SubmitKinds /\ net[i].name # 0
    <3>1. net[i].kind = "mapping" /\ Continue(i, "plan") /\ UNCHANGED <<formVars, plans>>
      BY <1>6, MappingIs
    <3>2. Found(net[i].name)
      BY <1>6 DEF MappingAnswer
    <3> QED BY <3>1, <3>2, KindFacts DEF Found
  <2>2. \A q \in 1 .. made : templates[q] # None => templates'[q] # None
    BY <1>6, TemplatesKept
  <2> QED BY <2>1, <2>2, ContinueKept
<1>7. CASE PlanAnswer(i)
  BY <1>7, PlanKept
<1>8. CASE Rejected(i)
  BY <1>8, RejectedKept
<1> QED BY <1>1, <1>2, <1>3, <1>4, <1>5, <1>6, <1>7, <1>8

LEMMA KeptNext == Impatient = FALSE /\ Types /\ Types' /\ Names /\ Kept /\ [Next]_vars => Kept'
<1> SUFFICES ASSUME Impatient = FALSE, Types, Types', Names, Kept, [Next]_vars PROVE Kept'
  OBVIOUS
<1>1. CASE OpenForm
  BY <1>1, OpenKept
<1>2. ASSUME NEW s \in Sides, NEW c \in Clusters[s], ClusterChange(s, c) PROVE Kept'
  BY <1>2, ChangeKept
<1>3. CASE UseGPUChange
  BY <1>3, GPUKept
<1>4. CASE PollTemplate
  BY <1>4, PollKept
<1>5. CASE HandleClose
  BY <1>5, CloseKept
<1>6. ASSUME NEW method \in Methods, NEW required \in BOOLEAN, HandleSubmit(method, required) PROVE Kept'
  BY <1>6, SubmitKept
<1>7. ASSUME NEW i \in DOMAIN net, Answer(i) PROVE Kept'
  BY <1>7, AnswerKept
<1>8. ASSUME NEW n \in DOMAIN templates, Resolve(n) PROVE Kept'
  BY <1>8, ResolveKept
<1>9. CASE Finished \/ UNCHANGED vars
  BY <1>9 DEF Finished, vars, formVars, Kept, Used, Deleting
<1> QED BY <1>1, <1>2, <1>3, <1>4, <1>5, <1>6, <1>7, <1>8, <1>9 DEF Next

LEMMA KeptInit == Init => Kept
<1> SUFFICES ASSUME Init PROVE Kept
  OBVIOUS
<1>1. DOMAIN net = {} /\ plans = {}
  BY NoneSent DEF Init
<1> QED BY <1>1 DEF Kept, Used

LEMMA KeptHolds == ASSUME Impatient = FALSE PROVE Spec => []Kept
<1>1. Init => Kept
  BY KeptInit
<1>2. Types /\ Types' /\ Names /\ Kept /\ [Next]_vars => Kept'
  BY KeptNext
<1> QED BY <1>1, <1>2, TypesHold, NamesHold, PTL DEF Spec

LEMMA KeptPlans == Types /\ Names /\ Kept => PlanKeepsTemplate
<1> SUFFICES ASSUME Types, Names, Kept, NEW p \in plans PROVE Found(p.name)
  BY DEF PlanKeepsTemplate
<1>1. p.mount \in Mounts /\ p.name \in 1 .. made
  BY NumberFacts DEF Names, PlanTypes, Kept, Mounts
<1>2. Used(p.mount, p.name)
  BY DEF Used
<1>3. templates[p.name] # None
  BY <1>1, <1>2 DEF Kept
<1> QED BY <1>1, <1>3 DEF Found

(* handleClose deletes the template of the form it closes, and the onClose  *)
(* of handleSubmit does not: with an operator who leaves the drawer alone   *)
(* while its submit runs, no template is deleted under its plan, however    *)
(* late a deletion or a plan is answered and whatever is rejected.          *)
THEOREM PlanKeepsItsTemplate == ASSUME Impatient = FALSE PROVE Spec => []PlanKeepsTemplate
<1>1. Types /\ Names /\ Kept => PlanKeepsTemplate
  BY KeptPlans
<1> QED BY <1>1, TypesHold, NamesHold, KeptHolds, PTL

-----------------------------------------------------------------------------
(* The last request of a class says what it should, whichever came before.  *)
LastIn(C, G) ==
  \A k \in DOMAIN net : net[k] \in C =>
    net[k] \in G \/ \E j \in DOMAIN net : k < j /\ net[j] \in C
NoneIn(C) == \A k \in DOMAIN net : net[k] \notin C

LEMMA LastStays ==
  ASSUME NEW i \in {0} \cup DOMAIN net, NEW e, Flow(i, e), NEW C, NEW G,
         i # 0 => net[i] \notin C, 0 \notin DOMAIN net, \A x \in DOMAIN e : e[x] \notin C
  PROVE  (LastIn(C, G) => LastIn(C, G)') /\ (NoneIn(C)' <=> NoneIn(C))
<1>1. ASSUME NEW j \in DOMAIN net', net'[j] \in C
      PROVE  \E k \in DOMAIN net \ {i} : j = New(i, k) /\ net'[j] = net[k]
  BY <1>1 DEF Flow
<1>2. ASSUME NEW k \in DOMAIN net, net[k] \in C
      PROVE  k \in DOMAIN net \ {i} /\ New(i, k) \in DOMAIN net' /\ net'[New(i, k)] = net[k]
  <2>1. k # i
    BY <1>2
  <2> QED BY <2>1 DEF Flow
<1>3. ASSUME LastIn(C, G), NEW j \in DOMAIN net', net'[j] \in C, net'[j] \notin G
      PROVE  \E q \in DOMAIN net' : j < q /\ net'[q] \in C
  <2>1. PICK k \in DOMAIN net \ {i} : j = New(i, k) /\ net'[j] = net[k]
    BY <1>1, <1>3
  <2>2. PICK l \in DOMAIN net : k < l /\ net[l] \in C
    BY <1>3, <2>1 DEF LastIn
  <2>3. l \in DOMAIN net \ {i} /\ New(i, l) \in DOMAIN net' /\ net'[New(i, l)] \in C
    BY <1>2, <2>2
  <2>4. New(i, k) < New(i, l)
    BY <2>1, <2>2, <2>3 DEF Flow
  <2> QED BY <2>1, <2>3, <2>4
<1>4. LastIn(C, G) => LastIn(C, G)'
  BY <1>3 DEF LastIn
<1>5. NoneIn(C)' => NoneIn(C)
  BY <1>2 DEF NoneIn
<1>6. NoneIn(C) => NoneIn(C)'
  BY <1>1 DEF NoneIn
<1> QED BY <1>4, <1>5, <1>6

(* A new last request was sent.                                             *)
LEMMA LastSent ==
  ASSUME NEW i \in {0} \cup DOMAIN net, NEW e, Flow(i, e), NEW C, NEW G, net \in Seq(Requests),
         NEW x \in DOMAIN e, e[x] \in C, e[x] \in G, DOMAIN e \subseteq {1, 2},
         \A y \in DOMAIN e : e[y] \in C => y = x
  PROVE  LastIn(C, G)' /\ ~ NoneIn(C)'
<1>1. Rest(i) \in Int /\ x \in Int /\ x > 0
  <2>1. Len(net) \in Nat
    BY LenProperties
  <2> QED BY <2>1 DEF Rest
<1>2. Rest(i) + x \in DOMAIN net' /\ net'[Rest(i) + x] = e[x]
  BY DEF Flow
<1>3. ASSUME NEW j \in DOMAIN net', net'[j] \in C, net'[j] \notin G
      PROVE  j < Rest(i) + x
  <2>1. CASE \E k \in DOMAIN net \ {i} : j = New(i, k) /\ net'[j] = net[k]
    <3>1. j <= Rest(i)
      BY <2>1 DEF Flow
    <3>2. j \in Int
      <4>1. net' \in Seq(Requests)
        BY DEF Flow
      <4>2. DOMAIN net' = 1 .. Len(net') /\ Len(net') \in Nat
        BY <4>1, LenProperties
      <4> QED BY <4>2
    <3> QED BY <1>1, <3>1, <3>2
  <2>2. CASE \E y \in DOMAIN e : j = Rest(i) + y /\ net'[j] = e[y]
    BY <1>3, <2>2
  <2> QED BY <2>1, <2>2 DEF Flow
<1>4. LastIn(C, G)'
  BY <1>2, <1>3 DEF LastIn
<1>5. ~ NoneIn(C)'
  BY <1>2 DEF NoneIn
<1> QED BY <1>4, <1>5

(* The first one is answered: what stays comes after it.                    *)
LEMMA LastAnswered ==
  ASSUME NEW i \in DOMAIN net, NEW e, Flow(i, e), NEW C, NEW G, net \in Seq(Requests),
         LastIn(C, G), net[i] \in C, \A j \in 1 .. i - 1 : net[j] \notin C,
         \A x \in DOMAIN e : e[x] \notin C
  PROVE  LastIn(C, G)' /\ (NoneIn(C)' => net[i] \in G)
<1>0. DOMAIN net = 1 .. Len(net) /\ Len(net) \in Nat /\ i # 0
  <2>1. DOMAIN net = 1 .. Len(net) /\ Len(net) \in Nat
    BY LenProperties
  <2> QED BY <2>1
<1>1. ASSUME NEW j \in DOMAIN net', net'[j] \in C
      PROVE  \E k \in DOMAIN net \ {i} : j = New(i, k) /\ net'[j] = net[k]
  BY <1>1 DEF Flow
<1>2. ASSUME NEW k \in DOMAIN net, NEW l \in DOMAIN net, net[k] \in C, k < l, net[l] \in C
      PROVE  l \in DOMAIN net \ {i} /\ New(i, l) \in DOMAIN net' /\ net'[New(i, l)] = net[l]
  <2>1. ~ k < i
    BY <1>0, <1>2
  <2>2. l # i
    BY <1>2, <2>1
  <2> QED BY <2>2 DEF Flow
<1>3. ASSUME NEW j \in DOMAIN net', net'[j] \in C, net'[j] \notin G
      PROVE  \E q \in DOMAIN net' : j < q /\ net'[q] \in C
  <2>1. PICK k \in DOMAIN net \ {i} : j = New(i, k) /\ net'[j] = net[k]
    BY <1>1, <1>3
  <2>2. PICK l \in DOMAIN net : k < l /\ net[l] \in C
    BY <1>3, <2>1 DEF LastIn
  <2>3. net[k] \in C
    BY <1>3, <2>1
  <2>4. l \in DOMAIN net \ {i} /\ New(i, l) \in DOMAIN net' /\ net'[New(i, l)] \in C
    BY <1>2, <2>2, <2>3
  <2>5. New(i, k) < New(i, l)
    BY <2>1, <2>2, <2>4 DEF Flow
  <2> QED BY <2>1, <2>4, <2>5
<1>4. LastIn(C, G)'
  BY <1>3 DEF LastIn
<1>5. ASSUME NoneIn(C)', net[i] \notin G PROVE FALSE
  <2>1. PICK l \in DOMAIN net : i < l /\ net[l] \in C
    BY <1>5 DEF LastIn
  <2>2. New(i, l) \in DOMAIN net' /\ net'[New(i, l)] \in C
    BY <1>2, <2>1
  <2> QED BY <1>5, <2>2 DEF NoneIn
<1> QED BY <1>4, <1>5

-----------------------------------------------------------------------------
(* A step that neither chooses, reads credentials nor writes the template.  *)
BodyStays(n) ==
  templates[n] # None =>
    /\ templates'[n] # None
    /\ templates'[n].source = templates[n].source
    /\ templates'[n].destination = templates[n].destination
    /\ templates'[n].cluster = templates[n].cluster
    /\ templates'[n].useGPU = templates[n].useGPU

Written == {"creds", "post", "patch"}
(* Such a request can only be rejected, or its template is gone.            *)
Lost(i) == \/ net[i].kind \in Failing /\ faults' # 0
           \/ net[i].kind = "patch" /\ ~ Found(net[i].name)

Calm(i, e) ==
  /\ Flow(i, e) /\ \A x \in DOMAIN e : e[x].kind \notin Written
  /\ Unmount \/ UNCHANGED formVars
  /\ made' = made /\ faults <= faults'
  /\ i # 0 => (net[i].kind \in Written => Lost(i))
  /\ \A n \in 1 .. made : BodyStays(n) \/ (i # 0 /\ net[i].kind = "delete" /\ net[i].name = n)

LEMMA FaultsNat == Types => faults \in Nat
BY Facts DEF Types, FormTypes

LEMMA BodiesSame ==
  ASSUME templates' = templates
  PROVE  \A n \in 1 .. made : BodyStays(n)
BY DEF BodyStays

LEMMA WrittenFacts ==
  /\ Written \cap SubmitKinds = {} /\ "poll" \notin Written /\ "delete" \notin Written
BY DEF Written, SubmitKinds

LEMMA PollCalm ==
  ASSUME Types, PollTemplate
  PROVE  \E e : Calm(0, e)
<1> DEFINE r == RequestOf("poll", template.name)
<1>1. Flow(0, <<r>>) /\ r \in Requests
  BY PollFlow
<1>2. r.kind = "poll"
  BY DEF RequestOf
<1> HIDE DEF r
<1>3. \A x \in DOMAIN <<r>> : <<r>>[x].kind \notin Written
  BY <1>1, <1>2, OneSent, WrittenFacts
<1>4. UNCHANGED <<formVars, templates, made, faults>>
  BY DEF PollTemplate
<1>5. faults <= faults'
  BY <1>4, FaultsNat
<1> QED BY <1>1, <1>3, <1>4, <1>5, BodiesSame DEF Calm

LEMMA CloseCalm ==
  ASSUME Types, HandleClose
  PROVE  \E e : Calm(0, e)
<1>1. UNCHANGED <<templates, made, faults>> /\ Unmount
  BY DEF HandleClose
<1>2. faults <= faults'
  BY <1>1, FaultsNat
<1>3. CASE template.name = 0
  BY <1>1, <1>2, <1>3, CloseFlow, NoneSent, BodiesSame DEF Calm
<1>4. CASE template.name # 0
  <2> DEFINE r == RequestOf("delete", template.name)
  <2>1. Flow(0, <<r>>) /\ r \in Requests
    BY <1>4, CloseFlow
  <2>2. r.kind = "delete"
    BY DEF RequestOf
  <2> HIDE DEF r
  <2>3. \A x \in DOMAIN <<r>> : <<r>>[x].kind \notin Written
    BY <2>1, <2>2, OneSent, WrittenFacts
  <2> QED BY <1>1, <1>2, <2>1, <2>3, BodiesSame DEF Calm
<1> QED BY <1>3, <1>4

LEMMA SubmitCalm ==
  ASSUME Types, NEW method \in Methods, NEW required \in BOOLEAN, HandleSubmit(method, required)
  PROVE  \E e : Calm(0, e)
<1> DEFINE r == RequestOf(FirstKind(method, required), template.name)
<1>1. Flow(0, <<r>>) /\ r \in Requests /\ r.kind \in {"network", "storage", "array"}
  BY SubmitFlow
<1> HIDE DEF r
<1>2. \A x \in DOMAIN <<r>> : <<r>>[x].kind \notin Written
  BY <1>1, OneSent DEF Written
<1>3. UNCHANGED <<formVars, templates, made, faults>>
  BY DEF HandleSubmit
<1>4. faults <= faults'
  BY <1>3, FaultsNat
<1> QED BY <1>1, <1>2, <1>3, <1>4, BodiesSame DEF Calm

LEMMA DeleteCalm ==
  ASSUME Types, NEW i \in DOMAIN net, DeleteAnswer(i)
  PROVE  \E e : Calm(i, e)
<1>1. /\ net' = Without(i) /\ net[i].kind = "delete"
      /\ \A q \in (1 .. MaxTemplates) \ {net[i].name} : templates'[q] = templates[q]
      /\ UNCHANGED <<formVars, made, faults>>
  BY DeleteIs
<1>2. made \in Nat /\ made <= MaxTemplates /\ MaxTemplates \in Nat
  BY RoomBounds, Facts DEF Types, ServerTypes
<1>3. Flow(i, << >>) /\ i # 0
  BY <1>1, AnswersOnly, AnswerTypes
<1>4. \A n \in 1 .. made : BodyStays(n) \/ net[i].name = n
  <2> SUFFICES ASSUME NEW n \in 1 .. made, n # net[i].name PROVE BodyStays(n)
    OBVIOUS
  <2>1. n \in (1 .. MaxTemplates) \ {net[i].name}
    BY <1>2
  <2> QED BY <1>1, <2>1 DEF BodyStays
<1>5. faults <= faults' /\ net[i].kind \notin Written
  BY <1>1, FaultsNat, WrittenFacts
<1> QED BY <1>1, <1>3, <1>4, <1>5, NoneSent DEF Calm

LEMMA ContinueCalm ==
  ASSUME Types, NEW i \in DOMAIN net, NEW k \in SubmitKinds, Continue(i, k), net[i].kind \in SubmitKinds,
         UNCHANGED <<formVars, made, faults>>, \A n \in 1 .. made : BodyStays(n)
  PROVE  \E e : Calm(i, e)
<1> DEFINE r == [net[i] EXCEPT !.kind = k]
<1>1. /\ Flow(i, <<r>>) /\ r \in Requests
      /\ r = [kind |-> k, name |-> net[i].name, arg |-> net[i].arg, mount |-> net[i].mount]
  BY ContinueFlow
<1>2. r.kind = k
  BY <1>1
<1> HIDE DEF r
<1>3. \A x \in DOMAIN <<r>> : <<r>>[x].kind \notin Written
  BY <1>1, <1>2, OneSent, WrittenFacts
<1>4. faults <= faults' /\ net[i].kind \notin Written
  BY FaultsNat, WrittenFacts
<1> QED BY <1>1, <1>3, <1>4 DEF Calm

LEMMA MappingBody ==
  ASSUME Types, NEW i \in DOMAIN net, MappingAnswer(i)
  PROVE  \A n \in 1 .. made : BodyStays(n)
<1> SUFFICES ASSUME NEW n \in 1 .. made PROVE BodyStays(n)
  OBVIOUS
<1>1. made \in Nat /\ made <= MaxTemplates /\ MaxTemplates \in Nat
      /\ templates \in [1 .. MaxTemplates -> Template \cup {None}]
  BY RoomBounds, Facts DEF Types, ServerTypes
<1>2. n \in 1 .. MaxTemplates
  BY <1>1
<1>3. CASE n # net[i].name
  <2>1. templates'[n] = templates[n]
    BY <1>2, <1>3, MappingIs
  <2> QED BY <2>1 DEF BodyStays
<1>4. CASE n = net[i].name
  <2>1. templates'[n] = [templates[n] EXCEPT !.method = submits[net[i].mount].want.method]
    BY <1>4, MappingIs
  <2>2. templates'[n] # None /\ templates[n] # None
    BY <1>4, MappingIs
  <2>3. templates[n] \in Template
    BY <1>1, <1>2, <2>2
  <2> HIDE <1>4
  <2> QED BY <2>1, <2>2, <2>3 DEF BodyStays, Template
<1> QED BY <1>3, <1>4

LEMMA PlanCalm ==
  ASSUME Types, NEW i \in DOMAIN net, PlanAnswer(i)
  PROVE  \E e : Calm(i, e)
<1>1. /\ net[i].kind \in SubmitKinds /\ net' = Without(i) /\ UNCHANGED <<templates, made, faults>>
      /\ Unmount \/ UNCHANGED formVars
  <2>1. /\ net[i].kind \in SubmitKinds /\ net' = Without(i)
        /\ UNCHANGED <<mounts, templates, made, edits, faults>>
        /\ Unmount \/ (UNCHANGED formVars /\ mount = 0)
    BY PlanIs
  <2> QED BY <2>1
<1>2. Flow(i, << >>)
  BY <1>1, AnswersOnly, AnswerTypes
<1>3. faults <= faults' /\ net[i].kind \notin Written
  BY <1>1, FaultsNat, WrittenFacts
<1> QED BY <1>1, <1>2, <1>3, NoneSent, BodiesSame DEF Calm

LEMMA RejectedCalm ==
  ASSUME Types, NEW i \in DOMAIN net, Rejected(i)
  PROVE  \E e : Calm(i, e)
<1>1. /\ net' = Without(i) /\ UNCHANGED <<templates, made>> /\ faults <= faults'
      /\ Unmount \/ UNCHANGED formVars
      /\ \/ net[i].kind \in {"patch", "poll", "delete", "mapping"} /\ ~ Found(net[i].name)
         \/ net[i].kind \in Failing /\ faults' # 0
  BY RejectedIs
<1>2. Flow(i, << >>)
  BY <1>1, AnswersOnly, AnswerTypes
<1>3. net[i].kind \in Written => Lost(i)
  BY <1>1 DEF Lost, Written
<1> QED BY <1>1, <1>2, <1>3, NoneSent, BodiesSame DEF Calm

LEMMA SameCalm ==
  ASSUME Types, UNCHANGED <<formVars, net, made, faults>>, \A n \in 1 .. made : BodyStays(n)
  PROVE  \E e : Calm(0, e)
<1>1. Flow(0, << >>)
  BY SendsNone DEF Types, NetTypes
<1>2. faults <= faults'
  BY FaultsNat
<1> QED BY <1>1, <1>2, NoneSent DEF Calm

LEMMA ResolveCalm ==
  ASSUME Types, NEW n \in DOMAIN templates, Resolve(n)
  PROVE  \E e : Calm(0, e)
<1>1. UNCHANGED <<formVars, net, made, faults>>
  BY ResolveIs
<1>2. made \in Nat /\ made <= MaxTemplates /\ MaxTemplates \in Nat
  BY RoomBounds, Facts DEF Types, ServerTypes
<1>3. \A q \in 1 .. made : BodyStays(q)
  <2> SUFFICES ASSUME NEW q \in 1 .. made PROVE BodyStays(q)
    OBVIOUS
  <2>1. q \in 1 .. MaxTemplates
    BY <1>2
  <2> QED BY <2>1, ResolveIs DEF BodyStays
<1> QED BY <1>1, <1>3, SameCalm

(* The steps that are not calm: the drawer opens, a choice is made, the     *)
(* credentials or the template arrive.                                      *)
Arrives(i) == PostAnswer(i) \/ PatchAnswer(i) \/ PollAnswer(i)
Lively ==
  \/ OpenForm \/ UseGPUChange
  \/ \E s \in Sides : \E c \in Clusters[s] : ClusterChange(s, c)
  \/ \E i \in DOMAIN net : Deliverable(i) /\ (CredsAnswer(i) \/ Arrives(i))

LEMMA AnswerCalm ==
  ASSUME Types, NEW i \in DOMAIN net, Answer(i)
  PROVE  Lively \/ \E e : Calm(i, e)
<1> USE DEF Answer
<1>1. CASE CredsAnswer(i) \/ PostAnswer(i) \/ PatchAnswer(i) \/ PollAnswer(i)
  BY <1>1 DEF Lively, Arrives
<1>2. CASE DeleteAnswer(i)
  BY <1>2, DeleteCalm
<1>3. CASE NetworkAnswer(i) \/ StorageAnswer(i)
  <2>1. PICK k \in {"storage", "array", "mapping"} : Continue(i, k)
    BY <1>3, NetworkTypes
  <2>2. /\ UNCHANGED <<formVars, templates, made, faults>> /\ k \in SubmitKinds
        /\ net[i].kind \in SubmitKinds
    BY <1>3, NetworkTypes, KindFacts
  <2>3. \A n \in 1 .. made : BodyStays(n)
    BY <2>2, BodiesSame
  <2> QED BY <2>1, <2>2, <2>3, ContinueCalm
<1>4. CASE MappingAnswer(i)
  <2>1. /\ Continue(i, "plan") /\ UNCHANGED <<formVars, made, faults>> /\ "plan" \in SubmitKinds
        /\ net[i].kind \in SubmitKinds
    <3>1. net[i].kind = "mapping" /\ Continue(i, "plan") /\ UNCHANGED <<formVars, made, faults>>
      BY <1>4, MappingIs
    <3> QED BY <3>1, KindFacts
  <2>2. \A n \in 1 .. made : BodyStays(n)
    BY <1>4, MappingBody
  <2> QED BY <2>1, <2>2, ContinueCalm
<1>5. CASE PlanAnswer(i)
  BY <1>5, PlanCalm
<1>6. CASE Rejected(i)
  BY <1>6, RejectedCalm
<1> QED BY <1>1, <1>2, <1>3, <1>4, <1>5, <1>6

LEMMA CalmOrLively ==
  ASSUME Types, [Next]_vars
  PROVE  Lively \/ \E i \in {0} \cup DOMAIN net : \E e : Calm(i, e)
<1>1. CASE OpenForm \/ UseGPUChange \/ \E s \in Sides : \E c \in Clusters[s] : ClusterChange(s, c)
  BY <1>1 DEF Lively
<1>2. CASE PollTemplate
  BY <1>2, PollCalm
<1>3. CASE HandleClose
  BY <1>3, CloseCalm
<1>4. ASSUME NEW method \in Methods, NEW required \in BOOLEAN, HandleSubmit(method, required)
      PROVE  \E e : Calm(0, e)
  BY <1>4, SubmitCalm
<1>5. ASSUME NEW i \in DOMAIN net, Answer(i) PROVE Lively \/ \E e : Calm(i, e)
  BY <1>5, AnswerCalm
<1>6. ASSUME NEW n \in DOMAIN templates, Resolve(n) PROVE \E e : Calm(0, e)
  BY <1>6, ResolveCalm
<1>7. CASE Finished \/ UNCHANGED vars
  <2>1. UNCHANGED <<formVars, net, made, faults, templates>>
    BY <1>7 DEF Finished, vars
  <2> QED BY <2>1, BodiesSame, SameCalm
<1> QED BY <1>1, <1>2, <1>3, <1>4, <1>5, <1>6, <1>7 DEF Next

-----------------------------------------------------------------------------
(* The credentials of a side are those of its cluster, or will be.          *)
Trusted(K) == faults = 0 \/ Failing \cap K = {}
ReadsBy(m, s) == {r \in Requests : r.kind = "creds" /\ r.mount = m /\ r.arg.side = s}
ReadsFor(c) == {r \in Requests : r.arg.cred = CredOf[c]}
ReadsRight(m, s) ==
  /\ params[s] = None => creds[s] = None /\ NoneIn(ReadsBy(m, s))
  /\ \A c \in Clusters[s] : params[s] = c =>
       /\ LastIn(ReadsBy(m, s), ReadsFor(c))
       /\ NoneIn(ReadsBy(m, s)) => creds[s] = CredOf[c]
CredsFollow == Trusted({"creds"}) => \A m \in Mounts, s \in Sides : m = mount => ReadsRight(m, s)

LEMMA TrustedBefore ==
  ASSUME Types, Types', faults <= faults', NEW K, Trusted(K)'
  PROVE  Trusted(K)
BY FaultsNat, Facts DEF Trusted, Types, FormTypes

LEMMA ReadsStay ==
  ASSUME Types, NEW i \in {0} \cup DOMAIN net, NEW e, Flow(i, e), NEW m \in Mounts, NEW s \in Sides,
         ReadsRight(m, s), params'[s] = params[s], creds'[s] = creds[s],
         i # 0 => net[i] \notin ReadsBy(m, s), \A x \in DOMAIN e : e[x] \notin ReadsBy(m, s)
  PROVE  ReadsRight(m, s)'
<1>1. 0 \notin DOMAIN net
  BY LenProperties DEF Types, NetTypes
<1>2. NoneIn(ReadsBy(m, s))' <=> NoneIn(ReadsBy(m, s))
  BY <1>1, LastStays
<1>3. \A c \in Clusters[s] : LastIn(ReadsBy(m, s), ReadsFor(c)) => LastIn(ReadsBy(m, s), ReadsFor(c))'
  BY <1>1, LastStays
<1>4. params[s] = None => creds[s] = None /\ NoneIn(ReadsBy(m, s))
  BY DEF ReadsRight
<1>5. ASSUME NEW c \in Clusters[s], params[s] = c
      PROVE  /\ LastIn(ReadsBy(m, s), ReadsFor(c))'
             /\ NoneIn(ReadsBy(m, s))' => creds'[s] = CredOf[c]
  <2>1. /\ LastIn(ReadsBy(m, s), ReadsFor(c))
        /\ NoneIn(ReadsBy(m, s)) => creds[s] = CredOf[c]
    BY <1>5 DEF ReadsRight
  <2> QED BY <1>2, <1>3, <2>1
<1> QED BY <1>2, <1>4, <1>5 DEF ReadsRight

(* A step that sends no read and answers none of the open drawer.           *)
LEMMA ReadsQuiet ==
  ASSUME Types, Types', CredsFollow, NEW i \in {0} \cup DOMAIN net, NEW e, Flow(i, e),
         \A x \in DOMAIN e : e[x].kind # "creds",
         i # 0 => net[i].kind # "creds" \/ net[i].mount # mount \/ ~ Trusted({"creds"})',
         mount' = 0 \/ UNCHANGED <<mount, params, creds>>, faults <= faults'
  PROVE  CredsFollow'
<1> SUFFICES ASSUME Trusted({"creds"})', NEW m \in Mounts, NEW s \in Sides, m = mount'
             PROVE  ReadsRight(m, s)'
  BY DEF CredsFollow
<1>1. m # 0 /\ mount' = mount /\ params' = params /\ creds' = creds
  BY DEF Mounts
<1>2. ReadsRight(m, s)
  BY <1>1, TrustedBefore DEF CredsFollow
<1>3. \A x \in DOMAIN e : e[x] \notin ReadsBy(m, s)
  BY DEF ReadsBy
<1>4. i # 0 => net[i] \notin ReadsBy(m, s)
  BY <1>1 DEF ReadsBy
<1> QED BY <1>1, <1>2, <1>3, <1>4, ReadsStay

LEMMA CalmReads ==
  ASSUME Types, Types', CredsFollow, NEW i \in {0} \cup DOMAIN net, NEW e, Calm(i, e)
  PROVE  CredsFollow'
<1>1. /\ Flow(i, e) /\ faults <= faults' /\ \A x \in DOMAIN e : e[x].kind # "creds"
      /\ mount' = 0 \/ UNCHANGED <<mount, params, creds>>
  BY DEF Calm, Unmount, formVars, Written
<1>2. i # 0 => net[i].kind # "creds" \/ ~ Trusted({"creds"})'
  <2> SUFFICES ASSUME i # 0, net[i].kind = "creds", Trusted({"creds"})' PROVE FALSE
    OBVIOUS
  <2>1. Lost(i)
    BY DEF Calm, Written
  <2>2. net[i].kind \in Failing /\ faults' # 0
    BY <2>1 DEF Lost
  <2> QED BY <2>2 DEF Trusted
<1> QED BY <1>1, <1>2, ReadsQuiet

LEMMA GPUReads ==
  ASSUME Types, Types', CredsFollow, UseGPUChange
  PROVE  CredsFollow'
<1>1. /\ UNCHANGED <<mount, creds, faults>> /\ faults <= faults'
      /\ \A s \in Sides : params'[s] = params[s]
  <2>1. UNCHANGED <<mount, creds, faults>> /\ params' = [params EXCEPT !.useGPU = ~ @]
    BY DEF UseGPUChange
  <2>2. params \in ParamsSet
    BY DEF Types, FormTypes, ParamsSet
  <2>3. params'.source = params.source /\ params'.target = params.target
    BY <2>1, <2>2 DEF ParamsSet
  <2> QED BY <2>1, <2>3, FaultsNat DEF Sides
<1>2. PICK e : /\ Flow(0, e)
               /\ \A x \in DOMAIN e : e[x] = Synced(params', creds, template.name) /\ Validated(creds)
  BY GPUFlow
<1>3. \A x \in DOMAIN e : e[x].kind # "creds"
  BY <1>2 DEF Synced, Request
<1> SUFFICES ASSUME Trusted({"creds"})', NEW m \in Mounts, NEW s \in Sides, m = mount
             PROVE  ReadsRight(m, s)'
  BY <1>1 DEF CredsFollow
<1>4. ReadsRight(m, s)
  BY <1>1, TrustedBefore DEF CredsFollow
<1>5. \A x \in DOMAIN e : e[x] \notin ReadsBy(m, s)
  BY <1>3 DEF ReadsBy
<1> QED BY <1>1, <1>2, <1>4, <1>5, ReadsStay

LEMMA OpenReads ==
  ASSUME Types, Types', CredsFollow, OpenForm
  PROVE  CredsFollow'
<1>1. /\ mount' = mounts + 1 /\ params' = NoParams /\ creds' = NoCreds /\ net' = net
  BY DEF OpenForm
<1>2. mounts \in Nat
  BY NumberFacts
<1> SUFFICES ASSUME NEW m \in Mounts, NEW s \in Sides, m = mounts + 1
             PROVE  ReadsRight(m, s)'
  BY <1>1 DEF CredsFollow
<1>3. params'[s] = None /\ creds'[s] = None /\ None \notin Clusters[s]
  BY <1>1, Facts DEF NoParams, NoCreds, Sides
<1>4. \A k \in DOMAIN net : net[k].mount # m
  BY <1>2, AnswerTypes
<1>5. NoneIn(ReadsBy(m, s))'
  BY <1>1, <1>4 DEF NoneIn, ReadsBy
<1> QED BY <1>3, <1>5 DEF ReadsRight

LEMMA ChangeReads ==
  ASSUME Types, Types', CredsFollow, NEW t \in Sides, NEW d \in Clusters[t], ClusterChange(t, d)
  PROVE  CredsFollow'
<1>1. /\ UNCHANGED <<mount, faults>> /\ faults <= faults' /\ mount # 0 /\ net \in Seq(Requests)
      /\ params' = [params EXCEPT ![t] = d] /\ creds' = [creds EXCEPT ![t] = None]
  <2>1. /\ UNCHANGED <<mount, faults>> /\ mount # 0
        /\ params' = [params EXCEPT ![t] = d] /\ creds' = [creds EXCEPT ![t] = None]
    BY DEF ClusterChange
  <2>2. net \in Seq(Requests)
    BY DEF Types, NetTypes
  <2>3. faults <= faults'
    BY <2>1, FaultsNat
  <2> QED BY <2>1, <2>2, <2>3
<1>2. params'[t] = d /\ \A s \in Sides \ {t} : params'[s] = params[s] /\ creds'[s] = creds[s]
  <2>1. creds \in CredsSet
    BY DEF Types, FormTypes, CredsSet
  <2>2. \A s \in Sides \ {t} : creds'[s] = creds[s]
    BY <1>1, <2>1 DEF CredsSet
  <2>3. params'[t] = d /\ \A s \in Sides \ {t} : params'[s] = params[s]
    <3>1. params \in ParamsSet
      BY DEF Types, FormTypes, ParamsSet
    <3>2. CASE t = "source"
      BY <1>1, <3>1, <3>2 DEF ParamsSet, Sides
    <3>3. CASE t = "target"
      BY <1>1, <3>1, <3>3 DEF ParamsSet, Sides
    <3> QED BY <3>2, <3>3 DEF Sides
  <2> QED BY <2>2, <2>3
<1>3. PICK e : /\ Flow(0, e) /\ DOMAIN e \subseteq {1, 2} /\ 1 \in DOMAIN e
               /\ e[1] = ReadOf(t, d) /\ ReadOf(t, d) \in Requests
               /\ 2 \in DOMAIN e => e[2] = Synced(params', creds, template.name) /\ Validated(creds)
  BY ChangeFlow
<1>4. 2 \in DOMAIN e => e[2].kind # "creds"
  BY <1>3 DEF Synced, Request
<1> SUFFICES ASSUME Trusted({"creds"})', NEW m \in Mounts, NEW s \in Sides, m = mount
             PROVE  ReadsRight(m, s)'
  BY <1>1 DEF CredsFollow
<1>5. CASE s = t
  <2>1. e[1] \in ReadsBy(m, t) /\ e[1] \in ReadsFor(d)
    BY <1>3 DEF ReadOf, ReadsBy, ReadsFor
  <2>2. \A y \in DOMAIN e : e[y] \in ReadsBy(m, t) => y = 1
    BY <1>3, <1>4 DEF ReadsBy
  <2>3. LastIn(ReadsBy(m, t), ReadsFor(d))' /\ ~ NoneIn(ReadsBy(m, t))'
    BY <1>1, <1>3, <2>1, <2>2, LastSent
  <2>4. d # None
    BY Facts
  <2> QED BY <1>2, <1>5, <2>3, <2>4 DEF ReadsRight
<1>6. CASE s # t
  <2>1. ReadsRight(m, s)
    BY <1>1, TrustedBefore DEF CredsFollow
  <2>2. e[1] \notin ReadsBy(m, s)
    BY <1>3, <1>6 DEF ReadOf, ReadsBy
  <2>3. \A x \in DOMAIN e : e[x] \notin ReadsBy(m, s)
    BY <1>3, <1>4, <2>2 DEF ReadsBy
  <2>4. params'[s] = params[s] /\ creds'[s] = creds[s]
    BY <1>2, <1>6
  <2> QED BY <1>3, <2>1, <2>3, <2>4, ReadsStay
<1> QED BY <1>5, <1>6

LEMMA Channels ==
  ASSUME NEW r
  PROVE  /\ r.kind = "creds" => Channel(r) = r.arg.side
         /\ r.kind \in {"post", "patch", "poll", "delete", "mapping"} => Channel(r) = "template"
BY DEF Channel

(* Reads of one side are answered in order.                                 *)
LEMMA CredsReads ==
  ASSUME Types, Types', CredsFollow, InOrder = TRUE, NEW i \in DOMAIN net, Deliverable(i), CredsAnswer(i)
  PROVE  CredsFollow'
<1>1. UNCHANGED <<mount, params, faults>> /\ faults <= faults' /\ net \in Seq(Requests)
  BY FaultsNat DEF CredsAnswer, Types, NetTypes
<1>2. CASE net[i].mount # mount
  <2>1. Flow(i, << >>) /\ UNCHANGED creds
    BY <1>2, CredsFlow
  <2> QED BY <1>1, <1>2, <2>1, NoneSent, ReadsQuiet
<1>3. CASE net[i].mount = mount
  <2>1. /\ net[i].kind = "creds" /\ net[i].arg \in Reads
        /\ creds' = [creds EXCEPT ![net[i].arg.side] = net[i].arg.cred]
    BY <1>3, CredsFlow
  <2>2. PICK e : /\ Flow(i, e)
                 /\ \A x \in DOMAIN e : e[x] = Synced(params, creds', template.name) /\ Validated(creds')
    BY <1>3, CredsFlow
  <2>3. \A x \in DOMAIN e : e[x].kind # "creds"
    BY <2>2 DEF Synced, Request
  <2> SUFFICES ASSUME Trusted({"creds"})', NEW m \in Mounts, NEW s \in Sides, m = mount
               PROVE  ReadsRight(m, s)'
    BY <1>1 DEF CredsFollow
  <2>4. ReadsRight(m, s)
    BY <1>1, TrustedBefore DEF CredsFollow
  <2>5. \A x \in DOMAIN e : e[x] \notin ReadsBy(m, s)
    BY <2>3 DEF ReadsBy
  <2>6. creds \in CredsSet /\ net[i].arg.side \in Sides
    BY <2>1 DEF Types, FormTypes, CredsSet, Reads
  <2>7. CASE s # net[i].arg.side
    <3>1. creds'[s] = creds[s]
      BY <2>1, <2>6, <2>7 DEF CredsSet
    <3>2. net[i] \notin ReadsBy(m, s)
      BY <2>7 DEF ReadsBy
    <3> QED BY <1>1, <2>2, <2>4, <2>5, <3>1, <3>2, ReadsStay
  <2>8. CASE s = net[i].arg.side
    <3>1. net[i] \in ReadsBy(m, s) /\ creds'[s] = net[i].arg.cred
      BY <1>3, <2>1, <2>6, <2>8, AnswerTypes DEF ReadsBy, CredsSet
    <3>2. \A j \in 1 .. i - 1 : net[j] \notin ReadsBy(m, s)
      <4> SUFFICES ASSUME NEW j \in 1 .. i - 1, net[j] \in ReadsBy(m, s) PROVE FALSE
        OBVIOUS
      <4>1. net[j].kind = "creds" /\ net[j].arg.side = s
        BY DEF ReadsBy
      <4>2. Channel(net[j]) # Channel(net[i])
        BY DEF Deliverable
      <4> QED BY <2>1, <2>8, <4>1, <4>2, Channels
    <3>3. params[s] # None
      BY <2>4, <3>1 DEF ReadsRight, NoneIn
    <3>4. ASSUME NEW c \in Clusters[s], params[s] = c
          PROVE  /\ LastIn(ReadsBy(m, s), ReadsFor(c))'
                 /\ NoneIn(ReadsBy(m, s))' => creds'[s] = CredOf[c]
      <4>1. LastIn(ReadsBy(m, s), ReadsFor(c))
        BY <2>4, <3>4 DEF ReadsRight
      <4>2. LastIn(ReadsBy(m, s), ReadsFor(c))' /\ (NoneIn(ReadsBy(m, s))' => net[i] \in ReadsFor(c))
        BY <1>1, <2>2, <2>5, <3>1, <3>2, <4>1, LastAnswered
      <4> QED BY <3>1, <4>2 DEF ReadsFor
    <3> QED BY <1>1, <3>3, <3>4 DEF ReadsRight
  <2> QED BY <2>7, <2>8
<1> QED BY <1>2, <1>3

(* What the answers that bring a template have in common.                   *)
LEMMA ArrivesIs ==
  ASSUME Types, NEW i \in DOMAIN net, Arrives(i)
  PROVE  /\ net[i].kind \in {"post", "patch", "poll"} /\ UNCHANGED <<mount, mounts, params, creds, submits, plans, faults>>
         /\ \E n \in 1 .. made' : TemplateArrives(i, n) /\ (n = net[i].name \/ n = made + 1)
         /\ made \in Nat /\ made' \in Nat
<1>1. made \in Nat
  BY DEF Types, ServerTypes
<1>2. CASE PostAnswer(i)
  <2>1. TemplateArrives(i, NewName) /\ NewName = made + 1 /\ made' = NewName
    BY <1>2, PostIs
  <2>2. net[i].kind = "post" /\ UNCHANGED <<mount, mounts, params, creds, submits, plans, faults>>
    BY <1>2, PostIs
  <2> QED BY <1>1, <2>1, <2>2
<1>3. CASE PatchAnswer(i) \/ PollAnswer(i)
  <2>1. /\ TemplateArrives(i, net[i].name) /\ Found(net[i].name) /\ made' = made
        /\ net[i].kind \in {"patch", "poll"}
        /\ UNCHANGED <<mount, mounts, params, creds, submits, plans, faults>>
    BY <1>3 DEF PatchAnswer, PollAnswer
  <2>2. net[i].name \in 1 .. made
    BY <2>1, AnswerTypes DEF Found
  <2> QED BY <1>1, <2>1, <2>2
<1> QED BY <1>2, <1>3 DEF Arrives

LEMMA ArrivesReads ==
  ASSUME Types, Types', CredsFollow, NEW i \in DOMAIN net, Arrives(i)
  PROVE  CredsFollow'
<1>1. PICK n \in 1 .. made' : TemplateArrives(i, n)
  BY ArrivesIs
<1>2. /\ net[i].kind # "creds" /\ UNCHANGED <<mount, params, creds>> /\ faults <= faults' /\ n \in Nat
  BY ArrivesIs, FaultsNat
<1>3. PICK e : Flow(i, e) /\ \A x \in DOMAIN e : e[x].kind # "creds"
  <2>1. CASE net[i].mount # mount
    BY <1>1, <1>2, <2>1, ArrivesFlow, NoneSent
  <2>2. CASE net[i].mount = mount
    <3>1. PICK e : Flow(i, e) /\ \A x \in DOMAIN e : e[x] = Synced(params, creds, n)
      BY <1>1, <1>2, <2>2, ArrivesFlow
    <3> QED BY <3>1 DEF Synced, Request
  <2> QED BY <2>1, <2>2
<1> QED BY <1>2, <1>3, ReadsQuiet

LEMMA ReadsNext ==
  InOrder = TRUE /\ Types /\ Types' /\ CredsFollow /\ [Next]_vars => CredsFollow'
<1> SUFFICES ASSUME InOrder = TRUE, Types, Types', CredsFollow, [Next]_vars PROVE CredsFollow'
  OBVIOUS
<1>1. CASE \E i \in {0} \cup DOMAIN net : \E e : Calm(i, e)
  BY <1>1, CalmReads
<1>2. CASE Lively
  BY <1>2, OpenReads, GPUReads, ChangeReads, CredsReads, ArrivesReads DEF Lively
<1> QED BY <1>1, <1>2, CalmOrLively

LEMMA ReadsInit == Init => CredsFollow
<1> SUFFICES ASSUME Init, NEW m \in Mounts PROVE m # mount
  BY DEF CredsFollow
<1> QED BY DEF Init, Mounts

LEMMA ReadsHold == ASSUME InOrder = TRUE PROVE Spec => []CredsFollow
<1>1. Init => CredsFollow
  BY ReadsInit
<1>2. Types /\ Types' /\ CredsFollow /\ [Next]_vars => CredsFollow'
  BY ReadsNext
<1> QED BY <1>1, <1>2, TypesHold, PTL DEF Spec

-----------------------------------------------------------------------------
(* The template of the open form says what was chosen, or will.             *)
PatchesTo(n) == {r \in Requests : r.kind = "patch" /\ r.name = n}
PatchesWith(b) == {r \in Requests : r.arg = b}
Ends(n, b) == LastIn(PatchesTo(n), PatchesWith(b)) /\ (NoneIn(PatchesTo(n)) => Says(n, b))
Posts(m) == {r \in Requests : r.kind = "post" /\ r.mount = m}
TemplateFollows ==
  Validated(creds) => \A m \in Mounts : m = mount =>
    /\ Trusted({"patch"}) => \A n \in 1 .. made, b \in Bodies :
         n = template.name /\ b = Body(params, creds) => Ends(n, b)
    /\ Trusted({"post"}) /\ template.name = 0 => ~ NoneIn(Posts(m))

(* What an effect sent: a post, or a patch, if the form's body changed.     *)
LEMMA SentFollows ==
  ASSUME Types, Types', NEW i \in {0} \cup DOMAIN net, NEW e, Flow(i, e), mount' = mount, mount # 0,
         DOMAIN e \subseteq {1}, 1 \in DOMAIN e,
         e[1] = Synced(params', creds', template'.name), Validated(creds')
  PROVE  TemplateFollows'
<1>1. /\ net \in Seq(Requests) /\ params' \in ParamsSet /\ creds' \in CredsSet /\ template'.name \in Nat
      /\ FormTypes /\ mount \in Nat
  <2>1. net \in Seq(Requests) /\ FormTypes
    BY DEF Types, NetTypes
  <2>2. FormTypes' /\ made' \in Nat
    BY DEF Types, ServerTypes
  <2>3. mounts \in Nat /\ mount \in {0, mounts}
    BY <2>1, Facts, NumberFacts DEF FormTypes
  <2>4. params' \in ParamsSet /\ creds' \in CredsSet
    BY <2>2 DEF FormTypes, ParamsSet, CredsSet
  <2>5. template' \in [name : 0 .. made', ready : BOOLEAN]
    BY <2>2 DEF FormTypes
  <2>6. template'.name \in 0 .. made'
    BY <2>5
  <2>7. template'.name \in Nat
    BY <2>2, <2>6
  <2> QED BY <2>1, <2>3, <2>4, <2>7
<1>2. /\ e[1] \in Requests /\ Body(params', creds') \in Bodies
      /\ e[1] = [kind |-> IF template'.name = 0 THEN "post" ELSE "patch", name |-> template'.name,
                 arg |-> Body(params', creds'), mount |-> mount]
  BY <1>1, SyncedType
<1>5. DOMAIN e \subseteq {1, 2} /\ \A y \in DOMAIN e : y = 1
  OBVIOUS
<1> SUFFICES ASSUME NEW m \in Mounts, m = mount
             PROVE  /\ \A n \in 1 .. made', b \in Bodies :
                         n = template'.name /\ b = Body(params', creds') => Ends(n, b)'
                    /\ template'.name = 0 => ~ NoneIn(Posts(m))'
  BY DEF TemplateFollows
<1>3. ASSUME NEW n \in 1 .. made', NEW b \in Bodies, n = template'.name, b = Body(params', creds')
      PROVE  Ends(n, b)'
  <2>1. n # 0
    BY DEF Types, ServerTypes
  <2>2. e[1] \in PatchesTo(n) /\ e[1] \in PatchesWith(b)
    BY <1>2, <1>3, <2>1 DEF PatchesTo, PatchesWith
  <2>3. LastIn(PatchesTo(n), PatchesWith(b))' /\ ~ NoneIn(PatchesTo(n))'
    BY <1>1, <1>5, <2>2, LastSent
  <2> QED BY <2>3 DEF Ends
<1>4. ASSUME template'.name = 0
      PROVE  ~ NoneIn(Posts(m))'
  <2>1. e[1] \in Posts(m)
    BY <1>2, <1>4 DEF Posts
  <2>2. LastIn(Posts(m), Posts(m))' /\ ~ NoneIn(Posts(m))'
    BY <1>1, <1>5, <2>1, LastSent
  <2> QED BY <2>2
<1> QED BY <1>3, <1>4

(* A step that does not change what the form wants.                         *)
LEMMA FollowsStay ==
  ASSUME Types, Types', TemplateFollows, NEW i \in {0} \cup DOMAIN net, NEW e, Flow(i, e),
         \A x \in DOMAIN e : e[x].kind \notin {"patch", "post"},
         UNCHANGED <<mount, params, creds>>, template'.name = template.name, made <= made',
         mount # 0 => BodyStays(template.name) \/ template.name = 0,
         faults <= faults',
         i # 0 => (net[i].kind = "patch" => net[i].name # template.name \/ ~ Trusted({"patch"})'),
         i # 0 => (net[i].kind = "post" => net[i].mount # mount \/ ~ Trusted({"post"})')
  PROVE  TemplateFollows'
<1>1. 0 \notin DOMAIN net
  BY LenProperties DEF Types, NetTypes
<1> SUFFICES ASSUME Validated(creds), NEW m \in Mounts, m = mount
             PROVE  /\ Trusted({"patch"})' => \A n \in 1 .. made', b \in Bodies :
                         n = template.name /\ b = Body(params, creds) => Ends(n, b)'
                    /\ Trusted({"post"})' /\ template.name = 0 => ~ NoneIn(Posts(m))'
  BY DEF TemplateFollows, Validated, Body
<1>2. ASSUME Trusted({"patch"})', NEW n \in 1 .. made', NEW b \in Bodies,
             n = template.name, b = Body(params, creds)
      PROVE  Ends(n, b)'
  <2>1. n \in 1 .. made
    <3>1. template.name \in 0 .. made
      BY DEF Types, FormTypes
    <3>3. made \in Nat
      BY DEF Types, ServerTypes
    <3>2. n # 0
      BY DEF Types, ServerTypes
    <3> QED BY <1>2, <3>1, <3>2, <3>3
  <2>2. Trusted({"patch"})
    BY <1>2, TrustedBefore
  <2>3. LastIn(PatchesTo(n), PatchesWith(b)) /\ (NoneIn(PatchesTo(n)) => Says(n, b))
    BY <1>2, <2>1, <2>2 DEF TemplateFollows, Ends
  <2>4. i # 0 => net[i] \notin PatchesTo(n)
    BY <1>2 DEF PatchesTo
  <2>5. \A x \in DOMAIN e : e[x] \notin PatchesTo(n)
    BY DEF PatchesTo
  <2>6. LastIn(PatchesTo(n), PatchesWith(b))' /\ (NoneIn(PatchesTo(n))' <=> NoneIn(PatchesTo(n)))
    BY <1>1, <2>3, <2>4, <2>5, LastStays
  <2>7. Says(n, b) => Says(n, b)'
    <3>1. m # 0 /\ n # 0
      BY <2>1, NumberFacts DEF Mounts
    <3>2. BodyStays(n)
      BY <1>2, <3>1
    <3> QED BY <3>2 DEF Says, BodyStays
  <2> QED BY <2>3, <2>6, <2>7 DEF Ends
<1>3. ASSUME Trusted({"post"})', template.name = 0
      PROVE  ~ NoneIn(Posts(m))'
  <2>1. Trusted({"post"})
    BY <1>3, TrustedBefore
  <2>2. ~ NoneIn(Posts(m))
    BY <1>3, <2>1 DEF TemplateFollows
  <2>3. i # 0 => net[i] \notin Posts(m)
    BY <1>3 DEF Posts
  <2>4. \A x \in DOMAIN e : e[x] \notin Posts(m)
    BY DEF Posts
  <2>5. NoneIn(Posts(m))' <=> NoneIn(Posts(m))
    BY <1>1, <2>3, <2>4, LastStays
  <2> QED BY <2>2, <2>5
<1> QED BY <1>2, <1>3

LEMMA NoneOpen ==
  ASSUME mount' = 0 \/ ~ Validated(creds')
  PROVE  TemplateFollows'
BY DEF TemplateFollows, Mounts, Validated

LEMMA HasTemplate ==
  ASSUME Types, mount # 0, template.name # 0
  PROVE  template.name \in 1 .. made /\ mount \in Mounts /\ Owns(mount, template.name)
<1>1. template.name \in 0 .. made
  BY DEF Types, FormTypes
<1>2. made \in Nat
  BY DEF Types, ServerTypes
<1>3. mount \in Mounts /\ Owns(mount, template.name)
  BY NumberFacts
<1> QED BY <1>1, <1>2, <1>3

LEMMA CalmFollows ==
  ASSUME Types, Types', Names, TemplateFollows, NEW i \in {0} \cup DOMAIN net, NEW e, Calm(i, e)
  PROVE  TemplateFollows'
<1>1. /\ Flow(i, e) /\ faults <= faults' /\ made' = made /\ made \in Nat
      /\ \A x \in DOMAIN e : e[x].kind \notin {"patch", "post"}
  BY NumberFacts DEF Calm, Written
<1>2. CASE Unmount
  BY <1>2, NoneOpen DEF Unmount
<1>3. CASE UNCHANGED formVars
  <2>1. UNCHANGED <<mount, params, creds>> /\ template'.name = template.name /\ made <= made'
    BY <1>1, <1>3 DEF formVars
  <2>2. mount # 0 => BodyStays(template.name) \/ template.name = 0
    <3> SUFFICES ASSUME mount # 0, template.name # 0, ~ BodyStays(template.name) PROVE FALSE
      OBVIOUS
    <3>1. template.name \in 1 .. made /\ mount \in Mounts /\ Owns(mount, template.name)
      BY HasTemplate
    <3>2. i # 0 /\ net[i].kind = "delete" /\ net[i].name = template.name
      BY <3>1 DEF Calm
    <3>3. i \in DOMAIN net
      BY <3>2
    <3>4. net[i].mount # mount /\ net[i].mount \in Mounts /\ Owns(net[i].mount, template.name)
      BY <3>2, <3>3, AnswerTypes DEF Names, DeletesClosed, Owns
    <3> QED BY <3>1, <3>4 DEF Names, OneOwner
  <2>3. i # 0 => (net[i].kind = "post" => net[i].mount # mount \/ ~ Trusted({"post"})')
    <3> SUFFICES ASSUME i # 0, net[i].kind = "post" PROVE ~ Trusted({"post"})'
      OBVIOUS
    <3>1. net[i].kind \in Failing /\ faults' # 0
      BY DEF Calm, Written, Lost
    <3> QED BY <3>1 DEF Trusted
  <2>4. i # 0 => (net[i].kind = "patch" => net[i].name # template.name \/ ~ Trusted({"patch"})')
    <3> SUFFICES ASSUME i \in DOMAIN net, i # 0, net[i].kind = "patch", net[i].name = template.name
                 PROVE  ~ Trusted({"patch"})'
      OBVIOUS
    <3>1. net[i].name # 0
      BY DEF Types, NetTypes, RequestOK
    <3>2. template.name \in 1 .. made /\ mount \in Mounts /\ Owns(mount, template.name)
      <4>1. mount # 0
        BY <3>1 DEF Types, FormTypes
      <4> QED BY <3>1, <4>1, HasTemplate
    <3>3. Found(net[i].name)
      BY <3>1, <3>2 DEF Names, Mine, Found
    <3>4. net[i].kind \in Failing /\ faults' # 0
      BY <3>3 DEF Calm, Written, Lost
    <3> QED BY <3>4 DEF Trusted
  <2> QED BY <1>1, <2>1, <2>2, <2>3, <2>4, FollowsStay
<1> QED BY <1>2, <1>3 DEF Calm

LEMMA OpenFollows ==
  ASSUME Types, OpenForm
  PROVE  TemplateFollows'
<1>1. creds' = NoCreds
  BY DEF OpenForm
<1>2. ~ Validated(creds')
  BY <1>1, Facts DEF NoCreds, Validated, Sides
<1> QED BY <1>2, NoneOpen

LEMMA ChangeFollows ==
  ASSUME Types, NEW s \in Sides, NEW c \in Clusters[s], ClusterChange(s, c)
  PROVE  TemplateFollows'
<1>1. creds \in CredsSet /\ creds' = [creds EXCEPT ![s] = None]
  BY DEF ClusterChange, Types, FormTypes, CredsSet
<1>2. creds'[s] = None
  BY <1>1 DEF CredsSet
<1>3. ~ Validated(creds')
  BY <1>2, Facts DEF Validated
<1> QED BY <1>3, NoneOpen

(* The form's choice or credentials changed: the effect sends what it wants.*)
LEMMA SingleSent == ASSUME NEW r PROVE DOMAIN <<r>> = {1} /\ <<r>>[1] = r
OBVIOUS

LEMMA SyncSendsOne ==
  ASSUME NEW pa, NEW cr, NEW n, NEW pa2, NEW cr2, NEW n2,
         SyncDeps(pa, cr, n) # SyncDeps(pa2, cr2, n2), Validated(cr2)
  PROVE  /\ DOMAIN SyncTemplate(pa, cr, n, pa2, cr2, n2) = {1}
         /\ SyncTemplate(pa, cr, n, pa2, cr2, n2)[1] = Synced(pa2, cr2, n2)
<1>1. SyncTemplate(pa, cr, n, pa2, cr2, n2) = <<Synced(pa2, cr2, n2)>>
  BY SyncSends
<1> QED BY <1>1, SingleSent

LEMMA GPUFollows ==
  ASSUME Types, Types', UseGPUChange
  PROVE  TemplateFollows'
<1>1. UNCHANGED <<mount, creds, template>> /\ mount # 0 /\ params' = [params EXCEPT !.useGPU = ~ @]
  BY DEF UseGPUChange
<1>2. params.useGPU # params'.useGPU
  <2>1. params \in ParamsSet
    BY DEF Types, FormTypes, ParamsSet
  <2>2. params'.useGPU = ~ params.useGPU
    BY <1>1, <2>1 DEF ParamsSet
  <2> QED BY <2>2
<1>3. CASE ~ Validated(creds')
  BY <1>3, NoneOpen
<1>4. CASE Validated(creds')
  <2>1. PICK e : /\ Flow(0, e) /\ DOMAIN e \subseteq {1}
                 /\ e = SyncTemplate(params, creds, template.name, params', creds, template.name)
    BY GPUFlow
  <2>2. SyncDeps(params, creds, template.name) # SyncDeps(params', creds, template.name)
    BY <1>2 DEF SyncDeps
  <2>3. Validated(creds)
    BY <1>1, <1>4
  <2>4. 1 \in DOMAIN e /\ e[1] = Synced(params', creds, template.name)
    BY <2>1, <2>2, <2>3, SyncSendsOne
  <2>5. e[1] = Synced(params', creds', template'.name)
    BY <1>1, <2>4
  <2> HIDE DEF Synced
  <2> QED BY <1>1, <1>4, <2>1, <2>4, <2>5, SentFollows
<1> QED BY <1>3, <1>4

LEMMA CredsTemplate ==
  ASSUME Types, Types', TemplateFollows, NEW i \in DOMAIN net, CredsAnswer(i)
  PROVE  TemplateFollows'
<1>1. /\ net[i].kind = "creds" /\ UNCHANGED <<mount, params, templates, made, faults>> /\ i # 0
      /\ made <= made' /\ faults <= faults' /\ BodyStays(template.name)
  BY FaultsNat, NumberFacts, AnswerTypes DEF CredsAnswer, BodyStays
<1>2. CASE net[i].mount # mount
  <2>1. Flow(i, << >>) /\ creds' = creds /\ template'.name = template.name
    BY <1>2, CredsFlow
  <2> QED BY <1>1, <2>1, NoneSent, FollowsStay
<1>3. CASE net[i].mount = mount /\ ~ Validated(creds')
  BY <1>3, NoneOpen
<1>4. CASE net[i].mount = mount /\ Validated(creds')
  <2>1. mount # 0
    BY <1>4, AnswerTypes DEF Mounts
  <2>2. template' = template
    BY <1>4, CredsFlow DEF ResetTemplate
  <2>3. PICK e : /\ Flow(i, e) /\ DOMAIN e \subseteq {1}
                 /\ e = SyncTemplate(params, creds, template.name, params, creds', template.name)
    BY <1>4, CredsFlow
  <2>4. CASE SyncDeps(params, creds, template.name) # SyncDeps(params, creds', template.name)
    <3>1. 1 \in DOMAIN e /\ e[1] = Synced(params, creds', template.name)
      BY <1>4, <2>3, <2>4, SyncSendsOne
    <3>2. e[1] = Synced(params', creds', template'.name)
      BY <1>1, <2>2, <3>1
    <3> HIDE DEF Synced
    <3> QED BY <1>1, <1>4, <2>1, <2>3, <3>1, <3>2, SentFollows
  <2>5. CASE SyncDeps(params, creds, template.name) = SyncDeps(params, creds', template.name)
    <3>1. creds \in CredsSet /\ creds' \in CredsSet
      BY CredsFlow DEF Types, FormTypes, CredsSet
    <3>2. creds' = creds
      BY <2>5 DEF SyncDeps
    <3>3. e = << >>
      BY <2>3, <2>5 DEF SyncTemplate
    <3>4. template'.name = template.name /\ \A x \in DOMAIN e : e[x].kind \notin {"patch", "post"}
      BY <2>2, <3>3, NoneSent
    <3> QED BY <1>1, <2>3, <3>2, <3>4, FollowsStay
  <2> QED BY <2>4, <2>5
<1> QED BY <1>2, <1>3, <1>4

(* An answer to another drawer leaves the template of this one alone.       *)
LEMMA OtherStays ==
  ASSUME Types, Names, NEW i \in DOMAIN net, Arrives(i), net[i].mount # mount,
         mount # 0, template.name # 0
  PROVE  BodyStays(template.name)
<1>1. template.name \in 1 .. made /\ mount \in Mounts /\ Owns(mount, template.name)
  BY HasTemplate
<1>2. made \in Nat /\ made <= MaxTemplates /\ MaxTemplates \in Nat
  BY RoomBounds, Facts DEF Types, ServerTypes
<1>3. template.name \in 1 .. MaxTemplates
  BY <1>1, <1>2
<1>4. net[i].name # template.name
  <2>1. net[i].mount \in Mounts /\ Owns(net[i].mount, net[i].name)
    BY AnswerTypes DEF Owns
  <2> QED BY <1>1, <2>1 DEF Names, OneOwner
<1>5. CASE PostAnswer(i)
  <2>1. NewName = made + 1 /\ \A n \in (1 .. MaxTemplates) \ {NewName} : templates'[n] = templates[n]
    BY <1>5, PostIs
  <2>2. template.name # NewName
    BY <1>1, <1>2, <2>1
  <2>3. templates'[template.name] = templates[template.name]
    BY <1>3, <2>1, <2>2
  <2> QED BY <2>3 DEF BodyStays
<1>6. CASE PatchAnswer(i)
  <2>1. templates'[template.name] = templates[template.name]
    BY <1>3, <1>4, <1>6, PatchIs
  <2> QED BY <2>1 DEF BodyStays
<1>7. CASE PollAnswer(i)
  BY <1>7 DEF PollAnswer, BodyStays
<1> QED BY <1>5, <1>6, <1>7 DEF Arrives

LEMMA ArrivesOther ==
  ASSUME Types, Types', Names, TemplateFollows, NEW i \in DOMAIN net, Arrives(i), net[i].mount # mount
  PROVE  TemplateFollows'
<1>1. PICK n \in 1 .. made' : TemplateArrives(i, n)
  BY ArrivesIs
<1>2. n \in Nat /\ UNCHANGED <<mount, params, creds>> /\ faults <= faults' /\ i # 0
  BY ArrivesIs, FaultsNat, AnswerTypes
<1>3. Flow(i, << >>) /\ template'.name = template.name
  BY <1>1, <1>2, ArrivesFlow
<1>4. made <= made'
  <2>1. CASE PostAnswer(i)
    <3>1. made' = NewName /\ NewName = made + 1 /\ made \in Nat
      BY <2>1, PostIs
    <3> QED BY <3>1
  <2>2. CASE PatchAnswer(i) \/ PollAnswer(i)
    BY <2>2, NumberFacts DEF PatchAnswer, PollAnswer
  <2> QED BY <2>1, <2>2 DEF Arrives
<1>5. mount # 0 => BodyStays(template.name) \/ template.name = 0
  BY OtherStays
<1>6. net[i].kind = "patch" => net[i].name # template.name
  <2> SUFFICES ASSUME net[i].kind = "patch", net[i].name = template.name PROVE FALSE
    OBVIOUS
  <2>1. template.name # 0
    BY AnswerTypes DEF RequestOK
  <2>2. mount # 0
    BY <2>1 DEF Types, FormTypes
  <2>3. template.name \in 1 .. made /\ mount \in Mounts /\ Owns(mount, template.name)
    BY <2>1, <2>2, HasTemplate
  <2>4. net[i].mount \in Mounts /\ Owns(net[i].mount, template.name)
    BY AnswerTypes DEF Owns
  <2> QED BY <2>3, <2>4 DEF Names, OneOwner
<1> QED BY <1>2, <1>3, <1>4, <1>5, <1>6, NoneSent, FollowsStay

(* The form learns a name it did not have, and brings it up to date.        *)
LEMMA ArrivesNew ==
  ASSUME Types, Types', NEW i \in DOMAIN net, NEW n \in 1 .. made', TemplateArrives(i, n),
         UNCHANGED <<mount, params, creds>>, net[i].mount = mount, n # template.name
  PROVE  TemplateFollows'
<1>1. CASE ~ Validated(creds')
  BY <1>1, NoneOpen
<1>2. CASE Validated(creds')
  <2>1. mount # 0 /\ n \in Nat
    BY AnswerTypes DEF Mounts
  <2>2. template'.name = n
    BY <2>1, ArrivesFlow
  <2>3. PICK e : /\ Flow(i, e) /\ DOMAIN e \subseteq {1}
                 /\ e = SyncTemplate(params, creds, template.name, params, creds, n)
    BY <2>1, ArrivesFlow
  <2>4. SyncDeps(params, creds, template.name) # SyncDeps(params, creds, n)
    BY DEF SyncDeps
  <2>5. 1 \in DOMAIN e /\ e[1] = Synced(params, creds, n)
    BY <1>2, <2>3, <2>4, SyncSendsOne
  <2>6. e[1] = Synced(params', creds', template'.name)
    BY <2>2, <2>5
  <2> HIDE DEF Synced
  <2> QED BY <1>2, <2>1, <2>3, <2>5, <2>6, SentFollows
<1> QED BY <1>1, <1>2

(* An answer that brings the template the form already has sends nothing.   *)
LEMMA ArrivesSame ==
  ASSUME Types, NEW i \in DOMAIN net, TemplateArrives(i, template.name), net[i].mount = mount
  PROVE  Flow(i, << >>) /\ template'.name = template.name
<1>1. template.name \in Nat
  BY NumberFacts
<1>2. template'.name = template.name
  BY <1>1, ArrivesFlow
<1>3. PICK e : Flow(i, e) /\ e = SyncTemplate(params, creds, template.name, params, creds, template.name)
  BY <1>1, ArrivesFlow
<1>4. e = << >>
  BY <1>3 DEF SyncTemplate
<1> QED BY <1>2, <1>3, <1>4

LEMMA PollSame ==
  ASSUME Types, Types', TemplateFollows, NEW i \in DOMAIN net, PollAnswer(i),
         net[i].mount = mount, net[i].name = template.name
  PROVE  TemplateFollows'
<1>1. /\ UNCHANGED <<mount, params, creds, templates, made, faults>> /\ net[i].kind = "poll"
      /\ TemplateArrives(i, template.name)
  BY DEF PollAnswer
<1>2. made <= made' /\ faults <= faults' /\ i # 0 /\ BodyStays(template.name)
  BY <1>1, NumberFacts, FaultsNat, AnswerTypes DEF BodyStays
<1>3. Flow(i, << >>) /\ template'.name = template.name
  BY <1>1, ArrivesSame
<1> QED BY <1>1, <1>2, <1>3, NoneSent, FollowsStay

(* Patches of one template are answered in order.                           *)
LEMMA PatchSame ==
  ASSUME Types, Types', TemplateFollows, InOrder = TRUE, NEW i \in DOMAIN net, Deliverable(i), PatchAnswer(i),
         net[i].mount = mount, net[i].name = template.name
  PROVE  TemplateFollows'
<1>0. PICK n \in Nat : n = template.name
  BY NumberFacts
<1>1. /\ UNCHANGED <<mount, params, creds, made, faults>> /\ net[i].kind = "patch"
      /\ TemplateArrives(i, n) /\ n \in 1 .. made /\ SaysNext(n, net[i].arg)
  BY <1>0, PatchIs
<1>2. net \in Seq(Requests) /\ net[i] \in Requests /\ faults <= faults' /\ made \in Nat /\ n # 0
  BY <1>1, AnswerTypes, FaultsNat, NumberFacts
<1>3. Flow(i, << >>) /\ template'.name = n
  BY <1>0, <1>1, ArrivesSame
<1>12. ASSUME NEW b \in Bodies, Trusted({"patch"})', Validated(creds), b = Body(params, creds)
       PROVE  Ends(n, b)'
  <2>4. Trusted({"patch"})
    BY <1>2, <1>12, TrustedBefore
  <2>5. LastIn(PatchesTo(n), PatchesWith(b))
    <3>1. mount \in Mounts
      BY AnswerTypes
    <3>2. Ends(n, b)
      BY <1>0, <1>1, <1>12, <2>4, <3>1 DEF TemplateFollows
    <3> QED BY <3>2 DEF Ends
  <2>6. net[i] \in PatchesTo(n)
    BY <1>0, <1>1, <1>2 DEF PatchesTo
  <2>7. \A j \in 1 .. i - 1 : net[j] \notin PatchesTo(n)
    <3> SUFFICES ASSUME NEW j \in 1 .. i - 1, net[j] \in PatchesTo(n) PROVE FALSE
      OBVIOUS
    <3>1. net[j].kind = "patch"
      BY DEF PatchesTo
    <3>2. Channel(net[j]) # Channel(net[i])
      BY DEF Deliverable
    <3> QED BY <1>1, <3>1, <3>2, Channels
  <2>8. \A x \in DOMAIN << >> : << >>[x] \notin PatchesTo(n)
    BY NoneSent
  <2>9. LastIn(PatchesTo(n), PatchesWith(b))' /\ (NoneIn(PatchesTo(n))' => net[i] \in PatchesWith(b))
    BY <1>2, <1>3, <2>5, <2>6, <2>7, <2>8, LastAnswered
  <2>10. net[i] \in PatchesWith(b) => SaysNext(n, b)
    BY <1>1 DEF PatchesWith
  <2>11. SaysNext(n, b) => Says(n, b)'
    BY DEF SaysNext, Says
  <2> QED BY <2>9, <2>10, <2>11 DEF Ends
<1>13. /\ params' = params /\ creds' = creds /\ (Validated(creds') <=> Validated(creds))
       /\ Body(params', creds') = Body(params, creds)
  BY <1>1 DEF Validated, Body
<1> QED BY <1>1, <1>2, <1>3, <1>12, <1>13 DEF TemplateFollows

LEMMA ArrivesTemplate ==
  ASSUME Types, Types', Names, TemplateFollows, InOrder = TRUE, NEW i \in DOMAIN net, Deliverable(i), Arrives(i)
  PROVE  TemplateFollows'
<1>1. CASE net[i].mount # mount
  BY <1>1, ArrivesOther
<1>2. CASE net[i].mount = mount
  <2>1. UNCHANGED <<mount, params, creds>>
    BY ArrivesIs
  <2>2. CASE PostAnswer(i)
    <3>1. TemplateArrives(i, NewName) /\ NewName \in 1 .. made' /\ NewName # template.name
      <4>1. TemplateArrives(i, NewName) /\ made' = NewName /\ NewName = made + 1 /\ made \in Nat
        BY <2>2, PostIs
      <4>2. template.name \in 0 .. made
        BY NumberFacts
      <4> QED BY <4>1, <4>2
    <3> QED BY <1>2, <2>1, <3>1, ArrivesNew
  <2>3. CASE PatchAnswer(i) \/ PollAnswer(i)
    <3>1. TemplateArrives(i, net[i].name) /\ Found(net[i].name) /\ made' = made
      BY <2>3 DEF PatchAnswer, PollAnswer
    <3>2. net[i].name \in 1 .. made'
      <4>1. net[i].name \in 0 .. made /\ net[i].name # 0 /\ made \in Nat
        BY <3>1, AnswerTypes, NumberFacts DEF Found
      <4> QED BY <3>1, <4>1
    <3>3. CASE net[i].name # template.name
      BY <1>2, <2>1, <3>1, <3>2, <3>3, ArrivesNew
    <3>4. CASE net[i].name = template.name
      BY <1>2, <2>3, <3>4, PollSame, PatchSame
    <3> QED BY <3>3, <3>4
  <2> QED BY <2>2, <2>3 DEF Arrives
<1> QED BY <1>1, <1>2

LEMMA TemplateNext ==
  InOrder = TRUE /\ Types /\ Types' /\ Names /\ TemplateFollows /\ [Next]_vars => TemplateFollows'
<1> SUFFICES ASSUME InOrder = TRUE, Types, Types', Names, TemplateFollows, [Next]_vars
             PROVE  TemplateFollows'
  OBVIOUS
<1>1. CASE \E i \in {0} \cup DOMAIN net : \E e : Calm(i, e)
  BY <1>1, CalmFollows
<1>2. CASE Lively
  BY <1>2, OpenFollows, GPUFollows, ChangeFollows, CredsTemplate, ArrivesTemplate DEF Lively
<1> QED BY <1>1, <1>2, CalmOrLively

LEMMA TemplateInit == Init => TemplateFollows
<1> SUFFICES ASSUME Init PROVE ~ Validated(creds)
  BY DEF TemplateFollows
<1> QED BY Facts DEF Init, NoCreds, Validated, Sides

LEMMA TemplateHolds == ASSUME InOrder = TRUE PROVE Spec => []TemplateFollows
<1>1. Init => TemplateFollows
  BY TemplateInit
<1>2. Types /\ Types' /\ Names /\ TemplateFollows /\ [Next]_vars => TemplateFollows'
  BY TemplateNext
<1> QED BY <1>1, <1>2, TypesHold, NamesHold, PTL DEF Spec

(* Nothing under way: what will be has come.                                *)
LEMMA QuietSynced ==
  Types /\ Names /\ CredsFollow /\ TemplateFollows => SyncedWhenQuiet
<1> SUFFICES ASSUME Types, Names, CredsFollow, TemplateFollows,
                    mount # 0, faults = 0, Validated(creds), ~ InFlight(mount, Kinds)
             PROVE  /\ Found(template.name)
                    /\ LET t == templates[template.name]
                       IN  /\ t.source = CredOf[params.source] /\ t.destination = CredOf[params.target]
                           /\ t.cluster = params.target /\ t.useGPU = params.useGPU
  BY DEF SyncedWhenQuiet
<1>1. mount \in Mounts /\ \A K : Trusted(K)
  BY NumberFacts DEF Trusted
<1>2. \A k \in DOMAIN net : net[k].mount # mount
  BY AnswerTypes DEF InFlight, Requests
<1>3. ASSUME NEW s \in Sides
      PROVE  creds[s] = CredOf[params[s]]
  <2>1. ReadsRight(mount, s)
    BY <1>1 DEF CredsFollow
  <2>2. NoneIn(ReadsBy(mount, s))
    BY <1>2 DEF NoneIn, ReadsBy
  <2>3. creds[s] # None
    BY Facts DEF Validated
  <2>4. params[s] \in Clusters[s]
    <3>1. params[s] # None
      BY <2>1, <2>3 DEF ReadsRight
    <3> QED BY <3>1 DEF Types, FormTypes, Sides, Sources, Targets
  <2> QED BY <2>1, <2>2, <2>4 DEF ReadsRight
<1>4. template.name # 0
  <2>1. NoneIn(Posts(mount))
    BY <1>2 DEF NoneIn, Posts
  <2> QED BY <1>1, <2>1 DEF TemplateFollows
<1>5. Says(template.name, Body(params, creds))
  <2>1. template.name \in 1 .. made
    BY <1>4, HasTemplate
  <2>2. Body(params, creds) \in Bodies
    BY BodyType DEF Types, FormTypes, ParamsSet, CredsSet
  <2>3. Ends(template.name, Body(params, creds))
    BY <1>1, <2>1, <2>2 DEF TemplateFollows
  <2>4. NoneIn(PatchesTo(template.name))
    <3> SUFFICES ASSUME NEW k \in DOMAIN net, net[k] \in PatchesTo(template.name) PROVE FALSE
      BY DEF NoneIn
    <3>1. net[k].name = template.name
      BY DEF PatchesTo
    <3>2. net[k].mount \in Mounts /\ Owns(net[k].mount, template.name)
      BY <3>1, AnswerTypes DEF Owns
    <3>3. Owns(mount, template.name)
      BY <1>4, HasTemplate
    <3> QED BY <1>1, <1>2, <2>1, <3>2, <3>3 DEF Names, OneOwner
  <2> QED BY <2>3, <2>4 DEF Ends
<1> QED BY <1>3, <1>4, <1>5 DEF Says, Body, Found, Sides

(* Once every request of the drawer is answered and none was rejected, its  *)
(* template says what was chosen: whichever effects sent them, and although *)
(* a poll or the answer to an older patch may bring back a template the     *)
(* form had dropped (syncMigrationTemplate, fetchMigrationTemplate).        *)
THEOREM QuietFormIsSynced == ASSUME InOrder = TRUE PROVE Spec => []SyncedWhenQuiet
<1>1. Types /\ Names /\ CredsFollow /\ TemplateFollows => SyncedWhenQuiet
  BY QuietSynced
<1> QED BY <1>1, TypesHold, NamesHold, ReadsHold, TemplateHolds, PTL

-----------------------------------------------------------------------------
(* What Start promised: the choices stay, and the template the plan will    *)
(* name says them when it is read.                                          *)
WantBody(w) == [source |-> w.source, destination |-> w.destination, cluster |-> w.cluster, useGPU |-> w.useGPU]
Asked(m, w) ==
  submits[m].want = w /\ \E k \in DOMAIN net : net[k].mount = m /\ net[k].kind \in SubmitKinds
Frozen ==
  \A m \in Mounts, w \in Wants : m = mount /\ Asked(m, w) =>
    /\ Validated(creds) /\ Body(params, creds) = WantBody(w)
    /\ \A s \in Sides : NoneIn(ReadsBy(m, s))

(* A request before the one that looks at the template, or writes to it.    *)
Early(m, j) ==
  \E c \in DOMAIN net : /\ net[c].mount = m
                        /\ \/ net[c].kind \in {"network", "storage", "array"}
                           \/ net[c].kind = "mapping" /\ j < c
Planning(m) == \E k \in DOMAIN net : net[k].mount = m /\ net[k].kind = "plan"
Running(m, n, w) ==
  submits[m].want = w
  /\ \E k \in DOMAIN net : net[k].mount = m /\ net[k].name = n /\ net[k].kind \in SubmitKinds

(* Its body will be b in time: the last early patch says so.                *)
InTime(m, n, b) ==
  /\ \A k \in DOMAIN net : net[k] \in PatchesTo(n) =>
       net[k] \in PatchesWith(b)
         \/ \E j \in DOMAIN net : k < j /\ net[j] \in PatchesTo(n) /\ Early(m, j)
  /\ (\A k \in DOMAIN net : net[k] \in PatchesTo(n) => ~ Early(m, k)) => Says(n, b)
Promised(m, n, w) ==
  InTime(m, n, WantBody(w)) /\ (Planning(m) => templates[n].method = w.method)
Promises ==
  \A m \in Mounts, n \in 1 .. made, w \in Wants : Running(m, n, w) => Promised(m, n, w)

-----------------------------------------------------------------------------
(* A step other than Start hands the request of a submit on, if at all.     *)
WantsStay == \A m \in Mounts : submits'[m].want = submits[m].want
Handover(i, e) ==
  \A x \in DOMAIN e : e[x].kind \in SubmitKinds =>
    /\ i # 0 /\ net[i].kind \in SubmitKinds
    /\ net[i].mount = e[x].mount /\ net[i].name = e[x].name
Chain(i, e) == Flow(i, e) /\ Handover(i, e) /\ WantsStay

LEMMA AskedBefore ==
  ASSUME NEW i \in {0} \cup DOMAIN net, NEW e, Chain(i, e), NEW m \in Mounts, NEW w, Asked(m, w)'
  PROVE  Asked(m, w)
<1>1. PICK k \in DOMAIN net' : net'[k].mount = m /\ net'[k].kind \in SubmitKinds
  BY DEF Asked
<1>2. submits[m].want = w
  BY DEF Asked, Chain, WantsStay
<1>3. CASE \E j \in DOMAIN net \ {i} : k = New(i, j) /\ net'[k] = net[j]
  BY <1>1, <1>2, <1>3 DEF Asked
<1>4. CASE \E x \in DOMAIN e : k = Rest(i) + x /\ net'[k] = e[x]
  <2>1. PICK x \in DOMAIN e : net'[k] = e[x]
    BY <1>4
  <2>2. i # 0 /\ net[i].kind \in SubmitKinds /\ net[i].mount = m
    BY <1>1, <2>1 DEF Chain, Handover
  <2>3. i \in DOMAIN net
    BY <2>2
  <2> QED BY <1>2, <2>2, <2>3 DEF Asked
<1> QED BY <1>1, <1>3, <1>4 DEF Chain, Flow

LEMMA RunningBefore ==
  ASSUME NEW i \in {0} \cup DOMAIN net, NEW e, Chain(i, e), NEW m \in Mounts, NEW n, NEW w, Running(m, n, w)'
  PROVE  Running(m, n, w)
<1>1. PICK k \in DOMAIN net' : net'[k].mount = m /\ net'[k].name = n /\ net'[k].kind \in SubmitKinds
  BY DEF Running
<1>2. submits[m].want = w
  BY DEF Running, Chain, WantsStay
<1>3. CASE \E j \in DOMAIN net \ {i} : k = New(i, j) /\ net'[k] = net[j]
  BY <1>1, <1>2, <1>3 DEF Running
<1>4. CASE \E x \in DOMAIN e : k = Rest(i) + x /\ net'[k] = e[x]
  <2>1. PICK x \in DOMAIN e : net'[k] = e[x]
    BY <1>4
  <2>2. i # 0 /\ net[i].kind \in SubmitKinds /\ net[i].mount = m /\ net[i].name = n
    BY <1>1, <2>1 DEF Chain, Handover
  <2>3. i \in DOMAIN net
    BY <2>2
  <2> QED BY <1>2, <2>2, <2>3 DEF Running
<1> QED BY <1>1, <1>3, <1>4 DEF Chain, Flow

(* Sends nothing of the submit.                                             *)
LEMMA Plain ==
  ASSUME NEW i, NEW e, Flow(i, e), submits' = submits, \A x \in DOMAIN e : e[x].kind \notin SubmitKinds
  PROVE  Chain(i, e)
BY DEF Chain, Handover, WantsStay

LEMMA StillChain ==
  ASSUME Types, submits' = submits, net' = net
  PROVE  Chain(0, << >>)
<1>1. Flow(0, << >>)
  BY SendsNone DEF Types, NetTypes
<1> QED BY <1>1, NoneSent, Plain

LEMMA PollChain ==
  ASSUME Types, PollTemplate
  PROVE  \E e : Chain(0, e) /\ \A x \in DOMAIN e : e[x].kind = "poll"
<1> DEFINE r == RequestOf("poll", template.name)
<1>1. Flow(0, <<r>>) /\ r \in Requests
  BY PollFlow
<1>2. r.kind = "poll"
  BY DEF RequestOf
<1>3. submits' = submits
  BY DEF PollTemplate
<1> HIDE DEF r
<1>4. \A x \in DOMAIN <<r>> : <<r>>[x].kind = "poll"
  BY <1>1, <1>2, OneSent
<1>5. "poll" \notin SubmitKinds
  BY WrittenFacts, KindFacts
<1> QED BY <1>1, <1>3, <1>4, <1>5, Plain

LEMMA CloseChain ==
  ASSUME Types, HandleClose
  PROVE  \E e : Chain(0, e) /\ \A x \in DOMAIN e : e[x].kind = "delete"
<1>1. submits' = submits /\ "delete" \notin SubmitKinds
  BY KindFacts DEF HandleClose
<1>2. CASE template.name = 0
  BY <1>1, <1>2, CloseFlow, NoneSent, Plain
<1>3. CASE template.name # 0
  <2> DEFINE r == RequestOf("delete", template.name)
  <2>1. Flow(0, <<r>>) /\ r \in Requests
    BY <1>3, CloseFlow
  <2>2. r.kind = "delete"
    BY DEF RequestOf
  <2> HIDE DEF r
  <2>3. \A x \in DOMAIN <<r>> : <<r>>[x].kind = "delete"
    BY <2>1, <2>2, OneSent
  <2> QED BY <1>1, <2>1, <2>3, Plain
<1> QED BY <1>2, <1>3

(* What the effect sends is a write of the open drawer.                     *)
LEMMA SyncedIs ==
  ASSUME NEW pa, NEW cr, NEW n
  PROVE  /\ Synced(pa, cr, n).kind \in {"post", "patch"} /\ Synced(pa, cr, n).name = n
         /\ Synced(pa, cr, n).mount = mount /\ Synced(pa, cr, n).arg = Body(pa, cr)
BY DEF Synced, Request

Sync(e, pa, cr, n) == \A x \in DOMAIN e : e[x] = Synced(pa, cr, n)
LEMMA SyncChain ==
  ASSUME NEW i, NEW e, Flow(i, e), submits' = submits, NEW pa, NEW cr, NEW n, Sync(e, pa, cr, n)
  PROVE  Chain(i, e)
<1>1. \A x \in DOMAIN e : e[x].kind \notin SubmitKinds
  BY SyncedIs, KindFacts DEF Sync
<1> QED BY <1>1, Plain

LEMMA GPUChain ==
  ASSUME Types, UseGPUChange
  PROVE  \E e : Chain(0, e) /\ Sync(e, params', creds, template.name)
<1>1. PICK e : Flow(0, e) /\ \A x \in DOMAIN e : e[x] = Synced(params', creds, template.name)
  BY GPUFlow
<1>2. Sync(e, params', creds, template.name) /\ submits' = submits
  BY <1>1 DEF Sync, UseGPUChange
<1> QED BY <1>1, <1>2, SyncChain

LEMMA ChangeChain ==
  ASSUME Types, NEW s \in Sides, NEW c \in Clusters[s], ClusterChange(s, c)
  PROVE  \E e : /\ Chain(0, e)
                /\ \A x \in DOMAIN e : e[x].kind = "creds" \/ e[x] = Synced(params', creds, template.name)
<1>1. PICK e : /\ Flow(0, e) /\ DOMAIN e \subseteq {1, 2} /\ e[1] = ReadOf(s, c)
               /\ 2 \in DOMAIN e => e[2] = Synced(params', creds, template.name)
  BY ChangeFlow
<1>2. e[1].kind = "creds"
  BY <1>1 DEF ReadOf
<1>3. \A x \in DOMAIN e : e[x].kind = "creds" \/ e[x] = Synced(params', creds, template.name)
  BY <1>1, <1>2
<1>4. \A x \in DOMAIN e : e[x].kind \notin SubmitKinds
  BY <1>3, SyncedIs, KindFacts
<1>5. submits' = submits
  BY DEF ClusterChange
<1> QED BY <1>1, <1>3, <1>4, <1>5, Plain

LEMMA CredsChain ==
  ASSUME Types, NEW i \in DOMAIN net, CredsAnswer(i)
  PROVE  \E e : Chain(i, e) /\ Sync(e, params, creds', template.name)
<1>1. submits' = submits
  BY DEF CredsAnswer
<1>2. CASE net[i].mount # mount
  BY <1>1, <1>2, CredsFlow, NoneSent, SyncChain DEF Sync
<1>3. CASE net[i].mount = mount
  <2>1. PICK e : Flow(i, e) /\ \A x \in DOMAIN e : e[x] = Synced(params, creds', template.name)
    BY <1>3, CredsFlow
  <2> QED BY <1>1, <2>1, SyncChain DEF Sync
<1> QED BY <1>2, <1>3

LEMMA ArrivesChain ==
  ASSUME Types, NEW i \in DOMAIN net, Arrives(i), NEW n \in Nat, TemplateArrives(i, n)
  PROVE  \E e : Chain(i, e) /\ Sync(e, params, creds, n) /\ (net[i].mount # mount => DOMAIN e = {})
<1>1. submits' = submits
  BY ArrivesIs
<1>2. CASE net[i].mount # mount
  BY <1>1, <1>2, ArrivesFlow, NoneSent, SyncChain DEF Sync
<1>3. CASE net[i].mount = mount
  <2>1. PICK e : Flow(i, e) /\ \A x \in DOMAIN e : e[x] = Synced(params, creds, n)
    BY <1>3, ArrivesFlow
  <2> QED BY <1>1, <1>3, <2>1, SyncChain DEF Sync
<1> QED BY <1>2, <1>3

(* An answer that ends there: a deletion, a plan, a rejection.              *)
LEMMA DeleteChain ==
  ASSUME Types, NEW i \in DOMAIN net, DeleteAnswer(i)
  PROVE  Chain(i, << >>)
<1>1. Flow(i, << >>) /\ submits' = submits
  BY DeleteIs, AnswersOnly, AnswerTypes
<1> QED BY <1>1, NoneSent, Plain

LEMMA PcOnly ==
  ASSUME Types, NEW q \in Mounts, NEW p, submits' = [submits EXCEPT ![q].pc = p]
  PROVE  WantsStay
BY DEF WantsStay, Types, SubmitTypes

LEMMA PlanChain ==
  ASSUME Types, NEW i \in DOMAIN net, PlanAnswer(i)
  PROVE  Chain(i, << >>)
<1>1. Flow(i, << >>)
  BY PlanIs, AnswersOnly, AnswerTypes
<1>2. WantsStay
  BY AnswerTypes, PcOnly DEF PlanAnswer
<1> QED BY <1>1, <1>2, NoneSent DEF Chain, Handover

LEMMA RejectedChain ==
  ASSUME Types, NEW i \in DOMAIN net, Rejected(i)
  PROVE  Chain(i, << >>)
<1>1. Flow(i, << >>)
  BY RejectedIs, AnswersOnly, AnswerTypes
<1>2. WantsStay
  <2>1. CASE net[i].kind \in SubmitKinds
    BY <2>1, AnswerTypes, PcOnly DEF Rejected
  <2>2. CASE net[i].kind \notin SubmitKinds
    <3>1. submits' = submits
      BY <2>2, RejectedIs
    <3> QED BY <3>1 DEF WantsStay
  <2> QED BY <2>1, <2>2
<1> QED BY <1>1, <1>2, NoneSent DEF Chain, Handover

(* An answer after which the submit goes on.                                *)
LEMMA ContinueChain ==
  ASSUME Types, NEW i \in DOMAIN net, NEW k \in SubmitKinds, Continue(i, k), net[i].kind \in SubmitKinds
  PROVE  \E e : /\ Chain(i, e) /\ DOMAIN e = {1}
                /\ e[1].kind = k /\ e[1].mount = net[i].mount /\ e[1].name = net[i].name
<1> DEFINE r == [net[i] EXCEPT !.kind = k]
<1>1. /\ Flow(i, <<r>>) /\ r \in Requests
      /\ r = [kind |-> k, name |-> net[i].name, arg |-> net[i].arg, mount |-> net[i].mount]
  BY ContinueFlow
<1>2. r.kind = k /\ r.mount = net[i].mount /\ r.name = net[i].name
  BY <1>1
<1> HIDE DEF r
<1>3. DOMAIN <<r>> = {1} /\ <<r>>[1] = r
  BY <1>1, OneSent
<1>4. WantsStay
  BY AnswerTypes, PcOnly DEF Continue
<1>5. i # 0
  BY AnswerTypes
<1>6. Handover(i, <<r>>)
  BY <1>2, <1>3, <1>5 DEF Handover
<1> QED BY <1>1, <1>2, <1>3, <1>4, <1>6 DEF Chain

-----------------------------------------------------------------------------
(* While a submit of the open drawer runs its choices stay as they are.     *)
LEMMA FrozenKeeps ==
  ASSUME Types, Frozen, NEW i \in {0} \cup DOMAIN net, NEW e, Chain(i, e),
         \A x \in DOMAIN e : e[x].kind # "creds", mount' = 0 \/ UNCHANGED <<mount, params, creds>>
  PROVE  Frozen'
<1> SUFFICES ASSUME NEW m \in Mounts, NEW w \in Wants, m = mount', Asked(m, w)'
             PROVE  /\ Validated(creds') /\ Body(params', creds') = WantBody(w)
                    /\ \A s \in Sides : NoneIn(ReadsBy(m, s))'
  BY DEF Frozen, Validated, Body
<1>1. UNCHANGED <<mount, params, creds>>
  BY DEF Mounts
<1>2. Asked(m, w)
  BY AskedBefore
<1>3. /\ Validated(creds) /\ Body(params, creds) = WantBody(w)
      /\ \A s \in Sides : NoneIn(ReadsBy(m, s))
  BY <1>1, <1>2 DEF Frozen
<1>4. Validated(creds') /\ Body(params', creds') = WantBody(w)
  BY <1>1, <1>3 DEF Validated, Body
<1>5. ASSUME NEW s \in Sides
      PROVE  NoneIn(ReadsBy(m, s))'
  <2>1. \A x \in DOMAIN e : e[x] \notin ReadsBy(m, s)
    BY DEF ReadsBy
  <2>2. NoneIn(ReadsBy(m, s))
    BY <1>3
  <2> QED BY <2>1, <2>2 DEF NoneIn, Chain, Flow
<1> QED BY <1>4, <1>5

(* Nothing is chosen while a submit of the open drawer runs.                *)
LEMMA FrozenFree ==
  ASSUME Impatient = FALSE, Types, Free, NEW i \in {0} \cup DOMAIN net, NEW e, Chain(i, e), mount' = mount
  PROVE  Frozen'
<1> SUFFICES ASSUME NEW m \in Mounts, NEW w \in Wants, m = mount, Asked(m, w)'
             PROVE  FALSE
  BY DEF Frozen
<1>1. Asked(m, w)
  BY AskedBefore
<1> QED BY <1>1 DEF Asked, Free, InFlight

LEMMA FrozenOpen ==
  ASSUME Types, OpenForm
  PROVE  Frozen'
<1>1. mount' = mounts + 1 /\ net' = net /\ mounts \in Nat
  BY NumberFacts DEF OpenForm
<1> SUFFICES ASSUME NEW m \in Mounts, NEW w \in Wants, m = mounts + 1, Asked(m, w)'
             PROVE  FALSE
  BY <1>1 DEF Frozen
<1>2. \A k \in DOMAIN net : net[k].mount # m
  BY <1>1, AnswerTypes
<1> QED BY <1>1, <1>2 DEF Asked

LEMMA FrozenChange ==
  ASSUME Impatient = FALSE, Types, NEW s \in Sides, NEW c \in Clusters[s], ClusterChange(s, c)
  PROVE  Frozen'
<1>1. Free /\ mount' = mount
  BY DEF ClusterChange
<1> QED BY <1>1, ChangeChain, FrozenFree

LEMMA FrozenGPU ==
  ASSUME Impatient = FALSE, Types, UseGPUChange
  PROVE  Frozen'
<1>1. Free /\ mount' = mount
  BY DEF UseGPUChange
<1> QED BY <1>1, GPUChain, FrozenFree

LEMMA FrozenCreds ==
  ASSUME Types, Frozen, NEW i \in DOMAIN net, CredsAnswer(i)
  PROVE  Frozen'
<1>1. PICK e : Chain(i, e) /\ Sync(e, params, creds', template.name)
  BY CredsChain
<1>2. \A x \in DOMAIN e : e[x].kind # "creds"
  BY <1>1, SyncedIs DEF Sync
<1>3. UNCHANGED <<mount, params>>
  BY DEF CredsAnswer
<1>4. CASE net[i].mount # mount
  <2>1. creds' = creds
    BY <1>4, CredsFlow
  <2> QED BY <1>1, <1>2, <1>3, <2>1, FrozenKeeps
<1>5. CASE net[i].mount = mount
  <2> SUFFICES ASSUME NEW m \in Mounts, NEW w \in Wants, m = mount, Asked(m, w)'
               PROVE  FALSE
    BY <1>3 DEF Frozen
  <2>1. Asked(m, w)
    BY <1>1, AskedBefore
  <2>2. PICK s \in Sides : s = net[i].arg.side
    BY CredsFlow DEF Reads
  <2>3. net[i] \in ReadsBy(m, s)
    BY <1>5, <2>2, CredsFlow, AnswerTypes DEF ReadsBy
  <2>4. NoneIn(ReadsBy(m, s))
    BY <2>1 DEF Frozen
  <2> QED BY <2>3, <2>4 DEF NoneIn
<1> QED BY <1>4, <1>5

LEMMA FrozenArrives ==
  ASSUME Types, Frozen, NEW i \in DOMAIN net, Arrives(i)
  PROVE  Frozen'
<1>1. PICK n \in 1 .. made' : TemplateArrives(i, n)
  BY ArrivesIs
<1>2. UNCHANGED <<mount, params, creds>> /\ n \in Nat
  BY ArrivesIs
<1>3. PICK e : Chain(i, e) /\ Sync(e, params, creds, n)
  BY <1>1, <1>2, ArrivesChain
<1>4. \A x \in DOMAIN e : e[x].kind # "creds"
  BY <1>3, SyncedIs DEF Sync
<1> QED BY <1>2, <1>3, <1>4, FrozenKeeps

(* Start asks for what the form shows: its credentials have been read.      *)
LEMMA SubmitAlone ==
  ASSUME Types, NEW method \in Methods, NEW required \in BOOLEAN, HandleSubmit(method, required),
         NEW e, e = <<RequestOf(FirstKind(method, required), template.name)>>
  PROVE  /\ Flow(0, e) /\ DOMAIN e = {1} /\ e[1].kind \in {"network", "storage", "array"}
         /\ e[1].mount = mount /\ e[1].name = template.name
         /\ \A k \in DOMAIN net : net[k].mount = mount => net[k].kind \notin SubmitKinds
         /\ submits'[mount].want = Chosen(method)
         /\ \A m \in Mounts \ {mount} : submits'[m] = submits[m]
         /\ mount \in Mounts /\ UNCHANGED <<formVars, templates, made, faults, plans>>
<1> DEFINE r == RequestOf(FirstKind(method, required), template.name)
<1>1. Flow(0, <<r>>) /\ r \in Requests /\ r.kind \in {"network", "storage", "array"}
  BY SubmitFlow
<1>2. r.mount = mount /\ r.name = template.name
  BY DEF RequestOf
<1> HIDE DEF r
<1>3. Flow(0, e) /\ DOMAIN e = {1} /\ e[1] = r
  BY <1>1, OneSent DEF r
<1>4. ASSUME NEW k \in DOMAIN net, net[k].mount = mount PROVE net[k].kind \notin SubmitKinds
  <2>1. ~ Submitting(mount)
    BY DEF HandleSubmit, DisableSubmit
  <2>2. submits[mount].pc \in {"idle", "done"}
    BY <2>1 DEF Submitting
  <2>3. net[k].kind \in SubmitKinds => submits[mount].pc = net[k].kind
    BY <1>4 DEF Types, NetTypes, RequestOK
  <2> QED BY <2>2, <2>3, KindFacts
<1>5. mount \in Mounts
  BY NumberFacts DEF HandleSubmit
<1>6. /\ submits'[mount].want = Chosen(method)
      /\ \A m \in Mounts \ {mount} : submits'[m] = submits[m]
  <2>1. PICK k : submits' = [submits EXCEPT ![mount] = [pc |-> k, name |-> template.name, want |-> Chosen(method)]]
    BY DEF HandleSubmit
  <2> QED BY <1>5, <2>1 DEF Types, SubmitTypes
<1>7. UNCHANGED <<formVars, templates, made, faults, plans>>
  BY DEF HandleSubmit
<1> QED BY <1>1, <1>2, <1>3, <1>4, <1>5, <1>6, <1>7

LEMMA StartAsks ==
  ASSUME Impatient = FALSE, Failing \cap {"creds"} = {}, Types, CredsFollow,
         NEW method \in Methods, NEW required \in BOOLEAN, HandleSubmit(method, required)
  PROVE  /\ Validated(creds) /\ Body(params, creds) = WantBody(Chosen(method))
         /\ \A s \in Sides : NoneIn(ReadsBy(mount, s))
<1>1. /\ ~ DisableSubmit /\ mount # 0 /\ ~ InFlight(mount, {"creds"})
  BY DEF HandleSubmit
<1>2. Validated(creds) /\ params.source # None /\ params.target # None
  BY <1>1 DEF DisableSubmit
<1>3. ASSUME NEW s \in Sides
      PROVE  NoneIn(ReadsBy(mount, s)) /\ creds[s] = CredOf[params[s]]
  <2>1. NoneIn(ReadsBy(mount, s))
    BY <1>1 DEF NoneIn, ReadsBy, InFlight
  <2>2. ReadsRight(mount, s)
    BY <1>1, NumberFacts DEF CredsFollow, Trusted
  <2>3. params[s] \in Clusters[s]
    BY <1>2 DEF Types, FormTypes, Sides, Sources, Targets
  <2> QED BY <2>1, <2>2, <2>3 DEF ReadsRight
<1>4. creds.source = CredOf[params.source] /\ creds.target = CredOf[params.target]
  BY <1>3 DEF Sides
<1> QED BY <1>2, <1>3, <1>4 DEF Body, WantBody, Chosen

LEMMA FrozenSubmit ==
  ASSUME Impatient = FALSE, Failing \cap {"creds"} = {}, Types, CredsFollow, Frozen,
         NEW method \in Methods, NEW required \in BOOLEAN, HandleSubmit(method, required)
  PROVE  Frozen'
<1> DEFINE e == <<RequestOf(FirstKind(method, required), template.name)>>
<1>1. /\ Flow(0, e) /\ DOMAIN e = {1} /\ e[1].kind \in {"network", "storage", "array"}
      /\ submits'[mount].want = Chosen(method) /\ UNCHANGED <<mount, params, creds>>
  BY SubmitAlone DEF formVars
<1> HIDE DEF e
<1> SUFFICES ASSUME NEW m \in Mounts, NEW w \in Wants, m = mount, Asked(m, w)'
             PROVE  /\ Validated(creds') /\ Body(params', creds') = WantBody(w)
                    /\ \A s \in Sides : NoneIn(ReadsBy(m, s))'
  BY <1>1 DEF Frozen, Validated, Body
<1>2. w = Chosen(method)
  BY <1>1 DEF Asked
<1>3. Validated(creds') /\ Body(params', creds') = WantBody(w)
  BY <1>1, <1>2, StartAsks DEF Validated, Body
<1>4. ASSUME NEW s \in Sides
      PROVE  NoneIn(ReadsBy(m, s))'
  <2>1. \A x \in DOMAIN e : e[x] \notin ReadsBy(m, s)
    BY <1>1 DEF ReadsBy
  <2>2. NoneIn(ReadsBy(m, s))
    BY StartAsks
  <2> QED BY <1>1, <2>1, <2>2 DEF NoneIn, Flow
<1> QED BY <1>3, <1>4

LEMMA Goes ==
  ASSUME Types, NEW i \in DOMAIN net, NetworkAnswer(i) \/ StorageAnswer(i) \/ MappingAnswer(i)
  PROVE  /\ net[i].kind \in {"network", "storage", "array", "mapping"} /\ UNCHANGED <<formVars, made, plans, faults>>
         /\ \E k \in {"storage", "array", "mapping", "plan"} : \E e :
              /\ Chain(i, e) /\ DOMAIN e = {1}
              /\ e[1].kind = k /\ e[1].mount = net[i].mount /\ e[1].name = net[i].name
              /\ IF net[i].kind = "mapping" THEN k = "plan" ELSE k # "plan"
<1>1. CASE NetworkAnswer(i) \/ StorageAnswer(i)
  <2>1. net[i].kind \in {"network", "storage", "array"} /\ UNCHANGED <<formVars, made, plans, faults>>
    BY <1>1, NetworkTypes
  <2>2. PICK k \in {"storage", "array", "mapping"} : Continue(i, k)
    BY <1>1, NetworkTypes
  <2>3. PICK e : /\ Chain(i, e) /\ DOMAIN e = {1}
                 /\ e[1].kind = k /\ e[1].mount = net[i].mount /\ e[1].name = net[i].name
    BY <2>1, <2>2, ContinueChain, KindFacts
  <2> QED BY <2>1, <2>3
<1>2. CASE MappingAnswer(i)
  <2>1. net[i].kind = "mapping" /\ Continue(i, "plan") /\ UNCHANGED <<formVars, made, plans, faults>>
    BY <1>2, MappingIs
  <2>2. PICK e : /\ Chain(i, e) /\ DOMAIN e = {1}
                 /\ e[1].kind = "plan" /\ e[1].mount = net[i].mount /\ e[1].name = net[i].name
    BY <2>1, ContinueChain, KindFacts
  <2> QED BY <2>1, <2>2
<1> QED BY <1>1, <1>2

LEMMA FrozenAnswer ==
  ASSUME Types, Frozen, NEW i \in DOMAIN net, Answer(i)
  PROVE  Frozen'
<1> USE DEF Answer
<1>1. CASE CredsAnswer(i) \/ PostAnswer(i) \/ PatchAnswer(i) \/ PollAnswer(i)
  BY <1>1, FrozenCreds, FrozenArrives DEF Arrives
<1>2. CASE DeleteAnswer(i)
  <2>1. Chain(i, << >>) /\ UNCHANGED <<mount, params, creds>>
    BY <1>2, DeleteChain, DeleteIs DEF formVars
  <2> QED BY <2>1, NoneSent, FrozenKeeps
<1>3. CASE NetworkAnswer(i) \/ StorageAnswer(i) \/ MappingAnswer(i)
  <2>4. PICK k \in {"storage", "array", "mapping", "plan"} : \E e : Chain(i, e) /\ DOMAIN e = {1} /\ e[1].kind = k
    BY <1>3, Goes
  <2>1. PICK e : Chain(i, e) /\ DOMAIN e = {1} /\ e[1].kind = k
    BY <2>4
  <2>2. UNCHANGED <<mount, params, creds>>
    BY <1>3, Goes DEF formVars
  <2>3. \A x \in DOMAIN e : e[x].kind # "creds"
    BY <2>1
  <2> QED BY <2>1, <2>2, <2>3, FrozenKeeps
<1>4. CASE PlanAnswer(i)
  <2>1. mount' = 0 \/ UNCHANGED <<mount, params, creds>>
    BY <1>4, PlanIs DEF Unmount, formVars
  <2> QED BY <1>4, <2>1, PlanChain, NoneSent, FrozenKeeps
<1>5. CASE Rejected(i)
  <2>1. mount' = 0 \/ UNCHANGED <<mount, params, creds>>
    BY <1>5, RejectedIs DEF Unmount, formVars
  <2> QED BY <1>5, <2>1, RejectedChain, NoneSent, FrozenKeeps
<1> QED BY <1>1, <1>2, <1>3, <1>4, <1>5

LEMMA FrozenNext ==
  ASSUME Impatient = FALSE, Failing \cap {"creds"} = {}, Types, CredsFollow, Frozen, [Next]_vars
  PROVE  Frozen'
<1>1. CASE OpenForm
  BY <1>1, FrozenOpen
<1>2. ASSUME NEW s \in Sides, NEW c \in Clusters[s], ClusterChange(s, c) PROVE Frozen'
  BY <1>2, FrozenChange
<1>3. CASE UseGPUChange
  BY <1>3, FrozenGPU
<1>4. CASE PollTemplate
  <2>1. PICK e : Chain(0, e) /\ \A x \in DOMAIN e : e[x].kind = "poll"
    BY <1>4, PollChain
  <2>2. UNCHANGED <<mount, params, creds>>
    BY <1>4 DEF PollTemplate, formVars
  <2> QED BY <2>1, <2>2, FrozenKeeps
<1>5. CASE HandleClose
  <2>1. PICK e : Chain(0, e) /\ \A x \in DOMAIN e : e[x].kind = "delete"
    BY <1>5, CloseChain
  <2>2. mount' = 0
    BY <1>5 DEF HandleClose, Unmount
  <2> QED BY <2>1, <2>2, FrozenKeeps
<1>6. ASSUME NEW method \in Methods, NEW required \in BOOLEAN, HandleSubmit(method, required) PROVE Frozen'
  BY <1>6, FrozenSubmit
<1>7. ASSUME NEW i \in DOMAIN net, Answer(i) PROVE Frozen'
  BY <1>7, FrozenAnswer
<1>8. ASSUME NEW n \in DOMAIN templates, Resolve(n) PROVE Frozen'
  <2>1. submits' = submits /\ net' = net /\ UNCHANGED <<mount, params, creds>>
    BY <1>8, ResolveIs DEF formVars
  <2> QED BY <2>1, StillChain, NoneSent, FrozenKeeps
<1>9. CASE Finished \/ UNCHANGED vars
  <2>1. submits' = submits /\ net' = net /\ UNCHANGED <<mount, params, creds>>
    BY <1>9 DEF Finished, vars, formVars
  <2> QED BY <2>1, StillChain, NoneSent, FrozenKeeps
<1> QED BY <1>1, <1>2, <1>3, <1>4, <1>5, <1>6, <1>7, <1>8, <1>9 DEF Next

LEMMA FrozenInit == Init => Frozen
<1> SUFFICES ASSUME Init, NEW m \in Mounts PROVE m # mount
  BY DEF Frozen
<1> QED BY DEF Init, Mounts

LEMMA FrozenHolds ==
  ASSUME InOrder = TRUE, Impatient = FALSE, Failing \cap {"creds"} = {}
  PROVE  Spec => []Frozen
<1>1. Init => Frozen
  BY FrozenInit
<1>2. Types /\ CredsFollow /\ Frozen /\ [Next]_vars => Frozen'
  BY FrozenNext
<1> QED BY <1>1, <1>2, TypesHold, ReadsHold, PTL DEF Spec

-----------------------------------------------------------------------------
(* What Start promised, step by step.                                       *)
EarlyNext(m, j) ==
  \E c \in DOMAIN net' : /\ net'[c].mount = m
                         /\ \/ net'[c].kind \in {"network", "storage", "array"}
                            \/ net'[c].kind = "mapping" /\ j < c
LEMMA EarlyStays ==
  ASSUME Types, NEW i \in {0} \cup DOMAIN net, NEW e, Flow(i, e), NEW m \in Mounts,
         i # 0 => net[i].kind \notin SubmitKinds \/ net[i].mount # m,
         NEW j \in DOMAIN net \ {i}, Early(m, j)
  PROVE  EarlyNext(m, New(i, j))
<1>1. PICK c \in DOMAIN net : /\ net[c].mount = m
                              /\ \/ net[c].kind \in {"network", "storage", "array"}
                                 \/ net[c].kind = "mapping" /\ j < c
  BY DEF Early
<1>2. c # i
  <2>1. net[c].kind \in SubmitKinds /\ c # 0
    BY <1>1, AnswerTypes, KindFacts
  <2> QED BY <1>1, <2>1
<1>3. New(i, c) \in DOMAIN net' /\ net'[New(i, c)] = net[c] /\ (j < c => New(i, j) < New(i, c))
  BY <1>2 DEF Flow
<1> QED BY <1>1, <1>3 DEF EarlyNext

(* No patch of the template is answered.                                    *)
LEMMA InTimeStays ==
  ASSUME NEW i \in {0} \cup DOMAIN net, NEW e, Flow(i, e), NEW m \in Mounts, NEW n, NEW b,
         InTime(m, n, b), 0 \notin DOMAIN net, i # 0 => net[i] \notin PatchesTo(n), BodyStays(n),
         \A x \in DOMAIN e : e[x] \in PatchesTo(n) => e[x] \in PatchesWith(b),
         \A j \in DOMAIN net \ {i} : net[j] \in PatchesTo(n) /\ Early(m, j) => EarlyNext(m, New(i, j))
  PROVE  InTime(m, n, b)'
<1>1. ASSUME NEW k \in DOMAIN net, net[k] \in PatchesTo(n)
      PROVE  k \in DOMAIN net \ {i} /\ New(i, k) \in DOMAIN net' /\ net'[New(i, k)] = net[k]
  <2>1. k # i
    BY <1>1
  <2> QED BY <2>1 DEF Flow
<1>2. ASSUME NEW q \in DOMAIN net', net'[q] \in PatchesTo(n), net'[q] \notin PatchesWith(b)
      PROVE  \E j \in DOMAIN net' : q < j /\ net'[j] \in PatchesTo(n) /\ EarlyNext(m, j)
  <2>1. PICK k \in DOMAIN net \ {i} : q = New(i, k) /\ net'[q] = net[k]
    BY <1>2 DEF Flow
  <2>2. PICK j \in DOMAIN net : k < j /\ net[j] \in PatchesTo(n) /\ Early(m, j)
    BY <1>2, <2>1 DEF InTime
  <2>3. j \in DOMAIN net \ {i} /\ New(i, j) \in DOMAIN net' /\ net'[New(i, j)] \in PatchesTo(n)
    BY <1>1, <2>2
  <2>4. New(i, k) < New(i, j) /\ EarlyNext(m, New(i, j))
    BY <2>1, <2>2, <2>3 DEF Flow
  <2> QED BY <2>1, <2>3, <2>4
<1>3. ASSUME \A q \in DOMAIN net' : net'[q] \in PatchesTo(n) => ~ EarlyNext(m, q)
      PROVE  SaysNext(n, b)
  <2>1. \A k \in DOMAIN net : net[k] \in PatchesTo(n) => ~ Early(m, k)
    BY <1>1, <1>3
  <2>2. Says(n, b)
    BY <2>1 DEF InTime
  <2> QED BY <2>2 DEF Says, SaysNext, BodyStays
<1> QED BY <1>2, <1>3 DEF InTime, Early, EarlyNext, Says, SaysNext

(* The first patch of the template is answered.                             *)
LEMMA InTimeAnswered ==
  ASSUME NEW i \in DOMAIN net, NEW e, Flow(i, e), NEW m \in Mounts, NEW n, NEW b, net \in Seq(Requests),
         InTime(m, n, b), net[i] \in PatchesTo(n), \A j \in 1 .. i - 1 : net[j] \notin PatchesTo(n),
         net[i] \in PatchesWith(b) => SaysNext(n, b),
         \A x \in DOMAIN e : e[x] \in PatchesTo(n) => e[x] \in PatchesWith(b),
         \A j \in DOMAIN net \ {i} : net[j] \in PatchesTo(n) /\ Early(m, j) => EarlyNext(m, New(i, j))
  PROVE  InTime(m, n, b)'
<1>0. DOMAIN net = 1 .. Len(net) /\ Len(net) \in Nat
  BY LenProperties
<1>1. ASSUME NEW k \in DOMAIN net, NEW j \in DOMAIN net, net[k] \in PatchesTo(n), k < j
      PROVE  j \in DOMAIN net \ {i} /\ New(i, j) \in DOMAIN net' /\ net'[New(i, j)] = net[j]
  <2>1. ~ k < i
    BY <1>0, <1>1
  <2>2. j # i
    BY <1>0, <1>1, <2>1
  <2> QED BY <2>2 DEF Flow
<1>2. ASSUME NEW q \in DOMAIN net', net'[q] \in PatchesTo(n), net'[q] \notin PatchesWith(b)
      PROVE  \E j \in DOMAIN net' : q < j /\ net'[j] \in PatchesTo(n) /\ EarlyNext(m, j)
  <2>1. PICK k \in DOMAIN net \ {i} : q = New(i, k) /\ net'[q] = net[k]
    BY <1>2 DEF Flow
  <2>2. PICK j \in DOMAIN net : k < j /\ net[j] \in PatchesTo(n) /\ Early(m, j)
    BY <1>2, <2>1 DEF InTime
  <2>3. net[k] \in PatchesTo(n)
    BY <1>2, <2>1
  <2>4. j \in DOMAIN net \ {i} /\ New(i, j) \in DOMAIN net' /\ net'[New(i, j)] \in PatchesTo(n)
    BY <1>1, <2>2, <2>3
  <2>5. New(i, k) < New(i, j) /\ EarlyNext(m, New(i, j))
    BY <2>1, <2>2, <2>4 DEF Flow
  <2> QED BY <2>1, <2>4, <2>5
<1>3. ASSUME \A q \in DOMAIN net' : net'[q] \in PatchesTo(n) => ~ EarlyNext(m, q)
      PROVE  SaysNext(n, b)
  <2> SUFFICES ASSUME net[i] \notin PatchesWith(b) PROVE FALSE
    OBVIOUS
  <2>1. PICK j \in DOMAIN net : i < j /\ net[j] \in PatchesTo(n) /\ Early(m, j)
    BY DEF InTime
  <2>2. j \in DOMAIN net \ {i} /\ New(i, j) \in DOMAIN net' /\ net'[New(i, j)] \in PatchesTo(n)
    BY <1>1, <2>1
  <2> QED BY <1>3, <2>1, <2>2
<1> QED BY <1>2, <1>3 DEF InTime, Early, EarlyNext, Says, SaysNext

MethodStays(n) == templates[n] # None => templates'[n].method = templates[n].method

LEMMA RunningUsed ==
  ASSUME Types, Kept, NEW m \in Mounts, NEW n \in Nat, n # 0, NEW w \in Wants, Running(m, n, w)
  PROVE  /\ n \in 1 .. made /\ templates[n] # None /\ ~ Deleting(m) /\ Owns(m, n) /\ Asked(m, w)
         /\ submits[m].want = w
<1>1. PICK k \in DOMAIN net : net[k].mount = m /\ net[k].name = n /\ net[k].kind \in SubmitKinds
  BY DEF Running
<1>2. n \in 1 .. made
  <2>1. n \in 0 .. made /\ made \in Nat
    BY <1>1, AnswerTypes, NumberFacts
  <2> QED BY <2>1
<1>3. Used(m, n) /\ Owns(m, n)
  BY <1>1 DEF Used, Owns
<1>4. Asked(m, w) /\ submits[m].want = w
  BY <1>1 DEF Running, Asked
<1> QED BY <1>2, <1>3, <1>4 DEF Kept

(* The submit's own request stays where it is, and so does its template.    *)
LEMMA PromiseApart ==
  ASSUME Types, Kept, Promises, NEW i \in {0} \cup DOMAIN net, NEW e, Flow(i, e),
         NEW m \in Mounts, NEW n \in Nat, n # 0, NEW w \in Wants, Running(m, n, w),
         \A x \in DOMAIN e : e[x].kind \in SubmitKinds => e[x].mount # m,
         i # 0 => net[i].kind \notin SubmitKinds \/ net[i].mount # m,
         i # 0 => net[i] \notin PatchesTo(n), BodyStays(n), MethodStays(n),
         \A x \in DOMAIN e : e[x] \in PatchesTo(n) => e[x] \in PatchesWith(WantBody(w))
  PROVE  Promised(m, n, w)'
<1>1. Promised(m, n, w) /\ templates[n] # None
  BY RunningUsed DEF Promises
<1>2. 0 \notin DOMAIN net
  BY LenProperties DEF Types, NetTypes
<1>3. \A j \in DOMAIN net \ {i} : net[j] \in PatchesTo(n) /\ Early(m, j) => EarlyNext(m, New(i, j))
  BY EarlyStays
<1>4. InTime(m, n, WantBody(w))
  BY <1>1 DEF Promised
<1>5. InTime(m, n, WantBody(w))'
  <2>1. PICK b : b = WantBody(w)
    OBVIOUS
  <2>2. InTime(m, n, b)'
    BY <1>2, <1>3, <1>4, <2>1, InTimeStays
  <2> QED BY <2>1, <2>2
<1>6. Planning(m)' => Planning(m)
  <2> SUFFICES ASSUME NEW q \in DOMAIN net', net'[q].mount = m, net'[q].kind = "plan" PROVE Planning(m)
    BY DEF Planning
  <2>1. CASE \E j \in DOMAIN net \ {i} : q = New(i, j) /\ net'[q] = net[j]
    BY <2>1 DEF Planning
  <2>2. CASE \E x \in DOMAIN e : q = Rest(i) + x /\ net'[q] = e[x]
    <3>1. PICK x \in DOMAIN e : net'[q] = e[x]
      BY <2>2
    <3>2. e[x].kind \in SubmitKinds /\ e[x].mount = m
      BY <3>1, KindFacts
    <3> QED BY <3>2
  <2> QED BY <2>1, <2>2 DEF Flow
<1>7. Planning(m)' => templates'[n].method = w.method
  BY <1>1, <1>6 DEF Promised, MethodStays
<1> QED BY <1>5, <1>7 DEF Promised

LEMMA PromiseKept ==
  ASSUME Types, Kept, Promises, NEW i \in {0} \cup DOMAIN net, NEW e, Chain(i, e),
         NEW m \in Mounts, NEW n \in Nat, n # 0, NEW w \in Wants, Running(m, n, w),
         i # 0 => net[i].kind \notin SubmitKinds \/ net[i].mount # m,
         i # 0 => net[i] \notin PatchesTo(n), BodyStays(n), MethodStays(n),
         \A x \in DOMAIN e : e[x] \in PatchesTo(n) => e[x] \in PatchesWith(WantBody(w))
  PROVE  Promised(m, n, w)'
<1>1. Flow(i, e) /\ \A x \in DOMAIN e : e[x].kind \in SubmitKinds => e[x].mount # m
  BY DEF Chain, Handover
<1> QED BY <1>1, PromiseApart

(* A patch of the template of a running submit says what was asked for.     *)
LEMMA DraftsRight ==
  ASSUME Types, Names, Kept, Frozen, NEW m \in Mounts, NEW n \in Nat, n # 0, NEW w \in Wants, Running(m, n, w),
         NEW e, NEW q, Sync(e, params, creds, q), mount # 0, q > made \/ Owns(mount, q)
  PROVE  \A x \in DOMAIN e : e[x] \in PatchesTo(n) => e[x] \in PatchesWith(WantBody(w))
<1> SUFFICES ASSUME NEW x \in DOMAIN e, e[x] \in PatchesTo(n) PROVE e[x] \in PatchesWith(WantBody(w))
  OBVIOUS
<1>1. e[x].name = n /\ e[x].name = q /\ e[x].arg = Body(params, creds) /\ e[x] \in Requests
  BY SyncedIs DEF Sync, PatchesTo
<1>2. n \in 1 .. made /\ made \in Nat /\ Owns(m, n) /\ Asked(m, w) /\ mount \in Mounts
  BY RunningUsed, NumberFacts
<1>3. Owns(mount, n)
  <2>1. ~ n > made
    BY <1>2
  <2> QED BY <1>1, <2>1
<1>4. m = mount
  BY <1>2, <1>3 DEF Names, OneOwner
<1>5. Body(params, creds) = WantBody(w)
  BY <1>2, <1>4 DEF Frozen
<1> QED BY <1>1, <1>5 DEF PatchesWith

(* Another drawer than the submit's writes its own template only.           *)
LEMMA DraftsNone ==
  ASSUME Types, Names, Kept, NEW m \in Mounts, NEW n \in Nat, n # 0, NEW w \in Wants, Running(m, n, w),
         m # mount, NEW e, NEW pa, NEW cr,
         \A x \in DOMAIN e : e[x].kind = "creds" \/ e[x] = Synced(pa, cr, template.name), mount # 0
  PROVE  \A x \in DOMAIN e : e[x] \notin PatchesTo(n)
<1> SUFFICES ASSUME NEW x \in DOMAIN e, e[x] \in PatchesTo(n) PROVE FALSE
  OBVIOUS
<1>1. e[x].kind = "patch" /\ e[x].name = n
  BY DEF PatchesTo
<1>2. template.name = n
  BY <1>1, SyncedIs
<1>3. Owns(mount, n) /\ mount \in Mounts
  BY <1>2, HasTemplate
<1>4. n \in 1 .. made /\ Owns(m, n)
  BY RunningUsed
<1> QED BY <1>3, <1>4 DEF Names, OneOwner

LEMMA Same == ASSUME templates' = templates PROVE \A n : BodyStays(n) /\ MethodStays(n)
BY DEF BodyStays, MethodStays

(* A step that writes no template.                                          *)
LEMMA PromisePlain ==
  ASSUME Types, Kept, Promises, NEW i \in {0} \cup DOMAIN net, NEW e, Chain(i, e), templates' = templates,
         \A x \in DOMAIN e : e[x].kind # "patch", i # 0 => net[i].kind \notin SubmitKinds \cup {"patch"},
         NEW m \in Mounts, NEW n \in Nat, n # 0, NEW w \in Wants, Running(m, n, w)'
  PROVE  Promised(m, n, w)'
<1>1. Running(m, n, w)
  BY RunningBefore
<1>2. BodyStays(n) /\ MethodStays(n)
  BY Same
<1>3. (i # 0 => net[i] \notin PatchesTo(n)) /\ \A x \in DOMAIN e : e[x] \notin PatchesTo(n)
  BY DEF PatchesTo
<1> QED BY <1>1, <1>2, <1>3, PromiseKept

LEMMA PromiseChange ==
  ASSUME Impatient = FALSE, Types, Names, Kept, Promises, NEW s \in Sides, NEW c \in Clusters[s], ClusterChange(s, c),
         NEW m \in Mounts, NEW n \in Nat, n # 0, NEW w \in Wants, Running(m, n, w)'
  PROVE  Promised(m, n, w)'
<1>1. PICK e : /\ Chain(0, e)
               /\ \A x \in DOMAIN e : e[x].kind = "creds" \/ e[x] = Synced(params', creds, template.name)
  BY ChangeChain
<1>2. Free /\ mount # 0 /\ templates' = templates
  BY DEF ClusterChange
<1>3. Running(m, n, w)
  BY <1>1, RunningBefore
<1>4. m # mount
  BY <1>2, <1>3 DEF Running, Free, InFlight
<1>5. \A x \in DOMAIN e : e[x] \notin PatchesTo(n)
  BY <1>1, <1>2, <1>3, <1>4, DraftsNone
<1> QED BY <1>1, <1>2, <1>3, <1>5, Same, PromiseKept

LEMMA PromiseGPU ==
  ASSUME Impatient = FALSE, Types, Names, Kept, Promises, UseGPUChange,
         NEW m \in Mounts, NEW n \in Nat, n # 0, NEW w \in Wants, Running(m, n, w)'
  PROVE  Promised(m, n, w)'
<1>1. PICK e : Chain(0, e) /\ \A x \in DOMAIN e : e[x] = Synced(params', creds, template.name)
  BY GPUChain DEF Sync
<1>2. Free /\ mount # 0 /\ templates' = templates
  BY DEF UseGPUChange
<1>3. Running(m, n, w)
  BY <1>1, RunningBefore
<1>4. m # mount
  BY <1>2, <1>3 DEF Running, Free, InFlight
<1>5. \A x \in DOMAIN e : e[x] \notin PatchesTo(n)
  BY <1>1, <1>2, <1>3, <1>4, DraftsNone
<1> QED BY <1>1, <1>2, <1>3, <1>5, Same, PromiseKept

LEMMA PromiseCreds ==
  ASSUME Types, Names, Kept, Frozen, Promises, NEW i \in DOMAIN net, CredsAnswer(i),
         NEW m \in Mounts, NEW n \in Nat, n # 0, NEW w \in Wants, Running(m, n, w)'
  PROVE  Promised(m, n, w)'
<1>1. templates' = templates /\ net[i].kind = "creds" /\ "creds" \notin SubmitKinds
  BY KindFacts DEF CredsAnswer
<1>2. CASE net[i].mount # mount
  <2>1. Chain(i, << >>)
    <3>1. Flow(i, << >>) /\ submits' = submits
      BY <1>2, CredsFlow DEF CredsAnswer
    <3> QED BY <3>1, NoneSent, Plain
  <2> QED BY <1>1, <2>1, NoneSent, PromisePlain
<1>3. CASE net[i].mount = mount
  <2>1. PICK e : Chain(i, e) /\ \A x \in DOMAIN e : e[x] = Synced(params, creds', template.name)
    BY CredsChain DEF Sync
  <2>2. Running(m, n, w)
    BY <2>1, RunningBefore
  <2>3. m # mount
    <3> SUFFICES ASSUME m = mount PROVE FALSE
      OBVIOUS
    <3>1. Asked(m, w)
      BY <2>2, RunningUsed
    <3>2. PICK s \in Sides : s = net[i].arg.side
      BY CredsFlow DEF Reads
    <3>3. net[i] \in ReadsBy(m, s)
      BY <1>1, <1>3, <3>2, AnswerTypes DEF ReadsBy
    <3>4. NoneIn(ReadsBy(m, s))
      BY <3>1 DEF Frozen
    <3> QED BY <3>3, <3>4 DEF NoneIn
  <2>4. mount # 0
    BY <1>3, AnswerTypes DEF Mounts
  <2>5. \A x \in DOMAIN e : e[x] \notin PatchesTo(n)
    BY <2>1, <2>2, <2>3, <2>4, DraftsNone
  <2>6. net[i] \notin PatchesTo(n)
    BY <1>1 DEF PatchesTo
  <2> QED BY <1>1, <2>1, <2>2, <2>5, <2>6, Same, PromiseKept
<1> QED BY <1>2, <1>3

LEMMA PlanningBefore ==
  ASSUME NEW i \in {0} \cup DOMAIN net, NEW e, NEW pa, NEW cr, NEW q,
         Chain(i, e), Sync(e, pa, cr, q), NEW m, Planning(m)'
  PROVE  Planning(m)
<1>1. PICK k \in DOMAIN net' : net'[k].mount = m /\ net'[k].kind = "plan"
  BY DEF Planning
<1>2. CASE \E j \in DOMAIN net \ {i} : k = New(i, j) /\ net'[k] = net[j]
  BY <1>1, <1>2 DEF Planning
<1>3. CASE \E x \in DOMAIN e : k = Rest(i) + x /\ net'[k] = e[x]
  BY <1>1, <1>3, SyncedIs DEF Sync
<1> QED BY <1>1, <1>2, <1>3 DEF Chain, Flow

LEMMA PatchMethod ==
  ASSUME Types, NEW i \in DOMAIN net, PatchAnswer(i)
  PROVE  templates'[net[i].name].method = templates[net[i].name].method
<1> DEFINE n == net[i].name
           t == templates[n]
           u == [t EXCEPT !.source = net[i].arg.source, !.destination = net[i].arg.destination,
                          !.cluster = net[i].arg.cluster, !.useGPU = net[i].arg.useGPU]
<1>1. templates \in [1 .. MaxTemplates -> Template \cup {None}] /\ n \in 1 .. MaxTemplates /\ t # None
  BY PatchIs DEF Types, ServerTypes
<1>2. templates' = [templates EXCEPT ![n] = u]
  BY DEF PatchAnswer
<1>3. t \in Template
  BY <1>1
<1>4. u.method = t.method
  BY <1>3 DEF Template
<1> HIDE DEF u
<1> QED BY <1>1, <1>2, <1>4

(* The template the answer brings: of another drawer, or as it was asked.   *)
LEMMA PromiseArrives ==
  ASSUME InOrder = TRUE, Types, Names, Kept, Frozen, Promises, NEW i \in DOMAIN net, Deliverable(i), Arrives(i),
         NEW m \in Mounts, NEW n \in Nat, n # 0, NEW w \in Wants, Running(m, n, w)'
  PROVE  Promised(m, n, w)'
<1>1. PICK q \in 1 .. made' : TemplateArrives(i, q) /\ (q = net[i].name \/ q = made + 1)
  BY ArrivesIs
<1>2. net[i].kind \in {"post", "patch", "poll"} /\ q \in Nat /\ made \in Nat /\ net \in Seq(Requests)
  BY ArrivesIs, AnswerTypes
<1>3. PICK e : Chain(i, e) /\ Sync(e, params, creds, q) /\ (net[i].mount # mount => DOMAIN e = {})
  BY <1>1, <1>2, ArrivesChain
<1>4. Running(m, n, w)
  BY <1>3, RunningBefore
<1>5. n \in 1 .. made /\ templates[n] # None /\ Owns(m, n)
  BY <1>4, RunningUsed
<1>6. \A x \in DOMAIN e : e[x] \in PatchesTo(n) => e[x] \in PatchesWith(WantBody(w))
  <2>1. CASE net[i].mount # mount
    BY <1>3, <2>1
  <2>2. CASE net[i].mount = mount
    <3>1. mount # 0
      BY <2>2, AnswerTypes DEF Mounts
    <3>2. q > made \/ Owns(mount, q)
      <4>1. CASE q = net[i].name
        BY <2>2, <4>1 DEF Owns
      <4>2. CASE q = made + 1
        BY <1>2, <4>2
      <4> QED BY <1>1, <4>1, <4>2
    <3> QED BY <1>3, <1>4, <3>1, <3>2, DraftsRight
  <2> QED BY <2>1, <2>2
<1>7. net[i].kind \notin SubmitKinds
  BY <1>2, KindFacts
<1>8. n \in 1 .. MaxTemplates
  <2>1. made <= MaxTemplates /\ MaxTemplates \in Nat
    BY RoomBounds, Facts
  <2> QED BY <1>2, <1>5, <2>1
<1>9. CASE ~ (net[i].kind = "patch" /\ net[i].name = n)
  <2>1. templates'[n] = templates[n]
    <3>1. CASE PostAnswer(i)
      <4>1. NewName = made + 1 /\ \A a \in (1 .. MaxTemplates) \ {NewName} : templates'[a] = templates[a]
        BY <3>1, PostIs
      <4>2. n # NewName
        BY <1>2, <1>5, <4>1
      <4> QED BY <1>8, <4>1, <4>2
    <3>2. CASE PatchAnswer(i)
      <4>1. net[i].name # n
        BY <1>9, <3>2, PatchIs
      <4> QED BY <1>8, <3>2, <4>1, PatchIs
    <3>3. CASE PollAnswer(i)
      BY <3>3 DEF PollAnswer
    <3> QED BY <3>1, <3>2, <3>3 DEF Arrives
  <2>2. BodyStays(n) /\ MethodStays(n)
    BY <2>1 DEF BodyStays, MethodStays
  <2>3. net[i] \notin PatchesTo(n)
    BY <1>9 DEF PatchesTo
  <2> QED BY <1>3, <1>4, <1>6, <1>7, <2>2, <2>3, PromiseKept
<1>10. CASE net[i].kind = "patch" /\ net[i].name = n
  <2>1. PatchAnswer(i)
    BY <1>10, PostIs DEF Arrives, PollAnswer
  <2>2. net[i] \in PatchesTo(n)
    BY <1>10, AnswerTypes DEF PatchesTo
  <2>3. \A j \in 1 .. i - 1 : net[j] \notin PatchesTo(n)
    <3> SUFFICES ASSUME NEW j \in 1 .. i - 1, net[j] \in PatchesTo(n) PROVE FALSE
      OBVIOUS
    <3>1. net[j].kind = "patch"
      BY DEF PatchesTo
    <3>2. Channel(net[j]) # Channel(net[i])
      BY DEF Deliverable
    <3> QED BY <1>10, <3>1, <3>2, Channels
  <2>4. PICK b : b = WantBody(w)
    OBVIOUS
  <2>5. net[i] \in PatchesWith(b) => SaysNext(n, b)
    BY <1>10, <2>1, PatchIs DEF PatchesWith
  <2>6. \A j \in DOMAIN net \ {i} : net[j] \in PatchesTo(n) /\ Early(m, j) => EarlyNext(m, New(i, j))
    <3>1. Flow(i, e)
      BY <1>3 DEF Chain
    <3> QED BY <1>7, <3>1, EarlyStays
  <2>7. InTime(m, n, b)
    BY <1>4, <1>5, <2>4 DEF Promises, Promised
  <2>8. InTime(m, n, b)'
    BY <1>2, <1>3, <1>6, <2>2, <2>3, <2>4, <2>5, <2>6, <2>7, InTimeAnswered DEF Chain
  <2>9. Planning(m)' => templates'[n].method = w.method
    <3> SUFFICES ASSUME Planning(m)' PROVE templates'[n].method = w.method
      OBVIOUS
    <3>1. Planning(m)
      BY <1>3, PlanningBefore
    <3>2. templates[n].method = w.method
      BY <1>4, <1>5, <3>1 DEF Promises, Promised
    <3>3. templates'[n].method = templates[n].method
      BY <1>10, <2>1, PatchMethod
    <3> QED BY <3>2, <3>3
  <2> QED BY <2>4, <2>8, <2>9 DEF Promised
<1> QED BY <1>9, <1>10

LEMMA PromiseDelete ==
  ASSUME Types, Names, Kept, Promises, NEW i \in DOMAIN net, DeleteAnswer(i),
         NEW m \in Mounts, NEW n \in Nat, n # 0, NEW w \in Wants, Running(m, n, w)'
  PROVE  Promised(m, n, w)'
<1>1. Chain(i, << >>)
  BY DeleteChain
<1>2. /\ net[i].kind = "delete" /\ net[i].kind \notin SubmitKinds
      /\ \A q \in (1 .. MaxTemplates) \ {net[i].name} : templates'[q] = templates[q]
  BY DeleteIs
<1>3. Running(m, n, w)
  BY <1>1, RunningBefore
<1>4. n \in 1 .. made /\ ~ Deleting(m) /\ Owns(m, n)
  BY <1>3, RunningUsed
<1>5. net[i].name # n
  <2> SUFFICES ASSUME net[i].name = n PROVE FALSE
    OBVIOUS
  <2>1. net[i].mount \in Mounts /\ Owns(net[i].mount, n)
    BY AnswerTypes DEF Owns
  <2>2. net[i].mount = m
    BY <1>4, <2>1 DEF Names, OneOwner
  <2> QED BY <1>2, <1>4, <2>2 DEF Deleting
<1>6. n \in 1 .. MaxTemplates
  <2>1. made <= MaxTemplates /\ MaxTemplates \in Nat /\ made \in Nat
    BY RoomBounds, Facts, NumberFacts
  <2> QED BY <1>4, <2>1
<1>7. BodyStays(n) /\ MethodStays(n)
  <2>1. templates'[n] = templates[n]
    BY <1>2, <1>5, <1>6
  <2> QED BY <2>1 DEF BodyStays, MethodStays
<1>8. net[i] \notin PatchesTo(n)
  BY <1>2 DEF PatchesTo
<1> QED BY <1>1, <1>2, <1>3, <1>7, <1>8, NoneSent, PromiseKept

(* A submit waits for one request.                                          *)
LEMMA OneRequest ==
  ASSUME Types, NEW i \in DOMAIN net, net[i].kind \in SubmitKinds,
         NEW j \in DOMAIN net, net[j].kind \in SubmitKinds, net[j].mount = net[i].mount
  PROVE  j = i
BY DEF Types, NetTypes

LEMMA AnswerEnds ==
  ASSUME Types, NEW i \in DOMAIN net, net[i].kind \in SubmitKinds, Chain(i, << >>),
         NEW m, m = net[i].mount, NEW n, NEW w, Running(m, n, w)'
  PROVE  FALSE
<1>1. PICK k \in DOMAIN net' : net'[k].mount = m /\ net'[k].kind \in SubmitKinds
  BY DEF Running
<1>2. PICK j \in DOMAIN net \ {i} : net'[k] = net[j]
  BY NoneSent DEF Chain, Flow
<1> QED BY <1>1, <1>2, OneRequest

(* The answer of another submit's request writes another template.          *)
LEMMA GoesBody ==
  ASSUME Types, Names, Kept, NEW i \in DOMAIN net, NetworkAnswer(i) \/ StorageAnswer(i) \/ MappingAnswer(i),
         NEW m \in Mounts, NEW n \in Nat, n # 0, NEW w \in Wants, Running(m, n, w)
  PROVE  BodyStays(n) /\ (net[i].mount # m => MethodStays(n))
<1>1. n \in 1 .. made /\ Owns(m, n)
  BY RunningUsed
<1>2. CASE NetworkAnswer(i) \/ StorageAnswer(i)
  <2>1. templates' = templates
    BY <1>2, NetworkTypes
  <2> QED BY <2>1, Same
<1>3. CASE MappingAnswer(i)
  <2>1. BodyStays(n)
    BY <1>1, <1>3, MappingBody
  <2>2. ASSUME net[i].mount # m PROVE MethodStays(n)
    <3>1. net[i].name # n
      <4>1. net[i].mount \in Mounts /\ Owns(net[i].mount, net[i].name)
        BY AnswerTypes DEF Owns
      <4> QED BY <1>1, <2>2, <4>1 DEF Names, OneOwner
    <3>2. n \in 1 .. MaxTemplates
      <4>1. made <= MaxTemplates /\ MaxTemplates \in Nat /\ made \in Nat
        BY RoomBounds, Facts, NumberFacts
      <4> QED BY <1>1, <4>1
    <3>3. templates'[n] = templates[n]
      BY <1>3, <3>1, <3>2, MappingIs
    <3> QED BY <3>3 DEF MethodStays
  <2> QED BY <2>1, <2>2
<1> QED BY <1>2, <1>3

LEMMA PromiseOther ==
  ASSUME Types, Names, Kept, Promises, NEW i \in DOMAIN net, NetworkAnswer(i) \/ StorageAnswer(i) \/ MappingAnswer(i),
         NEW m \in Mounts, NEW n \in Nat, n # 0, NEW w \in Wants, Running(m, n, w)', net[i].mount # m
  PROVE  Promised(m, n, w)'
<1>1. PICK k \in {"storage", "array", "mapping", "plan"} :
        \E e : Chain(i, e) /\ DOMAIN e = {1} /\ e[1].kind = k
  BY Goes
<1>2. PICK e : Chain(i, e) /\ DOMAIN e = {1} /\ e[1].kind = k
  BY <1>1
<1>3. Running(m, n, w)
  BY <1>2, RunningBefore
<1>4. (\A x \in DOMAIN e : e[x] \notin PatchesTo(n)) /\ net[i] \notin PatchesTo(n)
  <2>1. net[i].kind # "patch"
    BY Goes
  <2> QED BY <1>2, <2>1 DEF PatchesTo
<1>5. BodyStays(n) /\ MethodStays(n)
  BY <1>3, GoesBody
<1> QED BY <1>2, <1>3, <1>4, <1>5, PromiseKept

(* The submit's own answer: before the template is asked for, every patch  *)
(* counts; the mapping finds those before it answered.                      *)
LEMMA PromiseGoes ==
  ASSUME InOrder = TRUE, Types, Names, Kept, Promises, NEW i \in DOMAIN net, Deliverable(i),
         NetworkAnswer(i) \/ StorageAnswer(i) \/ MappingAnswer(i),
         NEW m \in Mounts, NEW n \in Nat, n # 0, NEW w \in Wants, Running(m, n, w)', net[i].mount = m
  PROVE  Promised(m, n, w)'
<1>1. PICK k \in {"storage", "array", "mapping", "plan"} :
        \E e : /\ Chain(i, e) /\ DOMAIN e = {1}
               /\ e[1].kind = k /\ e[1].mount = net[i].mount /\ e[1].name = net[i].name
               /\ IF net[i].kind = "mapping" THEN k = "plan" ELSE k # "plan"
  BY Goes
<1>2. PICK e : /\ Chain(i, e) /\ DOMAIN e = {1}
               /\ e[1].kind = k /\ e[1].mount = m
               /\ IF net[i].kind = "mapping" THEN k = "plan" ELSE k # "plan"
  BY <1>1
<1>3. Running(m, n, w)
  BY <1>2, RunningBefore
<1>4. /\ (\A x \in DOMAIN e : e[x] \notin PatchesTo(n)) /\ net[i] \notin PatchesTo(n)
      /\ net[i].kind \in SubmitKinds /\ 0 \notin DOMAIN net
  <2>1. net[i].kind # "patch" /\ net[i].kind \in SubmitKinds
    BY Goes, KindFacts
  <2>2. 0 \notin DOMAIN net
    BY LenProperties DEF Types, NetTypes
  <2> QED BY <1>2, <2>1, <2>2 DEF PatchesTo
<1>5. BodyStays(n)
  BY <1>3, GoesBody
<1>6. ASSUME NEW j \in DOMAIN net \ {i}, net[j] \in PatchesTo(n), Early(m, j)
      PROVE  EarlyNext(m, New(i, j))
  <2> DEFINE c == Rest(i) + 1
  <2>1. c \in DOMAIN net' /\ net'[c].mount = m /\ net'[c].kind = k /\ New(i, j) <= Rest(i)
    BY <1>2 DEF Chain, Flow
  <2>2. New(i, j) < c
    <3>1. net \in Seq(Requests) /\ i \in Nat /\ DOMAIN net = 1 .. Len(net) /\ Len(net) \in Nat
      BY AnswerTypes, LenProperties
    <3>2. New(i, j) \in Int /\ Rest(i) \in Int
      BY <3>1 DEF New, Rest
    <3> QED BY <2>1, <3>2
  <2> HIDE DEF c
  <2>3. CASE k # "plan"
    BY <2>1, <2>2, <2>3 DEF EarlyNext
  <2>4. CASE k = "plan"
    <3>1. net[i].kind = "mapping"
      BY <1>2, <2>4
    <3>2. PICK d \in DOMAIN net : /\ net[d].mount = m
                                  /\ \/ net[d].kind \in {"network", "storage", "array"}
                                     \/ net[d].kind = "mapping" /\ j < d
      BY <1>6 DEF Early
    <3>3. d = i
      BY <1>4, <3>2, KindFacts, OneRequest
    <3>4. j < i
      BY <3>1, <3>2, <3>3
    <3>5. j \in 1 .. i - 1
      BY <3>4, AnswerTypes, LenProperties
    <3>6. Channel(net[j]) # Channel(net[i])
      BY <3>5 DEF Deliverable
    <3>7. net[j].kind = "patch"
      BY <1>6 DEF PatchesTo
    <3> QED BY <3>1, <3>6, <3>7, Channels
  <2> QED BY <2>3, <2>4
<1>7. PICK b : b = WantBody(w)
  OBVIOUS
<1>8. Promised(m, n, w) /\ n \in 1 .. made /\ templates[n] # None /\ submits[m].want = w
  BY <1>3, RunningUsed DEF Promises
<1>9. InTime(m, n, b)'
  BY <1>2, <1>4, <1>5, <1>6, <1>7, <1>8, InTimeStays DEF Promised, Chain
<1>10. ASSUME Planning(m)' PROVE templates'[n].method = w.method
  <2>1. PICK q \in DOMAIN net' : net'[q].mount = m /\ net'[q].kind = "plan"
    BY <1>10 DEF Planning
  <2>2. CASE \E j \in DOMAIN net \ {i} : q = New(i, j) /\ net'[q] = net[j]
    <3>1. PICK j \in DOMAIN net \ {i} : net'[q] = net[j]
      BY <2>2
    <3>2. net[j].kind \in SubmitKinds /\ net[j].mount = m
      BY <2>1, <3>1, KindFacts
    <3> QED BY <1>4, <3>1, <3>2, OneRequest
  <2>3. CASE \E x \in DOMAIN e : q = Rest(i) + x /\ net'[q] = e[x]
    <3>1. k = "plan"
      BY <1>2, <2>1, <2>3
    <3>2. net[i].kind = "mapping"
      BY <1>2, <3>1
    <3>3. MappingAnswer(i)
      BY <3>2, NetworkTypes
    <3>4. net[i].name = n
      <4>1. PICK a \in DOMAIN net : net[a].mount = m /\ net[a].name = n /\ net[a].kind \in SubmitKinds
        BY <1>3 DEF Running
      <4> QED BY <1>4, <4>1, OneRequest
    <3>5. templates'[n] = [templates[n] EXCEPT !.method = w.method]
      BY <1>8, <3>3, <3>4, MappingIs
    <3>6. templates[n] \in Template
      BY <1>8, <3>3, <3>4, MappingIs DEF Types, ServerTypes
    <3> QED BY <3>5, <3>6 DEF Template
  <2> QED BY <1>2, <2>2, <2>3 DEF Chain, Flow
<1> QED BY <1>7, <1>9, <1>10 DEF Promised

LEMMA PromiseEnds ==
  ASSUME Failing \cap {"patch"} = {}, Types, Names, Kept, Promises, NEW i \in DOMAIN net, PlanAnswer(i) \/ Rejected(i),
         NEW m \in Mounts, NEW n \in Nat, n # 0, NEW w \in Wants, Running(m, n, w)'
  PROVE  Promised(m, n, w)'
<1>1. Chain(i, << >>) /\ templates' = templates
  BY PlanChain, RejectedChain, PlanIs, RejectedIs
<1>2. Running(m, n, w)
  BY <1>1, RunningBefore
<1>3. net[i].kind \notin SubmitKinds \/ net[i].mount # m
  BY <1>1, AnswerEnds
<1>4. net[i] \notin PatchesTo(n)
  <2> SUFFICES ASSUME net[i].kind = "patch", net[i].name = n PROVE FALSE
    BY DEF PatchesTo
  <2>1. Rejected(i)
    BY PlanIs
  <2>2. ~ Found(net[i].name)
    BY <2>1, RejectedIs
  <2>3. templates[n] # None
    BY <1>2, RunningUsed
  <2> QED BY <2>2, <2>3 DEF Found
<1> QED BY <1>1, <1>2, <1>3, <1>4, NoneSent, Same, PromiseKept

(* Start: what the form shows is what its template says, or will.           *)
LEMMA PromiseStart ==
  ASSUME Impatient = FALSE, Failing \cap {"creds", "patch"} = {}, Types, Names, Kept, CredsFollow, TemplateFollows, Promises,
         NEW method \in Methods, NEW required \in BOOLEAN, HandleSubmit(method, required),
         NEW m \in Mounts, NEW n \in Nat, n # 0, NEW w \in Wants, Running(m, n, w)'
  PROVE  Promised(m, n, w)'
<1>1. PICK e : e = <<RequestOf(FirstKind(method, required), template.name)>>
  OBVIOUS
<1>2. /\ Flow(0, e) /\ DOMAIN e = {1} /\ e[1].kind \in {"network", "storage", "array"}
      /\ e[1].mount = mount /\ e[1].name = template.name
      /\ \A k \in DOMAIN net : net[k].mount = mount => net[k].kind \notin SubmitKinds
      /\ submits'[mount].want = Chosen(method)
      /\ \A q \in Mounts \ {mount} : submits'[q] = submits[q]
      /\ mount \in Mounts /\ templates' = templates
  BY <1>1, SubmitAlone
<1>3. 0 \notin DOMAIN net /\ \A x \in DOMAIN e : e[x] \notin PatchesTo(n)
  BY <1>2, LenProperties DEF Types, NetTypes, PatchesTo
<1>4. BodyStays(n) /\ MethodStays(n)
  BY <1>2, Same
<1>5. PICK k \in DOMAIN net' : net'[k].mount = m /\ net'[k].name = n /\ net'[k].kind \in SubmitKinds
  BY DEF Running
<1>6. CASE m = mount
  <2>1. k = Rest(0) + 1 /\ net'[k] = e[1]
    <3>1. CASE \E j \in DOMAIN net \ {0} : k = New(0, j) /\ net'[k] = net[j]
      BY <1>2, <1>5, <1>6, <3>1
    <3>2. CASE \E x \in DOMAIN e : k = Rest(0) + x /\ net'[k] = e[x]
      BY <1>2, <3>2
    <3> QED BY <1>2, <3>1, <3>2 DEF Flow
  <2>2. n = template.name /\ n \in 1 .. made
    <3>1. n = template.name
      BY <1>2, <1>5, <2>1
    <3> QED BY <1>2, <3>1, HasTemplate DEF Mounts
  <2>3. w = Chosen(method)
    BY <1>2, <1>6 DEF Running
  <2>4. /\ Validated(creds) /\ Body(params, creds) = WantBody(w)
    BY <2>3, StartAsks
  <2>5. Body(params, creds) \in Bodies
    BY <2>4, BodyType DEF Types, FormTypes, ParamsSet, CredsSet
  <2>6. PICK b \in Bodies : b = WantBody(w)
    BY <2>4, <2>5
  <2>7. Ends(n, b)
    BY <1>6, <2>2, <2>4, <2>6 DEF TemplateFollows, Trusted
  <2>8. LastIn(PatchesTo(n), PatchesWith(b)) /\ (NoneIn(PatchesTo(n)) => Says(n, b))
    BY <2>7 DEF Ends
  <2>9. LastIn(PatchesTo(n), PatchesWith(b))' /\ (NoneIn(PatchesTo(n))' <=> NoneIn(PatchesTo(n)))
    BY <1>2, <1>3, <2>8, LastStays
  <2>10. Says(n, b) => Says(n, b)'
    BY <1>4 DEF Says, BodyStays
  <2>11. \A j : EarlyNext(m, j)
    BY <1>2, <1>5, <1>6, <2>1 DEF EarlyNext
  <2>12. InTime(m, n, b)'
    BY <2>8, <2>9, <2>10, <2>11 DEF InTime, LastIn, NoneIn, Early, EarlyNext
  <2>13. ~ Planning(m)'
    <3> SUFFICES ASSUME NEW q \in DOMAIN net', net'[q].mount = m, net'[q].kind = "plan" PROVE FALSE
      BY DEF Planning
    <3>1. CASE \E j \in DOMAIN net \ {0} : q = New(0, j) /\ net'[q] = net[j]
      <4>1. PICK j \in DOMAIN net : net'[q] = net[j]
        BY <3>1
      <4> QED BY <1>2, <1>6, <4>1, KindFacts
    <3>2. CASE \E x \in DOMAIN e : q = Rest(0) + x /\ net'[q] = e[x]
      BY <1>2, <3>2
    <3> QED BY <1>2, <3>1, <3>2 DEF Flow
  <2> QED BY <2>6, <2>12, <2>13 DEF Promised
<1>7. CASE m # mount
  <2>1. submits'[m] = submits[m]
    BY <1>2, <1>7
  <2>2. Running(m, n, w)
    <3>1. CASE \E j \in DOMAIN net \ {0} : k = New(0, j) /\ net'[k] = net[j]
      BY <1>5, <2>1, <3>1 DEF Running
    <3>2. CASE \E x \in DOMAIN e : k = Rest(0) + x /\ net'[k] = e[x]
      BY <1>2, <1>5, <1>7, <3>2
    <3> QED BY <1>2, <3>1, <3>2 DEF Flow
  <2>3. \A x \in DOMAIN e : e[x].kind \in SubmitKinds => e[x].mount # m
    BY <1>2, <1>7
  <2> QED BY <1>2, <1>3, <1>4, <2>2, <2>3, PromiseApart
<1> QED BY <1>6, <1>7

LEMMA PromiseAnswer ==
  ASSUME InOrder = TRUE, Failing \cap {"patch"} = {}, Types, Names, Kept, Frozen, Promises,
         NEW i \in DOMAIN net, Answer(i),
         NEW m \in Mounts, NEW n \in Nat, n # 0, NEW w \in Wants, Running(m, n, w)'
  PROVE  Promised(m, n, w)'
<1>0. Deliverable(i)
  BY DEF Answer
<1>1. CASE CredsAnswer(i)
  BY <1>1, PromiseCreds
<1>2. CASE Arrives(i)
  BY <1>0, <1>2, PromiseArrives
<1>3. CASE DeleteAnswer(i)
  BY <1>3, PromiseDelete
<1>4. CASE NetworkAnswer(i) \/ StorageAnswer(i) \/ MappingAnswer(i)
  <2>1. CASE net[i].mount = m
    BY <1>0, <1>4, <2>1, PromiseGoes
  <2>2. CASE net[i].mount # m
    BY <1>4, <2>2, PromiseOther
  <2> QED BY <2>1, <2>2
<1>5. CASE PlanAnswer(i) \/ Rejected(i)
  BY <1>5, PromiseEnds
<1> QED BY <1>1, <1>2, <1>3, <1>4, <1>5 DEF Answer, Arrives

LEMMA PromiseNext ==
  ASSUME InOrder = TRUE, Impatient = FALSE, Failing \cap {"creds", "patch"} = {},
         Types, Types', Names, Kept, CredsFollow, TemplateFollows, Frozen, Promises, [Next]_vars
  PROVE  Promises'
<1> SUFFICES ASSUME NEW m \in Mounts, NEW n \in Nat, n # 0, NEW w \in Wants, Running(m, n, w)'
             PROVE  Promised(m, n, w)'
  <2>1. \A n \in 1 .. made' : n \in Nat /\ n # 0
    BY DEF Types, ServerTypes
  <2> QED BY <2>1 DEF Promises
<1>1. CASE OpenForm
  <2>1. submits' = submits /\ net' = net /\ templates' = templates
    BY <1>1 DEF OpenForm
  <2> QED BY <2>1, StillChain, NoneSent, PromisePlain
<1>2. ASSUME NEW s \in Sides, NEW c \in Clusters[s], ClusterChange(s, c) PROVE Promised(m, n, w)'
  BY <1>2, PromiseChange
<1>3. CASE UseGPUChange
  BY <1>3, PromiseGPU
<1>4. CASE PollTemplate
  <2>1. PICK e : Chain(0, e) /\ \A x \in DOMAIN e : e[x].kind = "poll"
    BY <1>4, PollChain
  <2>2. templates' = templates
    BY <1>4 DEF PollTemplate
  <2> QED BY <2>1, <2>2, PromisePlain
<1>5. CASE HandleClose
  <2>1. PICK e : Chain(0, e) /\ \A x \in DOMAIN e : e[x].kind = "delete"
    BY <1>5, CloseChain
  <2>2. templates' = templates
    BY <1>5 DEF HandleClose
  <2> QED BY <2>1, <2>2, PromisePlain
<1>6. ASSUME NEW method \in Methods, NEW required \in BOOLEAN, HandleSubmit(method, required)
      PROVE  Promised(m, n, w)'
  BY <1>6, PromiseStart
<1>7. ASSUME NEW i \in DOMAIN net, Answer(i) PROVE Promised(m, n, w)'
  BY <1>7, PromiseAnswer
<1>8. ASSUME NEW q \in DOMAIN templates, Resolve(q) PROVE Promised(m, n, w)'
  <2>1. submits' = submits /\ net' = net
    BY <1>8, ResolveIs
  <2>2. Chain(0, << >>)
    BY <2>1, StillChain
  <2>3. Running(m, n, w)
    BY <2>2, RunningBefore
  <2>4. n \in 1 .. MaxTemplates
    <3>1. made <= MaxTemplates /\ MaxTemplates \in Nat /\ made \in Nat /\ n \in 1 .. made
      BY <2>3, RoomBounds, Facts, NumberFacts, RunningUsed
    <3> QED BY <3>1
  <2>5. BodyStays(n) /\ MethodStays(n)
    BY <1>8, <2>4, ResolveIs DEF BodyStays, MethodStays
  <2> QED BY <2>2, <2>3, <2>5, NoneSent, PromiseKept
<1>9. CASE Finished \/ UNCHANGED vars
  <2>1. submits' = submits /\ net' = net /\ templates' = templates
    BY <1>9 DEF Finished, vars
  <2> QED BY <2>1, StillChain, NoneSent, PromisePlain
<1> QED BY <1>1, <1>2, <1>3, <1>4, <1>5, <1>6, <1>7, <1>8, <1>9 DEF Next

LEMMA PromiseInit == Init => Promises
<1> SUFFICES ASSUME Init, NEW m \in Mounts, NEW n, NEW w PROVE ~ Running(m, n, w)
  BY DEF Promises
<1>1. DOMAIN net = {}
  BY NoneSent DEF Init
<1> QED BY <1>1 DEF Running

LEMMA PromisesHold ==
  ASSUME InOrder = TRUE, Impatient = FALSE, Failing \cap {"creds", "patch"} = {}
  PROVE  Spec => []Promises
<1>1. Init => Promises
  BY PromiseInit
<1>2. /\ Types /\ Types' /\ Names /\ Kept /\ CredsFollow /\ TemplateFollows /\ Frozen /\ Promises
      /\ [Next]_vars
      => Promises'
  BY PromiseNext
<1>3. Spec => []Frozen
  <2>1. Failing \cap {"creds"} = {}
    OBVIOUS
  <2> QED BY <2>1, FrozenHolds
<1> QED BY <1>1, <1>2, <1>3, TypesHold, NamesHold, KeptHolds, ReadsHold, TemplateHolds, PTL DEF Spec

LEMMA PlanRight ==
  ASSUME InOrder = TRUE, Types, Kept, Promises, NEW i \in DOMAIN net, PlanAnswer(i), PlanAsChosen
  PROVE  PlanAsChosen'
<1> DEFINE m == net[i].mount
           n == net[i].name
           w == submits[m].want
<1>1. m \in Mounts /\ w \in Wants /\ net[i].kind = "plan" /\ n # 0 /\ n \in Nat
  BY PlanIs, AnswerTypes, NumberFacts DEF RequestOK, Kept
<1>2. Running(m, n, w) /\ Planning(m)
  BY <1>1, KindFacts DEF Running, Planning
<1> HIDE DEF m, n, w
<1>3. Promised(m, n, w) /\ templates[n] # None /\ n \in 1 .. made
  BY <1>1, <1>2, RunningUsed DEF Promises
<1>4. \A j \in DOMAIN net : ~ Early(m, j)
  <2> SUFFICES ASSUME NEW d \in DOMAIN net, net[d].mount = m,
                      net[d].kind \in {"network", "storage", "array", "mapping"}
               PROVE  FALSE
    BY DEF Early
  <2>1. d = i
    BY <1>1, KindFacts, OneRequest DEF m
  <2> QED BY <1>1, <2>1
<1>5. Says(n, WantBody(w)) /\ templates[n].method = w.method
  BY <1>2, <1>3, <1>4 DEF Promised, InTime
<1>6. PICK p : /\ plans' = plans \cup {p} /\ p.name = n /\ p.want = w
               /\ Found(p.name) =>
                    p.seen = [source |-> templates[p.name].source, destination |-> templates[p.name].destination,
                              cluster |-> templates[p.name].cluster, useGPU |-> templates[p.name].useGPU,
                              method |-> templates[p.name].method]
  BY PlanIs DEF m, n, w
<1>7. p.seen = w
  <2>1. p.seen = [source |-> w.source, destination |-> w.destination, cluster |-> w.cluster,
                  useGPU |-> w.useGPU, method |-> w.method]
    BY <1>1, <1>3, <1>5, <1>6 DEF Found, Says, WantBody
  <2> QED BY <1>1, <2>1 DEF Wants
<1> QED BY <1>6, <1>7 DEF PlanAsChosen

LEMMA PlansNext ==
  ASSUME InOrder = TRUE, Types, Kept, Promises, PlanAsChosen, [Next]_vars
  PROVE  PlanAsChosen'
<1>1. ASSUME NEW i \in DOMAIN net, PlanAnswer(i) PROVE PlanAsChosen'
  BY <1>1, PlanRight
<1>2. ASSUME plans' = plans PROVE PlanAsChosen'
  BY <1>2 DEF PlanAsChosen
<1>3. (\E i \in DOMAIN net : PlanAnswer(i)) \/ plans' = plans
  BY DEF Next, vars, OpenForm, UseGPUChange, PollTemplate, HandleClose, Finished, ClusterChange,
         HandleSubmit, Resolve, Answer, CredsAnswer, PostAnswer, PatchAnswer, PollAnswer, DeleteAnswer,
         NetworkAnswer, StorageAnswer, MappingAnswer, Rejected
<1> QED BY <1>1, <1>2, <1>3

(* The plan handleSubmit creates runs with the credentials, cluster, GPU    *)
(* flag and copy method the form showed when Start was clicked, although    *)
(* handleSubmit does not wait for the patches of syncMigrationTemplate that *)
(* are still under way.                                                     *)
THEOREM PlansAreAsChosen ==
  ASSUME InOrder = TRUE, Impatient = FALSE, Failing \cap {"creds", "patch"} = {}
  PROVE  Spec => []PlanAsChosen
<1>1. Init => PlanAsChosen
  BY DEF Init, PlanAsChosen
<1>2. Types /\ Kept /\ Promises /\ PlanAsChosen /\ [Next]_vars => PlanAsChosen'
  BY PlansNext
<1> QED BY <1>1, <1>2, TypesHold, KeptHolds, PromisesHold, PTL DEF Spec
=============================================================================
