--------------------------- MODULE MigrationForm ---------------------------
(***************************************************************************)
(* The drawer that starts a migration (MigrationFormDrawer with its hooks  *)
(* useCredentialFetching and useMigrationFormSubmit).  While the operator  *)
(* chooses, effects of React read the credentials and keep an ephemeral    *)
(* MigrationTemplate on the server in step with the choices; "Start        *)
(* Migration" runs an asynchronous chain of requests that ends in a plan   *)
(* naming that template; closing the drawer deletes the template.  Each    *)
(* mount of the drawer has state of its own; an answer that arrives after  *)
(* its mount is gone has taken effect on the server, changes no state of   *)
(* the form, but still continues the asynchronous function that awaits it. *)
(***************************************************************************)
EXTENDS Naturals, Sequences

CONSTANTS
  Clusters,   \* clusters on offer: [source |-> ..., target |-> ...]
  CredOf,     \* the credentials a cluster belongs to
  ValidCreds, \* credentials whose validation succeeded
  None,       \* undefined
  Methods,    \* storage copy methods explored
  Failing,    \* kinds of requests that may be rejected
  InOrder,    \* requests of one channel are served in the order they were sent
  Impatient,  \* Start is clicked before the credentials are read, and the
              \* form is changed or closed while a submit runs
  MaxMounts,  \* bound: times the drawer is opened
  MaxEdits,   \* bound: changes of a choice
  MaxFaults   \* bound: rejected requests

Sides == {"source", "target"}
Mounts == 1..MaxMounts
CopyMethods == {"normal", "HotAdd", "StorageAcceleratedCopy"}
Kinds == {"creds", "post", "patch", "poll", "delete",
          "network", "storage", "array", "mapping", "plan"}
Creds == {CredOf[c] : c \in Clusters.source \cup Clusters.target}

(* A MigrationTemplate on the server; the method is set by the submit.      *)
Template ==
  [source : Creds, destination : Creds, cluster : Clusters["target"] \cup {None},
   useGPU : BOOLEAN, method : CopyMethods \cup {None}, ready : BOOLEAN]

ASSUME FormAssumption ==
  /\ DOMAIN Clusters = Sides
  /\ \A s \in Sides : None \notin Clusters[s]
  /\ None \notin Creds /\ None \notin Template /\ ValidCreds \subseteq Creds
  /\ Methods \subseteq CopyMethods
  /\ Failing \subseteq Kinds /\ InOrder \in BOOLEAN /\ Impatient \in BOOLEAN
  /\ MaxMounts \in Nat /\ MaxEdits \in Nat /\ MaxFaults \in Nat

VARIABLES
  mount,     \* the mounted drawer, 0 when it is closed
  mounts,    \* mounts so far
  params,    \* what the operator chose: the two clusters and useGPU
  creds,     \* vmwareCredentials and openstackCredentials
  template,  \* migrationTemplate: the name (0: undefined), and its status seen
  submits,   \* the run of handleSubmit of each mount
  net,       \* requests sent and not yet answered, oldest first
  templates, \* server: MigrationTemplates by name, None where there is none
  made,      \* server: MigrationTemplates created
  plans,     \* server: MigrationPlans
  edits, faults

formVars == <<mount, mounts, params, creds, template>>
vars == <<formVars, submits, net, templates, made, plans, edits, faults>>

NoParams == [source |-> None, target |-> None, useGPU |-> FALSE]
NoCreds == [s \in Sides |-> None]
NoTemplate == [name |-> 0, ready |-> FALSE]
Idle == [pc |-> "idle", name |-> 0, want |-> None]
MaxTemplates == 2 * (MaxEdits + MaxMounts) \* bound: room for every POST

Init ==
  /\ mount = 0 /\ mounts = 0
  /\ params = NoParams /\ creds = NoCreds /\ template = NoTemplate
  /\ submits = [m \in Mounts |-> Idle]
  /\ net = << >> /\ plans = {}
  /\ templates = [n \in 1..MaxTemplates |-> None] /\ made = 0
  /\ edits = 0 /\ faults = 0

-----------------------------------------------------------------------------
(* The effects of one commit of the form.                                   *)

Validated(cr) == \A s \in Sides : cr[s] \in ValidCreds

(* What the template must say for given choices and credentials read.       *)
Body(pa, cr) == [source |-> cr.source, destination |-> cr.target,
                 cluster |-> pa.target, useGPU |-> pa.useGPU]

Request(kind, name, arg) ==
  [kind |-> kind, name |-> name, arg |-> arg, mount |-> mount]

(* Mutant: the sync effect does not depend on the template's name.            *)
SyncDepsNoName(pa, cr, name) ==
  <<[s \in Sides |-> cr[s] \in ValidCreds], cr, pa.target, pa.useGPU>>
(* Mutant: nor on the GPU flag.                                             *)
SyncDepsNoGPU(pa, cr, name) ==
  <<[s \in Sides |-> cr[s] \in ValidCreds], cr, pa.target, name>>
(* The dependencies of the effect that syncs the template.                  *)
SyncDeps(pa, cr, name) ==
  <<[s \in Sides |-> cr[s] \in ValidCreds], cr, pa.target, pa.useGPU, name>>

(* The sync effect after the form went from one state to the next.          *)
SyncTemplate(pa, cr, name, pa2, cr2, name2) ==
  IF SyncDeps(pa, cr, name) = SyncDeps(pa2, cr2, name2) \/ ~Validated(cr2)
    THEN << >>
    ELSE <<Request(IF name2 = 0 THEN "post" ELSE "patch", name2, Body(pa2, cr2))>>
(* The reset effect: runs when a validation flag changed.                   *)
ResetTemplate(cr, cr2, t) ==
  IF ~Validated(cr2) /\ \E s \in Sides : (cr[s] \in ValidCreds) # (cr2[s] \in ValidCreds)
    THEN NoTemplate ELSE t

-----------------------------------------------------------------------------
(* The operator.                                                            *)

Submitting(m) == submits[m].pc \notin {"idle", "done"}
InFlight(m, K) == \E i \in DOMAIN net : net[i].mount = m /\ net[i].kind \in K
SubmitKinds == {"network", "storage", "array", "mapping", "plan"}
Free == Impatient \/ ~InFlight(mount, SubmitKinds)

OpenForm ==
  /\ mount = 0 /\ mounts < MaxMounts
  /\ mounts' = mounts + 1 /\ mount' = mounts + 1
  /\ params' = NoParams /\ creds' = NoCreds /\ template' = NoTemplate
  /\ UNCHANGED <<submits, net, templates, made, plans, edits, faults>>

(* Another cluster: its credentials are read afresh; the effects of the     *)
(* same commit still see the credentials of before.                         *)
ClusterChange(s, c) ==
  /\ mount # 0 /\ edits < MaxEdits /\ Free /\ c # params[s]
  /\ edits' = edits + 1
  /\ params' = [params EXCEPT ![s] = c]
  /\ creds' = [creds EXCEPT ![s] = None]
  /\ net' = net \o <<Request("creds", 0, [side |-> s, cred |-> CredOf[c]])>>
                \o SyncTemplate(params, creds, template.name,
                                params', creds, template.name)
  /\ template' = ResetTemplate(creds, creds', template)
  /\ UNCHANGED <<mount, mounts, submits, templates, made, plans, faults>>

UseGPUChange ==
  /\ mount # 0 /\ edits < MaxEdits /\ Free
  /\ edits' = edits + 1
  /\ params' = [params EXCEPT !.useGPU = ~@]
  /\ net' = net \o SyncTemplate(params, creds, template.name,
                                params', creds, template.name)
  /\ UNCHANGED <<mount, mounts, creds, template, submits, templates, made,
                 plans, faults>>

(* One tick of useInterval; ticks while an answer is due add nothing.       *)
PollTemplate ==
  /\ mount # 0 /\ template.name # 0 /\ ~template.ready
  /\ ~InFlight(mount, {"poll"})
  /\ net' = Append(net, Request("poll", template.name, None))
  /\ UNCHANGED <<formVars, submits, templates, made, plans, edits, faults>>

Unmount ==
  /\ mount' = 0 /\ params' = NoParams /\ creds' = NoCreds /\ template' = NoTemplate

(* handleClose: Cancel, the close icon and Escape, never disabled.          *)
HandleClose ==
  /\ mount # 0 /\ Free
  /\ Unmount
  /\ net' = IF template.name = 0 THEN net
            ELSE Append(net, Request("delete", template.name, None))
  /\ UNCHANGED <<mounts, submits, templates, made, plans, edits, faults>>

(* What the operator sees in the form when Start is clicked.                *)
Chosen(method) ==
  [source |-> CredOf[params.source], destination |-> CredOf[params.target],
   cluster |-> params.target, useGPU |-> params.useGPU, method |-> method]

DisableSubmit ==
  \/ ~Validated(creds) \/ params.source = None \/ params.target = None
  \/ Submitting(mount)

StorageKind(method) == IF method = "StorageAcceleratedCopy" THEN "array" ELSE "storage"

(* handleSubmit up to its first request; template and params are captured.  *)
HandleSubmit(method, networkMappingRequired) ==
  /\ mount # 0 /\ ~DisableSubmit
  /\ Impatient \/ ~InFlight(mount, {"creds"})
  /\ LET k == IF networkMappingRequired THEN "network" ELSE StorageKind(method)
     IN  /\ submits' = [submits EXCEPT ![mount] =
                          [pc |-> k, name |-> template.name, want |-> Chosen(method)]]
         /\ net' = Append(net, Request(k, template.name, None))
  /\ UNCHANGED <<formVars, templates, made, plans, edits, faults>>

-----------------------------------------------------------------------------
(* The API server and the answers.                                          *)

Channel(r) == CASE r.kind = "creds" -> r.arg.side
                [] r.kind \in {"network", "storage", "array", "plan"} -> r.kind
                [] OTHER -> "template"

Deliverable(i) ==
  InOrder => \A j \in 1..(i - 1) : Channel(net[j]) # Channel(net[i])

Without(i) == SubSeq(net, 1, i - 1) \o SubSeq(net, i + 1, Len(net))
Found(n) == n # 0 /\ templates[n] # None

(* An answer that sets the credentials of a side.                           *)
CredsAnswer(i) ==
  LET r == net[i]
  IN  /\ r.kind = "creds"
      /\ IF r.mount # mount THEN net' = Without(i) /\ UNCHANGED <<creds, template>>
         ELSE /\ creds' = [creds EXCEPT ![r.arg.side] = r.arg.cred]
              /\ net' = Without(i) \o SyncTemplate(params, creds, template.name,
                                                   params, creds', template.name)
              /\ template' = ResetTemplate(creds, creds', template)
      /\ UNCHANGED <<mount, mounts, params, submits, templates, made, plans, edits, faults>>

(* setMigrationTemplate with what the server returned, if still mounted.    *)
TemplateArrives(i, n) ==
  IF net[i].mount # mount THEN net' = Without(i) /\ UNCHANGED template
  ELSE /\ template' = [name |-> n, ready |-> templates'[n].ready]
       /\ net' = Without(i) \o SyncTemplate(params, creds, template.name,
                                            params, creds, n)

NewName == made + 1

PostAnswer(i) ==
  LET r == net[i]
  IN  /\ r.kind = "post"
      /\ made' = NewName
      /\ templates' = [templates EXCEPT ![NewName] =
           [source |-> r.arg.source, destination |-> r.arg.destination,
            cluster |-> r.arg.cluster, useGPU |-> r.arg.useGPU,
            method |-> None, ready |-> FALSE]]
      /\ TemplateArrives(i, NewName)
      /\ UNCHANGED <<mount, mounts, params, creds, submits, plans, edits, faults>>

PatchAnswer(i) ==
  LET r == net[i]
  IN  /\ r.kind = "patch" /\ Found(r.name)
      /\ templates' = [templates EXCEPT ![r.name] =
           [@ EXCEPT !.source = r.arg.source, !.destination = r.arg.destination,
                     !.cluster = r.arg.cluster, !.useGPU = r.arg.useGPU]]
      /\ TemplateArrives(i, r.name)
      /\ UNCHANGED <<mount, mounts, params, creds, submits, made, plans, edits, faults>>

PollAnswer(i) ==
  /\ net[i].kind = "poll" /\ Found(net[i].name)
  /\ UNCHANGED templates
  /\ TemplateArrives(i, net[i].name)
  /\ UNCHANGED <<mount, mounts, params, creds, submits, made, plans, edits, faults>>

(* The template's controller fills in networks and volume types.            *)
Resolve(n) ==
  /\ templates[n] # None /\ ~templates[n].ready
  /\ templates' = [templates EXCEPT ![n].ready = TRUE]
  /\ UNCHANGED <<formVars, submits, net, made, plans, edits, faults>>

DeleteAnswer(i) ==
  /\ net[i].kind = "delete" /\ Found(net[i].name)
  /\ templates' = [templates EXCEPT ![net[i].name] = None]
  /\ net' = Without(i)
  /\ UNCHANGED <<formVars, submits, made, plans, edits, faults>>

(* The next await of handleSubmit, of whichever mount runs it.              *)
Continue(i, k) ==
  /\ submits' = [submits EXCEPT ![net[i].mount].pc = k]
  /\ net' = Append(Without(i), [net[i] EXCEPT !.kind = k])

NetworkAnswer(i) ==
  /\ net[i].kind = "network"
  /\ Continue(i, StorageKind(submits[net[i].mount].want.method))
  /\ UNCHANGED <<formVars, templates, made, plans, edits, faults>>

StorageAnswer(i) ==
  /\ net[i].kind \in {"storage", "array"}
  /\ Continue(i, "mapping")
  /\ UNCHANGED <<formVars, templates, made, plans, edits, faults>>

MappingAnswer(i) ==
  /\ net[i].kind = "mapping" /\ Found(net[i].name)
  /\ templates' = [templates EXCEPT ![net[i].name].method =
                     submits[net[i].mount].want.method]
  /\ Continue(i, "plan")
  /\ UNCHANGED <<formVars, made, plans, edits, faults>>

(* onClose() of App: closes the drawer that is open now, whoever calls it.  *)
OnClose == IF mount = 0 THEN UNCHANGED formVars ELSE Unmount /\ UNCHANGED mounts

(* Mutant: a submit closes through handleClose, which deletes the template. *)
AfterSubmitCleans(i) == Append(Without(i), [net[i] EXCEPT !.kind = "delete"])
(* What handleSubmit leaves behind when it closes the drawer.               *)
AfterSubmit(i) == Without(i)

PlanAnswer(i) ==
  LET r == net[i]
      n == r.name
  IN  /\ r.kind = "plan"
      /\ plans' = plans \cup {[mount |-> r.mount, name |-> n,
           want |-> submits[r.mount].want,
           seen |-> IF Found(n)
                      THEN [source |-> templates[n].source,
                            destination |-> templates[n].destination,
                            cluster |-> templates[n].cluster,
                            useGPU |-> templates[n].useGPU,
                            method |-> templates[n].method]
                      ELSE None]}
      /\ submits' = [submits EXCEPT ![r.mount].pc = "done"]
      /\ net' = AfterSubmit(i)
      /\ OnClose
      /\ UNCHANGED <<templates, made, edits, faults>>

(* Mutant: the early returns of handleSubmit do not reset "submitting". *)
AfterRejectionKeeps(kind) == kind
(* Where a failed request leaves handleSubmit: a failed array mapping ends  *)
(* it; the promises of network and storage mapping are returned unawaited,  *)
(* so their rejection leaves the function, as does a plan without a         *)
(* template: "submitting" stays set.                                        *)
AfterRejection(kind) == IF kind = "array" THEN "idle" ELSE "stuck"

(* A rejected request; a failed delete calls onClose once more.             *)
Rejected(i) ==
  LET r == net[i]
      missing == r.kind \in {"patch", "poll", "delete", "mapping"} /\ ~Found(r.name)
  IN  /\ missing \/ (r.kind \in Failing /\ faults < MaxFaults)
      /\ faults' = IF missing THEN faults ELSE faults + 1
      /\ net' = Without(i)
      /\ submits' = IF r.kind \in SubmitKinds
                      THEN [submits EXCEPT ![r.mount].pc =
                              AfterRejection(r.kind)]
                      ELSE submits
      /\ IF r.kind = "delete" THEN OnClose ELSE UNCHANGED formVars
      /\ UNCHANGED <<templates, made, plans, edits>>

Answer(i) ==
  /\ Deliverable(i)
  /\ \/ CredsAnswer(i) \/ PostAnswer(i) \/ PatchAnswer(i) \/ PollAnswer(i)
     \/ DeleteAnswer(i) \/ NetworkAnswer(i) \/ StorageAnswer(i)
     \/ MappingAnswer(i) \/ PlanAnswer(i) \/ Rejected(i)

Finished == \* all mounts used up and nothing under way
  mount = 0 /\ mounts = MaxMounts /\ net = << >> /\ UNCHANGED vars

Next ==
  \/ OpenForm \/ UseGPUChange \/ PollTemplate \/ HandleClose \/ Finished
  \/ \E s \in Sides : \E c \in Clusters[s] : ClusterChange(s, c)
  \/ \E method \in Methods, required \in BOOLEAN : HandleSubmit(method, required)
  \/ \E i \in DOMAIN net : Answer(i)
  \/ \E n \in DOMAIN templates : Resolve(n)

Spec == Init /\ [][Next]_vars

-----------------------------------------------------------------------------
(* The shape of the state: a template the form knows was created, and a     *)
(* submit that runs waits for exactly one request.                          *)
TypeOK ==
  /\ mounts \in 0..MaxMounts /\ mount \in {0, mounts}
  /\ \A s \in Sides : /\ params[s] \in Clusters[s] \cup {None}
                      /\ creds[s] \in Creds \cup {None}
  /\ params.useGPU \in BOOLEAN
  /\ template.name \in 0..made /\ template.ready \in BOOLEAN
  /\ made \in 0..MaxTemplates
  /\ \A n \in DOMAIN templates : templates[n] # None => templates[n] \in Template /\ n <= made
  /\ edits \in 0..MaxEdits /\ faults \in 0..MaxFaults
  /\ \A i \in DOMAIN net : /\ net[i].kind \in Kinds
                           /\ net[i].mount \in 1..mounts
  /\ \A m \in Mounts, k \in SubmitKinds :
       submits[m].pc = k => InFlight(m, {k})

(* A migration runs with what the operator saw when clicking Start: at the  *)
(* moment the plan is created its template holds the credentials, cluster,  *)
(* GPU flag and copy method of the form, although the template was written  *)
(* by effects whose requests were still in flight, belonged to an earlier   *)
(* choice, or brought back a template the form had already dropped          *)
(* (useCredentialFetching's sync effect, handleSubmit).                     *)
PlanAsChosen == \A p \in plans : p.seen = p.want

(* The template of a plan is not deleted under it: a plan's template is     *)
(* what the controller reads on every reconcile (handleClose deletes the    *)
(* template of the form, handleSubmit's onClose must not).                  *)
PlanKeepsTemplate == \A p \in plans : Found(p.name)

(* Once nothing is in flight for the open form and no request was rejected, *)
(* the template on the server is that of the choices: no order of answers,  *)
(* late polls or brought-back templates leaves it behind for good.          *)
SyncedWhenQuiet ==
  (mount # 0 /\ faults = 0 /\ Validated(creds) /\ ~InFlight(mount, Kinds)) =>
     /\ Found(template.name)
     /\ LET t == templates[template.name]
        IN  /\ t.source = CredOf[params.source] /\ t.destination = CredOf[params.target]
            /\ t.cluster = params.target /\ t.useGPU = params.useGPU
=============================================================================
