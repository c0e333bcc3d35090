--------------------------- MODULE FieldOwnership ---------------------------
(***************************************************************************)
(* The Deployment field by field: the operator, which creates it with      *)
(* c.Create and from then on applies it with forced Server-Side Apply      *)
(* (subreconcilers/apply.go), and the others who write to the same object: *)
(* the autoscaler that the HPA of the same application starts, and users   *)
(* with kubectl.  The application itself only changes its spec here; its   *)
(* life, faults and status are in Reconciler.                              *)
(***************************************************************************)
EXTENDS Builders, ServerSideApply

CONSTANTS
  Specs,        \* the specs users switch between
  Loads,        \* replica counts the load may call for
  ForeignField, \* a field of the Deployment no builder sets
  MaxChanges    \* bound on edits, outside changes and changes of the load

\* Create is sent without a FieldOwner, so the API server names its manager after
\* the binary; only the Patch names FieldManager.
Creator      == "manager"
FieldManager == "platform-operator"
OperatorNames == {Creator, FieldManager}
Managers == OperatorNames \cup {"autoscaler", "kubectl"}

\* "There is no such object": one without a single field.
NoObject == [f \in {} |-> "nothing"]

ReplicaCount == <<"deployment", "replicas">>

\* What buildDesiredDeployment sets.  The rollout strategy is left out: the API
\* server fills in and removes fields of it by itself.
ConfigFields(d) ==
  {<<"deployment", name>> :
     name \in {"replicas", "image", "pullPolicy", "containerPort", "probePort",
               "livenessPath", "readinessPath"}}
  \cup {f \in OptionalFields("Deployment", d) : f[1] # "strategy"}

ValueOf(d, f) ==
  CASE f[1] = "deployment" -> d[f[2]]
    [] f[1] = "env"        -> d.env[f[2]]
    [] OTHER               -> d.resources[f[1]][f[2]]

Config(s) ==
  LET d == DesiredDeployment(s) IN [f \in ConfigFields(d) |-> ValueOf(d, f)]

AnyField == UNION {DOMAIN Config(s) : s \in Specs} \cup {ForeignField}

ValuesOf(f) ==
  {Config(s)[f] : s \in {t \in Specs : f \in DOMAIN Config(t)}}
  \cup IF f = ReplicaCount THEN Loads ELSE IF f = ForeignField THEN {"theirs"} ELSE {}

\* Quantities that do not parse are Reconciler's business.  The schema of the
\* CustomResourceDefinition demands replicas.min >= 1.
ASSUME SpecsAssumption ==
  \A s \in Specs :
    /\ ~BuildPanics("Deployment", s)
    /\ s.replicas.min \in Nat \ {0} /\ s.replicas.max \in Int
ASSUME LoadsAssumption == Loads \subseteq Nat

VARIABLES
  spec,     \* of the application
  dep,      \* the Deployment, or NoObject
  hpa,      \* the HorizontalPodAutoscaler, or NoObject
  load,     \* replicas the load calls for
  cached,   \* the operator's informer has the Deployment
  event,    \* the informer has yet to see the latest Deployment
  queued,   \* the key is in the work queue
  pc,       \* what the worker does next
  local,    \* the spec it works from
  changes   \* how many of the bounded changes have happened

vars == <<spec, dep, hpa, load, cached, event, queued, pc, local, changes>>

Init ==
  /\ spec \in Specs /\ local = spec
  /\ dep = NoObject /\ hpa = NoObject
  /\ load \in Loads
  /\ cached = FALSE /\ event = FALSE /\ queued = TRUE
  /\ pc = "idle"
  /\ changes = 0

Store(object) ==
  /\ dep' = object
  /\ event' = (event \/ object # dep)

------------------------------------------------------------------------------
(* Users, load and autoscaler                                                *)

Change == changes < MaxChanges /\ changes' = changes + 1

UserEdits ==
  /\ Change
  /\ spec' \in Specs \ {spec}
  /\ queued' = TRUE
  /\ UNCHANGED <<dep, hpa, load, cached, event, pc, local>>

LoadChanges ==
  /\ Change
  /\ load' \in Loads \ {load}
  /\ UNCHANGED <<spec, dep, hpa, cached, event, queued, pc, local>>

Values(object) == [f \in DOMAIN object |-> object[f].value]

\* kubectl edit, set, scale or delete.
KubectlSets ==
  /\ Change /\ dep # NoObject
  /\ \E f \in AnyField : \E v \in ValuesOf(f) :
       /\ f \in DOMAIN dep => dep[f].value # v
       /\ Store(UpdatedBy("kubectl", dep,
            [g \in DOMAIN dep \cup {f} |-> IF g = f THEN v ELSE dep[g].value]))
  /\ UNCHANGED <<spec, hpa, load, cached, queued, pc, local>>

KubectlRemoves ==
  /\ Change /\ dep # NoObject
  /\ \/ Store(NoObject)
     \/ \E f \in DOMAIN dep :
          /\ f[1] # "deployment"
          /\ Store(UpdatedBy("kubectl", dep,
               [g \in DOMAIN dep \ {f} |-> dep[g].value]))
  /\ UNCHANGED <<spec, hpa, load, cached, queued, pc, local>>

Wish ==
  IF load < hpa.minReplicas THEN hpa.minReplicas
  ELSE IF load > hpa.maxReplicas THEN hpa.maxReplicas ELSE load

Autoscale ==
  /\ dep # NoObject /\ hpa # NoObject
  /\ dep[ReplicaCount].value # Wish
  /\ Store(UpdatedBy("autoscaler", dep, [Values(dep) EXCEPT ![ReplicaCount] = Wish]))
  /\ UNCHANGED <<spec, hpa, load, cached, queued, pc, local, changes>>

------------------------------------------------------------------------------
(* The operator                                                              *)

\* Variant: only a Deployment that comes or goes wakes the operator.
SyncExistence ==
  /\ event
  /\ event' = FALSE
  /\ cached' = (dep # NoObject)
  /\ queued' = (queued \/ cached' # cached)
  /\ UNCHANGED <<spec, dep, hpa, load, pc, local, changes>>

\* Owns(&Deployment{}): every new version of it.
Sync ==
  /\ event
  /\ event' = FALSE
  /\ cached' = (dep # NoObject)
  /\ queued' = TRUE
  /\ UNCHANGED <<spec, dep, hpa, load, pc, local, changes>>

\* Reconcile up to applyOnce's Get of the Deployment, which the cache answers.
Begin ==
  /\ queued /\ pc = "idle"
  /\ queued' = FALSE
  /\ local' = spec
  /\ pc' = IF cached THEN "patch" ELSE "create"
  /\ UNCHANGED <<spec, dep, hpa, load, cached, event, changes>>

\* An object that is already there is an error: the key comes back.
CreateDeployment ==
  /\ pc = "create"
  /\ \/ /\ dep = NoObject
        /\ Store(CreatedBy(Creator, Config(local)))
        /\ pc' = "hpa"
        /\ UNCHANGED queued
     \/ /\ dep # NoObject
        /\ pc' = "idle"
        /\ queued' = TRUE
        /\ UNCHANGED <<dep, event>>
  /\ UNCHANGED <<spec, hpa, load, cached, local, changes>>

\* Variant: replace the object.
ReplacedDeployment(object) ==
  IF object = NoObject THEN CreatedBy(FieldManager, Config(local))
  ELSE UpdatedBy(FieldManager, object, Config(local))

\* Variant: without ForceOwnership the API server refuses the whole patch.
PatchedUnlessConflict(object) ==
  IF object = NoObject THEN CreatedBy(FieldManager, Config(local))
  ELSE IF Conflicts(object, FieldManager, Config(local)) # {} THEN object
  ELSE AppliedBy(FieldManager, object, Config(local))

\* c.Patch(client.Apply, FieldOwner, ForceOwnership); it creates what is missing.
PatchedDeployment(object) ==
  IF object = NoObject THEN CreatedBy(FieldManager, Config(local))
  ELSE AppliedBy(FieldManager, object, Config(local))

PatchDeployment ==
  /\ pc = "patch"
  /\ Store(PatchedDeployment(dep))
  /\ pc' = "hpa"
  /\ UNCHANGED <<spec, hpa, load, cached, queued, local, changes>>

\* ReconcileHPA: applied when wanted, else deleted.
ApplyHPA ==
  /\ pc = "hpa"
  /\ hpa' = IF Wanted("HPA", local) THEN DesiredHPA(local) ELSE NoObject
  /\ pc' = "idle"
  /\ UNCHANGED <<spec, dep, load, cached, event, queued, local, changes>>

Reconcile == Begin \/ CreateDeployment \/ PatchDeployment \/ ApplyHPA

Next ==
  \/ UserEdits \/ LoadChanges \/ KubectlSets \/ KubectlRemoves
  \/ Autoscale \/ Sync \/ Reconcile

Spec == Init /\ [][Next]_vars

\* The informer, the worker and the autoscaler keep going.
FairSpec == Spec /\ WF_vars(Sync) /\ WF_vars(Reconcile) /\ WF_vars(Autoscale)

------------------------------------------------------------------------------
(* Properties                                                                *)

\* A Deployment: each of its fields has a value of its kind, and an owner.
WellFormed(object) ==
  /\ object = [f \in DOMAIN object |->
                 [value |-> object[f].value, owners |-> object[f].owners]]
  /\ ReplicaCount \in DOMAIN object /\ DOMAIN object \subseteq AnyField
  /\ \A f \in DOMAIN object :
       /\ object[f].owners \in (SUBSET Managers) \ {{}}
       /\ object[f].value \in IF f = ReplicaCount THEN Nat ELSE ValuesOf(f)

TypeOK ==
  /\ spec \in Specs /\ local \in Specs
  /\ dep = NoObject \/ WellFormed(dep)
  /\ hpa \in {NoObject} \cup {DesiredHPA(s) : s \in Specs}
  /\ load \in Loads
  /\ cached \in BOOLEAN /\ event \in BOOLEAN /\ queued \in BOOLEAN
  /\ pc \in {"idle", "create", "patch", "hpa"}
  /\ changes \in Nat

\* ADR-0003, "respects fields managed by other controllers": a step of the worker
\* leaves alone, owner and value, every field it does not set and does not own.
OthersKept ==
  [][dep # NoObject /\ pc' # pc =>
       \A f \in DOMAIN dep \ DOMAIN Config(local) :
         FieldManager \notin dep[f].owners =>
           dep' # NoObject /\ f \in DOMAIN dep' /\ dep'[f] = dep[f]]_vars

\* Every field the spec sets has the value the spec asks for; with an autoscaler
\* the replica count is anywhere in its range.
Enforced ==
  LET autoscaled == Wanted("HPA", spec)
  IN  /\ dep # NoObject
      /\ DOMAIN Config(spec) \subseteq DOMAIN dep
      /\ \A f \in DOMAIN Config(spec) \ (IF autoscaled THEN {ReplicaCount} ELSE {}) :
           dep[f].value = Config(spec)[f]
      /\ IF autoscaled
         THEN /\ hpa = DesiredHPA(spec)
              /\ dep[ReplicaCount].value \in hpa.minReplicas .. hpa.maxReplicas
         ELSE hpa = NoObject

\* No drift goes unnoticed: with nothing queued and no event on its way, the
\* Deployment is what the spec asks for, whoever has written to it before.
Settled == pc = "idle" /\ ~queued /\ ~event

SettledIsEnforced == Settled => Enforced

\* "Manual changes are reverted" (README): in the end, and for good.
DriftCorrected == <>[]Enforced

------------------------------------------------------------------------------
(* Claims the code does not keep                                             *)

\* ADR-0003: the operator owns only the fields it explicitly sets.
OwnsOnlyWhatItSets ==
  Settled /\ dep # NoObject =>
    \A f \in DOMAIN dep :
      dep[f].owners \cap OperatorNames # {} => f \in DOMAIN Config(spec)

\* ADR-0003: unlike a full replace, the operator leaves the replica count to the
\* autoscaler: once nobody changes anything, it is what the autoscaler asks for.
AutoscalerDecides ==
  <>[](dep # NoObject /\ hpa # NoObject => dep[ReplicaCount].value = Wish)
=============================================================================
