------------------------- MODULE FieldOwnershipProofs -------------------------
(***************************************************************************)
(* Proofs about FieldOwnership, for any set of specs, any load and any     *)
(* number of changes: no drift of the Deployment goes unnoticed, and the   *)
(* fields of other managers survive the operator.                          *)
(***************************************************************************)
EXTENDS FieldOwnership, TLAPS

------------------------------------------------------------------------------
(* What the builders ask for                                                 *)

LEMMA ConfigShape ==
  ASSUME NEW s \in Specs
  PROVE  /\ Config(s) = [f \in DOMAIN Config(s) |-> Config(s)[f]]
         /\ ReplicaCount \in DOMAIN Config(s)
         /\ Config(s)[ReplicaCount] = s.replicas.min
         /\ DOMAIN Config(s) \subseteq AnyField
         /\ \A f \in DOMAIN Config(s) :
              Config(s)[f] \in IF f = ReplicaCount THEN Nat ELSE ValuesOf(f)
<1> DEFINE d == DesiredDeployment(s)
<1>1. Config(s) = [f \in ConfigFields(d) |-> ValueOf(d, f)]
  BY DEF Config
<1>2. ReplicaCount \in ConfigFields(d)
  BY DEF ConfigFields, ReplicaCount
<1>3. ValueOf(d, ReplicaCount) = s.replicas.min
  <2>1. s.replicas.min \in Nat \ {0}
    BY SpecsAssumption
  <2>2. d.replicas = s.replicas.min
    BY <2>1 DEF DesiredDeployment
  <2>3. ValueOf(d, ReplicaCount) = d["replicas"]
    BY DEF ValueOf, ReplicaCount
  <2> QED
    BY <2>2, <2>3
<1> HIDE DEF d
<1>4. DOMAIN Config(s) = ConfigFields(d)
  BY <1>1
<1>5. Config(s)[ReplicaCount] = s.replicas.min
  BY <1>1, <1>2, <1>3
<1>6. \A f \in DOMAIN Config(s) : Config(s)[f] \in ValuesOf(f)
  BY DEF ValuesOf
<1>7. s.replicas.min \in Nat
  BY SpecsAssumption
<1> QED
  BY <1>1, <1>2, <1>4, <1>5, <1>6, <1>7 DEF AnyField

LEMMA HPABounds ==
  ASSUME NEW s \in Specs
  PROVE  LET wanted == DesiredHPA(s)
         IN  /\ wanted # NoObject
             /\ wanted.minReplicas = s.replicas.min
             /\ wanted.minReplicas \in Nat /\ wanted.maxReplicas \in Nat
             /\ wanted.minReplicas <= wanted.maxReplicas
<1>1. s.replicas.min \in Nat \ {0} /\ s.replicas.max \in Int
  BY SpecsAssumption
<1>2. "minReplicas" \in DOMAIN DesiredHPA(s) /\ DOMAIN NoObject = {}
  BY DEF DesiredHPA, NoObject
<1> QED
  BY <1>1, <1>2 DEF DesiredHPA

------------------------------------------------------------------------------
(* What the API server makes of a Deployment                                 *)

\* An object with a field is there.
LEMMA ObjectExists ==
  ASSUME NEW object, NEW f \in DOMAIN object
  PROVE  object # NoObject
  BY DEF NoObject

LEMMA CreatedWellFormed ==
  ASSUME NEW s \in Specs, NEW manager \in Managers
  PROVE  WellFormed(CreatedBy(manager, Config(s)))
<1> DEFINE object == CreatedBy(manager, Config(s))
<1>1. /\ DOMAIN object = DOMAIN Config(s)
      /\ \A f \in DOMAIN object : object[f] = [value |-> Config(s)[f], owners |-> {manager}]
      /\ object = [f \in DOMAIN object |-> object[f]]
  BY DEF CreatedBy
<1> HIDE DEF object
<1>2. \A f \in DOMAIN object :
        /\ object[f].value = Config(s)[f] /\ object[f].owners = {manager}
        /\ object[f] = [value |-> object[f].value, owners |-> object[f].owners]
  BY <1>1
<1>3. object = [f \in DOMAIN object |->
                  [value |-> object[f].value, owners |-> object[f].owners]]
  BY <1>1, <1>2
<1> QED
  BY <1>1, <1>2, <1>3, ConfigShape DEF WellFormed, object

\* kubectl and the autoscaler.
LEMMA UpdatedWellFormed ==
  ASSUME NEW object, WellFormed(object), NEW manager \in Managers, NEW config,
         DOMAIN config \subseteq AnyField, ReplicaCount \in DOMAIN config,
         \A f \in DOMAIN config :
           config[f] \in IF f = ReplicaCount THEN Nat ELSE ValuesOf(f)
  PROVE  WellFormed(UpdatedBy(manager, object, config))
<1> DEFINE updated == UpdatedBy(manager, object, config)
<1>1. /\ DOMAIN updated = DOMAIN config
      /\ \A f \in DOMAIN updated :
           updated[f] = IF f \in DOMAIN object /\ object[f].value = config[f]
                        THEN object[f] ELSE [value |-> config[f], owners |-> {manager}]
      /\ updated = [f \in DOMAIN updated |-> updated[f]]
  BY DEF UpdatedBy
<1>2. \A f \in DOMAIN object :
        /\ object[f] = [value |-> object[f].value, owners |-> object[f].owners]
        /\ object[f].owners \in (SUBSET Managers) \ {{}}
  BY DEF WellFormed
<1> HIDE DEF updated
<1>3. ASSUME NEW f \in DOMAIN updated
      PROVE  /\ updated[f].value = config[f]
             /\ updated[f].owners \in (SUBSET Managers) \ {{}}
             /\ updated[f] = [value |-> updated[f].value, owners |-> updated[f].owners]
  <2>1. CASE f \in DOMAIN object /\ object[f].value = config[f]
    BY <1>1, <1>2, <2>1
  <2>2. CASE ~(f \in DOMAIN object /\ object[f].value = config[f])
    <3>1. updated[f] = [value |-> config[f], owners |-> {manager}]
      BY <1>1, <2>2
    <3> QED
      BY <3>1
  <2> QED
    BY <2>1, <2>2
<1>4. updated = [f \in DOMAIN updated |->
                   [value |-> updated[f].value, owners |-> updated[f].owners]]
  BY <1>1, <1>3
<1> QED
  BY <1>1, <1>3, <1>4 DEF WellFormed, updated

\* A field that is not in the configuration loses the manager, and is dropped when
\* it had no other; all others get the value asked for.
LEMMA AppliedWellFormed ==
  ASSUME NEW object, WellFormed(object), NEW manager \in Managers, NEW s \in Specs
  PROVE  WellFormed(AppliedBy(manager, object, Config(s)))
<1> DEFINE applied == AppliedBy(manager, object, Config(s))
           config  == Config(s)
<1>0. applied = AppliedBy(manager, object, config)
  OBVIOUS
<1> HIDE DEF applied, config
<1>1. /\ applied = [f \in DOMAIN applied |-> applied[f]]
      /\ DOMAIN applied =
           (DOMAIN object \cup DOMAIN config) \ Dropped(object, manager, config)
      /\ \A f \in DOMAIN applied :
           applied[f] =
             IF f \notin DOMAIN config
             THEN [object[f] EXCEPT !.owners = @ \ {manager}]
             ELSE [value  |-> config[f],
                   owners |-> {manager} \cup
                     IF f \in DOMAIN object /\ object[f].value = config[f]
                     THEN object[f].owners ELSE {}]
  BY <1>0 DEF AppliedBy
<1>2. \A f \in DOMAIN object :
        /\ object[f] = [value |-> object[f].value, owners |-> object[f].owners]
        /\ object[f].owners \in (SUBSET Managers) \ {{}}
        /\ object[f].value \in IF f = ReplicaCount THEN Nat ELSE ValuesOf(f)
  BY DEF WellFormed
<1>3. \A f \in DOMAIN config : config[f] \in IF f = ReplicaCount THEN Nat ELSE ValuesOf(f)
  BY ConfigShape DEF config
<1>4. ASSUME NEW f \in DOMAIN applied
      PROVE  /\ applied[f].owners \in (SUBSET Managers) \ {{}}
             /\ applied[f].value \in IF f = ReplicaCount THEN Nat ELSE ValuesOf(f)
             /\ applied[f] = [value |-> applied[f].value, owners |-> applied[f].owners]
  <2>1. CASE f \notin DOMAIN config
    <3>1. f \in DOMAIN object /\ object[f].owners # {manager}
      BY <1>1, <2>1 DEF Dropped
    <3>2. applied[f] = [value |-> object[f].value, owners |-> object[f].owners \ {manager}]
      BY <1>1, <1>2, <2>1, <3>1
    <3>3. object[f].owners \ {manager} \in (SUBSET Managers) \ {{}}
      BY <1>2, <3>1
    <3> QED
      BY <1>2, <3>1, <3>2, <3>3
  <2>2. CASE f \in DOMAIN config
    <3> DEFINE shared == IF f \in DOMAIN object /\ object[f].value = config[f]
                         THEN object[f].owners ELSE {}
    <3>1. applied[f] = [value |-> config[f], owners |-> {manager} \cup shared]
      BY <1>1, <2>2
    <3>2. {manager} \cup shared \in (SUBSET Managers) \ {{}}
      BY <1>2
    <3> HIDE DEF shared
    <3> QED
      BY <1>3, <2>2, <3>1, <3>2
  <2> QED
    BY <2>1, <2>2
<1>5. applied = [f \in DOMAIN applied |->
                   [value |-> applied[f].value, owners |-> applied[f].owners]]
  BY <1>1, <1>4
<1>6. ReplicaCount \in DOMAIN applied /\ DOMAIN applied \subseteq AnyField
  <2>1. ReplicaCount \in DOMAIN config /\ DOMAIN config \subseteq AnyField
    BY ConfigShape DEF config
  <2>2. DOMAIN object \subseteq AnyField
    BY DEF WellFormed
  <2> QED
    BY <1>1, <2>1, <2>2 DEF Dropped
<1> QED
  BY <1>4, <1>5, <1>6 DEF WellFormed, applied

------------------------------------------------------------------------------
(* Types                                                                     *)

\* Everything but the actions on the Deployment.
LEMMA InitFieldTypes == Init => TypeOK
<1> SUFFICES ASSUME Init PROVE TypeOK
  OBVIOUS
<1>1. dep = NoObject /\ hpa = NoObject
  BY DEF Init
<1>2. /\ spec \in Specs /\ local \in Specs /\ load \in Loads
      /\ cached = FALSE /\ event = FALSE /\ queued = TRUE
      /\ pc = "idle" /\ changes = 0
  BY DEF Init
<1> QED
  BY <1>1, <1>2 DEF TypeOK

\* The values in a Deployment, as Update sends them back.
LEMMA ValuesShape ==
  ASSUME NEW object, WellFormed(object)
  PROVE  /\ DOMAIN Values(object) = DOMAIN object
         /\ \A f \in DOMAIN object :
              /\ Values(object)[f] = object[f].value
              /\ object[f].value \in IF f = ReplicaCount THEN Nat ELSE ValuesOf(f)
  BY DEF WellFormed, Values

LEMMA ReplicaCountsAreNatural ==
  ASSUME NEW v \in ValuesOf(ReplicaCount)
  PROVE  v \in Nat
<1>1. CASE v \in Loads
  BY <1>1, LoadsAssumption
<1>2. CASE v \notin Loads
  <2>1. PICK s \in Specs : ReplicaCount \in DOMAIN Config(s) /\ v = Config(s)[ReplicaCount]
    BY <1>2 DEF ValuesOf
  <2> QED
    BY <2>1, ConfigShape, SpecsAssumption
<1> QED
  BY <1>1, <1>2

LEMMA WishIsNatural ==
  ASSUME TypeOK, hpa # NoObject
  PROVE  Wish \in Nat
<1>1. PICK s \in Specs : hpa = DesiredHPA(s)
  BY DEF TypeOK
<1>2. hpa.minReplicas \in Nat /\ hpa.maxReplicas \in Nat
  BY <1>1, HPABounds, Zenon
<1>3. load \in Nat
  BY LoadsAssumption DEF TypeOK
<1> QED
  BY <1>2, <1>3 DEF Wish

\* A write to the Deployment, whoever sends it.
LEMMA StoreKeepsTypes ==
  ASSUME TypeOK, NEW object, object = NoObject \/ WellFormed(object), Store(object)
  PROVE  (dep = NoObject \/ WellFormed(dep))' /\ event' \in BOOLEAN
<1>1. dep' = object /\ event' \in BOOLEAN
  BY DEF Store, TypeOK
<1> QED
  BY <1>1 DEF WellFormed

LEMMA KubectlSetsTypes == TypeOK /\ KubectlSets => TypeOK'
<1> SUFFICES ASSUME TypeOK, KubectlSets PROVE TypeOK'
  OBVIOUS
<1>1. WellFormed(dep) /\ changes' \in Nat
  BY DEF KubectlSets, TypeOK, Change
<1> PICK f \in AnyField : \E v \in ValuesOf(f) :
      Store(UpdatedBy("kubectl", dep,
        [g \in DOMAIN dep \cup {f} |-> IF g = f THEN v ELSE dep[g].value]))
  BY DEF KubectlSets
<1>2. PICK v \in ValuesOf(f) :
        Store(UpdatedBy("kubectl", dep,
          [g \in DOMAIN dep \cup {f} |-> IF g = f THEN v ELSE dep[g].value]))
  OBVIOUS
<1> DEFINE config == [g \in DOMAIN dep \cup {f} |-> IF g = f THEN v ELSE dep[g].value]
<1>3. /\ DOMAIN config \subseteq AnyField /\ ReplicaCount \in DOMAIN config
      /\ \A g \in DOMAIN config :
           config[g] \in IF g = ReplicaCount THEN Nat ELSE ValuesOf(g)
  BY <1>1, ReplicaCountsAreNatural DEF WellFormed
<1> HIDE DEF config
<1>4. WellFormed(UpdatedBy("kubectl", dep, config))
  BY <1>1, <1>3, UpdatedWellFormed DEF Managers
<1>5. (dep = NoObject \/ WellFormed(dep))' /\ event' \in BOOLEAN
  BY <1>2, <1>4, StoreKeepsTypes DEF config
<1> QED
  BY <1>1, <1>5 DEF KubectlSets, TypeOK

LEMMA KubectlRemovesTypes == TypeOK /\ KubectlRemoves => TypeOK'
<1> SUFFICES ASSUME TypeOK, KubectlRemoves PROVE TypeOK'
  OBVIOUS
<1>1. WellFormed(dep) /\ changes' \in Nat
  BY DEF KubectlRemoves, TypeOK, Change
<1>2. ASSUME NEW f \in DOMAIN dep, f[1] # "deployment",
             Store(UpdatedBy("kubectl", dep, [g \in DOMAIN dep \ {f} |-> dep[g].value]))
      PROVE  (dep = NoObject \/ WellFormed(dep))' /\ event' \in BOOLEAN
  <2> DEFINE config == [g \in DOMAIN dep \ {f} |-> dep[g].value]
  <2>1. f # ReplicaCount
    BY <1>2 DEF ReplicaCount
  <2>2. /\ DOMAIN config \subseteq AnyField /\ ReplicaCount \in DOMAIN config
        /\ \A g \in DOMAIN config :
             config[g] \in IF g = ReplicaCount THEN Nat ELSE ValuesOf(g)
    BY <1>1, <2>1 DEF WellFormed
  <2> HIDE DEF config
  <2>3. WellFormed(UpdatedBy("kubectl", dep, config))
    BY <1>1, <2>2, UpdatedWellFormed DEF Managers
  <2> QED
    BY <1>2, <2>3, StoreKeepsTypes DEF config
<1>3. (dep = NoObject \/ WellFormed(dep))' /\ event' \in BOOLEAN
  BY <1>2, StoreKeepsTypes DEF KubectlRemoves
<1> QED
  BY <1>1, <1>3 DEF KubectlRemoves, TypeOK

LEMMA AutoscaleTypes == TypeOK /\ Autoscale => TypeOK'
<1> SUFFICES ASSUME TypeOK, Autoscale PROVE TypeOK'
  OBVIOUS
<1>1. WellFormed(dep) /\ Wish \in Nat
  BY WishIsNatural DEF Autoscale, TypeOK
<1> DEFINE config == [Values(dep) EXCEPT ![ReplicaCount] = Wish]
<1>2. /\ DOMAIN config \subseteq AnyField /\ ReplicaCount \in DOMAIN config
      /\ \A g \in DOMAIN config :
           config[g] \in IF g = ReplicaCount THEN Nat ELSE ValuesOf(g)
  BY <1>1, ValuesShape DEF WellFormed, Values
<1> HIDE DEF config
<1>3. WellFormed(UpdatedBy("autoscaler", dep, config))
  BY <1>1, <1>2, UpdatedWellFormed DEF Managers
<1>4. (dep = NoObject \/ WellFormed(dep))' /\ event' \in BOOLEAN
  BY <1>3, StoreKeepsTypes DEF Autoscale, config
<1> QED
  BY <1>4 DEF Autoscale, TypeOK

LEMMA PatchedWellFormed ==
  ASSUME TypeOK
  PROVE  WellFormed(PatchedDeployment(dep))
<1>1. local \in Specs /\ FieldManager \in Managers
  BY DEF TypeOK, Managers, OperatorNames
<1>2. CASE dep = NoObject
  BY <1>1, <1>2, CreatedWellFormed DEF PatchedDeployment
<1>3. CASE dep # NoObject
  BY <1>1, <1>3, AppliedWellFormed DEF PatchedDeployment, TypeOK
<1> QED
  BY <1>2, <1>3

LEMMA ReconcileTypes == TypeOK /\ Reconcile => TypeOK'
<1> SUFFICES ASSUME TypeOK, Reconcile PROVE TypeOK'
  OBVIOUS
<1>1. CASE Begin
  BY <1>1 DEF Begin, TypeOK, WellFormed
<1>2. CASE CreateDeployment
  <2>1. WellFormed(CreatedBy(Creator, Config(local)))
    BY CreatedWellFormed DEF TypeOK, Managers, OperatorNames
  <2>2. CASE Store(CreatedBy(Creator, Config(local))) /\ pc' = "hpa" /\ UNCHANGED queued
    BY <1>2, <2>1, <2>2, StoreKeepsTypes DEF CreateDeployment, TypeOK
  <2>3. CASE pc' = "idle" /\ queued' = TRUE /\ UNCHANGED <<dep, event>>
    BY <1>2, <2>3 DEF CreateDeployment, TypeOK, WellFormed
  <2> QED
    BY <1>2, <2>2, <2>3 DEF CreateDeployment
<1>3. CASE PatchDeployment
  BY <1>3, PatchedWellFormed, StoreKeepsTypes DEF PatchDeployment, TypeOK
<1>4. CASE ApplyHPA
  BY <1>4 DEF ApplyHPA, TypeOK, WellFormed
<1> QED
  BY <1>1, <1>2, <1>3, <1>4 DEF Reconcile

LEMMA NextFieldTypes == TypeOK /\ [Next]_vars => TypeOK'
<1> SUFFICES ASSUME TypeOK, [Next]_vars PROVE TypeOK'
  OBVIOUS
<1>1. CASE UserEdits
  BY <1>1 DEF UserEdits, Change, TypeOK, WellFormed
<1>2. CASE LoadChanges
  BY <1>2 DEF LoadChanges, Change, TypeOK, WellFormed
<1>3. CASE Sync
  BY <1>3 DEF Sync, TypeOK, WellFormed
<1>4. CASE UNCHANGED vars
  BY <1>4 DEF vars, TypeOK, WellFormed
<1> QED
  BY <1>1, <1>2, <1>3, <1>4, KubectlSetsTypes, KubectlRemovesTypes, AutoscaleTypes,
     ReconcileTypes DEF Next

\* Whatever kubectl, the autoscaler and the operator write, and in whatever order, the
\* Deployment stays one: no field without an owner, no value of another kind.
THEOREM DeploymentIsWellFormed == Spec => []TypeOK
  BY InitFieldTypes, NextFieldTypes, PTL DEF Spec

------------------------------------------------------------------------------
(* No drift goes unnoticed                                                   *)

\* The Deployment is exactly what the spec asks for.
AsConfigured ==
  /\ dep # NoObject
  /\ DOMAIN Config(spec) \subseteq DOMAIN dep
  /\ \A f \in DOMAIN Config(spec) : dep[f].value = Config(spec)[f]

\* A worker that has written the Deployment and sees no reason to come back has the
\* latest spec and has left the Deployment as configured; that is what it still has to
\* know between its two writes.
DriftIInv ==
  /\ TypeOK
  /\ ~queued => local = spec
  /\ pc = "hpa" /\ ~queued /\ ~event => AsConfigured
  /\ SettledIsEnforced

\* A write that changes the Deployment is an event, so that without one it is as before.
LEMMA UnseenIsUnchanged ==
  ASSUME NEW object, Store(object), ~event'
  PROVE  dep' = dep /\ ~event
  BY DEF Store

\* Others' writes: nothing the invariant speaks of changes without an event.
LEMMA OutsideWriteKeeps ==
  ASSUME DriftIInv, TypeOK', NEW object, Store(object),
         UNCHANGED <<spec, hpa, queued, pc, local>>
  PROVE  DriftIInv'
<1>1. CASE event'
  BY <1>1 DEF DriftIInv, SettledIsEnforced, Settled
<1>2. CASE ~event'
  <2>1. dep' = dep /\ ~event
    BY <1>2, UnseenIsUnchanged
  <2> QED
    BY <2>1 DEF DriftIInv, SettledIsEnforced, Settled, Enforced, AsConfigured
<1> QED
  BY <1>1, <1>2

\* The worker's last step completes what its first has begun.
LEMMA ApplyHPASettles ==
  ASSUME DriftIInv, TypeOK', ApplyHPA
  PROVE  DriftIInv'
<1> SUFFICES ASSUME ~queued, ~event PROVE Enforced'
  BY DEF DriftIInv, ApplyHPA, SettledIsEnforced, Settled
<1>1. /\ AsConfigured /\ local = spec /\ spec \in Specs /\ dep' = dep /\ spec' = spec
      /\ hpa' = IF Wanted("HPA", spec) THEN DesiredHPA(spec) ELSE NoObject
  BY DEF DriftIInv, TypeOK, ApplyHPA
<1>2. Wanted("HPA", spec)' = Wanted("HPA", spec) /\ Config(spec') = Config(spec)
  BY <1>1
<1>3. CASE ~Wanted("HPA", spec)
  BY <1>1, <1>2, <1>3 DEF Enforced, AsConfigured
<1>4. CASE Wanted("HPA", spec)
  <2>1. hpa' = DesiredHPA(spec)
    BY <1>1, <1>4
  <2>2. /\ ReplicaCount \in DOMAIN Config(spec)
        /\ dep[ReplicaCount].value = spec.replicas.min
    BY <1>1, ConfigShape DEF AsConfigured
  <2>3. /\ hpa'.minReplicas = spec.replicas.min
        /\ hpa'.minReplicas \in Nat /\ hpa'.maxReplicas \in Nat
        /\ hpa'.minReplicas <= hpa'.maxReplicas
    BY <1>1, <2>1, HPABounds
  <2>4. dep'[ReplicaCount].value \in hpa'.minReplicas .. hpa'.maxReplicas
    BY <1>1, <2>2, <2>3
  <2> QED
    BY <1>1, <1>2, <1>4, <2>1, <2>4 DEF Enforced, AsConfigured
<1> QED
  BY <1>3, <1>4

\* What the patch leaves behind is as configured.
LEMMA PatchConfigures ==
  ASSUME local = spec, NEW object, object = PatchedDeployment(dep)
  PROVE  /\ DOMAIN Config(spec) \subseteq DOMAIN object
         /\ \A f \in DOMAIN Config(spec) : object[f].value = Config(spec)[f]
<1>1. CASE dep = NoObject
  BY <1>1 DEF PatchedDeployment, CreatedBy
<1>2. CASE dep # NoObject
  <2>1. object = AppliedBy(FieldManager, dep, Config(spec))
    BY <1>2 DEF PatchedDeployment
  <2> QED
    BY <2>1 DEF AppliedBy, Dropped
<1> QED
  BY <1>1, <1>2

LEMMA ReconcileKeepsDrift ==
  ASSUME DriftIInv, TypeOK', Reconcile
  PROVE  DriftIInv'
<1>1. CASE Begin
  BY <1>1 DEF Begin, DriftIInv, SettledIsEnforced, Settled
<1>2. CASE CreateDeployment
  <2>1. CASE /\ dep = NoObject /\ Store(CreatedBy(Creator, Config(local)))
             /\ pc' = "hpa" /\ UNCHANGED queued
    <3>1. CreatedBy(Creator, Config(local)) # NoObject
      <4>1. ReplicaCount \in DOMAIN CreatedBy(Creator, Config(local))
        BY ConfigShape DEF DriftIInv, TypeOK, CreatedBy
      <4> QED
        BY <4>1, ObjectExists
    <3>2. event'
      BY <2>1, <3>1 DEF Store
    <3> QED
      BY <1>2, <2>1, <3>2 DEF CreateDeployment, DriftIInv, SettledIsEnforced, Settled
  <2>2. CASE queued' = TRUE
    BY <1>2, <2>2 DEF CreateDeployment, DriftIInv, SettledIsEnforced, Settled
  <2> QED
    BY <1>2, <2>1, <2>2 DEF CreateDeployment
<1>3. CASE PatchDeployment
  <2>1. pc' = "hpa" /\ UNCHANGED <<spec, queued, local>> /\ Store(PatchedDeployment(dep))
    BY <1>3 DEF PatchDeployment
  <2>2. ASSUME ~queued, ~event' PROVE AsConfigured'
    <3>1. dep' = PatchedDeployment(dep) /\ local = spec
      BY <2>1, <2>2 DEF Store, DriftIInv
    <3>2. /\ DOMAIN Config(spec) \subseteq DOMAIN dep'
          /\ \A f \in DOMAIN Config(spec) : dep'[f].value = Config(spec)[f]
      BY <3>1, PatchConfigures
    <3>3. dep' # NoObject
      BY <3>1, PatchedWellFormed, ObjectExists DEF DriftIInv, WellFormed
    <3> QED
      BY <2>1, <3>2, <3>3 DEF AsConfigured
  <2> QED
    BY <2>1, <2>2 DEF DriftIInv, SettledIsEnforced, Settled
<1>4. CASE ApplyHPA
  BY <1>4, ApplyHPASettles
<1> QED
  BY <1>1, <1>2, <1>3, <1>4 DEF Reconcile

LEMMA NextDrift == DriftIInv /\ [Next]_vars => DriftIInv'
<1> SUFFICES ASSUME DriftIInv, [Next]_vars PROVE DriftIInv'
  OBVIOUS
<1>1. TypeOK'
  BY NextFieldTypes DEF DriftIInv
<1>2. CASE UserEdits
  BY <1>1, <1>2 DEF UserEdits, DriftIInv, SettledIsEnforced, Settled
<1>3. CASE LoadChanges
  BY <1>1, <1>3 DEF LoadChanges, DriftIInv, SettledIsEnforced, Settled, Enforced, AsConfigured
<1>4. CASE KubectlSets
  <2>1. PICK object : Store(object)
    BY <1>4, Zenon DEF KubectlSets
  <2> QED
    BY <1>1, <1>4, <2>1, OutsideWriteKeeps DEF KubectlSets
<1>5. CASE KubectlRemoves
  <2>1. PICK object : Store(object)
    BY <1>5, Zenon DEF KubectlRemoves
  <2> QED
    BY <1>1, <1>5, <2>1, OutsideWriteKeeps DEF KubectlRemoves
<1>6. CASE Autoscale
  <2>1. PICK object : Store(object)
    BY <1>6, Zenon DEF Autoscale
  <2> QED
    BY <1>1, <1>6, <2>1, OutsideWriteKeeps DEF Autoscale
<1>7. CASE Sync
  BY <1>1, <1>7 DEF Sync, DriftIInv, SettledIsEnforced, Settled
<1>8. CASE Reconcile
  BY <1>1, <1>8, ReconcileKeepsDrift
<1>9. CASE UNCHANGED vars
  BY <1>9, <1>1 DEF vars, DriftIInv, SettledIsEnforced, Settled, Enforced, AsConfigured
<1> QED
  BY <1>2, <1>3, <1>4, <1>5, <1>6, <1>7, <1>8, <1>9 DEF Next

LEMMA InitDrift == Init => DriftIInv
  BY InitFieldTypes DEF Init, DriftIInv, SettledIsEnforced, Settled

\* No drift goes unnoticed (README, "Manual changes are reverted"): whenever nothing is
\* queued, no event is on its way and the worker rests, every field of the Deployment
\* the spec sets has the value it asks for, whoever has written to it before.
THEOREM NoDriftGoesUnnoticed == Spec => []SettledIsEnforced
<1>1. Spec => []DriftIInv
  BY InitDrift, NextDrift, PTL DEF Spec
<1>2. DriftIInv => SettledIsEnforced
  BY DEF DriftIInv
<1> QED
  BY <1>1, <1>2, PTL

------------------------------------------------------------------------------
(* The fields of others                                                      *)

\* What a step of the worker may not do to a field.
Keeps(f) == dep' # NoObject /\ f \in DOMAIN dep' /\ dep'[f] = dep[f]

LEMMA PatchKeepsOthers ==
  ASSUME TypeOK, dep # NoObject, dep' = PatchedDeployment(dep),
         NEW f \in DOMAIN dep, f \notin DOMAIN Config(local),
         FieldManager \notin dep[f].owners
  PROVE  Keeps(f)
<1>1. dep' = AppliedBy(FieldManager, dep, Config(local))
  BY DEF PatchedDeployment
<1>2. /\ f \in DOMAIN dep'
      /\ dep'[f] = [dep[f] EXCEPT !.owners = @ \ {FieldManager}]
  BY <1>1 DEF AppliedBy, Dropped
<1>3. dep[f] = [value |-> dep[f].value, owners |-> dep[f].owners]
  BY DEF TypeOK, WellFormed
<1>4. dep[f].owners \ {FieldManager} = dep[f].owners
  OBVIOUS
<1>5. dep'[f] = dep[f]
  BY <1>2, <1>3, <1>4
<1>6. dep' # NoObject
  BY <1>2, ObjectExists
<1> QED
  BY <1>2, <1>5, <1>6 DEF Keeps

LEMMA StepKeepsOthers ==
  ASSUME TypeOK, [Next]_vars, dep # NoObject, pc' # pc,
         NEW f \in DOMAIN dep \ DOMAIN Config(local), FieldManager \notin dep[f].owners
  PROVE  Keeps(f)
<1>1. Reconcile
  BY DEF Next, vars, UserEdits, LoadChanges, KubectlSets, KubectlRemoves, Autoscale, Sync
<1>2. CASE PatchDeployment
  BY <1>2, PatchKeepsOthers DEF PatchDeployment, Store
<1>3. CASE Begin \/ CreateDeployment \/ ApplyHPA
  <2>1. dep' = dep
    BY <1>3 DEF Begin, CreateDeployment, ApplyHPA
  <2> QED
    BY <2>1 DEF Keeps
<1> QED
  BY <1>1, <1>2, <1>3 DEF Reconcile

\* ADR-0003, "respects fields managed by other controllers": no step of the operator
\* changes the value or the owners of a field it neither sets nor owns, or takes it
\* out of the Deployment.
THEOREM FieldsOfOthersAreKept == Spec => OthersKept
<1>1. TypeOK /\ [Next]_vars =>
        [dep # NoObject /\ pc' # pc =>
           \A f \in DOMAIN dep \ DOMAIN Config(local) :
             FieldManager \notin dep[f].owners => Keeps(f)]_vars
  BY StepKeepsOthers
<1> QED
  BY <1>1, DeploymentIsWellFormed, PTL DEF Spec, OthersKept, Keeps

==============================================================================
