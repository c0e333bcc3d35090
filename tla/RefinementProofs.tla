-------------------------- MODULE RefinementProofs --------------------------
(***************************************************************************)
(* Proof that Reconciler implements Operator under leader election: every  *)
(* step any replica takes is a write Operator allows, or one that shows    *)
(* nowhere but in what may still be acted on.                              *)
(***************************************************************************)
EXTENDS WorkProofs

------------------------------------------------------------------------------
(* The cluster is the same in both                                           *)

LEMMA SameBuilders ==
  /\ \A k, s : Abstract!Wanted(k, s) = Wanted(k, s)
  /\ \A k, s : Abstract!Desired(k, s) = Desired(k, s)
<1>1. \A k, s : Abstract!Wanted(k, s) = Wanted(k, s)
  BY Zenon DEF Abstract!Wanted, Wanted
<1>2. \A k, s : Abstract!Desired(k, s) = Desired(k, s)
  BY Zenon DEF Abstract!Desired, Desired, Abstract!DesiredDeployment, DesiredDeployment,
     Abstract!DesiredService, DesiredService, Abstract!DesiredHPA, DesiredHPA,
     Abstract!DesiredHTTPRoute, DesiredHTTPRoute,
     Abstract!DesiredNetworkPolicy, DesiredNetworkPolicy,
     Abstract!DesiredPDB, DesiredPDB, Abstract!DesiredServiceMonitor, DesiredServiceMonitor,
     Abstract!DeploymentStrategy, DeploymentStrategy, Abstract!IntOrString, IntOrString,
     Abstract!Int32, Int32, Abstract!OrElse, OrElse
<1>3. QED
  BY <1>1, <1>2

LEMMA SameKinds == Abstract!Kinds = Kinds
BY DEF Abstract!Kinds, Kinds

LEMMA SameApplied == \A k, a : Abstract!Applied(k, a) = Applied(k, a)
BY SameBuilders, Zenon DEF Abstract!Applied, Applied

LEMMA SameStatuses == Abstract!Statuses = Statuses
BY DEF Abstract!Statuses, Statuses, Abstract!Urls, Urls, Abstract!Tags, Tags,
       Abstract!ConditionLists, ConditionLists, Abstract!ConditionTypes, ConditionTypes,
       Abstract!ConditionEntries, ConditionEntries, Abstract!ConditionReasons, ConditionReasons,
       Abstract!Messages, Messages, Abstract!Kinds, Kinds, Abstract!Reasons, Reasons

LEMMA UsersAreUsers ==
  ASSUME UserCreate \/ UserEdit \/ UserDelete
  PROVE  Abstract!ClusterNext
<1>1. Abstract!InitialStatus = InitialStatus
  BY DEF Abstract!InitialStatus, InitialStatus, Abstract!NoConditions, NoConditions,
         Abstract!NoEntry, NoEntry, Abstract!NoMessage, NoMessage,
         Abstract!ConditionTypes, ConditionTypes
<1>2. CASE UserCreate
  BY <1>1, <1>2, Zenon DEF UserCreate, Abstract!UserCreate, Abstract!ClusterNext
<1>3. CASE UserEdit
  BY <1>3, Zenon DEF UserEdit, Abstract!UserEdit, Abstract!ClusterNext
<1>4. CASE UserDelete
  BY <1>4, Zenon DEF UserDelete, Abstract!UserDelete, Abstract!ClusterNext
<1>5. QED
  BY <1>2, <1>3, <1>4

LEMMA OutsidersAreOutsiders ==
  ASSUME \/ \E k \in Kinds : UserDrift(k) \/ UserForeign(k) \/ GarbageCollect(k)
         \/ PodStarts \/ RolloutFinishes \/ PodFails \/ Tick
  PROVE  Abstract!ClusterNext
<1>1. ASSUME NEW k \in Kinds, UserDrift(k)
      PROVE  Abstract!ClusterNext
  <2>1. Abstract!UserDrift(k)
    BY <1>1, SameBuilders, Zenon
       DEF UserDrift, Abstract!UserDrift, Disturb, Abstract!Disturb, MayDisturb,
           Abstract!MayDisturb
  <2>2. QED
    BY <2>1, SameKinds, Zenon DEF Abstract!ClusterNext
<1>2. ASSUME NEW k \in Kinds, UserForeign(k)
      PROVE  Abstract!ClusterNext
  <2>1. Abstract!UserForeign(k)
    BY <1>2, SameBuilders, Zenon
       DEF UserForeign, Abstract!UserForeign, Disturb, Abstract!Disturb, MayDisturb,
           Abstract!MayDisturb, NoOwner, Abstract!NoOwner
  <2>2. QED
    BY <2>1, SameKinds, Zenon DEF Abstract!ClusterNext
<1>3. ASSUME NEW k \in Kinds, GarbageCollect(k)
      PROVE  Abstract!ClusterNext
  <2>1. Abstract!GarbageCollect(k)
    BY <1>3, Zenon DEF GarbageCollect, Abstract!GarbageCollect, OwnerIsGone,
                       Abstract!OwnerIsGone, NoOwner, Abstract!NoOwner
  <2>2. QED
    BY <2>1, SameKinds, Zenon DEF Abstract!ClusterNext
<1>4. HasDeployment = Abstract!HasDeployment
  BY SameKinds, Zenon DEF HasDeployment, Abstract!HasDeployment
<1>5. CASE PodStarts
  BY <1>4, <1>5, Zenon DEF PodStarts, Abstract!PodStarts, Abstract!ClusterNext
<1>6. CASE RolloutFinishes
  BY <1>4, <1>6, Zenon DEF RolloutFinishes, Abstract!RolloutFinishes, Abstract!ClusterNext
<1>7. CASE PodFails
  BY <1>4, <1>7, Zenon DEF PodFails, Abstract!PodFails, Abstract!ClusterNext, Disturb,
                           Abstract!Disturb, MayDisturb, Abstract!MayDisturb
<1>8. CASE Tick
  BY <1>8, Zenon DEF Tick, Abstract!Tick, Abstract!ClusterNext
<1>9. QED
  BY <1>1, <1>2, <1>3, <1>5, <1>6, <1>7, <1>8

LEMMA ClusterIsCluster == ClusterNext => Abstract!ClusterNext
BY UsersAreUsers, OutsidersAreOutsiders, Zenon DEF ClusterNext

------------------------------------------------------------------------------
(* What has been heard                                                       *)

\* A step hears the new spec at once, and nothing lingers but what was heard before
\* of the same incarnation: numbers are not used again, so that nothing known of an
\* earlier one counts for its successor.
LEMMA NextHears ==
  ASSUME LockInv, LockInv', UidsInv, [Next]_vars
  PROVE  Abstract!Hears
<1>1. /\ uids \in Nat /\ app \in MaybeApp /\ app' \in MaybeApp
  BY DEF LockInv, TypeOK
<1>2. CASE app' = NoApp
  <2>1. Heard' = {}
    BY <1>2 DEF Heard
  <2>2. QED
    BY <1>2, <2>1 DEF Abstract!Hears
<1>3. CASE app' # NoApp
  <2> DEFINE old == IF app # NoApp /\ app.uid = app'.uid THEN Heard ELSE {}
  <2>1. app'.spec \in Heard'
    BY <1>3 DEF Heard, Known
  <2>2. ASSUME NEW v \in Known', v # NoApp, v.uid = app'.uid
        PROVE  v.spec \in old \cup {app'.spec}
    <3>1. CASE v = app'
      BY <3>1
    <3>2. CASE v # app'
      <4>1. PICK q \in Replicas : v \in KnownTo(q)'
        BY <2>2, <3>2 DEF Known
      <4>2. Descends(v, KnownTo(q))
        BY <1>1, <4>1, KnownNext
      <4>3. PICK w \in KnownTo(q) : w = v \/ (w # NoApp /\ w.uid = v.uid /\ w.spec = v.spec)
        BY <2>2, <3>2, <4>2 DEF Descends
      <4>4. w # NoApp /\ w.uid = app'.uid /\ w.spec = v.spec /\ w \in Known
        BY <2>2, <4>3 DEF Known
      <4>5. CASE app # NoApp /\ app.uid = app'.uid
        <5>1. w.spec \in Heard
          BY <4>4, <4>5 DEF Heard
        <5>2. QED
          BY <4>4, <4>5, <5>1
      <4>6. CASE ~(app # NoApp /\ app.uid = app'.uid)
        <5>1. app'.uid = uids + 1
          BY <1>3, <4>6, AppNext, CreateIsNew
        <5>2. w.uid <= uids
          BY <4>4 DEF UidsInv, IsPast
        <5>3. QED
          BY <1>1, <4>4, <5>1, <5>2
      <4>7. QED
        BY <4>5, <4>6
    <3>3. QED
      BY <3>1, <3>2
  <2>3. Heard' \subseteq old \cup {app'.spec}
    BY <1>3, <2>2 DEF Heard
  <2> HIDE DEF old
  <2>4. QED
    BY <1>3, <2>1, <2>3 DEF Abstract!Hears, old
<1>4. QED
  BY <1>2, <1>3

------------------------------------------------------------------------------
(* The writes of a replica                                                   *)

\* Every case but ClusterNext of Operator's next step.
OperatorStep ==
  \/ Abstract!Think
  \/ Abstract!Protect \/ Abstract!Release
  \/ (\E k \in Kinds : Abstract!Adjust(k)) \/ Abstract!Report

LEMMA Thinks ==
  ASSUME UNCHANGED <<app, uids, kids, touched, now>>,
         disturbances' \in {disturbances, disturbances + 1}
  PROVE  OperatorStep
BY DEF OperatorStep, Abstract!Think, Abstract!PerhapsDisturbed

LEMMA MachineryThinks ==
  ASSUME NEW r \in Replicas,
         \/ Start(r) \/ Crash(r) \/ Inform(r) \/ RetryFires(r) \/ Resync(r)
         \/ Fetch(r) \/ BuildPanic(r)
  PROVE  OperatorStep
<1>1. UNCHANGED <<app, uids, kids, touched, now>>
  BY DEF Start, Crash, Inform, DeliverApp, SyncChild, RetryFires, Resync, BuildPanic,
         Fetch, FetchNothing, FetchFails, FetchDeleting, FetchWithoutFinalizer,
         FetchAndBegin, GoTo, clusterVars
<1>2. disturbances' \in {disturbances, disturbances + 1}
  BY DEF Start, Crash, Inform, DeliverApp, SyncChild, RetryFires, Resync, BuildPanic,
         Fetch, FetchNothing, FetchFails, FetchDeleting, FetchWithoutFinalizer,
         FetchAndBegin, GoTo, clusterVars, Disturb, MayDisturb
<1>3. QED
  BY <1>1, <1>2, Thinks

LEMMA WritesDisturb ==
  ASSUME NEW r \in Replicas, AddFinalizer(r) \/ RemoveFinalizer(r) \/ StatusUpdate(r)
  PROVE  /\ disturbances' \in {disturbances, disturbances + 1}
         /\ UNCHANGED <<uids, kids, touched, now>>
<1>1. CASE AddFinalizer(r)
  BY <1>1 DEF AddFinalizer, Fault, MayDisturb
<1>2. CASE RemoveFinalizer(r)
  BY <1>2 DEF RemoveFinalizer, Fault, MayDisturb
<1>3. CASE StatusUpdate(r)
  BY <1>3 DEF StatusUpdate, Fault, MayDisturb
<1>4. QED
  BY <1>1, <1>2, <1>3

\* The finalizer is added to an application nobody has deleted.
LEMMA AddsProtect ==
  ASSUME LockInv, NEW r \in Replicas, HandsInv(r), AddFinalizer(r)
  PROVE  OperatorStep
<1>1. CASE app' = app
  BY <1>1, WritesDisturb, Thinks
<1>2. CASE app' # app
  <2>1. fresh[r] /\ pc[r] = "addFinalizer" /\ app' = [app EXCEPT !.finalizer = TRUE]
    BY <1>2 DEF AddFinalizer, Accepted
  <2>2. app # NoApp /\ ~app.deleting
    BY <2>1 DEF LockInv, FreshInv, SameObject, HandsInv
  <2>3. QED
    BY <2>1, <2>2, WritesDisturb DEF OperatorStep, Abstract!Protect, Abstract!PerhapsDisturbed
<1>3. QED
  BY <1>1, <1>2

LEMMA RemovesRelease ==
  ASSUME LockInv, NEW r \in Replicas, IntentInv(r), RemoveFinalizer(r)
  PROVE  OperatorStep
<1>1. CASE app' = app
  BY <1>1, WritesDisturb, Thinks
<1>2. CASE app' # app
  <2>1. fresh[r] /\ pc[r] = "removeFinalizer" /\ app' = NoApp
    BY <1>2 DEF RemoveFinalizer, Accepted
  <2>2. app # NoApp /\ app.deleting
    BY <2>1 DEF LockInv, FreshInv, SameObject, IntentInv
  <2>3. QED
    BY <2>1, <2>2, WritesDisturb DEF OperatorStep, Abstract!Release, Abstract!PerhapsDisturbed
<1>3. QED
  BY <1>1, <1>2

\* A worker speaks for the application it has read, while the finalizer holds it.
LEMMA WorkerIsHeard ==
  ASSUME LeaderInv, NEW r \in Replicas, pc[r] \in ChildSteps
  PROVE  /\ app # NoApp /\ app.uid = local[r].uid /\ app.finalizer
         /\ local[r] \in Apps /\ local[r].spec \in Heard
<1>1. local[r] \in Apps /\ local[r] # NoApp
  BY NothingAssumption DEF LeaderInv, LockInv, WorkerInv, ChildSteps
<1>2. app # NoApp /\ app.uid = local[r].uid /\ app.finalizer
  BY DEF LeaderInv, FinalizerProtects, Applying
<1>3. QED
  BY <1>1, <1>2 DEF Heard, Known, KnownTo

\* A child request that is carried out makes of the child what one of the specs that
\* were heard asks for.
LEMMA RequestsAdjust ==
  ASSUME LeaderInv, NEW r \in Replicas, ChildRequest(r)
  PROVE  OperatorStep
<1>1. /\ pc[r] \in ChildSteps /\ UNCHANGED <<app, uids, now>>
      /\ disturbances' \in {disturbances, disturbances + 1}
      /\ UNCHANGED <<kids, touched>> \/ CarriedOut(r)
  BY ChildRequestShape DEF LeaderInv, ChildFrame, Looked
<1>2. CASE UNCHANGED <<kids, touched>>
  BY <1>1, <1>2, Thinks
<1>3. CASE CarriedOut(r)
  <2> DEFINE k    == Kind(r)
             spec == local[r].spec
             held == kids[k]
             made == [owner   |-> app.uid, want |-> Desired(k, spec),
                      ready   |-> IF held = NoChild THEN 0 ELSE held.ready,
                      version |-> IF held = NoChild THEN "" ELSE held.version]
  <2>1. /\ app # NoApp /\ app.uid = local[r].uid /\ app.finalizer
        /\ local[r] \in Apps /\ spec \in Heard
    BY <1>1, WorkerIsHeard
  <2>2. k \in Kinds /\ (held # NoChild => held \in Children(k)) /\ NoChild \notin Children(k)
    BY <2>1, WrittenChildType, NothingAssumption
       DEF LeaderInv, LockInv, TypeOK, ChildMaps, MaybeChild
  <2>3. touched' = touched \ {k}
    BY <1>3 DEF CarriedOut, StoreChild
  <2>4. \/ /\ Wanted(k, spec) /\ (held # NoChild => held.owner \in {0, app.uid})
           /\ kids' = [kids EXCEPT ![k] = made]
        \/ ~Wanted(k, spec) /\ kids' = [kids EXCEPT ![k] = NoChild]
    <3>1. CASE pc[r] = "delete"
      BY <1>3, <3>1 DEF CarriedOut, StoreChild, LeaderInv, IntentInv
    <3>2. CASE pc[r] = "create" \/ (pc[r] = "patch" /\ held = NoChild)
      <4>1. held = NoChild /\ kids' = [kids EXCEPT ![k] = CreatedChild(r)]
        BY <1>3, <3>2 DEF CarriedOut, StoreChild, PatchedChild
      <4>2. CreatedChild(r) = made
        BY <2>1, <4>1 DEF CreatedChild
      <4>3. Wanted(k, spec)
        BY <3>2 DEF LeaderInv, IntentInv
      <4>4. QED
        BY <4>1, <4>2, <4>3
    <3>3. CASE pc[r] = "patch" /\ held # NoChild
      <4>1. /\ kids' = [kids EXCEPT ![k] = PatchedChild(r)] /\ MayPatch(r)
            /\ PatchedChild(r) = [held EXCEPT !.owner = local[r].uid, !.want = Desired(k, spec)]
        BY <1>3, <3>3 DEF CarriedOut, StoreChild, PatchedChild
      <4>2. PatchedChild(r) = made
        BY <2>1, <2>2, <3>3, <4>1 DEF Children
      <4>3. Wanted(k, spec)
        BY <3>3 DEF LeaderInv, IntentInv
      <4>4. held.owner \in {0, app.uid}
        BY <2>1, <3>3, <4>1 DEF MayPatch, NoOwner
      <4>5. QED
        BY <4>1, <4>2, <4>3, <4>4
    <3>4. QED
      BY <1>3, <3>1, <3>2, <3>3 DEF CarriedOut
  <2>5. Abstract!Adjust(k)
    <3>1. Abstract!PerhapsDisturbed
      BY <1>1 DEF Abstract!PerhapsDisturbed
    <3>2. /\ Abstract!Wanted(k, spec) = Wanted(k, spec)
          /\ Abstract!Desired(k, spec) = Desired(k, spec)
      BY SameBuilders
    <3>3. Abstract!MayOwn(k) <=> (held # NoChild => held.owner \in {0, app.uid})
      BY DEF Abstract!MayOwn, Abstract!NoOwner
    <3>4. QED
      BY <1>1, <2>1, <2>3, <2>4, <3>1, <3>2, <3>3, Zenon DEF Abstract!Adjust
  <2>6. QED
    BY <2>2, <2>5 DEF OperatorStep
<1>4. QED
  BY <1>1, <1>2, <1>3

\* The worker whose status update is accepted has seen the stored version, no version is
\* on its way to it, and no other replica is running.
LEMMA WriterIsUpToDate ==
  ASSUME LeaderInv, WorkInv, NEW r \in Replicas, pc[r] # "idle", fresh[r]
  PROVE  app # NoApp /\ Heard = {app.spec}
<1>1. /\ app # NoApp /\ local[r].uid = app.uid /\ local[r].spec = app.spec
      /\ cache[r] = app /\ watch[r] = <<>>
  BY DEF LeaderInv, LockInv, FreshInv, SameObject
<1>2. running[r]
  BY DEF LeaderInv, LockInv, WorkerInv
<1>3. KnownTo(r) = {app, local[r]}
  <2>1. Len(watch[r]) = 0
    BY <1>1, EmptySeq
  <2>2. QED
    BY <1>1, <2>1 DEF KnownTo, InSight
<1>4. ASSUME NEW q \in Replicas \ {r}
      PROVE  KnownTo(q) = {NoApp}
  <2>1. ~running[q]
    BY <1>2 DEF LeaderInv, OneLeader
  <2>2. /\ cache[q] = NoApp /\ watch[q] = <<>> /\ local[q] = NoApp
    BY <2>1 DEF LeaderInv, LockInv, WorkerInv, WorkInv, HandsInv
  <2>3. Len(watch[q]) = 0
    BY <2>2, EmptySeq
  <2>4. QED
    BY <2>2, <2>3 DEF KnownTo, InSight
<1>5. \A w \in Known : w # NoApp => w.spec = app.spec
  BY <1>1, <1>3, <1>4 DEF Known
<1>6. app \in Known
  BY DEF Known
<1>7. QED
  BY <1>1, <1>5, <1>6 DEF Heard

LEMMA UpdatesReport ==
  ASSUME LeaderInv, WorkInv, NEW r \in Replicas, StatusUpdate(r)
  PROVE  OperatorStep
<1>1. LockInv /\ TypeOK
  BY DEF LeaderInv, LockInv
<1>2. CASE app' = app
  BY <1>2, WritesDisturb, Thinks
<1>3. CASE app' # app
  <2>1. /\ fresh[r] /\ app \in Apps /\ app # NoApp /\ local[r] \in Apps
        /\ SameObject(local[r], app)
        /\ app' \in Apps
        /\ app' = [app EXCEPT !.status = FinalStatus(r)]
        /\ app'.status = FinalStatus(r)
        /\ SameObject(app', app)
        /\ app'.status.observedGeneration = app'.generation
        /\ IsReady(app'.status.conditions) <=> ~ComesBack(r)
    BY <1>1, <1>3, StatusWrites
  <2>2. pc[r] = "status"
    BY DEF StatusUpdate
  <2>3. app.finalizer /\ ~app.deleting
    BY <2>1, <2>2 DEF WorkInv, HandsInv, SameObject
  <2>4. /\ app' # NoApp /\ app' = [app EXCEPT !.status = app'.status]
        /\ app'.status.observedGeneration = app.generation
    BY <2>1, NothingAssumption DEF SameObject
  <2>8. app'.status \in Abstract!Statuses
    BY <2>1, SameStatuses DEF Apps
  <2>5. app'.status.deployedVersion = app.spec.image.tag
    <3>1. FinalStatus(r).deployedVersion = local[r].spec.image.tag
      BY DEF FinalStatus
    <3>2. QED
      BY <2>1, <3>1 DEF SameObject
  <2>6. ASSUME IsReady(app'.status.conditions)
        PROVE  Abstract!MayReportReady(app'.status)
    <3>1. err[r] = NoError /\ ~(ReadyReplicas(r) < local[r].spec.replicas.min)
      BY <2>1, <2>6 DEF ComesBack
    <3>2. app'.status.readyReplicas >= app.spec.replicas.min
      <4>1. app'.status.readyReplicas = ReadyReplicas(r) /\ app.spec = local[r].spec
        <5>1. FinalStatus(r).readyReplicas = ReadyReplicas(r)
          BY DEF FinalStatus
        <5>2. QED
          BY <2>1, <5>1 DEF SameObject
      <4>2. ReadyReplicas(r) \in Nat /\ app.spec.replicas.min \in Nat
        BY <1>1, <2>1, ReadyReplicasType, SpecsAssumption DEF Apps
      <4>3. QED
        BY <3>1, <4>1, <4>2
    <3>3. Heard = {app.spec}
      BY <2>1, <2>2, WriterIsUpToDate
    <3>4. \A k \in Kinds \ touched : Applied(k, app)
      <4>1. \A i \in 1 .. Len(Order) : Order[i] \in touched \/ Applied(Order[i], app)
        BY <2>1, <2>2, <3>1 DEF LeaderInv, ProgressInv, Behind, Applying, ChildSteps
      <4>2. DOMAIN Order = 1 .. Len(Order)
        BY OrderAssumption
      <4>3. QED
        BY <4>1, <4>2 DEF Kinds
    <3>5. QED
      BY <3>2, <3>3, <3>4, SameKinds, SameApplied, Zenon DEF Abstract!MayReportReady
  <2>7. IsReady(app'.status.conditions) = Abstract!IsReady(app'.status.conditions)
    BY DEF IsReady, Abstract!IsReady
  <2>10. QED
    BY <2>1, <2>3, <2>4, <2>5, <2>6, <2>7, <2>8, WritesDisturb
       DEF OperatorStep, Abstract!Report, Abstract!PerhapsDisturbed
<1>4. QED
  BY <1>2, <1>3

------------------------------------------------------------------------------
(* The refinement                                                            *)

LEMMA InitOperator == Init => Abstract!Init
<1> SUFFICES ASSUME Init PROVE Abstract!Init
  OBVIOUS
<1>1. Heard = {}
  BY DEF Init, ClusterInit, Heard
<1>2. Abstract!ClusterInit
  BY SameKinds, Zenon DEF Init, ClusterInit, Abstract!ClusterInit
<1>3. QED
  BY <1>1, <1>2, Zenon DEF Abstract!Init

LEMMA ReplicaIsOperator ==
  ASSUME LeaderInv, WorkInv, NEW r \in Replicas, ReplicaStep(r)
  PROVE  OperatorStep
<1>1. LockInv /\ HandsInv(r) /\ IntentInv(r)
  BY DEF LeaderInv, WorkInv
<1>2. CASE AddFinalizer(r)
  BY <1>1, <1>2, AddsProtect
<1>3. CASE RemoveFinalizer(r)
  BY <1>1, <1>3, RemovesRelease
<1>4. CASE ChildRequest(r)
  BY <1>4, RequestsAdjust
<1>5. CASE StatusUpdate(r)
  BY <1>5, UpdatesReport
<1>6. CASE \/ Start(r) \/ Crash(r) \/ Inform(r) \/ RetryFires(r) \/ Resync(r)
           \/ Fetch(r) \/ BuildPanic(r)
  BY <1>6, MachineryThinks
<1>7. QED
  BY <1>2, <1>3, <1>4, <1>5, <1>6 DEF ReplicaStep, Work, ChildRequest

LEMMA NextOperator ==
  LeaderInv /\ LeaderInv' /\ WorkInv /\ [Next]_vars => [Abstract!Next]_(Abstract!operatorVars)
<1> SUFFICES ASSUME LeaderInv, LeaderInv', WorkInv, [Next]_vars
             PROVE  Abstract!Next
  OBVIOUS
<1>1. Abstract!Hears
  BY NextHears DEF LeaderInv, WorkInv
<1>2. OperatorStep \/ Abstract!ClusterNext
  <2>1. CASE EnvironmentStep
    BY <2>1, ClusterIsCluster DEF EnvironmentStep
  <2>2. CASE \E r \in Replicas : ReplicaStep(r)
    BY <2>2, ReplicaIsOperator
  <2>3. CASE UNCHANGED vars
    BY <2>3, Thinks DEF vars, clusterVars
  <2>4. QED
    BY <2>1, <2>2, <2>3, NextCases
<1>3. QED
  BY <1>1, <1>2, SameKinds, Zenon DEF Abstract!Next, OperatorStep

\* With leader election on, the replicas, whatever they read late, lose or repeat, send
\* no request Operator does not allow: the finalizer goes only when somebody deleted the
\* application, a child is made only under the finalizer, from a spec of the present
\* incarnation and never taken from another one, and Ready is said only when the stored
\* spec is the only one anybody still acts on.
THEOREM OperatorKeepsItsPromises ==
  ASSUME LeaderElection
  PROVE  Spec => ImplementsOperator
<1>1. LeaderInv /\ LeaderInv' /\ WorkInv /\ [Next]_vars
        => [Abstract!Next]_(Abstract!operatorVars)
  BY NextOperator
<1>2. Spec => []LeaderInv
  BY LeaderArgumentHolds
<1>3. QED
  BY <1>1, <1>2, InitOperator, WorkInvariant, PTL DEF Spec, ImplementsOperator, Abstract!Spec
=============================================================================
