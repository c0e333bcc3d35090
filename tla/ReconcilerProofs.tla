-------------------------- MODULE ReconcilerProofs --------------------------
(***************************************************************************)
(* Proofs, for every number of replicas and every bound, that LockInv and  *)
(* LeaderInv are inductive, and the safety properties that follow.         *)
(***************************************************************************)
EXTENDS ReconcilerInvariants, ClusterProofs, SequenceTheorems

LEMMA TypesOfCluster == TypeOK => ClusterTypes
BY DEF TypeOK, ClusterTypes

(* Operators *)

\* Every error of a child request ends up in one of the classes that
\* handleErrorResult switches on.
LEMMA ClassesAreKnown ==
  \A reason \in Reasons : ClassifyOrWrap(RawError(reason)).class \in Classes
BY DEF ClassifyOrWrap, RawError, Classify, ClassOfReason, Classes, Reasons,
       ClassTransient, ClassPermanent, ClassConflict, ClassUnknown, Unclassified

\* SetCondition leaves a well-formed list with the wanted status in it.
LEMMA SetConditionSets ==
  ASSUME NEW conds \in ConditionLists, NEW type \in ConditionTypes,
         NEW status \in BOOLEAN, NEW reason \in ConditionReasons,
         NEW message \in Messages, NEW t \in Nat
  PROVE  LET c == SetCondition(conds, type, status, reason, message, t)
         IN  c \in ConditionLists /\ c[type].status = status
<1>1. [status |-> status, reason |-> reason, message |-> message,
       lastTransitionTime |-> t] \in ConditionEntries
  BY DEF ConditionEntries
<1>2. QED
  BY <1>1 DEF SetCondition, ConditionLists

\* Condition list c differs from b in the entry of one type, if it does, and not in
\* the time of that entry alone.
OneEntrySet(b, c, type) ==
  /\ \A other \in ConditionTypes \ {type} : c[other] = b[other]
  /\ SameEntry(b[type], c[type]) => c[type] = b[type]

LEMMA SetConditionKeeps ==
  ASSUME NEW conds \in ConditionLists, NEW type \in ConditionTypes,
         NEW status \in BOOLEAN, NEW reason \in ConditionReasons,
         NEW message \in Messages, NEW t \in Nat
  PROVE  OneEntrySet(conds, SetCondition(conds, type, status, reason, message, t), type)
BY DEF OneEntrySet, SetCondition, SameEntry, ConditionLists, ConditionEntries

\* What Create and Patch leave is a child of its kind.
LEMMA WrittenChildType ==
  ASSUME TypeOK, NEW r \in Replicas, local[r] \in Apps
  PROVE  /\ Kind(r) \in Kinds
         /\ CreatedChild(r) \in Children(Kind(r))
         /\ PatchedChild(r) \in Children(Kind(r))
<1>1. Kind(r) \in Kinds
  BY KindsAreNames DEF TypeOK, Kind
<1>2. local[r].spec \in Specs /\ local[r].uid \in Nat
  BY DEF Apps
<1>3. CreatedChild(r) \in Children(Kind(r))
  BY <1>2 DEF CreatedChild, Children, Tags
<1>4. kids[Kind(r)] = NoChild \/ kids[Kind(r)] \in Children(Kind(r))
  BY <1>1 DEF TypeOK, ChildMaps, MaybeChild
<1>5. PatchedChild(r) \in Children(Kind(r))
  BY <1>2, <1>3, <1>4 DEF PatchedChild, Children
<1>6. QED
  BY <1>1, <1>3, <1>5

\* updateDeploymentStatus yields a count.
LEMMA ReadyReplicasType ==
  ASSUME TypeOK, NEW r \in Replicas, local[r] \in Apps
  PROVE  ReadyReplicas(r) \in Nat
<1>1. CASE "Deployment" \in Kinds /\ kcache[r]["Deployment"] # NoChild
  <2>1. kcache[r]["Deployment"] \in Children("Deployment")
    BY <1>1 DEF TypeOK, ChildMaps, MaybeChild
  <2>2. QED
    BY <1>1, <2>1 DEF ReadyReplicas, Children
<1>2. CASE ~("Deployment" \in Kinds /\ kcache[r]["Deployment"] # NoChild)
  BY <1>2 DEF ReadyReplicas, Apps, Statuses
<1>3. QED
  BY <1>1, <1>2

\* The outcome of a reconcile leaves ConfigurationValid alone, and no time of Ready
\* and Degraded changes alone.
OutcomeSet(b, c) ==
  /\ c["ConfigurationValid"] = b["ConfigurationValid"]
  /\ SameEntry(b["Ready"], c["Ready"]) => c["Ready"] = b["Ready"]
  /\ SameEntry(b["Degraded"], c["Degraded"]) => c["Degraded"] = b["Degraded"]

\* SetCondition has made c of b, with this status for the type.
WellSet(b, c, type, status) ==
  c \in ConditionLists /\ c[type].status = status /\ OneEntrySet(b, c, type)

LEMMA SetConditionWell ==
  ASSUME NEW conds \in ConditionLists, NEW type \in ConditionTypes,
         NEW status \in BOOLEAN, NEW reason \in ConditionReasons,
         NEW message \in Messages, NEW t \in Nat
  PROVE  WellSet(conds, SetCondition(conds, type, status, reason, message, t), type, status)
<1>1. /\ SetCondition(conds, type, status, reason, message, t) \in ConditionLists
      /\ SetCondition(conds, type, status, reason, message, t)[type].status = status
  BY SetConditionSets
<1>2. OneEntrySet(conds, SetCondition(conds, type, status, reason, message, t), type)
  BY SetConditionKeeps
<1>3. QED
  BY <1>1, <1>2, Zenon DEF WellSet

LEMMA SetAllSets ==
  ASSUME NEW conds \in ConditionLists,
         NEW p \in BOOLEAN \X ConditionReasons, NEW d \in BOOLEAN \X ConditionReasons,
         NEW y \in BOOLEAN \X ConditionReasons,
         NEW m \in Messages \X Messages \X Messages, now \in Nat
  PROVE  LET c == SetAll(conds, p, d, y, m)
         IN  c \in ConditionLists /\ c["Ready"].status = y[1] /\ OutcomeSet(conds, c)
<1> DEFINE c1 == SetCondition(conds, "Progressing", p[1], p[2], m[1], now)
           c2 == SetCondition(c1, "Degraded", d[1], d[2], m[2], now)
           c3 == SetCondition(c2, "Ready", y[1], y[2], m[3], now)
<1>1. {"Progressing", "Degraded", "Ready", "ConfigurationValid"} \subseteq ConditionTypes
  BY DEF ConditionTypes
<1>2. /\ p[1] \in BOOLEAN /\ d[1] \in BOOLEAN /\ y[1] \in BOOLEAN
      /\ p[2] \in ConditionReasons /\ d[2] \in ConditionReasons /\ y[2] \in ConditionReasons
      /\ m[1] \in Messages /\ m[2] \in Messages /\ m[3] \in Messages
  OBVIOUS
<1>3. WellSet(conds, c1, "Progressing", p[1])
  BY <1>1, <1>2, SetConditionWell, Zenon
<1> HIDE DEF c1
<1>4. WellSet(c1, c2, "Degraded", d[1])
  <2>1. c1 \in ConditionLists
    BY <1>3 DEF WellSet
  <2>2. QED
    BY <1>1, <1>2, <2>1, SetConditionWell, Zenon
<1> HIDE DEF c2
<1>5. WellSet(c2, c3, "Ready", y[1])
  <2>1. c2 \in ConditionLists
    BY <1>4 DEF WellSet
  <2>2. QED
    BY <1>1, <1>2, <2>1, SetConditionWell, Zenon
<1> HIDE DEF c3
<1>6. SetAll(conds, p, d, y, m) = c3
  BY Zenon DEF SetAll, c1, c2, c3
<1>7. OutcomeSet(conds, c3)
  BY <1>1, <1>3, <1>4, <1>5 DEF WellSet, OneEntrySet, OutcomeSet
<1>8. QED
  BY <1>5, <1>6, <1>7 DEF WellSet

\* setConditions writes well-formed conditions, and Ready exactly when no child
\* failed and enough pods are counted.
LEMMA OutcomeConditionsSet ==
  ASSUME NEW conds \in ConditionLists, NEW error \in Errs,
         NEW ready \in Nat, NEW min \in Nat, now \in Nat
  PROVE  LET c == OutcomeConditions(conds, error, ready, min)
         IN  /\ c \in ConditionLists /\ OutcomeSet(conds, c)
             /\ IsReady(c) <=> error = NoError /\ ready >= min
<1> DEFINE failed  == [NoMessage EXCEPT !.kind = error.kind, !.reason = error.reason]
           waiting == [NoMessage EXCEPT !.ready = ready, !.min = min]
<1>1. NoMessage \in Messages /\ failed \in Messages /\ waiting \in Messages
  <2>1. error.kind \in Kinds \cup {""} /\ error.reason \in Reasons \cup {""}
    <3>1. CASE error = NoError
      BY <3>1 DEF NoError
    <3>2. CASE error \in [kind : Kinds, class : Classes, reason : Reasons]
      BY <3>2
    <3>3. QED
      BY <3>1, <3>2 DEF Errs
  <2>2. QED
    BY <2>1 DEF NoMessage, Messages
<1> HIDE DEF failed, waiting
<1>2. CASE error # NoError
  <2> DEFINE p == <<FALSE, "ReconcileError">>
             d == <<TRUE, "ReconcileError">>
             y == <<FALSE, "ReconcileError">>
             m == <<failed, failed, NoMessage>>
             c == SetAll(conds, p, d, y, m)
  <2>1. /\ p \in BOOLEAN \X ConditionReasons /\ d \in BOOLEAN \X ConditionReasons
        /\ y \in BOOLEAN \X ConditionReasons
    BY DEF ConditionReasons
  <2>2. m \in Messages \X Messages \X Messages
    BY <1>1
  <2>3. y[1] = FALSE
    OBVIOUS
  <2>4. OutcomeConditions(conds, error, ready, min) = c
    BY <1>2 DEF OutcomeConditions, failed, waiting
  <2> HIDE DEF p, d, y, m
  <2>5. c \in ConditionLists /\ c["Ready"].status = FALSE /\ OutcomeSet(conds, c)
    <3>1. c \in ConditionLists
      BY <2>1, <2>2, SetAllSets
    <3>2. OutcomeSet(conds, c)
      BY <2>1, <2>2, SetAllSets
    <3>3. c["Ready"].status = y[1]
      BY <2>1, <2>2, SetAllSets
    <3>4. QED
      BY <2>3, <3>1, <3>2, <3>3
  <2> HIDE DEF c
  <2>6. QED
    BY <1>2, <2>4, <2>5 DEF IsReady
<1>3. CASE error = NoError /\ ready >= min
  <2> DEFINE p == <<FALSE, "Deployed">>
             d == <<FALSE, "Healthy">>
             y == <<TRUE, "Available">>
             m == <<NoMessage, NoMessage, NoMessage>>
             c == SetAll(conds, p, d, y, m)
  <2>1. /\ p \in BOOLEAN \X ConditionReasons /\ d \in BOOLEAN \X ConditionReasons
        /\ y \in BOOLEAN \X ConditionReasons
    BY DEF ConditionReasons
  <2>2. m \in Messages \X Messages \X Messages
    BY <1>1
  <2>3. y[1] = TRUE
    OBVIOUS
  <2>4. OutcomeConditions(conds, error, ready, min) = c
    BY <1>3 DEF OutcomeConditions, failed, waiting
  <2> HIDE DEF p, d, y, m
  <2>5. c \in ConditionLists /\ c["Ready"].status = TRUE /\ OutcomeSet(conds, c)
    <3>1. c \in ConditionLists
      BY <2>1, <2>2, SetAllSets
    <3>2. OutcomeSet(conds, c)
      BY <2>1, <2>2, SetAllSets
    <3>3. c["Ready"].status = y[1]
      BY <2>1, <2>2, SetAllSets
    <3>4. QED
      BY <2>3, <3>1, <3>2, <3>3
  <2> HIDE DEF c
  <2>6. QED
    BY <1>3, <2>4, <2>5 DEF IsReady
<1>4. CASE error = NoError /\ ~(ready >= min)
  <2> DEFINE p == <<TRUE, "Deploying">>
             d == <<FALSE, "Deploying">>
             y == <<FALSE, "InsufficientReplicas">>
             m == <<waiting, NoMessage, waiting>>
             c == SetAll(conds, p, d, y, m)
  <2>1. /\ p \in BOOLEAN \X ConditionReasons /\ d \in BOOLEAN \X ConditionReasons
        /\ y \in BOOLEAN \X ConditionReasons
    BY DEF ConditionReasons
  <2>2. m \in Messages \X Messages \X Messages
    BY <1>1
  <2>3. y[1] = FALSE
    OBVIOUS
  <2>4. OutcomeConditions(conds, error, ready, min) = c
    BY <1>4 DEF OutcomeConditions, failed, waiting
  <2> HIDE DEF p, d, y, m
  <2>5. c \in ConditionLists /\ c["Ready"].status = FALSE /\ OutcomeSet(conds, c)
    <3>1. c \in ConditionLists
      BY <2>1, <2>2, SetAllSets
    <3>2. OutcomeSet(conds, c)
      BY <2>1, <2>2, SetAllSets
    <3>3. c["Ready"].status = y[1]
      BY <2>1, <2>2, SetAllSets
    <3>4. QED
      BY <2>3, <3>1, <3>2, <3>3
  <2> HIDE DEF c
  <2>6. QED
    BY <1>4, <2>4, <2>5 DEF IsReady
<1>5. QED
  BY <1>2, <1>3, <1>4

LEMMA FinalStatusType ==
  ASSUME TypeOK, NEW r \in Replicas, local[r] \in Apps
  PROVE  /\ FinalStatus(r) \in Statuses
         /\ OutcomeSet(local[r].status.conditions, FinalStatus(r).conditions)
         /\ FinalStatus(r).observedGeneration = local[r].generation
         /\ IsReady(FinalStatus(r).conditions) <=> ~ComesBack(r)
<1>1. /\ local[r].spec \in Specs /\ local[r].generation \in Nat
      /\ local[r].status \in Statuses
  BY DEF Apps
<1>2. local[r].status.conditions \in ConditionLists /\ local[r].status.url \in Urls
  BY <1>1 DEF Statuses
<1>3. ReadyReplicas(r) \in Nat
  BY ReadyReplicasType
<1>4. err[r] \in Errs /\ now \in Nat
  BY DEF TypeOK
<1> DEFINE c == OutcomeConditions(local[r].status.conditions, err[r], ReadyReplicas(r),
                                  local[r].spec.replicas.min)
<1>5. /\ c \in ConditionLists /\ OutcomeSet(local[r].status.conditions, c)
      /\ IsReady(c) <=> err[r] = NoError /\ ReadyReplicas(r) >= local[r].spec.replicas.min
  BY <1>1, <1>2, <1>3, <1>4, SpecsAssumption, OutcomeConditionsSet
<1>6. local[r].spec.image.tag \in Tags /\ local[r].spec.gateway.host \in Urls
  BY <1>1 DEF Tags, Urls
<1> DEFINE u == IF local[r].spec.gateway.enabled /\ local[r].spec.gateway.host # ""
                THEN local[r].spec.gateway.host ELSE local[r].status.url
<1>7. u \in Urls
  BY <1>2, <1>6
<1> HIDE DEF c, u
<1>8. FinalStatus(r) =
        [observedGeneration |-> local[r].generation, readyReplicas |-> ReadyReplicas(r),
         deployedVersion |-> local[r].spec.image.tag, url |-> u, conditions |-> c]
  BY DEF FinalStatus, c, u
<1>9. FinalStatus(r) \in Statuses
  BY <1>1, <1>3, <1>5, <1>6, <1>7, <1>8 DEF Statuses
<1>10. IsReady(c) <=> ~ComesBack(r)
  BY <1>1, <1>3, <1>5, SpecsAssumption DEF ComesBack
<1>11. QED
  BY <1>5, <1>8, <1>9, <1>10

\* The conditions a reconcile starts with are well-formed.
LEMMA StartConditionsType ==
  ASSUME NEW conds \in ConditionLists, now \in Nat
  PROVE  StartConditions(conds) \in ConditionLists
<1> DEFINE c1 == SetCondition(conds, "Progressing", TRUE, "Reconciling", NoMessage, now)
<1>1. /\ {"Progressing", "ConfigurationValid"} \subseteq ConditionTypes
      /\ {"Reconciling", "Valid"} \subseteq ConditionReasons
      /\ NoMessage \in Messages
  BY DEF ConditionTypes, ConditionReasons, NoMessage, Messages
<1>2. c1 \in ConditionLists
  BY <1>1, SetConditionSets
<1> HIDE DEF c1
<1>3. SetCondition(c1, "ConfigurationValid", TRUE, "Valid", NoMessage, now) \in ConditionLists
  BY <1>1, <1>2, SetConditionSets
<1>4. QED
  BY <1>3 DEF StartConditions, c1

(***************************************************************************)
(* LockInv is inductive *)

\* The steps that may write the application.
LEMMA ObserveKeeps ==
  ASSUME LockInv, Observe, app' \in MaybeApp, UNCHANGED <<running, cache>>,
         \A q \in Replicas : pc'[q] # "idle" => local'[q] = local[q]
  PROVE  /\ watch' \in [Replicas -> Seq(MaybeApp)]
         /\ fresh' \in [Replicas -> BOOLEAN]
         /\ \A q \in Replicas :
              /\ ~running[q] => watch'[q] = <<>>
              /\ pc'[q] = "idle" => ~fresh'[q]
              /\ StreamInv(q)' /\ FreshInv(q)'
<1>1. \A q \in Replicas :
        watch'[q] = IF running[q] /\ app' # app THEN Append(watch[q], app') ELSE watch[q]
  BY DEF Observe
<1>2. \A q \in Replicas : fresh'[q] <=> (fresh[q] /\ app' = app /\ pc'[q] # "idle")
  BY DEF Observe
<1>3. watch \in [Replicas -> Seq(MaybeApp)]
  BY DEF LockInv, TypeOK
<1>4. watch' \in [Replicas -> Seq(MaybeApp)]
  BY <1>3 DEF Observe
<1>5. fresh' \in [Replicas -> BOOLEAN]
  BY DEF Observe
<1>6. ASSUME NEW q \in Replicas
      PROVE  ~running[q] => watch'[q] = <<>>
  BY <1>1 DEF LockInv, WorkerInv
<1>7. ASSUME NEW q \in Replicas
      PROVE  StreamInv(q)'
  <2>1. watch[q] \in Seq(MaybeApp)
    BY <1>3
  <2>2. CASE running[q] /\ app' # app
    <3>1. watch'[q] = Append(watch[q], app')
      BY <1>1, <2>2
    <3>2. watch'[q] # <<>> /\ watch'[q][Len(watch'[q])] = app'
      BY <2>1, <3>1
    <3>3. QED
      BY <3>2 DEF StreamInv
  <2>3. CASE running[q] /\ app' = app
    BY <1>1, <2>3 DEF LockInv, StreamInv
  <2>4. CASE ~running[q]
    BY <2>4 DEF StreamInv
  <2>5. QED
    BY <2>2, <2>3, <2>4
<1>8. ASSUME NEW q \in Replicas
      PROVE  FreshInv(q)'
  <2>1. SUFFICES ASSUME fresh'[q]
                 PROVE  /\ app' # NoApp /\ SameObject(local'[q], app')
                        /\ watch'[q] = <<>> /\ cache'[q] = app'
    BY DEF FreshInv, SameObject
  <2>2. fresh[q] /\ app' = app /\ pc'[q] # "idle"
    BY <1>2, <2>1
  <2>3. watch'[q] = watch[q] /\ local'[q] = local[q] /\ cache'[q] = cache[q]
    BY <1>1, <2>2
  <2>4. QED
    BY <2>2, <2>3 DEF LockInv, FreshInv
<1>9. QED
  BY <1>2, <1>4, <1>5, <1>6, <1>7, <1>8

LEMMA EnvironmentLock ==
  ASSUME LockInv, EnvironmentStep
  PROVE  LockInv'
<1>1. /\ app' \in MaybeApp /\ uids' \in Nat /\ kids' \in ChildMaps
      /\ touched' \in SUBSET Kinds /\ now' \in Nat /\ disturbances' \in Nat
      /\ StatusNotAhead'
  <2>1. CASE UserCreate \/ UserEdit \/ UserDelete
    BY <2>1, TypesOfCluster, UsersKeepTypes DEF LockInv, TypeOK
  <2>2. CASE \/ \E k \in Kinds : UserDrift(k) \/ UserForeign(k) \/ GarbageCollect(k)
             \/ PodStarts \/ RolloutFinishes \/ PodFails
    BY <2>2, TypesOfCluster, OutsidersKeepTypes DEF LockInv, TypeOK, StatusNotAhead
  <2>3. CASE Tick
    BY <2>3 DEF Tick, LockInv, TypeOK, StatusNotAhead
  <2>4. QED
    BY <2>1, <2>2, <2>3 DEF EnvironmentStep, ClusterNext
<1>2. UNCHANGED <<running, cache, kcache, queueVars, pc, local, idx, attempt, err>> /\ Observe
  BY DEF EnvironmentStep
<1>3. /\ watch' \in [Replicas -> Seq(MaybeApp)]
      /\ fresh' \in [Replicas -> BOOLEAN]
      /\ \A q \in Replicas : /\ ~running[q] => watch'[q] = <<>>
                             /\ pc'[q] = "idle" => ~fresh'[q]
                             /\ StreamInv(q)' /\ FreshInv(q)'
  BY <1>1, <1>2, ObserveKeeps
<1>4. TypeOK'
  BY <1>1, <1>2, <1>3 DEF LockInv, TypeOK, queueVars
<1>5. \A q \in Replicas : WorkerInv(q)'
  BY <1>2, <1>3 DEF LockInv, WorkerInv
<1>6. QED
  BY <1>1, <1>3, <1>4, <1>5 DEF LockInv

LEMMA StartLock ==
  ASSUME LockInv, NEW r \in Replicas, Start(r)
  PROVE  LockInv'
<1>1. TypeOK /\ app \in MaybeApp /\ kids \in ChildMaps
  BY DEF LockInv, TypeOK
<1>2. UNCHANGED <<clusterVars, watch, retry, workerVars>>
  BY DEF Start
<1>3. TypeOK'
  BY <1>1, <1>2 DEF TypeOK, Start, OwnedDeployment, clusterVars, workerVars
<1>4. ~running[r] /\ watch[r] = <<>> /\ cache'[r] = app
      /\ \A q \in Replicas \ {r} : running'[q] = running[q] /\ cache'[q] = cache[q]
  BY DEF Start, LockInv, TypeOK, WorkerInv
<1>5. \A q \in Replicas : StreamInv(q)'
  BY <1>2, <1>4 DEF LockInv, StreamInv, clusterVars
<1>6. \A q \in Replicas : WorkerInv(q)'
  BY <1>2, <1>4 DEF LockInv, WorkerInv, workerVars
<1>7. ~fresh[r]
  BY <1>4 DEF LockInv, WorkerInv
<1>8. \A q \in Replicas : FreshInv(q)'
  BY <1>2, <1>4, <1>7 DEF LockInv, FreshInv, SameObject, clusterVars, workerVars
<1>9. QED
  BY <1>2, <1>3, <1>5, <1>6, <1>8 DEF LockInv, StatusNotAhead, clusterVars

LEMMA CrashLock ==
  ASSUME LockInv, NEW r \in Replicas, Crash(r)
  PROVE  LockInv'
<1>1. UNCHANGED <<app, uids, kids, touched, now>> /\ disturbances' = disturbances + 1
  BY DEF Crash, Disturb, MayDisturb
<1>2. [k \in Kinds |-> NoChild] \in ChildMaps
  BY DEF ChildMaps, AnyChild, MaybeChild
<1>3. 1 \in DOMAIN Order
  BY OrderAssumption
<1>4. TypeOK'
  <2>1. disturbances' \in Nat
    BY <1>1 DEF LockInv, TypeOK
  <2>2. /\ running' \in [Replicas -> BOOLEAN]
        /\ cache' \in [Replicas -> MaybeApp]
        /\ watch' \in [Replicas -> Seq(MaybeApp)]
        /\ kcache' \in [Replicas -> ChildMaps]
    BY <1>2 DEF LockInv, TypeOK, Crash, MaybeApp
  <2>3. /\ queued' \in [Replicas -> BOOLEAN] /\ retry' \in [Replicas -> BOOLEAN]
        /\ pc' \in [Replicas -> Steps] /\ local' \in [Replicas -> MaybeApp]
        /\ fresh' \in [Replicas -> BOOLEAN]
    BY DEF LockInv, TypeOK, Crash, MaybeApp, Steps
  <2>4. /\ idx' \in [Replicas -> DOMAIN Order]
        /\ attempt' \in [Replicas -> 0 .. MaxApplyRetries]
        /\ err' \in [Replicas -> Errs]
    BY <1>3 DEF LockInv, TypeOK, Crash, Errs, MaxApplyRetries
  <2>5. QED
    BY <1>1, <2>1, <2>2, <2>3, <2>4 DEF LockInv, TypeOK
<1>5. /\ ~running'[r] /\ watch'[r] = <<>> /\ pc'[r] = "idle" /\ idx'[r] = 1 /\ ~fresh'[r]
      /\ \A q \in Replicas \ {r} :
           /\ running'[q] = running[q] /\ cache'[q] = cache[q] /\ watch'[q] = watch[q]
           /\ pc'[q] = pc[q] /\ local'[q] = local[q] /\ fresh'[q] = fresh[q]
           /\ idx'[q] = idx[q]
  BY DEF Crash, LockInv, TypeOK
<1>6. \A q \in Replicas : WorkerInv(q)' /\ StreamInv(q)'
  BY <1>1, <1>5 DEF LockInv, WorkerInv, StreamInv
<1>7. \A q \in Replicas : FreshInv(q)'
  BY <1>1, <1>5 DEF LockInv, FreshInv, SameObject
<1>8. QED
  BY <1>1, <1>4, <1>6, <1>7 DEF LockInv, StatusNotAhead

\* Taking the head of a stream does not change where it ends.
LEMMA StreamTail ==
  ASSUME NEW S, NEW s \in Seq(S), s # <<>>
  PROVE  /\ Head(s) \in S /\ Tail(s) \in Seq(S)
         /\ IF Tail(s) = <<>> THEN Head(s) = s[Len(s)]
            ELSE Tail(s)[Len(Tail(s))] = s[Len(s)]
<1> DEFINE t == Tail(s)
<1>1. /\ Head(s) = s[1] /\ Head(s) \in S /\ t \in Seq(S) /\ Len(t) = Len(s) - 1
      /\ \A i \in 1 .. Len(t) : t[i] = s[i + 1]
  BY HeadTailProperties
<1>2. Len(s) \in Nat
  OBVIOUS
<1> HIDE DEF t
<1>3. CASE t = <<>>
  <2>1. Len(t) = 0
    BY <1>3, EmptySeq
  <2>2. Len(s) = 1
    BY <1>1, <1>2, <2>1
  <2>3. QED
    BY <1>1, <1>3, <2>2 DEF t
<1>4. CASE t # <<>>
  <2>1. Len(t) \in Nat \ {0}
    BY <1>1, <1>4, EmptySeq
  <2>2. Len(t) \in 1 .. Len(t) /\ Len(t) + 1 = Len(s)
    BY <1>1, <1>2, <2>1
  <2>3. QED
    BY <1>1, <1>4, <2>2 DEF t
<1>5. QED
  BY <1>3, <1>4

LEMMA EnqueueTypes ==
  ASSUME LockInv, NEW r \in Replicas, NEW wakes \in BOOLEAN, Enqueue(r, wakes)
  PROVE  queued' \in [Replicas -> BOOLEAN] /\ retry' \in [Replicas -> BOOLEAN]
<1>1. queued \in [Replicas -> BOOLEAN] /\ retry \in [Replicas -> BOOLEAN]
  BY DEF LockInv, TypeOK
<1>2. queued' \in [Replicas -> BOOLEAN]
  BY <1>1 DEF Enqueue
<1>3. retry' \in [Replicas -> BOOLEAN]
  BY <1>1 DEF Enqueue
<1>4. QED
  BY <1>2, <1>3

LEMMA InformLock ==
  ASSUME LockInv, NEW r \in Replicas, Inform(r)
  PROVE  LockInv'
<1>1. CASE DeliverApp(r)
  <2>1. /\ watch[r] \in Seq(MaybeApp) /\ watch[r] # <<>>
        /\ UNCHANGED <<clusterVars, running, kcache, workerVars>>
        /\ queued' \in [Replicas -> BOOLEAN] /\ retry' \in [Replicas -> BOOLEAN]
    BY <1>1, EnqueueTypes DEF LockInv, TypeOK, DeliverApp
  <2>2. /\ Head(watch[r]) \in MaybeApp /\ Tail(watch[r]) \in Seq(MaybeApp)
        /\ IF Tail(watch[r]) = <<>> THEN Head(watch[r]) = watch[r][Len(watch[r])]
           ELSE Tail(watch[r])[Len(Tail(watch[r]))] = watch[r][Len(watch[r])]
    BY <2>1, StreamTail
  <2>3. TypeOK'
    BY <1>1, <2>1, <2>2 DEF LockInv, TypeOK, DeliverApp, clusterVars, workerVars
  <2>4. /\ cache'[r] = Head(watch[r]) /\ watch'[r] = Tail(watch[r])
        /\ \A q \in Replicas \ {r} : cache'[q] = cache[q] /\ watch'[q] = watch[q]
    BY <1>1 DEF DeliverApp, LockInv, TypeOK
  <2>5. ~fresh[r] /\ running[r]
    BY <2>1 DEF LockInv, FreshInv, WorkerInv
  <2>6. StreamInv(r)'
    <3>1. watch[r][Len(watch[r])] = app
      BY <2>1, <2>5 DEF LockInv, StreamInv
    <3>2. QED
      BY <2>1, <2>2, <2>4, <3>1 DEF StreamInv, clusterVars
  <2>7. \A q \in Replicas : StreamInv(q)'
    BY <2>1, <2>4, <2>6 DEF LockInv, StreamInv, clusterVars
  <2>8. \A q \in Replicas : WorkerInv(q)'
    BY <2>1, <2>4, <2>5 DEF LockInv, WorkerInv, workerVars
  <2>9. \A q \in Replicas : FreshInv(q)'
    BY <2>1, <2>4, <2>5 DEF LockInv, FreshInv, SameObject, clusterVars, workerVars
  <2>10. QED
    BY <2>1, <2>3, <2>7, <2>8, <2>9 DEF LockInv, StatusNotAhead, clusterVars
<1>2. CASE \E k \in Kinds : SyncChild(r, k)
  <2>1. PICK k \in Kinds : SyncChild(r, k)
    BY <1>2
  <2>2. UNCHANGED <<clusterVars, running, cache, watch, workerVars>>
    BY <2>1 DEF SyncChild
  <2>3. kcache[r] \in ChildMaps /\ kids[k] \in MaybeChild(k)
    BY DEF LockInv, TypeOK, ChildMaps
  <2>4. [kcache[r] EXCEPT ![k] = kids[k]] \in ChildMaps
    BY <2>3, ChildMapUpdate
  <2>5. kcache' \in [Replicas -> ChildMaps]
    BY <2>1, <2>4 DEF SyncChild, LockInv, TypeOK
  <2>6. queued' \in [Replicas -> BOOLEAN] /\ retry' \in [Replicas -> BOOLEAN]
    BY <2>1, EnqueueTypes DEF SyncChild, OwnedDeployment
  <2>7. TypeOK'
    BY <2>2, <2>5, <2>6 DEF LockInv, TypeOK, clusterVars, workerVars
  <2>8. QED
    BY <2>2, <2>7 DEF LockInv, WorkerInv, StreamInv, FreshInv, SameObject,
                      StatusNotAhead, clusterVars, workerVars
<1>3. QED
  BY <1>1, <1>2 DEF Inform

\* Steps that touch nothing but the queue.
LEMMA QueueLock ==
  ASSUME LockInv, UNCHANGED <<clusterVars, informerVars, workerVars>>,
         queued' \in [Replicas -> BOOLEAN], retry' \in [Replicas -> BOOLEAN]
  PROVE  LockInv'
<1>1. TypeOK'
  BY DEF LockInv, TypeOK, clusterVars, informerVars, workerVars
<1>2. QED
  BY <1>1 DEF LockInv, WorkerInv, StreamInv, FreshInv, SameObject, StatusNotAhead,
              clusterVars, informerVars, workerVars

\* A worker takes the key and a copy of what the cache holds.
LEMMA GoToLock ==
  ASSUME LockInv, NEW r \in Replicas, NEW step \in Steps \ {"idle"}, NEW copy \in Apps,
         Dequeue(r), GoTo(r, step, copy), cache[r] # NoApp, SameObject(copy, cache[r])
  PROVE  LockInv'
<1>1. UNCHANGED <<clusterVars, informerVars, retry, idx, attempt, err>>
  BY DEF GoTo
<1>2. running[r] /\ pc[r] = "idle" /\ queued' = [queued EXCEPT ![r] = FALSE]
  BY DEF Dequeue
<1>3. TypeOK'
  BY <1>1, <1>2 DEF LockInv, TypeOK, GoTo, clusterVars, informerVars, MaybeApp
<1>4. /\ pc'[r] = step /\ local'[r] = copy /\ fresh'[r] = (watch[r] = <<>>)
      /\ \A q \in Replicas \ {r} :
           pc'[q] = pc[q] /\ local'[q] = local[q] /\ fresh'[q] = fresh[q]
  BY DEF GoTo, LockInv, TypeOK
<1>5. \A q \in Replicas : WorkerInv(q)'
  BY <1>1, <1>2, <1>4 DEF LockInv, WorkerInv, informerVars
<1>6. \A q \in Replicas : StreamInv(q)'
  BY <1>1 DEF LockInv, StreamInv, informerVars, clusterVars
<1>7. FreshInv(r)'
  <2>1. watch[r] = <<>> => cache[r] = app
    BY <1>2 DEF LockInv, StreamInv
  <2>2. QED
    BY <1>1, <1>4, <2>1 DEF FreshInv, SameObject, informerVars, clusterVars
<1>8. \A q \in Replicas \ {r} : FreshInv(q)'
  BY <1>1, <1>4 DEF LockInv, FreshInv, SameObject, informerVars, clusterVars
<1>9. QED
  BY <1>1, <1>3, <1>5, <1>6, <1>7, <1>8 DEF LockInv, StatusNotAhead, clusterVars

\* The copy a full reconcile works on differs from the cached version in its
\* conditions only.
LEMMA CopyType ==
  ASSUME TypeOK, NEW a \in Apps
  PROVE  LET copy == [a EXCEPT !.status.conditions = StartConditions(@)]
         IN  copy \in Apps /\ SameObject(copy, a)
<1>1. a.status \in Statuses
  BY DEF Apps
<1>2. StartConditions(a.status.conditions) \in ConditionLists
  BY <1>1, StartConditionsType DEF Statuses, TypeOK
<1>3. [a.status EXCEPT !.conditions = StartConditions(@)] \in Statuses
  BY <1>1, <1>2 DEF Statuses
<1>4. [a EXCEPT !.status.conditions = StartConditions(@)] =
        [a EXCEPT !.status = [a.status EXCEPT !.conditions = StartConditions(@)]]
  BY <1>1 DEF Apps, Statuses
<1>5. QED
  BY <1>3, <1>4 DEF Apps, SameObject

LEMMA FetchLock ==
  ASSUME LockInv, NEW r \in Replicas, Fetch(r)
  PROVE  LockInv'
<1>1. CASE FetchNothing(r)
  BY <1>1, QueueLock DEF FetchNothing, Dequeue, LockInv, TypeOK
<1>2. CASE FetchFails(r)
  <2>1. /\ UNCHANGED <<app, uids, kids, touched, now, informerVars, workerVars>>
        /\ disturbances' = disturbances + 1
        /\ queued' = [queued EXCEPT ![r] = FALSE]
        /\ retry' = [retry EXCEPT ![r] = TRUE]
    BY <1>2 DEF FetchFails, MayDisturb, Dequeue
  <2>2. TypeOK'
    BY <2>1 DEF LockInv, TypeOK, informerVars, workerVars
  <2>3. QED
    BY <2>1, <2>2 DEF LockInv, WorkerInv, StreamInv, FreshInv, SameObject,
                      StatusNotAhead, informerVars, workerVars
<1>3. CASE FetchDeleting(r)
  <2>1. cache[r] \in Apps
    BY <1>3 DEF FetchDeleting, LockInv, TypeOK, MaybeApp
  <2>2. QED
    BY <1>3, <2>1, GoToLock DEF FetchDeleting, SameObject, Steps
<1>4. CASE FetchWithoutFinalizer(r)
  <2>1. cache[r] \in Apps
    BY <1>4 DEF FetchWithoutFinalizer, LockInv, TypeOK, MaybeApp
  <2>2. QED
    BY <1>4, <2>1, GoToLock DEF FetchWithoutFinalizer, SameObject, Steps
<1>5. CASE FetchAndBegin(r)
  <2> DEFINE copy == [cache[r] EXCEPT !.status.conditions = StartConditions(@)]
  <2>1. cache[r] \in Apps
    BY <1>5 DEF FetchAndBegin, LockInv, TypeOK, MaybeApp
  <2>2. copy \in Apps /\ SameObject(copy, cache[r])
    BY <2>1, CopyType DEF LockInv
  <2>3. FirstStep(Order[1], cache[r].spec) \in Steps \ {"idle"}
    BY DEF FirstStep, Steps, ChildSteps
  <2>4. Dequeue(r) /\ GoTo(r, FirstStep(Order[1], cache[r].spec), copy) /\ cache[r] # NoApp
    BY <1>5 DEF FetchAndBegin
  <2> HIDE DEF copy
  <2>5. QED
    BY <2>2, <2>3, <2>4, GoToLock
<1>6. QED
  BY <1>1, <1>2, <1>3, <1>4, <1>5 DEF Fetch

\* The worker of r is done.
LEMMA ReturnTypes ==
  ASSUME LockInv, NEW r \in Replicas, NEW again, Return(r, again)
  PROVE  /\ pc' \in [Replicas -> Steps] /\ local' \in [Replicas -> MaybeApp]
         /\ idx' \in [Replicas -> DOMAIN Order]
         /\ attempt' \in [Replicas -> 0 .. MaxApplyRetries]
         /\ err' \in [Replicas -> Errs] /\ retry' \in [Replicas -> BOOLEAN]
         /\ pc'[r] = "idle" /\ idx'[r] = 1
         /\ \A q \in Replicas \ {r} :
              pc'[q] = pc[q] /\ local'[q] = local[q] /\ idx'[q] = idx[q]
<1>1. 1 \in DOMAIN Order
  BY OrderAssumption
<1>2. retry' \in [Replicas -> BOOLEAN]
  BY DEF Return, LockInv, TypeOK
<1>3. /\ pc'      = [pc EXCEPT ![r] = "idle"]
      /\ local'   = [local EXCEPT ![r] = NoApp]
      /\ idx'     = [idx EXCEPT ![r] = 1]
      /\ attempt' = [attempt EXCEPT ![r] = 0]
      /\ err'     = [err EXCEPT ![r] = NoError]
  BY DEF Return
<1>4. QED
  BY <1>1, <1>2, <1>3 DEF LockInv, TypeOK, Steps, MaybeApp, Errs, MaxApplyRetries

\* A write of the application, by the worker of r as its last step.
LEMMA WriteLock ==
  ASSUME LockInv, NEW r \in Replicas, NEW again, Return(r, again), Observe,
         app' \in MaybeApp, StatusNotAhead', disturbances' \in Nat, pc[r] # "idle",
         UNCHANGED <<uids, kids, touched, now, running, cache, kcache, queued>>
  PROVE  LockInv'
<1>1. \A q \in Replicas : pc'[q] # "idle" => local'[q] = local[q]
  BY ReturnTypes
<1>2. /\ watch' \in [Replicas -> Seq(MaybeApp)]
      /\ fresh' \in [Replicas -> BOOLEAN]
      /\ \A q \in Replicas : /\ ~running[q] => watch'[q] = <<>>
                             /\ pc'[q] = "idle" => ~fresh'[q]
                             /\ StreamInv(q)' /\ FreshInv(q)'
  BY <1>1, ObserveKeeps
<1>3. TypeOK'
  BY <1>2, ReturnTypes DEF LockInv, TypeOK
<1>4. /\ pc'[r] = "idle" /\ idx'[r] = 1
      /\ \A q \in Replicas \ {r} :
           pc'[q] = pc[q] /\ local'[q] = local[q] /\ idx'[q] = idx[q]
  BY ReturnTypes
<1>5. WorkerInv(r)'
  BY <1>2, <1>4 DEF LockInv, WorkerInv
<1>6. \A q \in Replicas \ {r} : WorkerInv(q)'
  BY <1>2, <1>4 DEF LockInv, WorkerInv
<1>7. QED
  BY <1>2, <1>3, <1>5, <1>6 DEF LockInv

LEMMA FinalizerLock ==
  ASSUME LockInv, NEW r \in Replicas, AddFinalizer(r) \/ RemoveFinalizer(r)
  PROVE  LockInv'
<1>1. PICK again \in BOOLEAN : Return(r, again)
  BY DEF AddFinalizer, RemoveFinalizer
<1>2. /\ Observe /\ pc[r] # "idle"
      /\ UNCHANGED <<uids, kids, touched, now, running, cache, kcache, queued>>
  BY DEF AddFinalizer, RemoveFinalizer
<1>3. disturbances' \in Nat
  <2>1. disturbances' \in {disturbances, disturbances + 1}
    <3>1. CASE AddFinalizer(r)
      BY <3>1 DEF AddFinalizer, Fault, MayDisturb
    <3>2. CASE RemoveFinalizer(r)
      BY <3>2 DEF RemoveFinalizer, Fault, MayDisturb
    <3>3. QED
      BY <3>1, <3>2
  <2>2. QED
    BY <2>1 DEF LockInv, TypeOK
<1>4. \/ app' = app \/ app' = NoApp
      \/ fresh[r] /\ app' = [app EXCEPT !.finalizer = TRUE]
  BY DEF AddFinalizer, RemoveFinalizer, Accepted
<1>5. app' \in MaybeApp /\ StatusNotAhead'
  <2>1. CASE app' = app \/ app' = NoApp
    BY <2>1 DEF LockInv, TypeOK, MaybeApp, StatusNotAhead
  <2>2. CASE fresh[r] /\ app' = [app EXCEPT !.finalizer = TRUE]
    <3>1. app # NoApp /\ app \in Apps
      BY <2>2 DEF LockInv, FreshInv, TypeOK, MaybeApp
    <3>2. app' \in Apps /\ app'.status = app.status /\ app'.generation = app.generation
      BY <2>2, <3>1 DEF Apps
    <3>3. QED
      BY <3>1, <3>2 DEF LockInv, MaybeApp, StatusNotAhead
  <2>3. QED
    BY <1>4, <2>1, <2>2
<1>6. QED
  BY <1>1, <1>2, <1>3, <1>5, WriteLock

\* The status a worker writes is of the generation that is stored.
LEMMA StatusWritten ==
  ASSUME LockInv, NEW r \in Replicas, pc[r] = "status", fresh[r],
         app' = [app EXCEPT !.status = FinalStatus(r)]
  PROVE  /\ app \in Apps /\ app # NoApp /\ local[r] \in Apps
         /\ SameObject(local[r], app)
         /\ app' \in Apps
         /\ app'.status = FinalStatus(r)
         /\ SameObject(app', app)
         /\ app'.status.observedGeneration = app'.generation
         /\ IsReady(app'.status.conditions) <=> ~ComesBack(r)
<1>1. app # NoApp /\ app \in Apps /\ local[r] \in Apps /\ SameObject(local[r], app)
  BY DEF LockInv, FreshInv, WorkerInv, TypeOK, MaybeApp
<1>2. /\ FinalStatus(r) \in Statuses
      /\ FinalStatus(r).observedGeneration = local[r].generation
      /\ IsReady(FinalStatus(r).conditions) <=> ~ComesBack(r)
  BY <1>1, FinalStatusType DEF LockInv
<1>3. app' \in Apps /\ app'.status = FinalStatus(r) /\ SameObject(app', app)
  BY <1>1, <1>2 DEF Apps, SameObject
<1>4. QED
  BY <1>1, <1>2, <1>3 DEF SameObject

LEMMA StatusWrites ==
  ASSUME LockInv, NEW r \in Replicas, StatusUpdate(r)
  PROVE  \/ app' = app
         \/ /\ fresh[r] /\ app \in Apps /\ app # NoApp /\ local[r] \in Apps
            /\ SameObject(local[r], app)
            /\ app' \in Apps
            /\ app' = [app EXCEPT !.status = FinalStatus(r)]
            /\ app'.status = FinalStatus(r)
            /\ SameObject(app', app)
            /\ app'.status.observedGeneration = app'.generation
            /\ IsReady(app'.status.conditions) <=> ~ComesBack(r)
<1>1. /\ pc[r] = "status"
      /\ app' = app \/ (fresh[r] /\ app' = [app EXCEPT !.status = FinalStatus(r)])
  BY DEF StatusUpdate, Accepted
<1>2. QED
  BY <1>1, StatusWritten

LEMMA StatusLock ==
  ASSUME LockInv, NEW r \in Replicas, StatusUpdate(r)
  PROVE  LockInv'
<1>1. PICK again \in BOOLEAN : Return(r, again)
  BY DEF StatusUpdate, ComesBack
<1>2. /\ Observe /\ pc[r] # "idle"
      /\ UNCHANGED <<uids, kids, touched, now, running, cache, kcache, queued>>
  BY DEF StatusUpdate
<1>3. disturbances' \in Nat
  <2>1. disturbances' \in {disturbances, disturbances + 1}
    BY DEF StatusUpdate, Fault, MayDisturb
  <2>2. QED
    BY <2>1 DEF LockInv, TypeOK
<1>4. app' \in MaybeApp /\ StatusNotAhead'
  <2>1. CASE app' = app
    BY <2>1 DEF LockInv, TypeOK, StatusNotAhead
  <2>2. CASE app' \in Apps /\ app'.status.observedGeneration = app'.generation
    BY <2>2 DEF MaybeApp, StatusNotAhead, Apps
  <2>3. QED
    BY <2>1, <2>2, StatusWrites
<1>5. QED
  BY <1>1, <1>2, <1>3, <1>4, WriteLock

(* The requests for the children *)

\* The request was carried out.
CarriedOut(r) ==
  \/ pc[r] = "create" /\ kids[Kind(r)] = NoChild /\ StoreChild(r, CreatedChild(r))
  \/ pc[r] = "patch" /\ MayPatch(r) /\ StoreChild(r, PatchedChild(r))
  \/ pc[r] = "delete" /\ StoreChild(r, NoChild)

\* The Get of applyOnce has been answered.
Looked(r) ==
  /\ pc[r] = "read"
  /\ \E step \in {"create", "patch"} : pc' = [pc EXCEPT ![r] = step]
  /\ UNCHANGED <<idx, attempt, err, kids, touched>>

ChildRequest(r) ==
  \/ ReadChild(r) \/ CreateChild(r) \/ PatchChild(r) \/ DeleteChild(r)
  \/ ChildRequestFails(r)

\* What every child request does to the worker: on to the next child or to the
\* status, or again.
LEMMA ChildControl ==
  ASSUME LockInv, NEW r \in Replicas, pc[r] \in ChildSteps,
         \/ Looked(r) \/ ChildDone(r)
         \/ \E reason \in Reasons : ChildFailed(r, reason)
  PROVE  /\ idx' \in [Replicas -> DOMAIN Order]
         /\ attempt' \in [Replicas -> 0 .. MaxApplyRetries]
         /\ err' \in [Replicas -> Errs]
         /\ \E step \in Steps \ {"idle"} : pc' = [pc EXCEPT ![r] = step]
<1>1. /\ idx \in [Replicas -> DOMAIN Order] /\ attempt \in [Replicas -> 0 .. MaxApplyRetries]
      /\ err \in [Replicas -> Errs] /\ pc \in [Replicas -> Steps]
  BY DEF LockInv, TypeOK
<1>2. DOMAIN Order = 1 .. Len(Order) /\ Len(Order) \in Nat
  BY OrderAssumption
<1>3. CASE ChildDone(r)
  <2>1. idx' \in [Replicas -> DOMAIN Order]
    BY <1>1, <1>2, <1>3 DEF ChildDone
  <2>2. attempt' \in [Replicas -> 0 .. MaxApplyRetries] /\ err' \in [Replicas -> Errs]
    BY <1>1, <1>3 DEF ChildDone, MaxApplyRetries
  <2>3. \E step \in Steps \ {"idle"} : pc' = [pc EXCEPT ![r] = step]
    BY <1>3 DEF ChildDone, FirstStep, Steps, ChildSteps
  <2>4. QED
    BY <2>1, <2>2, <2>3
<1>4. CASE \E reason \in Reasons : ChildFailed(r, reason)
  <2>1. PICK reason \in Reasons : ChildFailed(r, reason)
    BY <1>4
  <2>2. idx' = idx
    BY <2>1 DEF ChildFailed
  <2>3. attempt' \in [Replicas -> 0 .. MaxApplyRetries]
    BY <1>1, <2>1 DEF ChildFailed, RetryAllowed, MaxApplyRetries
  <2>4. [kind |-> Kind(r), reason |-> reason,
         class |-> ClassifyOrWrap(RawError(reason)).class] \in Errs
    <3>1. Kind(r) \in Kinds
      BY <1>1, KindsAreNames DEF Kind
    <3>2. ClassifyOrWrap(RawError(reason)).class \in Classes
      BY ClassesAreKnown
    <3>3. QED
      BY <3>1, <3>2 DEF Errs
  <2>5. err' \in [Replicas -> Errs]
    BY <1>1, <2>1, <2>4 DEF ChildFailed
  <2>6. \E step \in Steps \ {"idle"} : pc' = [pc EXCEPT ![r] = step]
    BY <2>1 DEF ChildFailed, Steps, ChildSteps
  <2>7. QED
    BY <1>1, <2>2, <2>3, <2>5, <2>6
<1>5. CASE Looked(r)
  BY <1>1, <1>5 DEF Looked, Steps, ChildSteps
<1>6. QED
  BY <1>3, <1>4, <1>5

\* A request is answered, carried out with success, or fails, carried out or not.
LEMMA ChildRequestShape ==
  ASSUME LockInv, NEW r \in Replicas, ChildRequest(r)
  PROVE  /\ pc[r] \in ChildSteps /\ ChildFrame(r)
         /\ disturbances' \in {disturbances, disturbances + 1}
         /\ \/ Looked(r)
            \/ ChildDone(r) /\ CarriedOut(r)
            \/ /\ \E reason \in Reasons : ChildFailed(r, reason)
               /\ UNCHANGED <<kids, touched>> \/ CarriedOut(r)
<1>1. {"NoMatch", "AlreadyExists", "Invalid"} \cup FaultReasons \subseteq Reasons
  BY FaultsAssumption DEF Reasons
<1>2. CASE ReadChild(r)
  BY <1>1, <1>2 DEF ReadChild, Looked, ChildSteps
<1>3. CASE CreateChild(r)
  BY <1>1, <1>3 DEF CreateChild, CarriedOut, ChildSteps
<1>4. CASE PatchChild(r)
  BY <1>1, <1>4 DEF PatchChild, CarriedOut, ChildSteps
<1>5. CASE DeleteChild(r)
  BY <1>1, <1>5 DEF DeleteChild, CarriedOut, ChildSteps
<1>6. CASE ChildRequestFails(r)
  BY <1>1, <1>6 DEF ChildRequestFails, CarriedOut, Fault, MayDisturb
<1>7. QED
  BY <1>2, <1>3, <1>4, <1>5, <1>6 DEF ChildRequest

LEMMA CarriedOutType ==
  ASSUME TypeOK, NEW r \in Replicas, local[r] \in Apps, CarriedOut(r)
  PROVE  kids' \in ChildMaps /\ touched' \in SUBSET Kinds
<1>1. /\ Kind(r) \in Kinds /\ CreatedChild(r) \in Children(Kind(r))
      /\ PatchedChild(r) \in Children(Kind(r))
  BY WrittenChildType
<1>2. PICK c \in MaybeChild(Kind(r)) : StoreChild(r, c)
  BY <1>1 DEF CarriedOut, MaybeChild
<1>3. kids' \in ChildMaps
  BY <1>1, <1>2, ChildMapUpdate DEF StoreChild, TypeOK
<1>4. QED
  BY <1>2, <1>3 DEF StoreChild, TypeOK

LEMMA ChildRequestLock ==
  ASSUME LockInv, NEW r \in Replicas, ChildRequest(r)
  PROVE  LockInv'
<1>1. /\ pc[r] \in ChildSteps
      /\ UNCHANGED <<app, uids, now, informerVars, queueVars, local, fresh>>
      /\ disturbances' \in {disturbances, disturbances + 1}
  BY ChildRequestShape DEF ChildFrame
<1>2. /\ idx' \in [Replicas -> DOMAIN Order]
      /\ attempt' \in [Replicas -> 0 .. MaxApplyRetries]
      /\ err' \in [Replicas -> Errs]
      /\ \E step \in Steps \ {"idle"} : pc' = [pc EXCEPT ![r] = step]
  BY <1>1, ChildRequestShape, ChildControl
<1>3. local[r] \in Apps
  BY <1>1 DEF LockInv, WorkerInv, ChildSteps
<1>4. kids' \in ChildMaps /\ touched' \in SUBSET Kinds
  <2>1. UNCHANGED <<kids, touched>> \/ CarriedOut(r)
    BY ChildRequestShape DEF Looked
  <2>2. QED
    BY <1>3, <2>1, CarriedOutType DEF LockInv, TypeOK
<1>5. TypeOK'
  BY <1>1, <1>2, <1>4 DEF LockInv, TypeOK, informerVars, queueVars
<1>6. \A q \in Replicas : (pc'[q] = "idle" <=> pc[q] = "idle")
  BY <1>1, <1>2 DEF ChildSteps, LockInv, TypeOK
<1>7. \A q \in Replicas : pc[q] = "idle" => idx'[q] = idx[q]
  <2>1. \A q \in Replicas \ {r} : idx'[q] = idx[q]
    <3>1. idx \in [Replicas -> DOMAIN Order]
      BY DEF LockInv, TypeOK
    <3>2. CASE Looked(r)
      BY <3>2 DEF Looked
    <3>3. CASE ChildDone(r)
      BY <3>1, <3>3 DEF ChildDone
    <3>4. CASE \E reason \in Reasons : ChildFailed(r, reason)
      BY <3>4 DEF ChildFailed
    <3>5. QED
      BY <3>2, <3>3, <3>4, ChildRequestShape
  <2>2. QED
    BY <1>1, <2>1 DEF ChildSteps
<1>8. \A q \in Replicas : WorkerInv(q)'
  BY <1>1, <1>6, <1>7 DEF LockInv, WorkerInv, informerVars
<1>9. \A q \in Replicas : StreamInv(q)' /\ FreshInv(q)'
  BY <1>1 DEF LockInv, StreamInv, FreshInv, SameObject, informerVars
<1>10. QED
  BY <1>1, <1>5, <1>8, <1>9 DEF LockInv, StatusNotAhead

LEMMA BuildPanicLock ==
  ASSUME LockInv, NEW r \in Replicas, BuildPanic(r)
  PROVE  LockInv'
<1>1. /\ Return(r, TRUE) /\ fresh' = [fresh EXCEPT ![r] = FALSE]
      /\ UNCHANGED <<clusterVars, informerVars, queued>> /\ pc[r] # "idle"
  BY DEF BuildPanic
<1>2. TypeOK'
  BY <1>1, ReturnTypes DEF LockInv, TypeOK, clusterVars, informerVars
<1>3. /\ pc'[r] = "idle" /\ idx'[r] = 1 /\ ~fresh'[r]
      /\ \A q \in Replicas \ {r} :
           /\ pc'[q] = pc[q] /\ local'[q] = local[q] /\ idx'[q] = idx[q]
           /\ fresh'[q] = fresh[q]
  BY <1>1, ReturnTypes DEF LockInv, TypeOK
<1>4. \A q \in Replicas : WorkerInv(q)'
  BY <1>1, <1>3 DEF LockInv, WorkerInv, informerVars
<1>5. \A q \in Replicas : StreamInv(q)' /\ FreshInv(q)'
  BY <1>1, <1>3 DEF LockInv, StreamInv, FreshInv, SameObject, informerVars, clusterVars
<1>6. QED
  BY <1>1, <1>2, <1>4, <1>5 DEF LockInv, StatusNotAhead, clusterVars

(***************************************************************************)

LEMMA InitLock == Init => LockInv
<1> SUFFICES ASSUME Init PROVE LockInv
  OBVIOUS
<1>1. 1 \in DOMAIN Order
  BY OrderAssumption
<1>2. [k \in Kinds |-> NoChild] \in ChildMaps
  BY DEF ChildMaps, AnyChild, MaybeChild
<1>3. TypeOK
  BY <1>1, <1>2 DEF Init, ClusterInit, TypeOK, MaybeApp, Steps, Errs, MaxApplyRetries
<1>4. \A r \in Replicas : WorkerInv(r) /\ StreamInv(r) /\ FreshInv(r)
  BY DEF Init, ClusterInit, WorkerInv, StreamInv, FreshInv
<1>5. StatusNotAhead
  BY DEF Init, ClusterInit, StatusNotAhead
<1>6. QED
  BY <1>3, <1>4, <1>5 DEF LockInv

LEMMA NextLock == LockInv /\ [Next]_vars => LockInv'
<1> SUFFICES ASSUME LockInv, [Next]_vars PROVE LockInv'
  OBVIOUS
<1>1. CASE EnvironmentStep
  BY <1>1, EnvironmentLock
<1>2. ASSUME NEW r \in Replicas, Start(r) PROVE LockInv'
  BY <1>2, StartLock
<1>3. ASSUME NEW r \in Replicas, Crash(r) PROVE LockInv'
  BY <1>3, CrashLock
<1>4. ASSUME NEW r \in Replicas, Inform(r) PROVE LockInv'
  BY <1>4, InformLock
<1>5. ASSUME NEW r \in Replicas, RetryFires(r) \/ Resync(r) PROVE LockInv'
  <2>1. queued' \in [Replicas -> BOOLEAN] /\ retry' \in [Replicas -> BOOLEAN]
    <3>1. CASE RetryFires(r)
      BY <3>1 DEF RetryFires, LockInv, TypeOK
    <3>2. CASE Resync(r)
      BY <3>2, EnqueueTypes DEF Resync
    <3>3. QED
      BY <1>5, <3>1, <3>2
  <2>2. UNCHANGED <<clusterVars, informerVars, workerVars>>
    BY <1>5 DEF RetryFires, Resync
  <2>3. QED
    BY <2>1, <2>2, QueueLock
<1>6. ASSUME NEW r \in Replicas, Fetch(r) PROVE LockInv'
  BY <1>6, FetchLock
<1>7. ASSUME NEW r \in Replicas, Work(r) PROVE LockInv'
  BY <1>7, FinalizerLock, BuildPanicLock, ChildRequestLock, StatusLock
     DEF Work, ChildRequest
<1>8. CASE UNCHANGED vars
  <2>1. /\ UNCHANGED <<clusterVars, informerVars, workerVars>>
        /\ queued' = queued /\ retry' = retry
    BY <1>8 DEF vars, queueVars
  <2>2. QED
    BY <2>1, QueueLock DEF LockInv, TypeOK
<1>9. QED
  BY <1>1, <1>2, <1>3, <1>4, <1>5, <1>6, <1>7, <1>8 DEF Next

LEMMA LockInvariant == Spec => []LockInv
BY InitLock, NextLock, PTL DEF Spec

\* Every variable stays in its set: Apply makes no more than maxApplyRetries
\* attempts over, every error of reconcileResources has a class that
\* handleErrorResult knows, and the status is always well-formed.
THEOREM TypeCorrect == Spec => []TypeOK
<1>1. LockInv => TypeOK
  BY DEF LockInv
<1>2. QED
  BY <1>1, LockInvariant, PTL

(***************************************************************************)
(* Status never goes back *)

\* Who writes the application.
LEMMA WritersOfApp ==
  ASSUME [Next]_vars, app' # app
  PROVE  \/ UserCreate \/ UserEdit \/ UserDelete
         \/ \E r \in Replicas : AddFinalizer(r) \/ RemoveFinalizer(r) \/ StatusUpdate(r)
<1>1. CASE EnvironmentStep
  BY <1>1 DEF EnvironmentStep, ClusterNext, UserDrift, UserForeign, GarbageCollect,
              PodStarts, RolloutFinishes, PodFails, Tick
<1>2. ASSUME NEW r \in Replicas,
             Start(r) \/ Crash(r) \/ Inform(r) \/ RetryFires(r) \/ Resync(r) \/ Fetch(r)
      PROVE  FALSE
  BY <1>2 DEF Start, Crash, Inform, DeliverApp, SyncChild, RetryFires, Resync, Fetch,
              FetchNothing, FetchFails, FetchDeleting, FetchWithoutFinalizer,
              FetchAndBegin, GoTo, clusterVars
<1>3. ASSUME NEW r \in Replicas, Work(r)
      PROVE  AddFinalizer(r) \/ RemoveFinalizer(r) \/ StatusUpdate(r)
  BY <1>3 DEF Work, BuildPanic, ReadChild, CreateChild, PatchChild, DeleteChild,
              ChildRequestFails, ChildFrame, clusterVars
<1>4. CASE UNCHANGED vars
  BY <1>4 DEF vars, clusterVars
<1>5. QED
  BY <1>1, <1>2, <1>3, <1>4 DEF Next

\* However many replicas work at once, and however old the copy a worker holds,
\* status.observedGeneration of an incarnation never decreases and never runs
\* ahead of its generation: Status().Update is refused on an old version.
THEOREM StatusNeverGoesBack == Spec => ObservedGenerationMonotone
<1> DEFINE A == SameIncarnation =>
                  /\ app'.status.observedGeneration >= app.status.observedGeneration
                  /\ app'.status.observedGeneration <= app'.generation
<1>1. LockInv /\ [Next]_vars => A
  <2> SUFFICES ASSUME LockInv, [Next]_vars, app # NoApp, app' # NoApp, app'.uid = app.uid
               PROVE  /\ app'.status.observedGeneration >= app.status.observedGeneration
                      /\ app'.status.observedGeneration <= app'.generation
    BY DEF SameIncarnation
  <2>1. LockInv'
    BY NextLock
  <2>2. app \in Apps /\ app' \in Apps
    BY <2>1 DEF LockInv, TypeOK, MaybeApp
  <2>3. /\ app.status.observedGeneration \in Nat /\ app.generation \in Nat
        /\ app'.status.observedGeneration \in Nat /\ app'.generation \in Nat
    BY <2>2 DEF Apps, Statuses
  <2>4. app.status.observedGeneration <= app.generation
    BY DEF LockInv, StatusNotAhead
  <2>5. app'.status.observedGeneration <= app'.generation
    BY <2>1 DEF LockInv, StatusNotAhead
  <2>6. app'.status.observedGeneration >= app.status.observedGeneration
    <3>1. CASE app' = app
      BY <2>3, <3>1
    <3>2. CASE app' # app
      <4>1. ~UserCreate
        BY DEF UserCreate
      <4>2. CASE UserEdit \/ UserDelete
        <5>1. app'.status = app.status
          BY <2>2, <4>2 DEF UserEdit, UserDelete, Apps
        <5>2. QED
          BY <2>3, <5>1
      <4>3. ASSUME NEW r \in Replicas, AddFinalizer(r) \/ RemoveFinalizer(r)
            PROVE  app'.status.observedGeneration >= app.status.observedGeneration
        <5>1. app' = [app EXCEPT !.finalizer = TRUE]
          BY <3>2, <4>3 DEF AddFinalizer, RemoveFinalizer
        <5>2. app'.status = app.status
          BY <2>2, <5>1 DEF Apps
        <5>3. QED
          BY <2>3, <5>2
      <4>4. ASSUME NEW r \in Replicas, StatusUpdate(r)
            PROVE  app'.status.observedGeneration >= app.status.observedGeneration
        <5>1. /\ app'.status.observedGeneration = app'.generation
              /\ SameObject(app', app)
          BY <3>2, <4>4, StatusWrites
        <5>2. QED
          BY <2>3, <2>4, <5>1 DEF SameObject
      <4>5. QED
        BY <3>2, <4>1, <4>2, <4>3, <4>4, WritersOfApp
    <3>3. QED
      BY <3>1, <3>2
  <2>7. QED
    BY <2>5, <2>6
<1>2. LockInv /\ [Next]_vars => [A]_vars
  BY <1>1
<1>3. QED
  BY <1>2, LockInvariant, PTL DEF Spec, ObservedGenerationMonotone

(***************************************************************************)
(* LeaderInv is inductive when a leader is elected *)

\* What LeaderInv adds to LockInv.
LeaderPart ==
  /\ OneLeader
  /\ \A r \in Replicas :
       IntentInv(r) /\ FinalizerInv(r) /\ ReadyInv(r) /\ ProgressInv(r)
  /\ FinalizerProtects
  /\ ReadyMeansApplied

LEMMA LeaderInvParts == LeaderInv <=> LockInv /\ LeaderPart
BY DEF LeaderInv, LeaderPart

\* Applied looks at the demand of an application only.
LEMMA SameDemandSameChildren ==
  ASSUME NEW a, NEW b, NEW k, SameDemand(a, b), Applied(k, a)
  PROVE  Applied(k, b)
BY DEF SameDemand, Applied

\* Steps that leave the application alone, start nothing and send nothing.
LEMMA QuietLeader ==
  ASSUME LeaderInv, app' = app,
         \A q \in Replicas :
           /\ running'[q] => running[q] /\ InSight(q)' \subseteq InSight(q)
           /\ fresh'[q] => fresh[q]
           /\ \/ pc'[q] = "idle"
              \/ /\ pc'[q] = pc[q] /\ local'[q] = local[q]
                 /\ idx'[q] = idx[q] /\ err'[q] = err[q],
         app # NoApp => \A k \in Kinds : Kept(k)
  PROVE  LeaderPart'
<1>1. OneLeader'
  BY DEF LeaderInv, OneLeader
<1>2. ASSUME NEW q \in Replicas
      PROVE  IntentInv(q)'
  BY DEF LeaderInv, IntentInv, Kind
<1>3. ASSUME NEW q \in Replicas
      PROVE  FinalizerInv(q)'
  BY DEF LeaderInv, FinalizerInv, HoldsBack
<1>4. ASSUME NEW q \in Replicas
      PROVE  ReadyInv(q)'
  BY DEF LeaderInv, ReadyInv, SameDemand, ReportsReady, UpToDate
<1>5. ASSUME NEW q \in Replicas
      PROVE  ProgressInv(q)'
  <2>1. SUFFICES ASSUME fresh'[q],
                        Applying(q)' \/ (pc'[q] = "status" /\ err'[q] = NoError),
                        NEW i \in Behind(q)'
                 PROVE  Order[i] \in touched' \/ Applied(Order[i], app)'
    BY DEF ProgressInv
  <2>2. pc'[q] # "idle"
    BY <2>1 DEF Applying, ChildSteps
  <2>3. /\ pc'[q] = pc[q] /\ local'[q] = local[q] /\ idx'[q] = idx[q]
        /\ err'[q] = err[q] /\ fresh[q]
    BY <2>1, <2>2
  <2>4. i \in Behind(q) /\ (Applying(q) \/ (pc[q] = "status" /\ err[q] = NoError))
    BY <2>1, <2>3 DEF Behind, Applying
  <2>5. Order[i] \in touched \/ Applied(Order[i], app)
    BY <2>3, <2>4 DEF LeaderInv, ProgressInv
  <2>6. app # NoApp
    BY <2>3 DEF LeaderInv, LockInv, FreshInv
  <2>7. i \in DOMAIN Order
    <3>1. idx[q] \in 1 .. Len(Order) /\ Len(Order) \in Nat /\ DOMAIN Order = 1 .. Len(Order)
      BY OrderAssumption DEF LeaderInv, LockInv, TypeOK
    <3>2. QED
      BY <2>4, <3>1 DEF Behind
  <2>8. QED
    BY <2>5, <2>6, <2>7, KindsAreNames DEF Kept
<1>6. FinalizerProtects'
  BY DEF LeaderInv, FinalizerProtects, Applying, ChildSteps
<1>7. ReadyMeansApplied'
  BY DEF LeaderInv, ReadyMeansApplied, Kept, ReportsReady, UpToDate
<1>8. QED
  BY <1>1, <1>2, <1>3, <1>4, <1>5, <1>6, <1>7 DEF LeaderPart

\* A replica starts only when no other is running.
LEMMA StartLeader ==
  ASSUME LeaderElection, LeaderInv, NEW r \in Replicas, Start(r)
  PROVE  LeaderPart'
<1>1. \A q \in Replicas : ~running[q]
  BY DEF Start
<1>2. \A q \in Replicas : pc[q] = "idle" /\ ~fresh[q] /\ watch[q] = <<>>
  BY <1>1 DEF LeaderInv, LockInv, WorkerInv
<1>3. UNCHANGED <<app, kids, touched, watch, pc, fresh>>
  BY DEF Start, clusterVars, workerVars
<1>4. /\ cache'[r] = app
      /\ \A q \in Replicas : running'[q] => q = r
  BY <1>1 DEF Start, LeaderInv, LockInv, TypeOK
<1>5. InSight(r)' = {app}
  <2>1. watch'[r] = <<>> /\ Len(watch'[r]) = 0
    BY <1>2, <1>3, EmptySeq
  <2>2. QED
    BY <1>4, <2>1 DEF InSight
<1>6. OneLeader'
  BY <1>4 DEF OneLeader
<1>7. \A q \in Replicas : IntentInv(q)' /\ ProgressInv(q)'
  BY <1>2, <1>3 DEF IntentInv, ProgressInv
<1>8. \A q \in Replicas : FinalizerInv(q)' /\ ReadyInv(q)'
  BY <1>2, <1>3, <1>4, <1>5 DEF FinalizerInv, HoldsBack, ReadyInv, SameDemand
<1>9. FinalizerProtects'
  BY <1>2, <1>3 DEF FinalizerProtects, Applying, ChildSteps
<1>10. ReadyMeansApplied'
  BY <1>3 DEF LeaderInv, ReadyMeansApplied, Applied, ReportsReady, UpToDate
<1>11. QED
  BY <1>6, <1>7, <1>8, <1>9, <1>10 DEF LeaderPart

\* Steps of the machinery: crash, informers, queue, and returns without a write.
LEMMA ChildrenUntouched ==
  ASSUME UNCHANGED <<kids, touched, app>>
  PROVE  \A k \in Kinds : Kept(k)
BY DEF Kept, Applied

\* An event an informer delivers was in sight before.
LEMMA InSightAfterDelivery ==
  ASSUME TypeOK, NEW r \in Replicas, DeliverApp(r)
  PROVE  InSight(r)' \subseteq InSight(r)
<1> DEFINE t == Tail(watch[r])
<1>1. /\ cache'[r] = Head(watch[r]) /\ watch'[r] = t
      /\ watch[r] # <<>> /\ watch[r] \in Seq(MaybeApp)
  BY DEF DeliverApp, TypeOK
<1>2. /\ Head(watch[r]) = watch[r][1] /\ Len(t) = Len(watch[r]) - 1
      /\ \A i \in 1 .. Len(t) : t[i] = watch[r][i + 1]
      /\ t \in Seq(MaybeApp)
  BY <1>1, HeadTailProperties
<1>3. Len(watch[r]) \in Nat \ {0} /\ Len(t) \in Nat
  BY <1>1, <1>2, EmptySeq
<1> HIDE DEF t
<1>4. watch[r][1] \in InSight(r)
  BY <1>3 DEF InSight
<1>5. \A i \in 1 .. Len(t) : t[i] \in InSight(r)
  <2>1. \A i \in 1 .. Len(t) : i + 1 \in 1 .. Len(watch[r])
    BY <1>2, <1>3
  <2>2. QED
    BY <1>2, <2>1 DEF InSight
<1>6. InSight(r)' = {Head(watch[r])} \cup {t[i] : i \in 1 .. Len(t)}
  BY <1>1 DEF InSight
<1>7. QED
  BY <1>2, <1>4, <1>5, <1>6

LEMMA MachineryLeader ==
  ASSUME LeaderInv, NEW r \in Replicas,
         \/ Crash(r) \/ Inform(r) \/ RetryFires(r) \/ Resync(r)
         \/ FetchNothing(r) \/ FetchFails(r) \/ BuildPanic(r)
  PROVE  LeaderPart'
<1>1. TypeOK
  BY DEF LeaderInv, LockInv
<1>2. CASE Crash(r)
  <2>1. UNCHANGED <<kids, touched, app>>
    BY <1>2 DEF Crash
  <2>2. /\ ~running'[r] /\ pc'[r] = "idle" /\ ~fresh'[r]
        /\ \A q \in Replicas \ {r} :
             /\ running'[q] = running[q] /\ cache'[q] = cache[q] /\ watch'[q] = watch[q]
             /\ pc'[q] = pc[q] /\ local'[q] = local[q] /\ fresh'[q] = fresh[q]
             /\ idx'[q] = idx[q] /\ err'[q] = err[q]
    BY <1>1, <1>2 DEF Crash, TypeOK
  <2>3. \A q \in Replicas \ {r} : InSight(q)' = InSight(q)
    BY <2>2 DEF InSight
  <2>4. QED
    BY <2>1, <2>2, <2>3, QuietLeader, ChildrenUntouched
<1>3. CASE DeliverApp(r)
  <2>1. UNCHANGED <<kids, touched, app, running, workerVars>>
    BY <1>3 DEF DeliverApp, clusterVars
  <2>2. /\ cache'[r] = Head(watch[r]) /\ watch'[r] = Tail(watch[r])
        /\ \A q \in Replicas \ {r} : cache'[q] = cache[q] /\ watch'[q] = watch[q]
        /\ watch[r] # <<>> /\ watch[r] \in Seq(MaybeApp)
    BY <1>1, <1>3 DEF DeliverApp, TypeOK
  <2>3. InSight(r)' \subseteq InSight(r)
    BY <1>1, <1>3, InSightAfterDelivery
  <2>4. \A q \in Replicas \ {r} : InSight(q)' = InSight(q)
    BY <2>2 DEF InSight
  <2>5. QED
    BY <2>1, <2>3, <2>4, QuietLeader, ChildrenUntouched DEF workerVars
<1>4. CASE \/ \E k \in Kinds : SyncChild(r, k)
           \/ RetryFires(r) \/ Resync(r) \/ FetchNothing(r) \/ FetchFails(r)
  <2>1. UNCHANGED <<kids, touched, app, running, cache, watch, workerVars>>
    BY <1>4 DEF SyncChild, RetryFires, Resync, FetchNothing, FetchFails,
                clusterVars, informerVars
  <2>2. \A q \in Replicas : InSight(q)' = InSight(q)
    BY <2>1 DEF InSight
  <2>3. QED
    BY <2>1, <2>2, QuietLeader, ChildrenUntouched DEF workerVars
<1>5. CASE BuildPanic(r)
  <2>1. /\ UNCHANGED <<kids, touched, app, running, cache, watch>>
        /\ Return(r, TRUE) /\ fresh' = [fresh EXCEPT ![r] = FALSE]
    BY <1>5 DEF BuildPanic, clusterVars, informerVars
  <2>2. /\ pc'[r] = "idle" /\ ~fresh'[r]
        /\ \A q \in Replicas \ {r} :
             /\ pc'[q] = pc[q] /\ local'[q] = local[q] /\ idx'[q] = idx[q]
             /\ err'[q] = err[q] /\ fresh'[q] = fresh[q]
    BY <1>1, <2>1 DEF Return, TypeOK
  <2>3. \A q \in Replicas : InSight(q)' = InSight(q)
    BY <2>1 DEF InSight
  <2>4. QED
    BY <2>1, <2>2, <2>3, QuietLeader, ChildrenUntouched
<1>6. QED
  BY <1>2, <1>3, <1>4, <1>5 DEF Inform

\* A change of the application goes onto q's watch stream.
Sees(q) == watch'[q] = IF running[q] /\ app' # app THEN Append(watch[q], app')
                       ELSE watch[q]

\* A write puts one more version in sight, at most.
LEMMA InSightAfterStep ==
  ASSUME NEW q \in Replicas, watch[q] \in Seq(MaybeApp), Sees(q), cache'[q] = cache[q],
         app' \in MaybeApp
  PROVE  /\ InSight(q)' \subseteq InSight(q) \cup {app'}
         /\ app' = app => InSight(q)' = InSight(q)
<1>1. CASE watch'[q] = watch[q]
  BY <1>1 DEF InSight
<1>2. CASE app' # app /\ watch'[q] = Append(watch[q], app')
  <2> DEFINE w == Append(watch[q], app')
  <2>1. /\ Len(watch[q]) \in Nat /\ Len(w) = Len(watch[q]) + 1
        /\ \A i \in 1 .. Len(watch[q]) : w[i] = watch[q][i]
        /\ w[Len(watch[q]) + 1] = app'
    OBVIOUS
  <2> HIDE DEF w
  <2>2. \A i \in 1 .. Len(w) : i \in 1 .. Len(watch[q]) \/ i = Len(watch[q]) + 1
    BY <2>1
  <2>3. \A i \in 1 .. Len(w) : w[i] \in InSight(q) \cup {app'}
    BY <2>1, <2>2 DEF InSight
  <2>4. InSight(q)' = {cache[q]} \cup {w[i] : i \in 1 .. Len(w)}
    BY <1>2 DEF InSight, w
  <2>5. cache[q] \in InSight(q)
    BY DEF InSight
  <2>6. QED
    BY <1>2, <2>3, <2>4, <2>5
<1>3. QED
  BY <1>1, <1>2 DEF Sees

LEMMA InSightAfterWrite ==
  ASSUME LockInv, Observe, UNCHANGED <<running, cache>>, app' \in MaybeApp,
         NEW q \in Replicas
  PROVE  /\ InSight(q)' \subseteq InSight(q) \cup {app'}
         /\ app' = app => InSight(q)' = InSight(q)
<1>1. watch[q] \in Seq(MaybeApp) /\ Sees(q)
  BY DEF LockInv, TypeOK, Observe, Sees
<1>2. QED
  BY <1>1, InSightAfterStep

LEMMA EnvironmentLeader ==
  ASSUME LeaderInv, EnvironmentStep
  PROVE  LeaderPart'
<1>1. LockInv /\ LockInv'
  BY EnvironmentLock DEF LeaderInv
<1>2. /\ UNCHANGED <<running, cache, kcache, queueVars, pc, local, idx, attempt, err>>
      /\ Observe
  BY DEF EnvironmentStep
<1>3. app' \in MaybeApp
  BY <1>1 DEF LockInv, TypeOK
<1>4. \A q \in Replicas : fresh'[q] => fresh[q] /\ app' = app
  BY <1>2 DEF Observe
<1>5. CASE app' = app /\ (app # NoApp => \A k \in Kinds : Kept(k))
  <2>1. \A q \in Replicas : InSight(q)' = InSight(q)
    BY <1>1, <1>2, <1>3, <1>5, InSightAfterWrite
  <2>2. QED
    BY <1>2, <1>4, <1>5, <2>1, QuietLeader
<1>6. CASE UserCreate \/ UserEdit \/ UserDelete
  <2>1. UNCHANGED <<kids, touched>>
    BY <1>1, <1>6, TypesOfCluster, UsersKeepTypes DEF LockInv
  <2>2. CASE app' = app
    BY <1>5, <2>1, <2>2, ChildrenUntouched
  <2>3. CASE app' # app
    <3>1. /\ app # NoApp /\ app.finalizer =>
               app' # NoApp /\ app'.uid = app.uid /\ app'.finalizer
          /\ ~(app' # NoApp /\ ReportsReady(app'))
      BY <1>1, <1>6, <2>3, TypesOfCluster, UsersRespect DEF LockInv
    <3>2. OneLeader' /\ \A q \in Replicas : IntentInv(q)'
      BY <1>2 DEF LeaderInv, OneLeader, IntentInv, Kind
    <3>3. ASSUME NEW q \in Replicas
          PROVE  FinalizerInv(q)'
      <4>1. SUFFICES ASSUME running[q], NEW v \in InSight(q)'
                     PROVE  HoldsBack(v)'
        BY <1>2 DEF FinalizerInv
      <4>2. v \in InSight(q) \/ v = app'
        BY <1>1, <1>2, <1>3, InSightAfterWrite
      <4>3. CASE v \in InSight(q)
        BY <3>1, <4>1, <4>3 DEF LeaderInv, FinalizerInv, HoldsBack
      <4>4. CASE v = app'
        BY <4>4 DEF HoldsBack
      <4>5. QED
        BY <4>2, <4>3, <4>4
    <3>4. \A q \in Replicas : ReadyInv(q)' /\ ProgressInv(q)'
      BY <1>4, <2>3, <3>1 DEF ReadyInv, ProgressInv, ReportsReady, UpToDate
    <3>5. FinalizerProtects'
      BY <1>2, <3>1 DEF LeaderInv, FinalizerProtects, Applying
    <3>6. ReadyMeansApplied'
      BY <3>1 DEF ReadyMeansApplied, ReportsReady, UpToDate
    <3>7. QED
      BY <3>2, <3>3, <3>4, <3>5, <3>6 DEF LeaderPart
  <2>4. QED
    BY <2>2, <2>3
<1>7. CASE \/ \E k \in Kinds : UserDrift(k) \/ UserForeign(k) \/ GarbageCollect(k)
           \/ PodStarts \/ RolloutFinishes \/ PodFails
  BY <1>1, <1>5, <1>7, TypesOfCluster, OutsidersKeepTypes, OutsidersKeepChildren DEF LockInv
<1>8. CASE Tick
  BY <1>5, <1>8, ChildrenUntouched DEF Tick
<1>9. QED
  BY <1>6, <1>7, <1>8 DEF EnvironmentStep, ClusterNext

\* A worker takes the key.  What its copy is of has been in sight.
LEMMA GoToLeader ==
  ASSUME LeaderInv, NEW r \in Replicas, NEW step \in Steps \ {"idle"}, NEW copy \in Apps,
         Dequeue(r), GoTo(r, step, copy), SameObject(copy, cache[r]), cache[r] # NoApp,
         \/ step = "removeFinalizer" /\ copy.deleting
         \/ step = "addFinalizer"
         \/ step = FirstStep(Order[1], copy.spec) /\ copy.finalizer /\ ~copy.deleting
  PROVE  LeaderPart'
<1>1. LockInv /\ running[r] /\ pc[r] = "idle" /\ idx[r] = 1
  BY DEF Dequeue, LeaderInv, LockInv, WorkerInv
<1>2. UNCHANGED <<app, kids, touched, running, cache, watch, idx, err>>
  BY DEF GoTo, clusterVars, informerVars
<1>3. /\ pc'[r] = step /\ local'[r] = copy
      /\ \A q \in Replicas \ {r} :
           pc'[q] = pc[q] /\ local'[q] = local[q] /\ fresh'[q] = fresh[q]
  BY <1>1 DEF GoTo, LockInv, TypeOK
<1>4. \A q \in Replicas : InSight(q)' = InSight(q)
  BY <1>2 DEF InSight
<1>5. cache[r] \in InSight(r)
  BY DEF InSight
<1>6. OneLeader'
  BY <1>2 DEF LeaderInv, OneLeader
<1>7. IntentInv(r)'
  <2>1. Kind(r)' = Order[1]
    BY <1>1, <1>2 DEF Kind
  <2>2. QED
    BY <1>3, <2>1 DEF IntentInv, FirstStep
<1>8. \A q \in Replicas \ {r} : IntentInv(q)'
  BY <1>2, <1>3 DEF LeaderInv, IntentInv, Kind
<1>9. \A q \in Replicas : FinalizerInv(q)'
  BY <1>2, <1>4 DEF LeaderInv, FinalizerInv, HoldsBack
<1>10. ReadyInv(r)'
  BY <1>1, <1>2, <1>3, <1>4, <1>5
     DEF LeaderInv, ReadyInv, SameDemand, SameObject, ReportsReady, UpToDate
<1>11. \A q \in Replicas \ {r} : ReadyInv(q)'
  BY <1>2, <1>3, <1>4 DEF LeaderInv, ReadyInv, SameDemand, ReportsReady, UpToDate
<1>12. ProgressInv(r)'
  <2>1. pc'[r] # "status"
    BY <1>3 DEF FirstStep
  <2>2. CASE Applying(r)'
    <3>1. Behind(r)' = {}
      BY <1>1, <1>2, <2>2 DEF Behind, Applying
    <3>2. QED
      BY <3>1 DEF ProgressInv
  <2>3. QED
    BY <2>1, <2>2 DEF ProgressInv
<1>13. \A q \in Replicas \ {r} : ProgressInv(q)'
  BY <1>2, <1>3 DEF LeaderInv, ProgressInv, Applying, Behind, Applied
<1>14. FinalizerProtects'
  <2>1. Applying(r)' => app # NoApp /\ app.uid = local'[r].uid /\ app.finalizer
    <3>1. HoldsBack(cache[r])
      BY <1>1, <1>5 DEF LeaderInv, FinalizerInv
    <3>2. Applying(r)' => copy.finalizer /\ ~copy.deleting
      BY <1>3 DEF Applying, ChildSteps
    <3>3. QED
      BY <1>3, <3>1, <3>2 DEF HoldsBack, SameObject
  <2>2. \A q \in Replicas \ {r} :
          Applying(q)' => app # NoApp /\ app.uid = local'[q].uid /\ app.finalizer
    BY <1>3 DEF LeaderInv, FinalizerProtects, Applying
  <2>3. QED
    BY <1>2, <2>1, <2>2 DEF FinalizerProtects
<1>15. ReadyMeansApplied'
  BY <1>2 DEF LeaderInv, ReadyMeansApplied, Applied, ReportsReady, UpToDate
<1>16. QED
  BY <1>6, <1>7, <1>8, <1>9, <1>10, <1>11, <1>12, <1>13, <1>14, <1>15 DEF LeaderPart

LEMMA FetchLeader ==
  ASSUME LeaderInv, NEW r \in Replicas,
         FetchDeleting(r) \/ FetchWithoutFinalizer(r) \/ FetchAndBegin(r)
  PROVE  LeaderPart'
<1>1. LockInv /\ cache[r] # NoApp /\ cache[r] \in Apps
  BY DEF FetchDeleting, FetchWithoutFinalizer, FetchAndBegin, LeaderInv, LockInv,
         TypeOK, MaybeApp
<1>2. CASE FetchDeleting(r)
  BY <1>1, <1>2, GoToLeader DEF FetchDeleting, SameObject, Steps
<1>3. CASE FetchWithoutFinalizer(r)
  BY <1>1, <1>3, GoToLeader DEF FetchWithoutFinalizer, SameObject, Steps
<1>4. CASE FetchAndBegin(r)
  <2> DEFINE copy == [cache[r] EXCEPT !.status.conditions = StartConditions(@)]
  <2>1. copy \in Apps /\ SameObject(copy, cache[r])
    BY <1>1, CopyType DEF LockInv
  <2>2. FirstStep(Order[1], cache[r].spec) \in Steps \ {"idle"}
    BY DEF FirstStep, Steps, ChildSteps
  <2>3. /\ Dequeue(r) /\ GoTo(r, FirstStep(Order[1], cache[r].spec), copy)
        /\ cache[r].finalizer /\ ~cache[r].deleting
    BY <1>4 DEF FetchAndBegin
  <2> HIDE DEF copy
  <2>4. copy.finalizer /\ ~copy.deleting /\ copy.spec = cache[r].spec
    BY <2>1, <2>3 DEF SameObject
  <2>5. QED
    BY <1>1, <2>1, <2>2, <2>3, <2>4, GoToLeader
<1>5. QED
  BY <1>2, <1>3, <1>4

\* The worker's last step: with one leader nobody else has anything in hand,
\* and a write that is accepted was made with nothing else in sight.
LEMMA LastStepLeader ==
  ASSUME LeaderInv, LockInv', NEW r \in Replicas, NEW again, Return(r, again), Observe,
         pc[r] # "idle", UNCHANGED <<kids, touched, running, cache>>,
         app' # app =>
           /\ fresh[r]
           /\ app.finalizer /\ ~app.deleting =>
                app' # NoApp /\ app'.uid = app.uid /\ app'.finalizer
           /\ app' # NoApp /\ ReportsReady(app') =>
                SameDemand(app, app') /\ \A k \in Kinds \ touched : Applied(k, app')
  PROVE  LeaderPart'
<1>1. LockInv /\ running[r]
  BY DEF LeaderInv, LockInv, WorkerInv
<1>2. /\ pc'[r] = "idle"
      /\ \A q \in Replicas \ {r} : pc'[q] = pc[q]
  BY <1>1, ReturnTypes
<1>3. \A q \in Replicas : pc'[q] = "idle" /\ ~fresh'[q]
  <2>1. \A q \in Replicas \ {r} : ~running[q]
    BY <1>1 DEF LeaderInv, OneLeader
  <2>2. \A q \in Replicas : pc'[q] = "idle"
    BY <1>1, <1>2, <2>1 DEF LockInv, WorkerInv
  <2>3. QED
    BY <2>2 DEF LockInv, WorkerInv
<1>4. OneLeader' /\ FinalizerProtects'
  BY <1>3 DEF LeaderInv, OneLeader, FinalizerProtects, Applying, ChildSteps
<1>5. \A q \in Replicas : IntentInv(q)' /\ ProgressInv(q)'
  BY <1>3 DEF IntentInv, ProgressInv
<1>6. \A q \in Replicas : /\ InSight(q)' \subseteq InSight(q) \cup {app'}
                          /\ app' = app => InSight(q)' = InSight(q)
  BY <1>1, InSightAfterWrite DEF LockInv, TypeOK
<1>7. CASE app' = app
  <2>1. \A q \in Replicas : FinalizerInv(q)'
    BY <1>6, <1>7 DEF LeaderInv, FinalizerInv, HoldsBack
  <2>2. \A q \in Replicas : ReadyInv(q)'
    BY <1>3, <1>6, <1>7 DEF LeaderInv, ReadyInv, SameDemand, ReportsReady, UpToDate
  <2>3. ReadyMeansApplied'
    BY <1>7 DEF LeaderInv, ReadyMeansApplied, Applied, ReportsReady, UpToDate
  <2>4. QED
    BY <1>4, <1>5, <2>1, <2>2, <2>3 DEF LeaderPart
<1>8. CASE app' # app
  <2>1. app # NoApp /\ cache[r] = app /\ watch[r] = <<>>
    BY <1>1, <1>8 DEF LockInv, FreshInv
  <2>2. InSight(r) = {app}
    BY <2>1, EmptySeq DEF InSight
  <2>3. \A q \in Replicas : running'[q] => InSight(q)' \subseteq {app, app'}
    BY <1>1, <1>6, <2>2 DEF LeaderInv, OneLeader
  <2>4. ASSUME NEW q \in Replicas
        PROVE  FinalizerInv(q)'
    BY <1>8, <2>3 DEF FinalizerInv, HoldsBack
  <2>5. ASSUME NEW q \in Replicas
        PROVE  ReadyInv(q)'
    BY <1>3, <1>8, <2>1, <2>3 DEF ReadyInv, SameDemand, ReportsReady, UpToDate
  <2>6. ReadyMeansApplied'
    BY <1>8 DEF ReadyMeansApplied, Applied, ReportsReady, UpToDate
  <2>7. QED
    BY <1>4, <1>5, <2>4, <2>5, <2>6 DEF LeaderPart
<1>9. QED
  BY <1>7, <1>8

\* The writes of the application: the finalizer goes on, comes off only when
\* the application is being deleted, and the status tells what was done.
LEMMA WriteLeader ==
  ASSUME LeaderInv, NEW r \in Replicas,
         AddFinalizer(r) \/ RemoveFinalizer(r) \/ StatusUpdate(r)
  PROVE  LeaderPart'
<1>1. LockInv /\ LockInv'
  BY FinalizerLock, StatusLock DEF LeaderInv
<1>2. PICK again \in BOOLEAN : Return(r, again)
  BY DEF AddFinalizer, RemoveFinalizer, StatusUpdate, ComesBack
<1>3. /\ Observe /\ pc[r] # "idle"
      /\ UNCHANGED <<kids, touched, running, cache>>
  BY DEF AddFinalizer, RemoveFinalizer, StatusUpdate
<1>4. fresh[r] => /\ app # NoApp /\ app \in Apps /\ SameObject(local[r], app)
                  /\ cache[r] = app
  BY <1>1 DEF LockInv, FreshInv, TypeOK, MaybeApp
<1>5. CASE AddFinalizer(r)
  <2>1. SUFFICES ASSUME app' # app
                 PROVE  /\ fresh[r]
                        /\ app' # NoApp /\ app'.uid = app.uid /\ app'.finalizer
                        /\ ReportsReady(app') =>
                             /\ SameDemand(app, app')
                             /\ \A k \in Kinds \ touched : Applied(k, app')
    BY <1>1, <1>2, <1>3, LastStepLeader
  <2>2. fresh[r] /\ app' = [app EXCEPT !.finalizer = TRUE]
    BY <1>5, <2>1 DEF AddFinalizer, Accepted
  <2>3. app' = [uid |-> app.uid, generation |-> app.generation,
                deleting |-> app.deleting, finalizer |-> TRUE,
                spec |-> app.spec, status |-> app.status]
    BY <1>4, <2>2 DEF Apps
  <2>4. app' \in Apps
    BY <1>4, <2>2, <2>3 DEF Apps
  <2>5. app' # NoApp /\ SameDemand(app, app')
    BY <2>3, <2>4, NothingAssumption DEF SameDemand
  <2>6. ReportsReady(app') => ReportsReady(app)
    BY <2>3 DEF ReportsReady, UpToDate
  <2>7. ReportsReady(app) => \A k \in Kinds \ touched : Applied(k, app)
    BY <1>4, <2>2 DEF LeaderInv, ReadyMeansApplied
  <2>8. QED
    BY <2>2, <2>3, <2>5, <2>6, <2>7, SameDemandSameChildren
<1>6. CASE RemoveFinalizer(r)
  <2>1. SUFFICES ASSUME app' # app
                 PROVE  fresh[r] /\ app.deleting /\ app' = NoApp
    <3>1. app.deleting \in BOOLEAN \/ ~fresh[r]
      BY <1>4 DEF Apps
    <3>2. QED
      BY <1>1, <1>2, <1>3, <2>1, <3>1, LastStepLeader
  <2>2. fresh[r] /\ app' = NoApp /\ pc[r] = "removeFinalizer"
    BY <1>6, <2>1 DEF RemoveFinalizer, Accepted
  <2>3. app.deleting
    BY <1>4, <2>2 DEF LeaderInv, IntentInv, SameObject
  <2>4. QED
    BY <2>2, <2>3
<1>7. CASE StatusUpdate(r)
  <2>1. SUFFICES ASSUME app' # app
                 PROVE  /\ fresh[r]
                        /\ app.finalizer => app' # NoApp /\ app'.uid = app.uid /\ app'.finalizer
                        /\ ReportsReady(app') =>
                             /\ SameDemand(app, app')
                             /\ \A k \in Kinds \ touched : Applied(k, app')
    BY <1>1, <1>2, <1>3, LastStepLeader
  <2>2. /\ fresh[r] /\ app' \in Apps /\ SameObject(app', app)
        /\ IsReady(app'.status.conditions) => err[r] = NoError
    BY <1>1, <1>7, <2>1, StatusWrites DEF ComesBack
  <2>3. app' # NoApp /\ app'.uid = app.uid /\ app'.finalizer = app.finalizer
    BY <2>2, NothingAssumption DEF SameObject
  <2>4. SameDemand(app, app')
    BY <2>2 DEF SameObject, SameDemand
  <2>5. ReportsReady(app') => \A k \in Kinds \ touched : Applied(k, app)
    <3>1. SUFFICES ASSUME err[r] = NoError, NEW k \in Kinds \ touched
                   PROVE  Applied(k, app)
      BY <2>2 DEF ReportsReady
    <3>2. pc[r] = "status" /\ Behind(r) = 1 .. Len(Order)
      BY <1>7 DEF StatusUpdate, Behind, Applying, ChildSteps
    <3>3. PICK i \in DOMAIN Order : k = Order[i]
      BY DEF Kinds
    <3>4. i \in Behind(r)
      BY <3>2, OrderAssumption
    <3>5. QED
      BY <2>2, <3>1, <3>2, <3>3, <3>4 DEF LeaderInv, ProgressInv
  <2>6. QED
    BY <2>2, <2>3, <2>4, <2>5, SameDemandSameChildren
<1>8. QED
  BY <1>5, <1>6, <1>7

\* What a carried-out request leaves behind: its child as the worker's copy asks
\* for it, the others as they were.
LEMMA CarriedOutApplies ==
  ASSUME LeaderInv, NEW r \in Replicas, CarriedOut(r), SameDemand(local[r], app),
         app' = app, NEW k \in Kinds
  PROVE  /\ k = Kind(r) => Applied(k, app)'
         /\ k # Kind(r) => Kept(k)
<1>1. LockInv /\ TypeOK /\ pc[r] # "idle" /\ local[r] \in Apps
  BY DEF LeaderInv, LockInv, WorkerInv, CarriedOut
<1>2. kids \in ChildMaps /\ Kind(r) \in Kinds
  BY <1>1, WrittenChildType DEF TypeOK
<1>3. CASE k # Kind(r)
  <2>1. kids'[k] = kids[k] /\ (k \in touched => k \in touched')
    BY <1>2, <1>3 DEF CarriedOut, StoreChild, ChildMaps
  <2>2. QED
    BY <1>3, <2>1 DEF Kept, Applied
<1>4. CASE k = Kind(r) /\ pc[r] = "delete"
  <2>1. kids'[k] = NoChild
    BY <1>2, <1>4 DEF CarriedOut, StoreChild, ChildMaps
  <2>2. ~Wanted(k, app.spec)
    BY <1>4 DEF LeaderInv, IntentInv, SameDemand
  <2>3. QED
    BY <1>4, <2>1, <2>2 DEF Applied
<1>5. CASE k = Kind(r) /\ pc[r] \in {"create", "patch"}
  <2>1. Wanted(k, app.spec)
    BY <1>5 DEF LeaderInv, IntentInv, SameDemand
  <2>2. /\ CreatedChild(r) \in Children(k) /\ CreatedChild(r).owner = app.uid
        /\ CreatedChild(r).want = Desired(k, app.spec)
    BY <1>1, <1>5, WrittenChildType DEF CreatedChild, SameDemand
  <2>3. /\ PatchedChild(r) \in Children(k) /\ PatchedChild(r).owner = app.uid
        /\ PatchedChild(r).want = Desired(k, app.spec)
    <3>1. PatchedChild(r) \in Children(k)
      BY <1>1, <1>5, WrittenChildType
    <3>2. CASE kids[k] = NoChild
      BY <1>5, <2>2, <3>1, <3>2 DEF PatchedChild
    <3>3. CASE kids[k] # NoChild
      <4>1. kids[k] \in Children(k)
        BY <1>2, <3>3 DEF ChildMaps, MaybeChild
      <4>2. PatchedChild(r) = [owner |-> local[r].uid, want |-> Desired(k, local[r].spec),
                               ready |-> kids[k].ready, version |-> kids[k].version]
        BY <1>5, <3>3, <4>1 DEF PatchedChild, Children
      <4>3. QED
        BY <3>1, <4>2 DEF SameDemand
    <3>4. QED
      BY <3>2, <3>3
  <2>4. kids'[k] \in {CreatedChild(r), PatchedChild(r)}
    BY <1>2, <1>5 DEF CarriedOut, StoreChild, ChildMaps
  <2>5. /\ kids'[k] # NoChild /\ kids'[k].owner = app.uid
        /\ kids'[k].want = Desired(k, app.spec)
    BY <2>2, <2>3, <2>4, NothingAssumption
  <2>6. QED
    BY <1>5, <2>1, <2>5 DEF Applied
<1>6. QED
  BY <1>3, <1>4, <1>5 DEF CarriedOut

\* The children go forward, one after the other.
LEMMA ChildRequestProgress ==
  ASSUME LeaderInv, NEW r \in Replicas, ChildRequest(r)
  PROVE  ProgressInv(r)'
<1>1. /\ pc[r] \in ChildSteps /\ UNCHANGED <<app, local, fresh>>
      /\ \/ Looked(r)
         \/ ChildDone(r) /\ CarriedOut(r)
         \/ /\ \E reason \in Reasons : ChildFailed(r, reason)
            /\ UNCHANGED <<kids, touched>> \/ CarriedOut(r)
  BY ChildRequestShape DEF LeaderInv, ChildFrame
<1>2. LockInv /\ TypeOK
  BY DEF LeaderInv, LockInv
<1>3. /\ DOMAIN Order = 1 .. Len(Order) /\ Len(Order) \in Nat /\ idx[r] \in 1 .. Len(Order)
      /\ pc \in [Replicas -> Steps] /\ idx \in [Replicas -> DOMAIN Order]
      /\ err \in [Replicas -> Errs]
  BY <1>2, OrderAssumption DEF TypeOK
<1>4. SUFFICES ASSUME fresh[r], Applying(r)' \/ (pc'[r] = "status" /\ err'[r] = NoError),
                      NEW i \in Behind(r)'
               PROVE  Order[i] \in touched' \/ Applied(Order[i], app)'
  BY <1>1 DEF ProgressInv
<1>5. SameDemand(local[r], app)
  BY <1>2, <1>4 DEF LockInv, FreshInv, SameObject, SameDemand
<1>6. \A j \in 1 .. idx[r] - 1 : Order[j] \in touched \/ Applied(Order[j], app)
  BY <1>1, <1>4 DEF LeaderInv, ProgressInv, Behind, Applying
<1>7. ASSUME NEW j \in 1 .. idx[r] - 1,
             UNCHANGED <<kids, touched>> \/ CarriedOut(r)
      PROVE  Order[j] \in touched' \/ Applied(Order[j], app)'
  <2>1. Order[j] \in Kinds
    BY <1>3, KindsAreNames
  <2>2. PICK k \in Kinds : k = Order[j]
    BY <2>1
  <2>3. k \in touched \/ Applied(k, app)
    BY <1>6, <2>2
  <2>4. k \in touched' \/ Applied(k, app)'
    <3>1. CASE UNCHANGED <<kids, touched>>
      BY <1>1, <2>3, <3>1 DEF Applied
    <3>2. CASE CarriedOut(r)
      BY <1>1, <1>5, <2>3, <3>2, CarriedOutApplies DEF Kept
    <3>3. QED
      BY <1>7, <3>1, <3>2
  <2>5. QED
    BY <2>2, <2>4 DEF Applied
<1>8. CASE Looked(r)
  <2>1. Behind(r)' = 1 .. idx[r] - 1 /\ UNCHANGED <<kids, touched>>
    BY <1>3, <1>8 DEF Looked, Behind, Applying, ChildSteps
  <2>2. QED
    BY <1>4, <1>7, <2>1
<1>9. CASE ChildDone(r) /\ CarriedOut(r)
  <2>1. Behind(r)' \subseteq 1 .. idx[r]
    <3>1. CASE idx[r] < Len(Order)
      <4>1. idx'[r] = idx[r] + 1 /\ pc'[r] \in {"read", "delete"}
        BY <1>3, <1>9, <3>1 DEF ChildDone, FirstStep
      <4>2. QED
        BY <1>3, <4>1 DEF Behind, Applying, ChildSteps
    <3>2. CASE ~(idx[r] < Len(Order))
      <4>1. pc'[r] = "status" /\ idx[r] = Len(Order)
        BY <1>3, <1>9, <3>2 DEF ChildDone
      <4>2. QED
        BY <1>3, <4>1 DEF Behind, Applying, ChildSteps
    <3>3. QED
      BY <3>1, <3>2
  <2>2. CASE i \in 1 .. idx[r] - 1
    BY <1>7, <1>9, <2>2
  <2>3. CASE i = idx[r]
    <3>1. PICK k \in Kinds : k = Kind(r)
      BY <1>3, KindsAreNames DEF Kind
    <3>2. Applied(k, app)'
      BY <1>1, <1>5, <1>9, <3>1, CarriedOutApplies
    <3>3. k = Order[i]
      BY <2>3, <3>1 DEF Kind
    <3>4. QED
      BY <3>2, <3>3 DEF Applied
  <2>4. QED
    BY <1>3, <2>1, <2>2, <2>3
<1>10. ASSUME NEW reason \in Reasons, ChildFailed(r, reason),
              UNCHANGED <<kids, touched>> \/ CarriedOut(r)
       PROVE  Order[i] \in touched' \/ Applied(Order[i], app)'
  <2>1. CASE pc'[r] = "read" /\ idx' = idx
    <3>1. Behind(r)' = 1 .. idx[r] - 1
      BY <2>1 DEF Behind, Applying, ChildSteps
    <3>2. QED
      BY <1>4, <1>7, <1>10, <3>1
  <2>2. CASE /\ pc' = [pc EXCEPT ![r] = "status"]
             /\ err' = [err EXCEPT ![r] =
                          [kind |-> Kind(r), reason |-> reason,
                           class |-> ClassifyOrWrap(RawError(reason)).class]]
    <3>1. ClassifyOrWrap(RawError(reason)).class \in Classes
      BY ClassesAreKnown
    <3>2. err'[r] # NoError
      <4>1. err'[r].class \in Classes
        BY <1>3, <2>2, <3>1
      <4>2. NoError.class \notin Classes
        BY DEF NoError, Classes, ClassTransient, ClassPermanent, ClassConflict
      <4>3. QED
        BY <4>1, <4>2
    <3>3. ~Applying(r)'
      BY <1>3, <2>2 DEF Applying, ChildSteps
    <3>4. QED
      BY <1>4, <3>2, <3>3
  <2>3. QED
    BY <1>3, <1>10, <2>1, <2>2 DEF ChildFailed
<1>11. QED
  BY <1>1, <1>8, <1>9, <1>10

LEMMA ChildRequestLeader ==
  ASSUME LeaderInv, NEW r \in Replicas, ChildRequest(r)
  PROVE  LeaderPart'
<1>1. /\ pc[r] \in ChildSteps
      /\ UNCHANGED <<app, running, cache, watch, local, fresh>>
      /\ \/ Looked(r)
         \/ ChildDone(r) /\ CarriedOut(r)
         \/ /\ \E reason \in Reasons : ChildFailed(r, reason)
            /\ UNCHANGED <<kids, touched>> \/ CarriedOut(r)
  BY ChildRequestShape DEF LeaderInv, ChildFrame, informerVars
<1>2. LockInv /\ running[r]
  BY <1>1 DEF LeaderInv, LockInv, WorkerInv, ChildSteps
<1>3. /\ pc \in [Replicas -> Steps] /\ idx \in [Replicas -> DOMAIN Order]
      /\ err \in [Replicas -> Errs]
  BY <1>2 DEF LockInv, TypeOK
<1>4. \A q \in Replicas \ {r} : pc'[q] = pc[q] /\ pc[q] = "idle" /\ ~fresh[q]
  <2>1. \A q \in Replicas \ {r} : ~running[q]
    BY <1>2 DEF LeaderInv, OneLeader
  <2>2. \A q \in Replicas \ {r} : pc'[q] = pc[q]
    BY <1>1, <1>3 DEF Looked, ChildDone, ChildFailed
  <2>3. QED
    BY <1>2, <2>1, <2>2 DEF LockInv, WorkerInv
<1>5. OneLeader' /\ \A q \in Replicas : FinalizerInv(q)'
  <2>1. \A q \in Replicas : InSight(q)' = InSight(q)
    BY <1>1 DEF InSight
  <2>2. QED
    BY <1>1, <2>1 DEF LeaderInv, OneLeader, FinalizerInv, HoldsBack
<1>6. \A q \in Replicas : ReadyInv(q)'
  <2>1. \A q \in Replicas : InSight(q)' = InSight(q)
    BY <1>1 DEF InSight
  <2>2. \A q \in Replicas : pc'[q] # "idle" => pc[q] # "idle"
    BY <1>1, <1>4 DEF ChildSteps
  <2>3. QED
    BY <1>1, <2>1, <2>2 DEF LeaderInv, ReadyInv, SameDemand, ReportsReady, UpToDate
<1>7. \A q \in Replicas \ {r} : IntentInv(q)' /\ ProgressInv(q)'
  BY <1>1, <1>4 DEF IntentInv, ProgressInv
<1>8. IntentInv(r)'
  <2>1. CASE Looked(r)
    BY <1>1, <1>3, <2>1 DEF Looked, LeaderInv, IntentInv, Kind
  <2>2. CASE ChildDone(r)
    <3>1. CASE pc'[r] = "status"
      BY <3>1 DEF IntentInv
    <3>2. CASE /\ idx'[r] = idx[r] + 1
               /\ pc'[r] = FirstStep(Order[idx[r] + 1], local[r].spec)
      BY <1>1, <3>2 DEF IntentInv, FirstStep, Kind
    <3>3. QED
      BY <1>3, <2>2, <3>1, <3>2 DEF ChildDone
  <2>3. ASSUME NEW reason \in Reasons, ChildFailed(r, reason)
        PROVE  IntentInv(r)'
    <3>1. CASE pc'[r] = "status"
      BY <3>1 DEF IntentInv
    <3>2. CASE pc'[r] = "read" /\ pc[r] # "delete"
      <4>1. Wanted(Kind(r), local[r].spec)
        BY <1>1, <3>2 DEF LeaderInv, IntentInv, ChildSteps
      <4>2. Kind(r)' = Kind(r)
        BY <2>3 DEF ChildFailed, Kind
      <4>3. QED
        BY <1>1, <3>2, <4>1, <4>2 DEF IntentInv
    <3>3. QED
      BY <1>3, <2>3, <3>1, <3>2 DEF ChildFailed, RetryAllowed
  <2>4. QED
    BY <1>1, <2>1, <2>2, <2>3
<1>9. ProgressInv(r)'
  BY ChildRequestProgress
<1>10. FinalizerProtects'
  <2>1. app # NoApp /\ app.uid = local[r].uid /\ app.finalizer
    BY <1>1 DEF LeaderInv, FinalizerProtects, Applying
  <2>2. QED
    BY <1>1, <1>4, <2>1 DEF FinalizerProtects, Applying, ChildSteps
<1>11. ReadyMeansApplied'
  <2>1. SUFFICES ASSUME app # NoApp, ReportsReady(app), NEW k \in Kinds, k \notin touched'
                 PROVE  Applied(k, app)'
    BY <1>1 DEF ReadyMeansApplied, ReportsReady, UpToDate, Applied
  <2>2. SameDemand(local[r], app)
    BY <1>1, <1>2, <2>1 DEF LeaderInv, ReadyInv, ChildSteps
  <2>3. CASE UNCHANGED <<kids, touched>>
    BY <1>1, <2>1, <2>3 DEF LeaderInv, ReadyMeansApplied, Applied
  <2>4. CASE CarriedOut(r)
    <3>1. CASE k = Kind(r)
      BY <1>1, <2>2, <2>4, <3>1, CarriedOutApplies
    <3>2. CASE k # Kind(r)
      <4>1. Kept(k)
        BY <1>1, <2>2, <2>4, <3>2, CarriedOutApplies
      <4>2. QED
        BY <2>1, <4>1 DEF Kept, LeaderInv, ReadyMeansApplied
    <3>3. QED
      BY <3>1, <3>2
  <2>5. QED
    BY <1>1, <2>3, <2>4 DEF Looked
<1>12. QED
  BY <1>5, <1>6, <1>7, <1>8, <1>9, <1>10, <1>11 DEF LeaderPart

(***************************************************************************)

LEMMA InitLeader == Init => LeaderInv
<1> SUFFICES ASSUME Init PROVE LeaderInv
  OBVIOUS
<1>1. LockInv
  BY InitLock
<1>2. \A r \in Replicas : ~running[r] /\ pc[r] = "idle" /\ ~fresh[r]
  BY DEF Init
<1>3. app = NoApp
  BY DEF Init, ClusterInit
<1>4. OneLeader /\ FinalizerProtects
  BY <1>2 DEF OneLeader, FinalizerProtects, Applying, ChildSteps
<1>5. \A r \in Replicas : IntentInv(r) /\ FinalizerInv(r) /\ ReadyInv(r) /\ ProgressInv(r)
  BY <1>2, <1>3 DEF IntentInv, FinalizerInv, ReadyInv, ProgressInv
<1>6. ReadyMeansApplied
  BY <1>3 DEF ReadyMeansApplied
<1>7. QED
  BY <1>1, <1>4, <1>5, <1>6 DEF LeaderInv

LEMMA NextLeader == LeaderElection /\ LeaderInv /\ [Next]_vars => LeaderInv'
<1> SUFFICES ASSUME LeaderElection, LeaderInv, [Next]_vars PROVE LeaderInv'
  OBVIOUS
<1>1. LockInv'
  BY NextLock DEF LeaderInv
<1>2. ASSUME EnvironmentStep PROVE LeaderPart'
  BY <1>2, EnvironmentLeader
<1>3. ASSUME NEW r \in Replicas, Start(r) PROVE LeaderPart'
  BY <1>3, StartLeader
<1>4. ASSUME NEW r \in Replicas, Crash(r) \/ Inform(r) \/ RetryFires(r) \/ Resync(r)
      PROVE  LeaderPart'
  BY <1>4, MachineryLeader
<1>5. ASSUME NEW r \in Replicas, Fetch(r) PROVE LeaderPart'
  BY <1>5, MachineryLeader, FetchLeader DEF Fetch
<1>6. ASSUME NEW r \in Replicas, Work(r) PROVE LeaderPart'
  BY <1>6, WriteLeader, MachineryLeader, ChildRequestLeader DEF Work, ChildRequest
<1>7. ASSUME UNCHANGED vars PROVE LeaderPart'
  <2>1. UNCHANGED <<kids, touched, app, running, cache, watch, workerVars>>
    BY <1>7 DEF vars, clusterVars, informerVars
  <2>2. \A q \in Replicas : InSight(q)' = InSight(q)
    BY <2>1 DEF InSight
  <2>3. QED
    BY <2>1, <2>2, QuietLeader, ChildrenUntouched DEF workerVars
<1>8. LeaderPart'
  BY <1>2, <1>3, <1>4, <1>5, <1>6, <1>7 DEF Next
<1>9. QED
  BY <1>1, <1>8 DEF LeaderInv, LeaderPart

\* With leader election on the whole argument holds: one leader at most, a copy whose
\* update would be accepted is current, the finalizer holds the application while its
\* children are written, and once the status says Ready nobody will act on an older
\* spec again.
THEOREM LeaderArgumentHolds ==
  ASSUME LeaderElection
  PROVE  Spec => []LeaderInv
<1>1. Init => LeaderInv
  BY InitLeader
<1>2. LeaderInv /\ [Next]_vars => LeaderInv'
  BY NextLeader
<1>3. QED
  BY <1>1, <1>2, PTL DEF Spec

\* With leader election on, a status that says Ready at the current generation
\* is true of every child that nobody else has changed, whatever the specs, the
\* faults of the API server and the crashes of the operator.
THEOREM ReadyIsTruthful ==
  ASSUME LeaderElection
  PROVE  Spec => []ReadyMeansApplied
<1>1. LeaderInv => ReadyMeansApplied
  BY DEF LeaderInv
<1>2. Spec => []LeaderInv
  BY LeaderArgumentHolds
<1>3. QED
  BY <1>1, <1>2, PTL

\* With leader election on, every request for a child is sent while the
\* application it is sent for exists and holds our finalizer: the finalizer
\* that handleDeletion removes last orders the deletion after the children's
\* requests, although the worker reads the application from a stale cache.
THEOREM FinalizerHolds ==
  ASSUME LeaderElection
  PROVE  Spec => []FinalizerProtects
<1>1. LeaderInv => FinalizerProtects
  BY DEF LeaderInv
<1>2. Spec => []LeaderInv
  BY LeaderArgumentHolds
<1>3. QED
  BY <1>1, <1>2, PTL
=============================================================================
