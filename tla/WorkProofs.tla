----------------------------- MODULE WorkProofs -----------------------------
(***************************************************************************)
(* Proofs that WorkInv is inductive, leader election or not, and of what   *)
(* follows from it: no work is lost and transition times are stable.       *)
(***************************************************************************)
EXTENDS ReconcilerProofs, ReconcilerRefinement

LEMMA AppendIsSomething ==
  ASSUME NEW S, NEW s \in Seq(S), NEW e \in S
  PROVE  Append(s, e) # <<>>
<1>1. Len(Append(s, e)) = Len(s) + 1 /\ Len(s) \in Nat /\ Append(s, e) \in Seq(S)
  OBVIOUS
<1>2. QED
  BY <1>1, EmptySeq

------------------------------------------------------------------------------
(* Bystanders: what a step does to the replicas that do not take it          *)

\* Nothing happens to q but that it may learn of a new version of the application.
Bystander(q) ==
  /\ running'[q] = running[q] /\ cache'[q] = cache[q]
  /\ queued'[q] = queued[q] /\ retry'[q] = retry[q]
  /\ pc'[q] = pc[q] /\ local'[q] = local[q]
  /\ fresh'[q] => fresh[q] /\ app' = app
  /\ Sees(q)

ReplicaStep(r) ==
  \/ Start(r) \/ Crash(r)
  \/ Inform(r) \/ RetryFires(r) \/ Resync(r)
  \/ Fetch(r) \/ Work(r)

LEMMA EnvironmentBystanders ==
  ASSUME EnvironmentStep, NEW q \in Replicas
  PROVE  Bystander(q)
BY DEF EnvironmentStep, Observe, Bystander, Sees, queueVars

\* The last step of a worker, which may write the application.
LEMMA ReturnBystanders ==
  ASSUME LockInv, NEW r \in Replicas, NEW again \in BOOLEAN, Return(r, again), Observe,
         UNCHANGED <<running, cache, queued>>, NEW q \in Replicas \ {r}
  PROVE  Bystander(q)
<1>1. pc'[q] = pc[q] /\ local'[q] = local[q] /\ retry'[q] = retry[q]
  BY DEF Return, LockInv, TypeOK
<1>2. (fresh'[q] => fresh[q] /\ app' = app) /\ Sees(q)
  BY DEF Observe, Sees
<1>3. QED
  BY <1>1, <1>2 DEF Bystander

LEMMA WriteReturns ==
  ASSUME NEW r \in Replicas, AddFinalizer(r) \/ RemoveFinalizer(r) \/ StatusUpdate(r)
  PROVE  /\ \E again \in BOOLEAN : Return(r, again)
         /\ Observe /\ pc[r] # "idle"
         /\ UNCHANGED <<running, cache, kcache, queued, uids, kids, touched, now>>
BY DEF AddFinalizer, RemoveFinalizer, StatusUpdate, ComesBack

LEMMA ReplicaBystanders ==
  ASSUME LockInv, NEW r \in Replicas, ReplicaStep(r), NEW q \in Replicas \ {r}
  PROVE  Bystander(q)
<1>1. TypeOK
  BY DEF LockInv
<1>2. ASSUME app' = app, watch'[q] = watch[q], fresh'[q] = fresh[q],
             running'[q] = running[q], cache'[q] = cache[q],
             queued'[q] = queued[q], retry'[q] = retry[q],
             pc'[q] = pc[q], local'[q] = local[q]
      PROVE  Bystander(q)
  BY <1>2 DEF Bystander, Sees
<1>3. CASE Start(r)
  BY <1>1, <1>2, <1>3 DEF Start, TypeOK, clusterVars, workerVars
<1>4. CASE Crash(r)
  BY <1>1, <1>2, <1>4 DEF Crash, TypeOK
<1>5. CASE Inform(r)
  <2>1. CASE DeliverApp(r)
    BY <1>1, <1>2, <2>1 DEF DeliverApp, Enqueue, TypeOK, clusterVars, workerVars
  <2>2. ASSUME NEW k \in Kinds, SyncChild(r, k) PROVE Bystander(q)
    BY <1>1, <1>2, <2>2 DEF SyncChild, Enqueue, TypeOK, clusterVars, workerVars
  <2>3. QED
    BY <1>5, <2>1, <2>2 DEF Inform
<1>6. CASE RetryFires(r) \/ Resync(r)
  BY <1>1, <1>2, <1>6 DEF RetryFires, Resync, Enqueue, TypeOK, clusterVars, informerVars,
                          workerVars
<1>7. CASE Fetch(r)
  <2>1. queued' = [queued EXCEPT ![r] = FALSE]
    BY <1>7 DEF Fetch, FetchNothing, FetchFails, FetchDeleting, FetchWithoutFinalizer,
                FetchAndBegin, Dequeue
  <2>2. UNCHANGED <<app, informerVars>>
    BY <1>7 DEF Fetch, FetchNothing, FetchFails, FetchDeleting, FetchWithoutFinalizer,
                FetchAndBegin, GoTo, clusterVars
  <2>3. pc'[q] = pc[q] /\ local'[q] = local[q] /\ fresh'[q] = fresh[q]
    BY <1>1, <1>7 DEF Fetch, FetchNothing, FetchFails, FetchDeleting, TypeOK,
                      FetchWithoutFinalizer, FetchAndBegin, GoTo, workerVars
  <2>4. retry'[q] = retry[q]
    BY <1>1, <1>7 DEF Fetch, FetchNothing, FetchFails, FetchDeleting, TypeOK,
                      FetchWithoutFinalizer, FetchAndBegin, GoTo
  <2>5. QED
    BY <1>1, <1>2, <2>1, <2>2, <2>3, <2>4 DEF TypeOK, informerVars
<1>8. CASE AddFinalizer(r) \/ RemoveFinalizer(r) \/ StatusUpdate(r)
  <2>1. PICK again \in BOOLEAN : Return(r, again)
    BY <1>8, WriteReturns
  <2>2. QED
    BY <1>8, <2>1, WriteReturns, ReturnBystanders
<1>9. CASE BuildPanic(r)
  BY <1>1, <1>2, <1>9 DEF BuildPanic, Return, TypeOK, clusterVars, informerVars
<1>10. CASE ChildRequest(r)
  <2>1. UNCHANGED <<app, informerVars, queueVars, local, fresh>> /\ pc[r] \in ChildSteps
    BY <1>10, ChildRequestShape DEF ChildFrame
  <2>2. PICK step \in Steps \ {"idle"} : pc' = [pc EXCEPT ![r] = step]
    BY <1>10, <2>1, ChildRequestShape, ChildControl
  <2>3. QED
    BY <1>1, <1>2, <2>1, <2>2 DEF TypeOK, informerVars, queueVars
<1>11. QED
  BY <1>3, <1>4, <1>5, <1>6, <1>7, <1>8, <1>9, <1>10 DEF ReplicaStep, Work, ChildRequest

\* What WorkInv says of q survives a step q does not take.
LEMMA BystanderKeeps ==
  ASSUME LockInv, NEW q \in Replicas, Bystander(q), app' \in MaybeApp,
         HandsInv(q), QuietInv(q), TimesInv(q)
  PROVE  /\ HandsInv(q)' /\ QuietInv(q)' /\ TimesInv(q)'
         /\ KnownTo(q)' \subseteq KnownTo(q) \cup {app'}
<1>1. HandsInv(q)'
  BY DEF HandsInv, Bystander
<1>2. watch[q] \in Seq(MaybeApp)
  BY DEF LockInv, TypeOK
<1>3. QuietInv(q)'
  <2>1. SUFFICES ASSUME Quiet(q)', app' # NoApp
                 PROVE  ReportsReady(app)'
    BY DEF QuietInv, ReportsReady, UpToDate
  <2>2. running[q] /\ watch'[q] = <<>>
    BY <2>1 DEF Quiet, Bystander
  <2>3. app' = app /\ watch'[q] = watch[q]
    BY <1>2, <2>2, AppendIsSomething DEF Bystander, Sees
  <2>4. Quiet(q)
    BY <2>1, <2>3 DEF Quiet, Bystander
  <2>5. ReportsReady(app)
    BY <2>1, <2>3, <2>4 DEF QuietInv
  <2>6. QED
    BY <2>3, <2>5 DEF ReportsReady, UpToDate
<1>4. TimesInv(q)'
  BY DEF TimesInv, Bystander, SameEntry
<1>5. KnownTo(q)' \subseteq KnownTo(q) \cup {app'}
  BY <1>2, InSightAfterStep DEF KnownTo, Bystander
<1>6. QED
  BY <1>1, <1>3, <1>4, <1>5

------------------------------------------------------------------------------
(* The replica that takes the step                                           *)

\* What a replica knows for itself.
SelfInv(r) == HandsInv(r) /\ QuietInv(r) /\ TimesInv(r)

\* A worker without a current copy has nothing to be held to.
LEMMA NotFreshNoTimes ==
  ASSUME NEW r \in Replicas, ~fresh'[r]
  PROVE  TimesInv(r)'
BY DEF TimesInv

LEMMA NotQuietNoDebt ==
  ASSUME NEW r \in Replicas, ~Quiet(r)'
  PROVE  QuietInv(r)'
BY DEF QuietInv

\* The same worker, with the same copy of the same application.
LEMMA SameCopySameTimes ==
  ASSUME NEW r \in Replicas, TimesInv(r),
         fresh'[r] => fresh[r] /\ app' = app /\ local'[r] = local[r]
  PROVE  TimesInv(r)'
BY DEF TimesInv, SameEntry

LEMMA SameQuietSameDebt ==
  ASSUME NEW r \in Replicas, QuietInv(r), app' = app, Quiet(r)' => Quiet(r)
  PROVE  QuietInv(r)'
BY DEF QuietInv, ReportsReady, UpToDate

\* Start, crash, informers and timers.
LEMMA MachinerySelf ==
  ASSUME LockInv, NEW r \in Replicas, SelfInv(r),
         Start(r) \/ Crash(r) \/ Inform(r) \/ RetryFires(r) \/ Resync(r)
  PROVE  SelfInv(r)'
<1>1. TypeOK
  BY DEF LockInv
<1>2. CASE Start(r)
  <2>1. /\ ~running[r] /\ running'[r] /\ app' = app
        /\ (queued'[r] <=> app # NoApp \/ OwnedDeployment(kids))
        /\ UNCHANGED <<retry, pc, local, fresh>>
    BY <1>1, <1>2 DEF Start, TypeOK, clusterVars, workerVars
  <2>2. HandsInv(r)'
    BY <2>1 DEF HandsInv, SelfInv
  <2>3. QuietInv(r)'
    BY <2>1 DEF QuietInv, Quiet
  <2>4. QED
    BY <2>1, <2>2, <2>3, SameCopySameTimes DEF SelfInv
<1>3. CASE Crash(r)
  <2>1. /\ ~running'[r] /\ cache'[r] = NoApp /\ ~queued'[r] /\ ~retry'[r]
        /\ pc'[r] = "idle" /\ local'[r] = NoApp /\ ~fresh'[r]
    BY <1>1, <1>3 DEF Crash, TypeOK
  <2>2. HandsInv(r)'
    BY <2>1 DEF HandsInv, ChildSteps
  <2>3. QED
    BY <2>1, <2>2, NotFreshNoTimes, NotQuietNoDebt DEF SelfInv, Quiet
<1>4. CASE DeliverApp(r) \/ Resync(r)
  <2>1. /\ running[r] /\ queued'[r]
        /\ UNCHANGED <<app, running, pc, local, fresh>>
    BY <1>1, <1>4 DEF DeliverApp, Resync, Enqueue, LockInv, WorkerInv, TypeOK,
                      clusterVars, informerVars, workerVars
  <2>2. HandsInv(r)'
    BY <2>1 DEF HandsInv, SelfInv
  <2>3. QED
    BY <2>1, <2>2, SameCopySameTimes, NotQuietNoDebt DEF SelfInv, Quiet
<1>5. CASE RetryFires(r)
  <2>1. /\ running[r] /\ queued'[r]
        /\ UNCHANGED <<app, running, pc, local, fresh>>
    BY <1>1, <1>5 DEF RetryFires, HandsInv, SelfInv, TypeOK, clusterVars, informerVars,
                      workerVars
  <2>2. HandsInv(r)'
    BY <2>1 DEF HandsInv, SelfInv
  <2>3. QED
    BY <2>1, <2>2, SameCopySameTimes, NotQuietNoDebt DEF SelfInv, Quiet
<1>6. CASE \E k \in Kinds : SyncChild(r, k)
  <2>1. /\ running[r] /\ UNCHANGED <<app, running, watch, pc, local, fresh>>
        /\ queued[r] => queued'[r]
        /\ retry'[r] = retry[r] \/ queued'[r]
    BY <1>1, <1>6 DEF SyncChild, Enqueue, TypeOK, clusterVars, workerVars
  <2>2. HandsInv(r)'
    BY <2>1 DEF HandsInv, SelfInv
  <2>3. QED
    BY <2>1, <2>2, SameCopySameTimes, SameQuietSameDebt DEF SelfInv, Quiet
<1>7. QED
  BY <1>2, <1>3, <1>4, <1>5, <1>6 DEF Inform

\* A key is dropped only for an application that is not there, or that is about to
\* go: one that is marked for deletion without a finalizer does not exist.
LEMMA DropSelf ==
  ASSUME LockInv, HeldInv, NEW r \in Replicas, SelfInv(r), FetchNothing(r) \/ FetchFails(r)
  PROVE  SelfInv(r)'
<1>1. /\ running[r] /\ UNCHANGED <<app, running, watch, cache, pc, local, fresh>>
      /\ pc[r] = "idle"
  BY DEF FetchNothing, FetchFails, Dequeue, clusterVars, informerVars, workerVars
<1>2. HandsInv(r)'
  BY <1>1 DEF HandsInv, SelfInv
<1>3. QuietInv(r)'
  <2>1. CASE FetchFails(r)
    BY <2>1, NotQuietNoDebt DEF FetchFails, Quiet, LockInv, TypeOK
  <2>2. CASE FetchNothing(r)
    <3>1. watch[r] = <<>> => cache[r] = app
      BY <1>1 DEF LockInv, StreamInv
    <3>2. watch[r] = <<>> => app = NoApp
      BY <2>2, <3>1 DEF FetchNothing, HeldInv
    <3>3. QED
      BY <1>1, <3>2 DEF QuietInv, Quiet
  <2>3. QED
    BY <2>1, <2>2
<1>4. QED
  BY <1>1, <1>2, <1>3, SameCopySameTimes DEF SelfInv

\* What the reconcile sets at its start.
LEMMA StartConditionsKeep ==
  ASSUME NEW conds \in ConditionLists, now \in Nat
  PROVE  LET c == StartConditions(conds)
         IN  /\ c["Ready"] = conds["Ready"] /\ c["Degraded"] = conds["Degraded"]
             /\ SameEntry(conds["ConfigurationValid"], c["ConfigurationValid"]) =>
                  conds["ConfigurationValid"] = c["ConfigurationValid"]
<1> DEFINE c1 == SetCondition(conds, "Progressing", TRUE, "Reconciling", NoMessage, now)
           c2 == SetCondition(c1, "ConfigurationValid", TRUE, "Valid", NoMessage, now)
<1>1. /\ {"Progressing", "ConfigurationValid", "Ready", "Degraded"} \subseteq ConditionTypes
      /\ {"Reconciling", "Valid"} \subseteq ConditionReasons
      /\ NoMessage \in Messages
  BY DEF ConditionTypes, ConditionReasons, NoMessage, Messages
<1>2. c1 \in ConditionLists /\ OneEntrySet(conds, c1, "Progressing")
  BY <1>1, SetConditionSets, SetConditionKeeps
<1> HIDE DEF c1
<1>3. OneEntrySet(c1, c2, "ConfigurationValid")
  BY <1>1, <1>2, SetConditionKeeps
<1> HIDE DEF c2
<1>4. StartConditions(conds) = c2
  BY DEF StartConditions, c1, c2
<1>5. QED
  BY <1>1, <1>2, <1>3, <1>4 DEF OneEntrySet

\* A worker takes the key with a copy of the cached application in its hands.
LEMMA GoToSelf ==
  ASSUME LockInv, NEW r \in Replicas, SelfInv(r),
         FetchDeleting(r) \/ FetchWithoutFinalizer(r) \/ FetchAndBegin(r)
  PROVE  SelfInv(r)'
<1>1. /\ running[r] /\ UNCHANGED <<app, running, watch, cache>>
      /\ cache[r] \in Apps
      /\ watch[r] = <<>> => cache[r] = app
  BY DEF FetchDeleting, FetchWithoutFinalizer, FetchAndBegin, Dequeue, GoTo, LockInv,
         StreamInv, TypeOK, MaybeApp, clusterVars, informerVars
<1>2. fresh'[r] => watch[r] = <<>>
  BY DEF FetchDeleting, FetchWithoutFinalizer, FetchAndBegin, GoTo, LockInv, TypeOK
<1>3. CASE FetchDeleting(r) \/ FetchWithoutFinalizer(r)
  <2>1. /\ local'[r] = cache[r]
        /\ \/ pc'[r] = "removeFinalizer"
           \/ pc'[r] = "addFinalizer" /\ ~cache[r].deleting /\ ~cache[r].finalizer
    BY <1>3 DEF FetchDeleting, FetchWithoutFinalizer, GoTo, LockInv, TypeOK
  <2>2. HandsInv(r)'
    BY <1>1, <2>1 DEF HandsInv, ChildSteps
  <2>3. TimesInv(r)'
    BY <1>1, <1>2, <2>1 DEF TimesInv
  <2>4. ~Quiet(r)'
    BY <2>1 DEF Quiet
  <2>5. QED
    BY <2>2, <2>3, <2>4, NotQuietNoDebt DEF SelfInv
<1>4. CASE FetchAndBegin(r)
  <2> DEFINE conds == cache[r].status.conditions
             copy  == [cache[r] EXCEPT !.status.conditions = StartConditions(@)]
  <2>1. /\ local'[r] = copy /\ pc'[r] \in ChildSteps
        /\ ~cache[r].deleting /\ cache[r].finalizer
    BY <1>4 DEF FetchAndBegin, GoTo, LockInv, TypeOK, FirstStep, ChildSteps
  <2>2. cache[r].status \in Statuses /\ conds \in ConditionLists /\ now \in Nat
    BY <1>1 DEF Apps, Statuses, LockInv, TypeOK
  <2>3. /\ copy.deleting = cache[r].deleting /\ copy.finalizer = cache[r].finalizer
        /\ copy.status.conditions = StartConditions(conds)
    BY <1>1, <2>2 DEF Apps, Statuses
  <2> HIDE DEF copy
  <2>4. HandsInv(r)'
    BY <1>1, <2>1, <2>3 DEF HandsInv, ChildSteps
  <2>5. TimesInv(r)'
    BY <1>1, <1>2, <2>1, <2>2, <2>3, StartConditionsKeep DEF TimesInv
  <2>6. ~Quiet(r)'
    BY <2>1 DEF Quiet, ChildSteps
  <2>7. QED
    BY <2>4, <2>5, <2>6, NotQuietNoDebt DEF SelfInv
<1>5. QED
  BY <1>3, <1>4

\* A worker between two children.
LEMMA ChildRequestSelf ==
  ASSUME LockInv, NEW r \in Replicas, SelfInv(r), ChildRequest(r)
  PROVE  SelfInv(r)'
<1>1. UNCHANGED <<app, informerVars, queueVars, local, fresh>> /\ pc[r] \in ChildSteps
  BY ChildRequestShape DEF ChildFrame
<1>2. pc'[r] \in ChildSteps \cup {"status"}
  <2>1. CASE Looked(r)
    BY <2>1 DEF Looked, LockInv, TypeOK, ChildSteps
  <2>2. CASE ChildDone(r)
    BY <2>2 DEF ChildDone, FirstStep, LockInv, TypeOK, ChildSteps
  <2>3. CASE \E reason \in Reasons : ChildFailed(r, reason)
    BY <2>3 DEF ChildFailed, LockInv, TypeOK, ChildSteps
  <2>4. QED
    BY <2>1, <2>2, <2>3, ChildRequestShape
<1>3. HandsInv(r)'
  BY <1>1, <1>2 DEF HandsInv, SelfInv, ChildSteps, informerVars, queueVars
<1>4. ~Quiet(r)'
  BY <1>2 DEF Quiet, ChildSteps
<1>5. QED
  BY <1>1, <1>3, <1>4, NotQuietNoDebt, SameCopySameTimes DEF SelfInv

\* The worker of r is done; a result that asks for another run leaves a mark.
LEMMA ReturnSelf ==
  ASSUME LockInv, NEW r \in Replicas, NEW again \in BOOLEAN, Return(r, again),
         pc[r] # "idle", ~fresh'[r], UNCHANGED <<running, cache, queued>>
  PROVE  /\ running'[r] /\ HandsInv(r)' /\ TimesInv(r)'
         /\ Quiet(r)' => ~again /\ watch'[r] = <<>>
<1>1. running[r] /\ running' = running
  BY DEF LockInv, WorkerInv
<1>2. pc'[r] = "idle" /\ local'[r] = NoApp
  BY DEF Return, LockInv, TypeOK
<1>3. HandsInv(r)'
  BY <1>1, <1>2 DEF HandsInv, ChildSteps
<1>4. Quiet(r)' => ~again
  BY DEF Quiet, Return, LockInv, TypeOK
<1>5. QED
  BY <1>1, <1>3, <1>4, NotFreshNoTimes DEF Quiet

\* Nothing that has just been written is out of sight: a worker that returns without
\* asking for another run has written the application, and the write is still on its
\* way, or has nothing left to do.
LEMMA LastStepSelf ==
  ASSUME LockInv, NEW r \in Replicas, SelfInv(r),
         AddFinalizer(r) \/ RemoveFinalizer(r) \/ StatusUpdate(r) \/ BuildPanic(r)
  PROVE  SelfInv(r)'
<1>1. CASE BuildPanic(r)
  <2>1. /\ Return(r, TRUE) /\ pc[r] # "idle" /\ ~fresh'[r]
        /\ UNCHANGED <<running, cache, queued>>
    BY <1>1 DEF BuildPanic, informerVars, LockInv, TypeOK
  <2>2. HandsInv(r)' /\ TimesInv(r)' /\ ~Quiet(r)'
    BY <2>1, ReturnSelf
  <2>3. QED
    BY <2>2, NotQuietNoDebt DEF SelfInv
<1>2. CASE AddFinalizer(r) \/ RemoveFinalizer(r) \/ StatusUpdate(r)
  <2>1. PICK again \in BOOLEAN : Return(r, again)
    BY <1>2, WriteReturns
  <2>2. Observe /\ pc[r] # "idle" /\ UNCHANGED <<running, cache, queued>>
    BY <1>2, WriteReturns
  <2>3. pc'[r] = "idle" /\ ~fresh'[r]
    BY <2>1, <2>2, ReturnTypes DEF Observe
  <2>4. running'[r] /\ HandsInv(r)' /\ TimesInv(r)'
    BY <2>1, <2>2, <2>3, ReturnSelf
  <2>5. ASSUME Quiet(r)', Return(r, TRUE)
        PROVE  FALSE
    BY <2>2, <2>3, <2>5, ReturnSelf
  <2>6. QuietInv(r)'
    <3>1. SUFFICES ASSUME Quiet(r)', app' # NoApp
                   PROVE  ReportsReady(app)'
      BY DEF QuietInv, ReportsReady, UpToDate
    <3>2. app' \in MaybeApp /\ watch[r] \in Seq(MaybeApp)
      BY <1>2, FinalizerLock, StatusLock DEF LockInv, TypeOK
    <3>3. app' = app
      BY <2>2, <2>4, <3>1, <3>2, AppendIsSomething DEF Quiet, Observe
    <3>4. CASE AddFinalizer(r)
      <4>1. Accepted(r) /\ app' = [app EXCEPT !.finalizer = TRUE] /\ pc[r] = "addFinalizer"
        BY <2>5, <3>1, <3>4 DEF AddFinalizer
      <4>2. ~local[r].finalizer
        BY <4>1 DEF SelfInv, HandsInv
      <4>3. app \in Apps /\ ~app.finalizer
        BY <4>1, <4>2 DEF Accepted, LockInv, FreshInv, SameObject, TypeOK, MaybeApp
      <4>4. QED
        BY <3>3, <4>1, <4>3 DEF Apps
    <3>5. CASE RemoveFinalizer(r)
      BY <2>5, <3>1, <3>5 DEF RemoveFinalizer
    <3>6. CASE StatusUpdate(r)
      <4>1. /\ Accepted(r) /\ app' = [app EXCEPT !.status = FinalStatus(r)]
            /\ Return(r, ComesBack(r)) /\ pc[r] = "status"
        BY <2>5, <3>1, <3>6 DEF StatusUpdate
      <4>2. ~ComesBack(r)
        BY <2>5, <3>1, <4>1 DEF ComesBack
      <4>3. QED
        BY <4>1, <4>2, StatusWritten DEF Accepted, ReportsReady, UpToDate
    <3>7. QED
      BY <1>2, <3>4, <3>5, <3>6
  <2>7. QED
    BY <2>4, <2>6 DEF SelfInv
<1>3. QED
  BY <1>1, <1>2

------------------------------------------------------------------------------
(* What is known of the application                                          *)

\* The step makes a copy of a version that was known before, or hands on the version
\* that is stored now.
Descends(v, S) ==
  \/ v \in S \cup {app', NoApp}
  \/ \E w \in S : w # NoApp /\ w.uid = v.uid /\ w.spec = v.spec

LEMMA KnownDescends ==
  ASSUME LockInv, NEW r \in Replicas, ReplicaStep(r), app' \in MaybeApp,
         NEW v \in KnownTo(r)'
  PROVE  Descends(v, KnownTo(r))
<1>1. TypeOK
  BY DEF LockInv
<1>2. ASSUME InSight(r)' \subseteq InSight(r) \cup {app', NoApp},
             local'[r] = local[r] \/ local'[r] = NoApp
      PROVE  Descends(v, KnownTo(r))
  BY <1>2 DEF Descends, KnownTo
<1>3. CASE Start(r)
  <2>1. watch[r] = <<>> /\ watch'[r] = <<>> /\ cache'[r] = app /\ app' = app /\ local' = local
    BY <1>1, <1>3 DEF Start, TypeOK, LockInv, WorkerInv, clusterVars, workerVars
  <2>2. InSight(r)' \subseteq {app'}
    <3>1. Len(watch'[r]) = 0
      BY <2>1, EmptySeq
    <3>2. QED
      BY <2>1, <3>1 DEF InSight
  <2>3. QED
    BY <1>2, <2>1, <2>2
<1>4. CASE Crash(r)
  <2>1. watch'[r] = <<>> /\ cache'[r] = NoApp /\ local'[r] = NoApp
    BY <1>1, <1>4 DEF Crash, TypeOK
  <2>2. InSight(r)' \subseteq {NoApp}
    <3>1. Len(watch'[r]) = 0
      BY <2>1, EmptySeq
    <3>2. QED
      BY <2>1, <3>1 DEF InSight
  <2>3. QED
    BY <1>2, <2>1, <2>2
<1>5. CASE DeliverApp(r)
  BY <1>1, <1>2, <1>5, InSightAfterDelivery DEF DeliverApp, workerVars
<1>6. ASSUME UNCHANGED <<cache, watch, local>>
      PROVE  Descends(v, KnownTo(r))
  BY <1>2, <1>6 DEF InSight
<1>7. CASE \/ \E k \in Kinds : SyncChild(r, k)
           \/ RetryFires(r) \/ Resync(r) \/ FetchNothing(r) \/ FetchFails(r)
  BY <1>6, <1>7 DEF SyncChild, RetryFires, Resync, FetchNothing, FetchFails,
                    informerVars, workerVars
<1>8. CASE FetchDeleting(r) \/ FetchWithoutFinalizer(r)
  <2>1. UNCHANGED <<cache, watch>> /\ local'[r] = cache[r]
    BY <1>1, <1>8 DEF FetchDeleting, FetchWithoutFinalizer, GoTo, TypeOK, informerVars
  <2>2. KnownTo(r)' \subseteq KnownTo(r)
    BY <2>1 DEF KnownTo, InSight
  <2>3. QED
    BY <2>2 DEF Descends
<1>9. CASE FetchAndBegin(r)
  <2> DEFINE copy == [cache[r] EXCEPT !.status.conditions = StartConditions(@)]
  <2>1. /\ UNCHANGED <<cache, watch>> /\ local'[r] = copy
        /\ cache[r] # NoApp /\ cache[r] \in Apps
    BY <1>1, <1>9 DEF FetchAndBegin, GoTo, TypeOK, MaybeApp, informerVars
  <2>2. SameObject(copy, cache[r])
    BY <1>1, <2>1, CopyType
  <2> HIDE DEF copy
  <2>3. InSight(r)' = InSight(r) /\ cache[r] \in InSight(r)
    BY <2>1 DEF InSight
  <2>4. QED
    BY <2>1, <2>2, <2>3 DEF Descends, KnownTo, SameObject
<1>10. CASE AddFinalizer(r) \/ RemoveFinalizer(r) \/ StatusUpdate(r)
  <2>1. local'[r] = NoApp
    BY <1>1, <1>10, WriteReturns DEF Return, TypeOK
  <2>2. InSight(r)' \subseteq InSight(r) \cup {app'}
    BY <1>10, WriteReturns, InSightAfterWrite
  <2>3. QED
    BY <1>2, <2>1, <2>2
<1>11. CASE BuildPanic(r)
  <2>1. UNCHANGED <<cache, watch>> /\ local'[r] = NoApp
    BY <1>1, <1>11 DEF BuildPanic, Return, TypeOK, informerVars
  <2>2. QED
    BY <1>2, <2>1 DEF InSight
<1>12. CASE ChildRequest(r)
  BY <1>6, <1>12, ChildRequestShape DEF ChildFrame, informerVars
<1>13. QED
  BY <1>3, <1>4, <1>5, <1>7, <1>8, <1>9, <1>10, <1>11, <1>12
     DEF ReplicaStep, Inform, Fetch, Work, ChildRequest

\* Whose step it is.
LEMMA NextCases ==
  ASSUME [Next]_vars
  PROVE  \/ EnvironmentStep
         \/ \E r \in Replicas : ReplicaStep(r)
         \/ UNCHANGED vars
BY DEF Next, ReplicaStep

\* For every replica a step is its own, or one it looks on at.
LEMMA OwnOrBystander ==
  ASSUME LockInv, [Next]_vars, NEW q \in Replicas
  PROVE  ReplicaStep(q) \/ Bystander(q)
<1>1. CASE UNCHANGED vars
  BY <1>1 DEF vars, clusterVars, informerVars, queueVars, workerVars, Bystander, Sees
<1>2. QED
  BY <1>1, NextCases, EnvironmentBystanders, ReplicaBystanders

LEMMA SelfNext ==
  ASSUME LockInv, HeldInv, [Next]_vars, app' \in MaybeApp,
         NEW q \in Replicas, SelfInv(q)
  PROVE  SelfInv(q)'
<1>1. CASE Bystander(q)
  BY <1>1, BystanderKeeps DEF SelfInv
<1>2. CASE ReplicaStep(q)
  BY <1>2, MachinerySelf, DropSelf, GoToSelf, LastStepSelf, ChildRequestSelf
     DEF ReplicaStep, Fetch, Work, ChildRequest
<1>3. QED
  BY <1>1, <1>2, OwnOrBystander

\* Nobody knows anything but what was known before and what is stored now.
LEMMA KnownNext ==
  ASSUME LockInv, [Next]_vars, app' \in MaybeApp, NEW q \in Replicas,
         NEW v \in KnownTo(q)'
  PROVE  Descends(v, KnownTo(q))
<1>1. CASE Bystander(q)
  <2>1. watch[q] \in Seq(MaybeApp)
    BY DEF LockInv, TypeOK
  <2>2. KnownTo(q)' \subseteq KnownTo(q) \cup {app'}
    BY <1>1, <2>1, InSightAfterStep DEF KnownTo, Bystander
  <2>3. QED
    BY <2>2 DEF Descends
<1>2. CASE ReplicaStep(q)
  BY <1>2, KnownDescends
<1>3. QED
  BY <1>1, <1>2, OwnOrBystander

\* What a step makes of the application: an incarnation of its own number, the same
\* incarnation, or nothing; the mark of deletion is put on a held application only,
\* and the hold ends with the application.
LEMMA AppNext ==
  ASSUME LockInv, [Next]_vars
  PROVE  \/ UserCreate
         \/ /\ uids' = uids
            /\ \/ app' = NoApp \/ app' = app
               \/ /\ app # NoApp /\ app' # NoApp /\ app'.uid = app.uid
                  /\ app'.deleting => app'.finalizer \/ (app.deleting /\ ~app.finalizer)
<1>1. UserCreate \/ uids' = uids
  <2>1. CASE EnvironmentStep
    BY <2>1 DEF EnvironmentStep, ClusterNext, UserEdit, UserDelete, UserDrift, UserForeign,
                GarbageCollect, PodStarts, RolloutFinishes, PodFails, Tick
  <2>2. ASSUME NEW r \in Replicas, ReplicaStep(r)
        PROVE  uids' = uids
    <3>1. CASE Start(r) \/ Crash(r) \/ Inform(r) \/ RetryFires(r) \/ Resync(r)
      BY <3>1 DEF Start, Crash, Inform, DeliverApp, SyncChild, RetryFires, Resync, clusterVars
    <3>2. CASE Fetch(r)
      BY <3>2 DEF Fetch, FetchNothing, FetchFails, FetchDeleting, FetchWithoutFinalizer,
                  FetchAndBegin, GoTo, clusterVars
    <3>3. CASE AddFinalizer(r) \/ RemoveFinalizer(r) \/ StatusUpdate(r)
      BY <3>3, WriteReturns
    <3>4. CASE BuildPanic(r)
      BY <3>4 DEF BuildPanic, clusterVars
    <3>5. CASE ChildRequest(r)
      BY <3>5, ChildRequestShape DEF ChildFrame
    <3>6. QED
      BY <2>2, <3>1, <3>2, <3>3, <3>4, <3>5 DEF ReplicaStep, Work, ChildRequest
  <2>3. CASE UNCHANGED vars
    BY <2>3 DEF vars, clusterVars
  <2>4. QED
    BY <2>1, <2>2, <2>3, NextCases
<1>2. SUFFICES ASSUME ~UserCreate, app' # app, app' # NoApp
               PROVE  /\ app # NoApp /\ app'.uid = app.uid
                      /\ app'.deleting => app'.finalizer \/ (app.deleting /\ ~app.finalizer)
  BY <1>1
<1>3. CASE UserEdit
  <2>1. app \in Apps /\ app # NoApp
    BY <1>3 DEF UserEdit, LockInv, TypeOK, MaybeApp
  <2>2. PICK spec \in Specs : app' = [app EXCEPT !.spec = spec, !.generation = @ + 1]
    BY <1>3 DEF UserEdit
  <2>3. /\ app'.uid = app.uid /\ app'.deleting = app.deleting
        /\ app'.finalizer = app.finalizer
    BY <2>1, <2>2 DEF Apps
  <2>4. app.finalizer \in BOOLEAN /\ app.deleting \in BOOLEAN
    BY <2>1 DEF Apps
  <2>5. QED
    BY <2>1, <2>3, <2>4
<1>4. CASE UserDelete
  <2>1. app \in Apps /\ app # NoApp /\ app.finalizer
    BY <1>2, <1>4 DEF UserDelete, LockInv, TypeOK, MaybeApp
  <2>2. app' = [app EXCEPT !.deleting = TRUE, !.generation = @ + 1]
    BY <1>2, <1>4 DEF UserDelete
  <2>3. app'.uid = app.uid /\ app'.finalizer = app.finalizer
    BY <2>1, <2>2 DEF Apps
  <2>4. QED
    BY <2>1, <2>3
<1>5. ASSUME NEW r \in Replicas, AddFinalizer(r)
      PROVE  app # NoApp /\ app'.uid = app.uid /\ app'.finalizer
  <2>1. fresh[r] /\ app' = [app EXCEPT !.finalizer = TRUE]
    BY <1>2, <1>5 DEF AddFinalizer, Accepted
  <2>2. app \in Apps /\ app # NoApp
    BY <2>1 DEF LockInv, FreshInv, TypeOK, MaybeApp
  <2>3. QED
    BY <2>1, <2>2 DEF Apps
<1>6. ASSUME NEW r \in Replicas, RemoveFinalizer(r)
      PROVE  FALSE
  BY <1>2, <1>6 DEF RemoveFinalizer
<1>7. ASSUME NEW r \in Replicas, StatusUpdate(r)
      PROVE  /\ app # NoApp /\ app'.uid = app.uid
             /\ app'.deleting => app'.finalizer \/ (app.deleting /\ ~app.finalizer)
  <2>1. app \in Apps /\ app # NoApp /\ SameObject(app', app)
    BY <1>2, <1>7, StatusWrites
  <2>2. app.finalizer \in BOOLEAN /\ app.deleting \in BOOLEAN
    BY <2>1 DEF Apps
  <2>3. QED
    BY <2>1, <2>2 DEF SameObject
<1>8. QED
  BY <1>2, <1>3, <1>4, <1>5, <1>6, <1>7, WritersOfApp

LEMMA CreateIsNew ==
  ASSUME LockInv, UserCreate
  PROVE  /\ app = NoApp /\ uids' = uids + 1 /\ app' \in Apps /\ app'.uid = uids'
         /\ ~app'.deleting
<1>1. app = NoApp /\ uids' = uids + 1 /\ uids' \in Nat
  BY DEF UserCreate, LockInv, TypeOK
<1>2. PICK spec \in Specs :
        app' = [uid |-> uids', generation |-> 1, deleting |-> FALSE,
                finalizer |-> FALSE, spec |-> spec, status |-> InitialStatus]
  BY DEF UserCreate
<1>3. QED
  BY <1>1, <1>2, InitialAppType

LEMMA HeldNext ==
  ASSUME LockInv, HeldInv, [Next]_vars
  PROVE  HeldInv'
BY AppNext, CreateIsNew DEF HeldInv

LEMMA UidsNext ==
  ASSUME LockInv, LockInv', UidsInv, [Next]_vars
  PROVE  UidsInv'
<1>1. /\ uids \in Nat /\ uids' \in Nat /\ app \in MaybeApp /\ app' \in MaybeApp
      /\ uids' = uids \/ uids' = uids + 1
  BY AppNext, CreateIsNew DEF LockInv, TypeOK
<1>2. IsPast(app)'
  <2>1. CASE UserCreate
    BY <1>1, <2>1, CreateIsNew DEF IsPast
  <2>2. CASE uids' = uids /\ (app' = NoApp \/ app' = app \/ (app # NoApp /\ app'.uid = app.uid))
    BY <2>2 DEF IsPast, UidsInv
  <2>3. QED
    BY <2>1, <2>2, AppNext
<1>3. ASSUME NEW q \in Replicas, NEW v \in KnownTo(q)'
      PROVE  IsPast(v)'
  <2>1. CASE v \in {app', NoApp}
    BY <1>2, <2>1 DEF IsPast
  <2>2. ASSUME NEW w \in KnownTo(q), v = w \/ (w # NoApp /\ w.uid = v.uid), v # NoApp
        PROVE  v.uid <= uids'
    <3>1. w \in MaybeApp
      BY DEF KnownTo, InSight, LockInv, TypeOK
    <3>2. w # NoApp /\ w.uid = v.uid /\ w.uid \in Nat
      BY <2>2, <3>1 DEF MaybeApp, Apps
    <3>3. w.uid <= uids
      BY <3>2 DEF UidsInv, IsPast
    <3>4. QED
      BY <1>1, <3>2, <3>3
  <2>3. QED
    BY <1>1, <1>3, <2>1, <2>2, KnownNext DEF Descends, IsPast
<1>4. QED
  BY <1>2, <1>3 DEF UidsInv

LEMMA WorkInvParts ==
  WorkInv <=> (\A q \in Replicas : SelfInv(q)) /\ UidsInv /\ HeldInv
BY DEF WorkInv, SelfInv

LEMMA InitWork == Init => WorkInv
<1> SUFFICES ASSUME Init PROVE WorkInv
  OBVIOUS
<1>1. /\ app = NoApp
      /\ \A q \in Replicas : /\ ~running[q] /\ cache[q] = NoApp /\ watch[q] = <<>>
                             /\ ~queued[q] /\ ~retry[q] /\ pc[q] = "idle"
                             /\ local[q] = NoApp /\ ~fresh[q]
  BY DEF Init, ClusterInit
<1>2. \A q \in Replicas : HandsInv(q) /\ QuietInv(q) /\ TimesInv(q)
  BY <1>1 DEF HandsInv, QuietInv, TimesInv, ChildSteps
<1>3. \A q \in Replicas : KnownTo(q) = {NoApp}
  <2>1. Len(<<>>) = 0
    OBVIOUS
  <2>2. QED
    BY <1>1, <2>1 DEF KnownTo, InSight
<1>4. QED
  BY <1>1, <1>2, <1>3 DEF WorkInv, UidsInv, HeldInv, IsPast

LEMMA NextWork == LockInv /\ LockInv' /\ WorkInv /\ [Next]_vars => WorkInv'
<1> SUFFICES ASSUME LockInv, LockInv', WorkInv, [Next]_vars PROVE WorkInv'
  OBVIOUS
<1>1. app' \in MaybeApp
  BY DEF LockInv, TypeOK
<1>2. \A q \in Replicas : SelfInv(q)'
  BY <1>1, WorkInvParts, SelfNext
<1>3. UidsInv' /\ HeldInv'
  BY WorkInvParts, UidsNext, HeldNext
<1>4. QED
  BY <1>2, <1>3 DEF WorkInv, SelfInv

\* Whoever leads: a replica that rests has seen its work done, copies say what their
\* workers do with them, and nothing is known of incarnations still to come.
THEOREM WorkInvariant == Spec => [](LockInv /\ WorkInv)
<1>1. Init => LockInv /\ WorkInv
  BY InitLock, InitWork
<1>2. LockInv /\ WorkInv /\ [Next]_vars => (LockInv /\ WorkInv)'
  BY NextLock, NextWork
<1>3. QED
  BY <1>1, <1>2, PTL DEF Spec

------------------------------------------------------------------------------
(* Nothing is forgotten                                                      *)

\* A running replica with nothing queued, nothing to retry, nothing in hand and no
\* event on its way leaves a Ready application behind, or none, however its requests
\* failed, its events were merged and the replicas took turns: every return of
\* Reconcile that asks for no other run has seen the work done or has changed the
\* application, and the change comes back as an event.
THEOREM NothingIsForgotten == Spec => []NoLostWork
<1>1. WorkInv => NoLostWork
  BY DEF WorkInv, QuietInv, Quiet, NoLostWork, AtRest
<1>2. QED
  BY <1>1, WorkInvariant, PTL

(***************************************************************************)
(* Transition times *)

\* Every write of the application but a status update leaves the status alone.
LEMMA OtherWritesKeepStatus ==
  ASSUME LockInv, [Next]_vars, SameIncarnation, app' # app,
         \A r \in Replicas : ~StatusUpdate(r)
  PROVE  app'.status = app.status
<1>1. app \in Apps /\ app # NoApp /\ app' # NoApp
  BY DEF SameIncarnation, LockInv, TypeOK, MaybeApp
<1>2. ~UserCreate
  BY <1>1 DEF UserCreate
<1>3. CASE UserEdit \/ UserDelete
  BY <1>1, <1>3 DEF UserEdit, UserDelete, Apps
<1>4. ASSUME NEW r \in Replicas, AddFinalizer(r) \/ RemoveFinalizer(r)
      PROVE  app'.status = app.status
  <2>1. app' = [app EXCEPT !.finalizer = TRUE]
    BY <1>1, <1>4 DEF SameIncarnation, AddFinalizer, RemoveFinalizer
  <2>2. QED
    BY <1>1, <2>1 DEF Apps
<1>5. QED
  BY <1>2, <1>3, <1>4, WritersOfApp

\* A condition that still says the same keeps its time: SetCondition keeps the entry of
\* the copy, and the copy of a worker whose update is accepted has the stored entry,
\* or one that says something else.
THEOREM TimesAreStable == Spec => TransitionTimesStable
<1> DEFINE Stable(t) ==
             SameEntry(app.status.conditions[t], app'.status.conditions[t]) =>
               app.status.conditions[t] = app'.status.conditions[t]
           A == SameIncarnation => \A t \in ConditionTypes \ {"Progressing"} : Stable(t)
<1>1. LockInv /\ WorkInv /\ [Next]_vars => A
  <2> SUFFICES ASSUME LockInv, WorkInv, [Next]_vars, SameIncarnation, app' # app,
                      NEW t \in ConditionTypes \ {"Progressing"}
               PROVE  Stable(t)
    OBVIOUS
  <2>1. CASE \A r \in Replicas : ~StatusUpdate(r)
    BY <2>1, OtherWritesKeepStatus
  <2>2. ASSUME NEW r \in Replicas, StatusUpdate(r)
        PROVE  Stable(t)
    <3>1. fresh[r] /\ local[r] \in Apps /\ app'.status = FinalStatus(r)
      BY <2>2, StatusWrites
    <3> DEFINE stored == app.status.conditions
               held   == local[r].status.conditions
               new    == FinalStatus(r).conditions
    <3>2. OutcomeSet(held, new)
      BY <3>1, FinalStatusType DEF LockInv
    <3>3. /\ held["Ready"] = stored["Ready"] /\ held["Degraded"] = stored["Degraded"]
          /\ SameEntry(stored["ConfigurationValid"], held["ConfigurationValid"]) =>
               stored["ConfigurationValid"] = held["ConfigurationValid"]
      BY <3>1 DEF WorkInv, TimesInv
    <3>4. t \in {"Ready", "Degraded", "ConfigurationValid"}
      BY DEF ConditionTypes
    <3>5. QED
      BY <3>1, <3>2, <3>3, <3>4 DEF OutcomeSet
  <2>3. QED
    BY <2>1, <2>2
<1>2. LockInv /\ WorkInv /\ [Next]_vars => [A]_vars
  BY <1>1
<1>3. QED
  BY <1>2, WorkInvariant, PTL DEF Spec, TransitionTimesStable

=============================================================================
