----------------------------- MODULE Reconciler -----------------------------
(***************************************************************************)
(* internal/controller/platformapplication_controller.go together with     *)
(* subreconcilers/apply.go and the work queue controller-runtime runs it   *)
(* from, for one PlatformApplication and any number of operator replicas.  *)
(*                                                                         *)
(* A replica has an informer cache and one worker for this key (the queue  *)
(* never hands a key to two workers of a process).  The worker is a        *)
(* program whose every API request is a step of its own, so users, other   *)
(* controllers and other replicas run between any two of its requests.     *)
(*                                                                         *)
(* Optimistic concurrency: an Update or Status().Update succeeds only on   *)
(* the resourceVersion it was read at.  fresh[r] says exactly that: `app`  *)
(* has had no new version since the one the worker's copy was read from.   *)
(***************************************************************************)
EXTENDS Cluster

CONSTANTS
  Replicas,        \* operator processes
  LeaderElection,  \* the --leader-elect flag
  FaultReasons,    \* what the API server may answer a request with
  MaxLag           \* bound: app versions a cache may be behind when work starts

ASSUME FaultsAssumption == FaultReasons \subseteq Reasons

VARIABLES
  running,  \* running[r]: the controller of replica r is started
  cache,    \* cache[r]: the application as r's informer last saw it
  watch,    \* watch[r]: versions of it on their way to r's informer
  kcache,   \* kcache[r][k]: child k as r's informers last saw it
  queued,   \* queued[r]: the key is in r's work queue
  retry,    \* retry[r]: a delayed re-add of the key is pending
  pc,       \* what the worker of r does next
  local,    \* the worker's copy of the application
  fresh,    \* that copy's resourceVersion is still the stored one
  idx,      \* position of the worker in Order
  attempt,  \* Apply's attempt counter
  err       \* reconcileErr

informerVars == <<running, cache, watch, kcache>>
queueVars    == <<queued, retry>>
workerVars   == <<pc, local, fresh, idx, attempt, err>>
vars         == <<clusterVars, informerVars, queueVars, workerVars>>

MaxApplyRetries == 3

NoError == [kind |-> "", class |-> "", reason |-> ""]

ChildSteps == {"read", "create", "patch", "delete"}
Steps == ChildSteps \cup {"idle", "addFinalizer", "removeFinalizer", "status"}

Init ==
  /\ ClusterInit
  /\ running = [r \in Replicas |-> FALSE]
  /\ cache   = [r \in Replicas |-> NoApp]
  /\ watch   = [r \in Replicas |-> <<>>]
  /\ kcache  = [r \in Replicas |-> [k \in Kinds |-> NoChild]]
  /\ queued  = [r \in Replicas |-> FALSE]
  /\ retry   = [r \in Replicas |-> FALSE]
  /\ pc      = [r \in Replicas |-> "idle"]
  /\ local   = [r \in Replicas |-> NoApp]
  /\ fresh   = [r \in Replicas |-> FALSE]
  /\ idx     = [r \in Replicas |-> 1]
  /\ attempt = [r \in Replicas |-> 0]
  /\ err     = [r \in Replicas |-> NoError]

\* Every step that may write `app` or end a reconcile: a new version goes onto
\* the watch streams and makes the copies other workers hold stale.
Observe ==
  /\ watch' = [r \in Replicas |-> IF running[r] /\ app' # app
                                  THEN Append(watch[r], app') ELSE watch[r]]
  /\ fresh' = [r \in Replicas |-> fresh[r] /\ app' = app /\ pc'[r] # "idle"]

------------------------------------------------------------------------------
(* Manager: start, leader change, crash.  A controller that starts lists     *)
(* everything it watches; the initial list enqueues the owners it finds.     *)

OwnedDeployment(ks) ==
  /\ "Deployment" \in Kinds
  /\ ks["Deployment"] # NoChild
  /\ ks["Deployment"].owner # NoOwner

Start(r) ==
  /\ ~running[r]
  /\ LeaderElection => \A q \in Replicas : ~running[q]
  /\ running' = [running EXCEPT ![r] = TRUE]
  /\ cache'   = [cache EXCEPT ![r] = app]
  /\ kcache'  = [kcache EXCEPT ![r] = kids]
  /\ queued'  = [queued EXCEPT ![r] = app # NoApp \/ OwnedDeployment(kids)]
  /\ UNCHANGED <<clusterVars, watch, retry, workerVars>>

\* The worker is wherever it is; whatever it has written stays written.
Crash(r) ==
  /\ Disturb("crash") /\ running[r]
  /\ running' = [running EXCEPT ![r] = FALSE]
  /\ cache'   = [cache EXCEPT ![r] = NoApp]
  /\ watch'   = [watch EXCEPT ![r] = <<>>]
  /\ kcache'  = [kcache EXCEPT ![r] = [k \in Kinds |-> NoChild]]
  /\ queued'  = [queued EXCEPT ![r] = FALSE]
  /\ retry'   = [retry EXCEPT ![r] = FALSE]
  /\ pc'      = [pc EXCEPT ![r] = "idle"]
  /\ local'   = [local EXCEPT ![r] = NoApp]
  /\ fresh'   = [fresh EXCEPT ![r] = FALSE]
  /\ idx'     = [idx EXCEPT ![r] = 1]
  /\ attempt' = [attempt EXCEPT ![r] = 0]
  /\ err'     = [err EXCEPT ![r] = NoError]
  /\ UNCHANGED <<app, uids, kids, touched, now>>

------------------------------------------------------------------------------
(* Informers and the work queue.  WorkQueue has the queue itself, for many    *)
(* keys; a key that is put back while a delayed re-add of it is pending may   *)
(* take that entry's place or leave it to fire later.                         *)

Enqueue(r, wakes) ==
  /\ queued' = [queued EXCEPT ![r] = @ \/ wakes]
  /\ \/ UNCHANGED retry
     \/ wakes /\ retry' = [retry EXCEPT ![r] = FALSE]

\* Variant: with a GenerationChangedPredicate.
DeliverAppOnNewGeneration(r) ==
  /\ watch[r] # <<>>
  /\ cache'  = [cache EXCEPT ![r] = Head(watch[r])]
  /\ watch'  = [watch EXCEPT ![r] = Tail(watch[r])]
  /\ LET old == cache[r]
         new == Head(watch[r])
     IN  Enqueue(r, old # NoApp /\ new # NoApp => old.generation # new.generation)
  /\ UNCHANGED <<clusterVars, running, kcache, workerVars>>

\* For(&PlatformApplication{}): every version enqueues the key.
DeliverApp(r) ==
  /\ watch[r] # <<>>
  /\ cache'  = [cache EXCEPT ![r] = Head(watch[r])]
  /\ watch'  = [watch EXCEPT ![r] = Tail(watch[r])]
  /\ Enqueue(r, TRUE)
  /\ UNCHANGED <<clusterVars, running, kcache, workerVars>>

\* Variant: without Owns.
SyncChildUnwatched(r, k) ==
  /\ running[r] /\ k \notin LiveReads
  /\ kcache[r][k] # kids[k]
  /\ kcache' = [kcache EXCEPT ![r][k] = kids[k]]
  /\ UNCHANGED <<clusterVars, running, cache, watch, queueVars, workerVars>>

\* Owns(&Deployment{}): only events of the owned Deployment enqueue; the other
\* kinds are cached because the operator reads them, and wake nobody.
SyncChild(r, k) ==
  /\ running[r] /\ k \notin LiveReads
  /\ kcache[r][k] # kids[k]
  /\ kcache' = [kcache EXCEPT ![r][k] = kids[k]]
  /\ Enqueue(r, /\ k = "Deployment"
                /\ OwnedDeployment(kids) \/ OwnedDeployment(kcache[r]))
  /\ UNCHANGED <<clusterVars, running, cache, watch, workerVars>>

\* AddRateLimited or AddAfter comes due.
RetryFires(r) ==
  /\ retry[r]
  /\ retry'  = [retry EXCEPT ![r] = FALSE]
  /\ queued' = [queued EXCEPT ![r] = TRUE]
  /\ UNCHANGED <<clusterVars, informerVars, workerVars>>

\* The manager's periodic resync replays what the cache holds.
Resync(r) ==
  /\ "resync" \in Disturbances
  /\ running[r] /\ cache[r] # NoApp
  /\ Enqueue(r, TRUE)
  /\ UNCHANGED <<clusterVars, informerVars, workerVars>>

------------------------------------------------------------------------------
(* Reconcile, up to the first API request *)

Kind(r) == Order[idx[r]]

\* The worker returns; `again` says that the result asks for another run, which
\* a key that was put back in the meantime has anyway.
Return(r, again) ==
  /\ pc'      = [pc EXCEPT ![r] = "idle"]
  /\ local'   = [local EXCEPT ![r] = NoApp]
  /\ idx'     = [idx EXCEPT ![r] = 1]
  /\ attempt' = [attempt EXCEPT ![r] = 0]
  /\ err'     = [err EXCEPT ![r] = NoError]
  /\ \/ retry' = [retry EXCEPT ![r] = @ \/ again]
     \/ queued[r] /\ UNCHANGED retry

Dequeue(r) ==
  /\ running[r] /\ pc[r] = "idle" /\ queued[r]
  /\ \A q \in Replicas : Len(watch[q]) <= MaxLag
  /\ queued' = [queued EXCEPT ![r] = FALSE]

\* The copy the worker takes is current iff no newer version is on its way.
GoTo(r, step, copy) ==
  /\ pc'    = [pc EXCEPT ![r] = step]
  /\ local' = [local EXCEPT ![r] = copy]
  /\ fresh' = [fresh EXCEPT ![r] = watch[r] = <<>>]
  /\ UNCHANGED <<clusterVars, informerVars, retry, idx, attempt, err>>

FirstStep(k, spec) == IF Wanted(k, spec) THEN "read" ELSE "delete"

\* Gone, or being deleted without our finalizer: nothing left to do.
FetchNothing(r) ==
  /\ Dequeue(r)
  /\ cache[r] # NoApp => cache[r].deleting /\ ~cache[r].finalizer
  /\ UNCHANGED <<clusterVars, informerVars, retry, workerVars>>

FetchFails(r) ==
  /\ Dequeue(r) /\ FaultReasons # {} /\ MayDisturb
  /\ retry' = [retry EXCEPT ![r] = TRUE]
  /\ UNCHANGED <<app, uids, kids, touched, now, informerVars, workerVars>>

\* Variant: an application being deleted is skipped.
FetchDeletingSkipped(r) ==
  /\ Dequeue(r)
  /\ cache[r] # NoApp /\ cache[r].deleting /\ cache[r].finalizer
  /\ UNCHANGED <<clusterVars, informerVars, retry, workerVars>>

FetchDeleting(r) ==
  /\ Dequeue(r)
  /\ cache[r] # NoApp /\ cache[r].deleting /\ cache[r].finalizer
  /\ GoTo(r, "removeFinalizer", cache[r])

FetchWithoutFinalizer(r) ==
  /\ Dequeue(r)
  /\ cache[r] # NoApp /\ ~cache[r].deleting /\ ~cache[r].finalizer
  /\ GoTo(r, "addFinalizer", cache[r])

StartConditions(conds) ==
  SetCondition(
    SetCondition(conds, "Progressing", TRUE, "Reconciling", NoMessage, now),
    "ConfigurationValid", TRUE, "Valid", NoMessage, now)

\* Variant: children are applied whether or not the finalizer is there.
FetchAndBeginUnprotected(r) ==
  /\ Dequeue(r)
  /\ cache[r] # NoApp /\ ~cache[r].deleting
  /\ GoTo(r, FirstStep(Order[1], cache[r].spec),
          [cache[r] EXCEPT !.status.conditions = StartConditions(@)])

FetchAndBegin(r) ==
  /\ Dequeue(r)
  /\ cache[r] # NoApp /\ ~cache[r].deleting /\ cache[r].finalizer
  /\ GoTo(r, FirstStep(Order[1], cache[r].spec),
          [cache[r] EXCEPT !.status.conditions = StartConditions(@)])

------------------------------------------------------------------------------
(* The finalizer writes                                                      *)

\* The outcome of a request is unknown to the client when it times out: the
\* server may have carried it out and only the answer is lost.
Fault(reason) == reason \in FaultReasons /\ MayDisturb

\* Variant: a merge patch carries no resourceVersion.
AcceptedWithoutLock(r) == app # NoApp /\ app.uid = local[r].uid

\* The API server takes an update only on the version it was read at.
Accepted(r) == fresh[r]

\* An Update that fails ends the reconcile with an error or, for a conflict of
\* the finalizer removal, with RequeueAfter: either way the key comes back.
AddFinalizer(r) ==
  /\ pc[r] = "addFinalizer"
  /\ \/ /\ Accepted(r)
        /\ app' = [app EXCEPT !.finalizer = TRUE]
        /\ Return(r, FALSE)
        /\ UNCHANGED disturbances
     \/ /\ ~Accepted(r)
        /\ Return(r, TRUE)
        /\ UNCHANGED <<app, disturbances>>
     \/ \E reason \in FaultReasons :
          /\ Fault(reason)
          /\ Return(r, TRUE)
          /\ \/ UNCHANGED app
             \/ /\ Accepted(r) /\ reason \in OutcomeUnknown
                /\ app' = [app EXCEPT !.finalizer = TRUE]
  /\ Observe
  /\ UNCHANGED <<uids, kids, touched, now, running, cache, kcache, queued>>

\* Removing the only finalizer of an object marked for deletion deletes it.
RemoveFinalizer(r) ==
  /\ pc[r] = "removeFinalizer"
  /\ \/ /\ Accepted(r)
        /\ app' = NoApp
        /\ Return(r, FALSE)
        /\ UNCHANGED disturbances
     \/ /\ ~Accepted(r)
        /\ Return(r, TRUE)
        /\ UNCHANGED <<app, disturbances>>
     \/ \E reason \in FaultReasons :
          /\ Fault(reason)
          /\ Return(r, TRUE)
          /\ \/ UNCHANGED app
             \/ Accepted(r) /\ reason \in OutcomeUnknown /\ app' = NoApp
  /\ Observe
  /\ UNCHANGED <<uids, kids, touched, now, running, cache, kcache, queued>>

------------------------------------------------------------------------------
(* reconcileResources: one child after the other, stop at the first error    *)

\* What a child request leaves alone, whatever its outcome.
ChildFrame(r) ==
  UNCHANGED <<app, uids, now, informerVars, queueVars, local, fresh>>

ChildDone(r) ==
  /\ IF idx[r] < Len(Order)
     THEN /\ idx' = [idx EXCEPT ![r] = @ + 1]
          /\ pc'  = [pc EXCEPT ![r] = FirstStep(Order[idx[r] + 1], local[r].spec)]
     ELSE /\ pc'  = [pc EXCEPT ![r] = "status"]
          /\ UNCHANGED idx
  /\ attempt' = [attempt EXCEPT ![r] = 0]
  /\ UNCHANGED err

\* Variant: one attempt too many.
RetryAllowedTwice(r) == pc[r] # "delete" /\ attempt[r] <= MaxApplyRetries

RetryAllowed(r) == pc[r] # "delete" /\ attempt[r] < MaxApplyRetries

\* Variant: log the error and go on with the next child.
ChildFailedButContinue(r, reason) == ChildDone(r)

\* Apply starts over on a conflict until its attempts are used up; every other
\* error, and any error of a deletion, ends reconcileResources.
ChildFailed(r, reason) ==
  /\ IF reason = "Conflict" /\ RetryAllowed(r)
     THEN /\ attempt' = [attempt EXCEPT ![r] = @ + 1]
          /\ pc' = [pc EXCEPT ![r] = "read"]
          /\ UNCHANGED err
     ELSE /\ pc'  = [pc EXCEPT ![r] = "status"]
          /\ err' = [err EXCEPT ![r] =
                       [kind |-> Kind(r), reason |-> reason,
                        class |-> ClassifyOrWrap(RawError(reason)).class]]
          /\ attempt' = [attempt EXCEPT ![r] = 0]
  /\ UNCHANGED idx

\* Variant: SetControllerReference is forgotten.
CreatedChildUnowned(r) ==
  [owner |-> NoOwner, want |-> Desired(Kind(r), local[r].spec),
   ready |-> 0, version |-> ""]

\* The child as Create or Patch leaves it.
CreatedChild(r) ==
  [owner |-> local[r].uid, want |-> Desired(Kind(r), local[r].spec),
   ready |-> 0, version |-> ""]

PatchedChild(r) ==
  IF kids[Kind(r)] = NoChild THEN CreatedChild(r)
  ELSE [kids[Kind(r)] EXCEPT !.owner = local[r].uid,
                             !.want = Desired(Kind(r), local[r].spec)]

StoreChild(r, child) ==
  /\ kids' = [kids EXCEPT ![Kind(r)] = child]
  /\ touched' = touched \ {Kind(r)}

\* Variant: the recovered panic is swallowed.
BuildPanicSwallowed(r) ==
  /\ pc[r] = "read" /\ BuildPanics(Kind(r), local[r].spec)
  /\ Return(r, FALSE)
  /\ fresh' = [fresh EXCEPT ![r] = FALSE]
  /\ UNCHANGED <<clusterVars, informerVars, queued>>

\* resource.MustParse panics before any request for the Deployment is sent.
\* controller-runtime recovers the panic and treats it as an error; the status
\* is not written.
BuildPanic(r) ==
  /\ pc[r] = "read" /\ BuildPanics(Kind(r), local[r].spec)
  /\ Return(r, TRUE)
  /\ fresh' = [fresh EXCEPT ![r] = FALSE]
  /\ UNCHANGED <<clusterVars, informerVars, queued>>

\* Variant: a child that exists is left as it is.
ReadChildCreateOnly(r) ==
  /\ pc[r] = "read" /\ ~BuildPanics(Kind(r), local[r].spec)
  /\ IF kcache[r][Kind(r)] = NoChild
     THEN pc' = [pc EXCEPT ![r] = "create"] /\ UNCHANGED <<idx, attempt, err>>
     ELSE ChildDone(r)
  /\ ChildFrame(r)
  /\ UNCHANGED <<kids, touched, disturbances>>

\* applyOnce's Get decides between Create and Patch.  The comparison that could
\* skip the Patch is with the desired object as built, which never carries the
\* metadata the server has filled in, so a read object never equals it.
ReadChild(r) ==
  /\ pc[r] = "read" /\ ~BuildPanics(Kind(r), local[r].spec)
  /\ \/ /\ Kind(r) \notin MissingKinds
        /\ LET seen == IF Kind(r) \in LiveReads THEN kids[Kind(r)]
                       ELSE kcache[r][Kind(r)]
           IN  pc' = [pc EXCEPT ![r] = IF seen = NoChild THEN "create" ELSE "patch"]
        /\ UNCHANGED <<idx, attempt, err>>
     \/ Kind(r) \in MissingKinds /\ ChildFailed(r, "NoMatch")
  /\ ChildFrame(r)
  /\ UNCHANGED <<kids, touched, disturbances>>

CreateChild(r) ==
  /\ pc[r] = "create"
  /\ \/ /\ kids[Kind(r)] = NoChild
        /\ StoreChild(r, CreatedChild(r))
        /\ ChildDone(r)
     \/ /\ kids[Kind(r)] # NoChild
        /\ ChildFailed(r, "AlreadyExists")
        /\ UNCHANGED <<kids, touched>>
  /\ ChildFrame(r)
  /\ UNCHANGED disturbances

\* The API server rejects a second controller reference, so an object that
\* still belongs to an earlier incarnation cannot be patched.
MayPatch(r) ==
  kids[Kind(r)] # NoChild => kids[Kind(r)].owner \in {NoOwner, local[r].uid}

PatchChild(r) ==
  /\ pc[r] = "patch"
  /\ \/ /\ MayPatch(r)
        /\ StoreChild(r, PatchedChild(r))
        /\ ChildDone(r)
     \/ /\ ~MayPatch(r)
        /\ ChildFailed(r, "Invalid")
        /\ UNCHANGED <<kids, touched>>
  /\ ChildFrame(r)
  /\ UNCHANGED disturbances

\* DeleteIfExists: nobody asks whose object it is; "not found" is a success.
DeleteChild(r) ==
  /\ pc[r] = "delete"
  /\ \/ /\ Kind(r) \notin MissingKinds
        /\ StoreChild(r, NoChild)
        /\ ChildDone(r)
     \/ /\ Kind(r) \in MissingKinds
        /\ ChildFailed(r, "NoMatch")
        /\ UNCHANGED <<kids, touched>>
  /\ ChildFrame(r)
  /\ UNCHANGED disturbances

\* A child request the API server fails, carried out or not.
ChildRequestFails(r) ==
  /\ pc[r] \in ChildSteps
  /\ pc[r] = "read" => ~BuildPanics(Kind(r), local[r].spec)
  /\ \E reason \in FaultReasons :
       /\ Fault(reason)
       /\ ChildFailed(r, reason)
       /\ \/ UNCHANGED <<kids, touched>>
          \/ /\ reason \in OutcomeUnknown /\ Kind(r) \notin MissingKinds
             /\ \/ /\ pc[r] = "create" /\ kids[Kind(r)] = NoChild
                   /\ StoreChild(r, CreatedChild(r))
                \/ /\ pc[r] = "patch" /\ MayPatch(r)
                   /\ StoreChild(r, PatchedChild(r))
                \/ pc[r] = "delete" /\ StoreChild(r, NoChild)
  /\ ChildFrame(r)

------------------------------------------------------------------------------
(* The status update that ends every full reconcile                          *)

\* updateDeploymentStatus: the count is kept when the Get fails.
ReadyReplicas(r) ==
  IF "Deployment" \in Kinds /\ kcache[r]["Deployment"] # NoChild
  THEN kcache[r]["Deployment"].ready
  ELSE local[r].status.readyReplicas

SetAll(conds, progressing, degraded, ready, message) ==
  SetCondition(
    SetCondition(
      SetCondition(conds, "Progressing", progressing[1], progressing[2], message[1], now),
      "Degraded", degraded[1], degraded[2], message[2], now),
    "Ready", ready[1], ready[2], message[3], now)

\* setConditions
OutcomeConditions(conds, error, ready, min) ==
  LET failed  == [NoMessage EXCEPT !.kind = error.kind, !.reason = error.reason]
      waiting == [NoMessage EXCEPT !.ready = ready, !.min = min]
  IN  IF error # NoError
      THEN SetAll(conds, <<FALSE, "ReconcileError">>, <<TRUE, "ReconcileError">>,
                  <<FALSE, "ReconcileError">>, <<failed, failed, NoMessage>>)
      ELSE IF ready >= min
      THEN SetAll(conds, <<FALSE, "Deployed">>, <<FALSE, "Healthy">>,
                  <<TRUE, "Available">>, <<NoMessage, NoMessage, NoMessage>>)
      ELSE SetAll(conds, <<TRUE, "Deploying">>, <<FALSE, "Deploying">>,
                  <<FALSE, "InsufficientReplicas">>, <<waiting, NoMessage, waiting>>)

FinalStatus(r) ==
  LET spec == local[r].spec
      old  == local[r].status
  IN  [observedGeneration |-> local[r].generation,
       readyReplicas      |-> ReadyReplicas(r),
       deployedVersion    |-> spec.image.tag,
       url                |-> IF spec.gateway.enabled /\ spec.gateway.host # ""
                              THEN spec.gateway.host ELSE old.url,
       conditions         |-> OutcomeConditions(old.conditions, err[r],
                                                ReadyReplicas(r), spec.replicas.min)]

\* Variant: an error is reported in the status and then forgotten.
ComesBackUnlessFailed(r) ==
  err[r] = NoError /\ ReadyReplicas(r) < local[r].spec.replicas.min

\* The classes differ in the delay and the event they record, not in whether
\* the key comes back.
ComesBack(r) ==
  err[r] # NoError \/ ReadyReplicas(r) < local[r].spec.replicas.min

StatusUpdate(r) ==
  /\ pc[r] = "status"
  /\ \/ /\ Accepted(r)
        /\ app' = [app EXCEPT !.status = FinalStatus(r)]
        /\ Return(r, ComesBack(r))
        /\ UNCHANGED disturbances
     \/ /\ ~Accepted(r)
        /\ Return(r, TRUE)
        /\ UNCHANGED <<app, disturbances>>
     \/ \E reason \in FaultReasons :
          /\ Fault(reason)
          /\ Return(r, TRUE)
          /\ \/ UNCHANGED app
             \/ /\ Accepted(r) /\ reason \in OutcomeUnknown
                /\ app' = [app EXCEPT !.status = FinalStatus(r)]
  /\ Observe
  /\ UNCHANGED <<uids, kids, touched, now, running, cache, kcache, queued>>

------------------------------------------------------------------------------

EnvironmentStep ==
  /\ ClusterNext
  /\ UNCHANGED <<running, cache, kcache, queueVars, pc, local, idx, attempt, err>>
  /\ Observe

Fetch(r) ==
  \/ FetchNothing(r) \/ FetchFails(r) \/ FetchDeleting(r)
  \/ FetchWithoutFinalizer(r) \/ FetchAndBegin(r)

Work(r) ==
  \/ AddFinalizer(r) \/ RemoveFinalizer(r)
  \/ BuildPanic(r) \/ ReadChild(r) \/ CreateChild(r) \/ PatchChild(r)
  \/ DeleteChild(r) \/ ChildRequestFails(r) \/ StatusUpdate(r)

Inform(r) == DeliverApp(r) \/ \E k \in Kinds : SyncChild(r, k)

Next ==
  \/ EnvironmentStep
  \/ \E r \in Replicas :
       \/ Start(r) \/ Crash(r)
       \/ Inform(r) \/ RetryFires(r) \/ Resync(r)
       \/ Fetch(r) \/ Work(r)

Spec == Init /\ [][Next]_vars
==============================================================================
