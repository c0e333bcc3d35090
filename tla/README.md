# Verification of the platform operator

TLA+ modules, TLC runs and TLAPS proofs for the `PlatformApplication` operator
of this repository: a Kubernetes controller that turns one custom resource into
a Deployment, a Service and up to five optional child objects and reports on
them in the resource's status. File names below are relative to `src/`.

## 1. Inventory

| Component | Code | State it keeps | Operations |
|---|---|---|---|
| Controller | `internal/controller/platformapplication_controller.go` | none of its own between reconciles; during one, a copy of the application | `Reconcile`, `reconcileResources`, `setConditions`, `handleErrorResult`, `handleDeletion`, `updateDeploymentStatus` |
| Apply helper | `internal/controller/subreconcilers/apply.go` | attempt counter | `Apply`, `applyOnce`, `DeleteIfExists` |
| Builders | `internal/controller/subreconcilers/{deployment,service,hpa,networking,pdb,servicemonitor}.go` | none | desired child as a function of the spec |
| Error classes | `internal/errors/errors.go` | none | `Classify`, `ClassifyOrWrap` |
| Conditions | `internal/status/conditions.go` | the condition list of the status | `SetCondition`, `IsReady` |
| Manager | `cmd/main.go`, `SetupWithManager` | informer caches, work queue, leader lease (controller-runtime) | start, lose or gain leadership, deliver events, retry |
| Webhooks | `api/v1alpha1/webhook_platformapplication.go`, `api/v1beta1/webhook_platformapplication.go` | none | `Default`, `ValidateCreate/Update/Delete` |
| Conversion | `api/v1alpha1/platformapplication_conversion.go` | none | `ConvertTo`, `ConvertFrom` between v1alpha1 and the stored v1beta1 |
| v1 API | `api/v1` | none | conversion to the hub; not registered in the operator's scheme |
| Schema | markers in `api/*/platformapplication_types.go` | none | defaults and validation by the API server |
| Metrics | `internal/metrics` | counters, histograms, gauges | observation; the gauge `ActiveReconcilers` goes up and down with the workers |
| Tracing, fault-injecting test client | `internal/tracing`, `internal/testing` | spans, fault budget | observation and tests only |
| Cluster | external | the application, its children, their fields and who manages them, versions, clock | users, API server, garbage collector, Deployment controller, autoscaler |

**How they interact.** The controller never talks to another component but
through the API server. It *reads* from informer caches that lag behind
(ServiceMonitor, being unstructured, is read live), *writes* single objects, and
is woken by the work queue: on every new version of the application, on events
of owned Deployments, when a delayed retry comes due. `Update` and
`Status().Update` are conditional on the resourceVersion of the copy; `Create`,
`Patch` (Server-Side Apply, forced) and `Delete` of children are not. The
controller works in v1alpha1 while v1beta1 is stored, so each of its writes to
the application goes through the conversions and, except for status, the
webhooks.

**What is hard.** Every reconcile is a sequence of up to ten requests on the
strength of one copy that may already be stale; users, other controllers and
other replicas act between any two of them; a request may fail, or time out
after it was carried out; the process may die after any of them; a conflict is
retried inside `Apply` and again by the queue; an application may be deleted
and recreated under the same name; two replicas may be active at once, because
leader election is off by default. `PROJECT.json` lists each of these hazards at
its line with the properties that cover it.

**What makes each component correct.**

- *Controller*: status never lies (`ReadyMeansApplied`), never goes back
  (`ObservedGenerationMonotone`), nothing is forgotten (`NoLostWork`), no child
  is written for an application that is gone (`FinalizerProtects`), everything
  converges in the end, from events and retries (`EventsSuffice`,
  `DeletionCompletes`, `OrphansCollected`) or, where nothing is watched, by the
  resync (`EventuallyConverged`).
- *Apply*: bounded retries, classified errors (part of `TypeOK`); what the spec
  sets is enforced against every other writer (`SettledIsEnforced`,
  `DriftCorrected`), what it does not set is left to them (`OthersKept`).
- *Queue and workers*: no application waits for ever, unless it has low priority
  and others keep coming (`NobodyStarves`); the gauge is true (`GaugeIsTrue`). What
  the queue itself guarantees (one entry per key, no key with two workers, a key
  added during its own reconcile is handed out again) is controller-runtime's; it
  is assumed, in `Reconciler` as in `WorkQueue`. That the operator loses no event
  on top of such a queue is `NoLostWork`.
- *Operator as a whole*: the API server sees only writes that are right at the
  moment they are made (`ImplementsOperator`).
- *Conditions*: a transition time moves only with the content
  (`TransitionTimesStable`).
- *Webhooks and conversion*: what is stored stays admissible in every version
  (`StoredIsAdmissible`), the defaults of schema, webhook and builders agree
  (`DefaultsAgree`), no conversion forgets a field (`WrittenBackUnchanged`) and
  the operator's writes lose nothing both versions have (`OperatorKeepsShared`),
  admission never blocks a deletion (`DeletionIsAdmitted`).

## 2. Modules

| Module | Models |
|---|---|
| `Errors` | `internal/errors`: classes, reasons, `Classify`, `ClassifyOrWrap` |
| `Conditions` | `internal/status`: the condition list as a function of the type, `SetCondition` |
| `Builders` | the pure part of the sub-reconcilers: `Wanted(kind, spec)`, `Desired(kind, spec)`, when building panics, which fields are optional |
| `Cluster` | external: the stored application and children, users, garbage collector, Deployment controller, clock |
| `Reconciler` | the controller with `Apply`, its queue and informers, for one application and any number of replicas; composed with `Cluster` |
| `ReconcilerProperties` | type invariant, safety, action and liveness properties, fairness |
| `ClusterProofs` | lemmas about `Cluster`: what users and other controllers keep |
| `ReconcilerInvariants` | the inductive invariants of the proofs |
| `ReconcilerProofs` | theorems about `Reconciler`: types, monotone status, and what needs leader election |
| `WorkProofs` | theorems about `Reconciler` with or without leader election: nothing forgotten, transition times |
| `Operator` | abstract specification: the writes the operator may send, and when |
| `OperatorProofs` | the abstract operator's status never lies |
| `ReconcilerRefinement` | `Reconciler` implements `Operator` |
| `RefinementProofs` | the proof that it implements `Operator` |
| `DocumentedClaims` | claims about `Reconciler` that the code does not keep |
| `WorkQueue` | the workers and the priority queue they share, for many applications |
| `ServerSideApply` | external: what create, update and forced apply do to fields and their managers |
| `FieldOwnership` | the Deployment field by field: operator, autoscaler, kubectl |
| `ApiVersions` | conversions, schema and webhooks as functions on specs |
| `VersionedStore` | one stored object written by users in both versions and by the operator in v1alpha1 |
| `VersionedStoreProofs` | theorems about it, `ApiVersions` and `Builders` |
| `WorkQueueProofs`, `FieldOwnershipProofs` | theorems about these two |
| `MCSpecs`, `MCReconciler`, `MCFields`, `MCVersions` | constants for the runs |

`Reconciler` (one key, everything that happens to it), `WorkQueue` (many keys,
nothing but how a reconcile ends), `FieldOwnership` (one Deployment, field by
field) and `VersionedStore` (one spec, version by version) are four views of one
controller, each with the detail its questions need. They meet in shared
definitions (`Builders`) and in `FieldsAssumption` of `Cluster`, which says when
`Reconciler` may treat a child as one value. `Reconciler` and `WorkQueue` each
model controller-runtime's queue, the one for a single key, the other for many;
that the two agree rests on reading them side by side.

### From code to `Reconciler`

A worker `r` is a small program; `pc[r]` names the request it sends next and
every request is one action.

| Code | Model |
|---|---|
| `r.Get` of the application, the branches up to the first write | `FetchNothing`, `FetchFails`, `FetchDeleting`, `FetchWithoutFinalizer`, `FetchAndBegin` (which also sets the two start conditions) |
| `r.Update` with the finalizer added / removed | `AddFinalizer`, `RemoveFinalizer` |
| the loop of `reconcileResources` | `idx[r]`, position in `Order`; `ChildDone`, `ChildFailed` |
| `buildDesiredDeployment` panicking in `resource.MustParse` | `BuildPanic` (no status update; the queue retries) |
| `applyOnce`: `Get`, `Create`, `Patch` | `ReadChild`, `CreateChild`, `PatchChild` |
| the retry loop of `Apply` | `attempt[r]`, `RetryAllowed`, in `ChildFailed` |
| `DeleteIfExists` | `DeleteChild` |
| `updateDeploymentStatus`, `setConditions`, url and version, `Status().Update`, `handleErrorResult`, requeue | `StatusUpdate` |
| any request failing or timing out | the fault disjuncts of the actions above and `ChildRequestFails`; after the reasons in `OutcomeUnknown` the request may have been carried out |
| `mgr.Start` with or without `--leader-elect`; the process dying | `Start`, `Crash` |
| `For`, `Owns`, `RequeueAfter` and returned errors | `DeliverApp`, `SyncChild`, `retry[r]` with `RetryFires`, `Resync` |

The resourceVersion is modelled by what it is used for: `fresh[r]` says that the
stored application has had no new version since the one `r`'s copy was read
from. Every step that changes `app` puts the new version on the watch streams
and clears `fresh` of everybody (`Observe`).

### From code to `FieldOwnership`

| Code | Model |
|---|---|
| `applyOnce`'s `Get` from the cache | `Begin`, `cached` |
| `c.Create(ctx, desired)`, which names no field owner | `CreateDeployment`: all fields belong to `Creator`, the manager the API server derives from the binary |
| `c.Patch(..., client.Apply, FieldOwner(FieldManager), ForceOwnership)` | `PatchDeployment`: `ServerSideApply!AppliedBy` |
| `ReconcileHPA` | `ApplyHPA` |
| the fields `buildDesiredDeployment` sets for a spec | `ConfigFields`, `Config` |
| `Owns(&appsv1.Deployment{})` | `event`, `Sync` |
| the autoscaler the HPA starts; `kubectl edit`, `scale`, `delete` | `Autoscale`; `KubectlSets`, `KubectlRemoves` |

An object maps each field it has to a value and the set of its managers. A
forced apply takes every field of the configuration, shares the ones whose value
others want too, and removes a field only when its manager had it to itself.

### From code to `WorkQueue`

| Code | Model |
|---|---|
| `MaxConcurrentReconciles`, at least one | `Workers` |
| `For`, `Owns`, of ordinary or of low priority; a delayed re-add that comes due | `Event`, `Fire` |
| a worker enters `Reconcile` and raises `ActiveReconcilers` | `Take` |
| the retry loop of `Apply`, which sleeps in its worker, for each child of the reconcile | `RetryConflict` |
| the returns of `Reconcile`, `handleErrorResult`, `handleDeletion`; a panic | `Endings`: `Finished` (nothing to come back for), `Later` (`RequeueAfter`), `Failed` (an error, which makes controller-runtime ignore `RequeueAfter`, or a panic) |
| the deferred `ActiveReconcilers.Dec()` | `Lowered` |

The queue is controller-runtime's (v0.24.1, `go.mod:16`), whose priority queue is on
unless a controller turns it off, which `SetupWithManager` does not. It holds one
entry per key, ready or delayed; a key added during its own reconcile waits until
the worker is done. Events of the initial list and of a resync have low priority;
an entry has the highest priority it was added with (`LowAfter`), and a retry keeps
that of the reconcile that asks for it. Ready keys are handed out by priority, and
in the order they became ready among equals (`Before`, `FirstFree`).

### From code to `ApiVersions`

`AlphaToHub`, `HubToAlpha`, `V1ToHub`, `HubToV1` are the `ConvertTo` and
`ConvertFrom` of the two versions beside the hub, field by field as in the code;
`Default` and `Valid` the two
webhooks, section by section; `SchemaDefault` and `SchemaAdmits` the
`+kubebuilder:default` and `+kubebuilder:validation` markers, which the API
server applies before the webhook and, because the webhook sends every section
back, to all of them after it. A request becomes `Defaulted(spec)` and goes
through when `Admissible(spec)`.

### The abstract operator

`Operator` has no replicas, caches, queue or workers: `Protect` (the finalizer is
added), `Release` (it is removed), `Adjust` (a child is made, changed or
removed) and `Report` (the status) are all it may write, each with what must hold
at that moment. What is left of its inner life is `heard`, the specs of the
present incarnation it may still act on. It may adjust a child to any of them,
but report Ready only when the current spec is the only one left and every
untouched child is as it asks: after that nobody can undo it. The refinement maps
`heard` to the specs in the caches, the watch streams and the workers of all
replicas (`Heard`); every other step of `Reconciler` is `Think`.

### Abstractions

- `Reconciler` has one application and `WorkQueue` many: reconciles of different
  applications share nothing but the queue and the workers.
- Names, labels and the constants of each child kind are left out; a string the
  code looks into is replaced by what the code sees in it (`Unparseable`,
  `Atoi`, the parts of a gateway reference). `""` and 0 stand for a nil pointer,
  list or map and for a field left out.
- Events of a child are coalesced: an informer jumps to the current child.
  Versions of the application are delivered one by one, in order.
- In `Reconciler` a `Patch` replaces the whole child. That is what it does as
  long as the specs of the instance set the same optional fields
  (`FieldsAssumption`, evaluated in every run); `FieldOwnership` has no such
  assumption.
- `FieldOwnership` leaves the rollout strategy out: the API server fills in and
  clears `rollingUpdate` by itself.
- Retry delays (1 s, 10 s, 30 s, 5 min, exponential backoff) are one pending
  timer: they differ in when, not in whether, the key comes back. In `Reconciler`,
  with its one key, entries have no priorities.
- The status update of `Reconciler` is one step: the `Get` of the Deployment from
  the cache (line 368) and `Status().Update` (line 162) are merged. What the cache
  learns in between would be found by the next reconcile, and the resourceVersion
  check is made at the write.
- There is no finalizer but the operator's, so nobody holds a deleted application
  after the operator has let it go (foreground deletion does). The branch of
  `handleDeletion` for a deleted application without our finalizer (lines 337-339)
  is reached by stale copies only.
- Foreign objects (`UserForeign`) have the shape of our own and no controller: they
  are taken over. One that somebody else controls, or with another immutable
  selector, would be refused by the API server for ever, which
  `EventuallyConverged` does not meet.
- `VersionedStore` has the webhooks always on. An object that was stored without
  them and is not valid is not reached.
- `Int32` (the wrap of `int32(Atoi(s))`) and `url` follow the code, but no property
  depends on their detail.
- `equality.Semantic.DeepEqual` in `applyOnce` compares the object read with the
  object as built. The former always carries metadata the server has filled in,
  so it never holds and the `Patch` is always sent.
- A controller that starts finds its caches filled; a leader that crashes stops
  at once. A leader that is cut off and goes on working for a while is covered
  by the run without leader election (`MCTwoActive`).
- In `VersionedStore` a user's patch is read, merged, admitted and written in
  one step, as the API server does it.
- The schema fills defaults only into sections a request has. The model fills
  all of them; `DefaultsAgree` says that it makes no difference who fills a
  field.

## 3. Runs

Every run but `MCQueue` uses `CHECK_DEADLOCK FALSE`: the system really comes to
rest once the application is settled and the bounded users and faults are used up.
`NoLostWork`, `SettledIsEnforced` and the liveness properties say in which states
it may do so. In `WorkQueue` events are unbounded, and deadlock is checked.

| Run | Instance | Shows |
|---|---|---|
| `MCFailover` | two replicas, leader election; Deployment and HPA; one edit; one crash or request that times out (carried out or not), at any point | `FinalizerProtects`, `NoLostWork`; `LeaderInv`, the inductive invariant of section 5, which contains `ReadyMeansApplied`; `ImplementsOperator`. There is one incarnation, so that no request is sent for a replaced application (the other half of `FinalizerProtects`) rests on its theorem |
| `MCErrors` | up to four conflicts on any request, an unparseable quantity, a missing CRD, a running clock, an edit | `TypeOK`: four attempts of `Apply` and no more, every error classified; `NoLostWork`; `TransitionTimesStable`. The missing CRD keeps the application from ever being Ready, so `NoLostWork` says here that the operator never rests |
| `MCTwoActive` | two replicas active at once, two specs | `ObservedGenerationMonotone`; `WorkInv`, the inductive invariant of `WorkProofs`. With one incarnation and no clock its parts `TimesInv` and `UidsInv` rest on the theorem; `MCErrors` has the clock |
| `MCRecreate` | two incarnations under one name | `ReadyMeansApplied`, `NoLostWork`, `OrphansCollected` |
| `MCLive` | two kinds; one crash, pod failure, conflict, timeout, drift or foreign object under a child's name; periodic resync | `EventsSuffice`, `EventuallyConverged`, `DeletionCompletes`. There is no edit, and the clock stands still |
| `MCVersions` | five user requests through both versions, some of them refused by schema or webhook | `StoredIsAdmissible`, `WrittenBackUnchanged`, `DefaultsAgree`, `OperatorKeepsShared`, `DeletionIsAdmitted` |
| `MCFields` | three specs (optional fields, none, autoscaling), three loads, three outside changes by user, kubectl or load | `SettledIsEnforced`, `OthersKept`, `DriftCorrected`, of the Deployment; the other children are not watched |
| `MCQueue` | three applications, two children in each reconcile, two workers, events of both priorities, any endings, no bound | `GaugeIsTrue`, `NobodyStarves` |

Runs that expect a violation, one per finding:

| Run | Claim, and what the code does |
|---|---|
| `ClaimUnusedCRD` | a missing CRD is handled gracefully: an application that does not use the kind is stuck on deleting it |
| `ClaimHubFields` | `envFrom` and `podAnnotations` of v1beta1: erased by the operator's first write through v1alpha1 |
| `ClaimRemovedField` | the operator owns only the fields it sets: a field the spec drops stays, owned by the nameless manager of `Create` |
| `ClaimAutoscaler` | fields of other controllers are respected: the replica count is taken back from the autoscaler after each scaling |

Disagreements between comments and code that were met while modelling and have
no run of their own:

- `apply.go:47-48` promises no write for an unchanged child; the comparison at
  line 129 never holds for an object that was read, so every reconcile patches
  every child.
- `conditions.go:12-13` promises to avoid unnecessary writes; Progressing is set
  to True at the start of every reconcile and to False at its end, so its time
  stamp alone makes a new version whenever the clock has moved.
- `errors.go:19-20` counts a missing CRD as permanent; `Classify` does not know
  NoMatch and it ends up transient.
- The comment at `platformapplication_controller.go:59` says that permanent
  errors are not retried; line 316 retries them every five minutes.
- `status.url` (types.go:213, "derived from Gateway") is never cleared.
- `status.deployedVersion` (types.go:225, "currently running") is the requested
  tag; Ready counts ready pods of any template.
- `errors.go:19-20` and the comment at `platformapplication_controller.go:59`
  promise Degraded for an invalid configuration. A quantity that does not parse
  panics in `resource.MustParse` (`deployment.go:71`) before the status is
  written, every time: neither Degraded nor ConfigurationValid=False is reported.
- `max` "defaults to Min if not set" (types.go:81); the webhook stores the
  default (lines 29-31), so a user who never set `max` cannot raise `min`.
- `ReconcileTotal` is the "total number of reconciliation attempts", but early
  returns and failed status updates are not counted; an error of a child is
  counted twice in `ReconcileErrorsTotal` (controller lines 252 and 302), a
  status conflict both as "error" and "conflict" (163, 165). `ManagedApplications`
  and `WorkQueueDepth` are registered and never set.
- `requeueDelay` (30 s) goes into a result that is returned with an error, which
  makes controller-runtime ignore it.
- The context of a sub-reconciler's span is discarded (line 243) and the span is
  not ended when the builder panics.
- The fault-injecting client of the tests counts its budget per operation, shared
  by all faults of it, and its errors are no API statuses, so its "conflict" never
  reaches the retry loop of `Apply`.
- A switch of a running application to the Recreate strategy leaves the
  `rollingUpdate` values the API server had filled in, which it then refuses.
- The API documentation in `README.md` (line 849) offers v1 as a served version;
  `cmd/main.go` registers v1alpha1 and v1beta1 only.
- `README.md:196` says that child resources are watched; only Deployments are.

**Bounds**: `MaxUid` incarnations, `MaxGeneration` generations reached by edits,
`MaxTime` clock ticks, `MaxDisturbances` crashes, faults, drifts and pod failures
together, `MaxLag` versions a cache may be behind when a reconcile starts
(`Cluster`, `Reconciler`), `MaxWrites` user requests (`VersionedStore`),
`MaxChanges` outside changes (`FieldOwnership`); `WorkQueue` needs none. One edit
is enough to have a stale and a current copy, two replicas to have two of them at
once, two incarnations to have children of a dead one; two kinds are enough for a
first and a last child, and the HPA of `SpecHPA` switches between wanted and not
wanted, so both `Apply` and `DeleteIfExists` run, in both positions of an edit.
`MCErrors` allows four disturbances because `Apply` gives up at the fourth
conflict. Three outside changes are enough for a field to be taken, dropped from
the spec and taken again; three loads for the lower end, the upper end and one
beyond the autoscaler's range. Three keys leave one waiting when both workers
are busy. What the bounds leave out is the
business of the proofs, which have none of them.

**Fairness.** `ReconcilerProperties!Fairness`: weak fairness of the goroutines of a
running replica (fetch, next request, each informer, a pending timer), of restarting a replica that is down (the Deployment that runs the
operator does), of the garbage collector and of the Deployment controller.
`FieldOwnership!FairSpec`: the informer, the worker and the autoscaler.
The periodic resync owes nothing, since it may be hours away: only
`EventuallyConverged` takes its fairness as a premise, because drift of a child
that is not watched (all but the Deployment) is repaired by nothing else.
`WorkQueue!FairSpec`: each worker, each timer; events are owed by nobody, and a
worker may have any ending every time, so `NobodyStarves` does not rest on
anybody's success. It has two halves. An entry of ordinary priority is always
handed out. One of low priority (the application is known from a list or resync
only, as all are after a start) may wait for ever, but only while ordinary events
of others keep coming: a steady stream of them does starve it, and keeps on doing
so through its retries. `VersionedStore`: the operator's step. Nothing is assumed of
users and faults: they may stop at any time, and where they are bounded they do.

## 4. What each property would catch

Each property of a passing run has a mutant of the code model that breaks it
(`PROJECT.json`, "mutants"; the variants stand next to the originals in the
modules and are marked `Variant`): one Apply attempt too many, going on after a
failed child, forgetting the owner reference, a generation-only event filter,
swallowing the panic, reporting an error without retrying, skipping the
resourceVersion check, beginning without the finalizer, skipping deletions,
stamping conditions every time, leaving an existing child as it is, a conversion
that forgets a field, a default that differs from the builder's, a retry loop
without end, a gauge that is not lowered by a panic, not watching the Deployment
or watching only its existence, replacing it instead of applying, and applying
without force.

## 5. Proofs

All proofs are for any set of replicas, keys and workers, any specs, any order of
kinds, any faults, disturbances, submitted specs and edits, and none of the bounds
of the runs. Every safety property the passing runs check has a theorem.
Assumptions on the constants:

| Module | Assumption | Why the code justifies it |
|---|---|---|
| `Cluster` | `SpecsAssumption`: `replicas.min` is a natural number | the schema demands at least 1 |
| | `OrderAssumption`: a non-empty list of the kinds there are | the loop of `reconcileResources` |
| | `NothingAssumption`: "no object" is no object | naming |
| | `FieldsAssumption`: specs that want a child set the same of its optional fields | a restriction of the model; `FieldOwnership` goes without |
| `Reconciler` | `FaultsAssumption`: faults are among the reasons `apierrors` knows | `Classify` |
| `FieldOwnership` | `SpecsAssumption`, `LoadsAssumption`: counts are numbers | types in `api/*` |
| `WorkQueue` | `ConcurrencyAssumption`, `ChildrenAssumption`, `NoKeyAssumption` | `--concurrent-reconciles` is an int; a count; naming |

The theorems that say "with leader election" assume `LeaderElection` (the flag
`--leader-elect`); the others hold either way.

### One leader (`ReconcilerProofs`)

- `TypeCorrect`: `Spec => []TypeOK`.
- `StatusNeverGoesBack`: `Spec => ObservedGenerationMonotone`.
- `LeaderArgumentHolds`: with leader election, `Spec => []LeaderInv`, of which
  `ReadyIsTruthful` (`ReadyMeansApplied`) and `FinalizerHolds`
  (`FinalizerProtects`) are parts.

The first two follow from the inductive invariant `LockInv`
(`ReconcilerInvariants`). `TypeOK` alone is not inductive: a worker about to
write a child must hold an application, which is `WorkerInv`. And the status can
only be kept from going back if an accepted write comes from a copy that *is*
the stored application (`FreshInv`), which needs that the watch stream of a
running replica ends at the stored version (`StreamInv`): a worker that takes its
copy with nothing left on the stream has a current one.

`ReadyMeansApplied` speaks of the moment after the status was written, when an
old worker could still undo a child. `ReadyInv` says none exists: once Ready is
stored for a generation, nobody who is running has a version in sight with
another spec. `ProgressInv` says that a worker whose status write would be
accepted has applied every child it has gone past; `IntentInv` that it applies
what is wanted and deletes what is not. `FinalizerProtects` is inductive only
with `FinalizerInv`: any version with a finalizer and without a deletion mark
that a replica may still act on belongs to the application that is stored now,
because only the one running replica can remove a finalizer, and it then has no
such version in sight. Without leader election this is lost: a slow replica may
apply an older spec after the other has reported Ready.

### Any number of active replicas (`WorkProofs`)

- `WorkInvariant`: `Spec => [](LockInv /\ WorkInv)`.
- `NothingIsForgotten`: `Spec => []NoLostWork`.
- `TimesAreStable`: `Spec => TransitionTimesStable`.

`NoLostWork` says that a replica at rest leaves a Ready application behind, and
nothing about how it came to rest. `QuietInv` is its inductive form. A reconcile
that asks for no other run either has written a Ready status, and then the write
itself is an event on the watch stream of every replica, or has found the
application gone or replaced, and then `StreamInv` has that change on the stream;
a delivered event queues the key. So a replica with nothing at all to do has
Ready as the last thing it saw. `HandsInv` says what a worker's copy allows at
each of its steps and that a replica that is down keeps nothing.
`TimesInv` compares, entry by entry, the conditions in a worker's copy with the
stored ones: `setConditions` works on the copy, so a transition time is stable in
*storage* only because an accepted update starts from what is stored. `UidsInv`
(nothing is known of incarnations to come) and `HeldInv` (what is marked as
deleted has a finalizer) are what the refinement needs. Each step is split into
the replica's own (`SelfNext`) and what the others see of it (`Bystander`).

### The operator keeps its promises (`RefinementProofs`)

- `OperatorKeepsItsPromises`: with leader election, `Spec => ImplementsOperator`.

Every step maps to one of `Operator`'s or to `Think` (`NextOperator`):

- A step of the cluster is the same step (`ClusterIsCluster`), since the builders
  of both are the same (`SameBuilders`).
- `AddFinalizer` and `RemoveFinalizer` are `Protect` and `Release` where they are
  accepted: `FreshInv` makes the copy the stored object, `HandsInv` and `IntentInv`
  say that it is not, or is, being deleted.
- A child request that is carried out is `Adjust` of that child
  (`RequestsAdjust`): by `FinalizerProtects` the worker's application is the
  stored incarnation and has its finalizer, and its spec has been heard because
  the worker holds it.
- An accepted status update is `Report` (`UpdatesReport`). Ready demands
  `heard = {app.spec}`: the writer has the stored spec and nothing on its stream,
  and the other replicas, which are down, hold nothing (`WriterIsUpToDate`).
- In every step `heard` grows by nothing but the new spec (`NextHears`): what a
  replica knows after a step it knew before it, or it is the stored version
  (`KnownNext`), and by `UidsInv` nothing known of an earlier incarnation counts
  for a new one.

### The promises are enough (`OperatorProofs`)

- `PromisesMakeReadyTrue`: `Operator`'s `Spec => []ReadyMeansApplied`.

`Operator` has neither replicas nor a leader, so this says what of the argument is
not about concurrency. When Ready is said, `Report` demands that the children are in
place and that no other spec is left to act on; `OnlyOneHeard` says that this stays
so until the spec changes, and then the generation no longer matches
(`StatusNotAhead`). Until then `Adjust` can only make a child what the stored spec
asks for, and what others do to a child of ours counts as touching it
(`ClusterProofs`). With `OperatorKeepsItsPromises` it is a second way to
`ReadyIsTruthful`, through the abstract specification.

### Queue and workers (`WorkQueueProofs`)

- `GaugeNeverDrifts`: `Spec => []GaugeIsTrue`, for any number of workers,
  applications and children.

`GaugeIsTrue` counts the workers that have a key, so it is inductive together with
what a worker and the line hold (`QueueType`): the key a free worker takes is a key,
not `NoKey`.

### Fields and managers (`FieldOwnershipProofs`)

- `DeploymentIsWellFormed`: `Spec => []TypeOK`.
- `NoDriftGoesUnnoticed`: `Spec => []SettledIsEnforced`.
- `FieldsOfOthersAreKept`: `Spec => OthersKept`.

`SettledIsEnforced` is about a worker at rest. `DriftIInv` adds what holds between
its two writes: without an event and without a queued key, the Deployment is
exactly as the latest spec configures it (`AsConfigured`), because every write that
changes it, the worker's own too, raises an event (`UnseenIsUnchanged`).
`FieldsOfOthersAreKept` rests on the operator of `ServerSideApply`: a forced apply
touches only the fields of its configuration and those its manager has.

### Versions (`VersionedStoreProofs`)

- `AlphaRoundTrip`: storing a v1alpha1 spec and reading it again is the identity.
- `WrittenBackUnchangedTheorem`: `Spec => []WrittenBackUnchanged`. Every section is
  copied because each of its fields is (`V1ToHubKeepsAll`, `HubToV1KeepsAll`,
  `HubToAlphaKeepsShared`, `AlphaToHubKeepsAll`).
- `DefaultsAgreeForEverySpec`: for every spec with a pull policy and `min >= 1`
  (which the schema sees to) and every kind, the child is the same whether
  schema, webhook, both or none of them filled the fields in. Two specs that
  agree up to the fields the builders default themselves (`Alike`) have the same
  children, and each way of defaulting keeps a spec alike.
- `StoredIsAdmissibleTheorem`: `Spec => []StoredIsAdmissible`.
- `OperatorKeepsSharedTheorem`: `Spec => OperatorKeepsShared`.
- `DefaultsAgreeTheorem`: `Spec => []DefaultsAgree`.
- `OnlyConflictsRefuse`: schema and webhooks admit every finalizer write whose
  copy is current, the safety half of `DeletionIsAdmitted`.

The theorems about the store need `StoreInv`: what is stored has been admitted
and has nothing left to fill in (`Settled`; admission itself does not look at
every field that has a default), and while nothing has been written since it
read, the operator's copy is what is stored as v1alpha1 shows it. A finalizer
write then sends what it read, defaulting changes nothing (`SettledUnchanged`),
and by `AlphaRoundTrip` the stored spec changes only in what v1alpha1 does not
have.

### Only model-checked

The liveness properties (`EventsSuffice`, `EventuallyConverged`, `DeletionCompletes`,
`OrphansCollected`, `DeletionIsAdmitted`, `DriftCorrected`, `NobodyStarves`):
fairness and `ENABLED` are out of the prover's reach. `NoLostWork`,
`SettledIsEnforced` and `OnlyConflictsRefuse` are their safety halves: they say in
which states the system may stop. The four claims that do not hold are refuted by
TLC's counterexamples.

## 6. Not modelled

- Tracing, events, logs, and the counters and histograms of `internal/metrics`:
  output on which nothing the operator does depends.
- Requests in v1, which the operator does not register (its conversions are
  modelled).
- Two applications whose children collide by name: to either of them the child of
  the other is a foreign object (`UserForeign`).
- The fault-injecting client of the tests; generated code; manifests, charts, CI.
- Probes, pprof and the metrics endpoint of the manager; the length of delays.

## 7. Plan

1. Done: `Errors`, `Conditions`, `Builders`, `Cluster`, `Reconciler`, their
   properties, runs and first theorems; `ApiVersions`, `VersionedStore`.
2. Done: field ownership of Server-Side Apply with an autoscaler; the queue with
   several keys and workers; the abstract operator and its refinement; schema
   markers and v1; proofs about `VersionedStore`.
3. Done: theorems for every safety property of the runs, among them the
   refinement `ImplementsOperator`; that the promises of `Operator` suffice for a
   status that never lies.
4. Left: nothing that the prover can reach; liveness stays with TLC.
