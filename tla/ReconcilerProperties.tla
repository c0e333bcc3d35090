------------------------ MODULE ReconcilerProperties ------------------------
(***************************************************************************)
(* What the operator is relied upon for, stated over Reconciler.           *)
(***************************************************************************)
EXTENDS Reconciler

\* Requests that write a child may still be sent in these steps.
Applying(r) == pc[r] \in ChildSteps

------------------------------------------------------------------------------
(* Types *)

Errs == {NoError} \cup [kind : Kinds, class : Classes, reason : Reasons]

\* Every variable stays in its set; in particular Apply's attempt counter stays
\* within maxApplyRetries, every error reconcileResources returns is classified
\* and the worker never runs past the last sub-reconciler.
TypeOK ==
  /\ app \in MaybeApp
  /\ uids \in Nat
  /\ kids \in ChildMaps
  /\ touched \in SUBSET Kinds
  /\ now \in Nat
  /\ disturbances \in Nat
  /\ running \in [Replicas -> BOOLEAN]
  /\ cache \in [Replicas -> MaybeApp]
  /\ watch \in [Replicas -> Seq(MaybeApp)]
  /\ kcache \in [Replicas -> ChildMaps]
  /\ queued \in [Replicas -> BOOLEAN]
  /\ retry \in [Replicas -> BOOLEAN]
  /\ pc \in [Replicas -> Steps]
  /\ local \in [Replicas -> MaybeApp]
  /\ fresh \in [Replicas -> BOOLEAN]
  /\ idx \in [Replicas -> DOMAIN Order]
  /\ attempt \in [Replicas -> 0 .. MaxApplyRetries]
  /\ err \in [Replicas -> Errs]

------------------------------------------------------------------------------
(* Safety *)

\* What the finalizer is for: with one controller at work, no child request is
\* ever sent on behalf of an application that is gone or has been replaced by
\* a namesake, however stale the copy the worker holds.
FinalizerProtects ==
  \A r \in Replicas : Applying(r) =>
    app # NoApp /\ app.uid = local[r].uid /\ app.finalizer

\* Nothing is forgotten: a running replica that has nothing queued, nothing to
\* retry, nothing in its hands and no event on its way leaves behind an
\* application that is Ready at its current generation, or none.
AtRest(r) ==
  /\ running[r] /\ pc[r] = "idle" /\ ~queued[r] /\ ~retry[r] /\ watch[r] = <<>>
  /\ "Deployment" \in Kinds => kcache[r]["Deployment"] = kids["Deployment"]

NoLostWork ==
  \A r \in Replicas : AtRest(r) /\ app # NoApp => ReportsReady(app)

\* Status never goes back: no step replaces the status of an incarnation by one
\* of an older generation, whichever replica wrote last and however old the
\* copy it worked from.
SameIncarnation == app # NoApp /\ app' # NoApp /\ app'.uid = app.uid

ObservedGenerationMonotone ==
  [][SameIncarnation =>
       /\ app'.status.observedGeneration >= app.status.observedGeneration
       /\ app'.status.observedGeneration <= app'.generation]_vars

\* Alerts and "kubectl wait" rely on transition times: a condition a reconcile
\* sets once keeps its entry, time included, from one version of an incarnation
\* to the next unless its status, reason or message changes.  (Progressing is
\* set twice per reconcile, so it is left out.)
SameEntry(e, f) ==
  e.status = f.status /\ e.reason = f.reason /\ e.message = f.message

TransitionTimesStable ==
  [][SameIncarnation =>
       \A t \in ConditionTypes \ {"Progressing"} :
         LET old == app.status.conditions[t]
             new == app'.status.conditions[t]
         IN  SameEntry(old, new) => old = new]_vars

------------------------------------------------------------------------------
(* Liveness.  Every goroutine of a running replica keeps going, a pending     *)
(* timer fires, a replica that is down is started again; garbage collector    *)
(* and Deployment controller do their work.  Users and faults owe nothing,    *)
(* and neither does the periodic resync: properties that need it say so.      *)

Fairness ==
  /\ \A r \in Replicas :
       /\ WF_vars(Fetch(r))
       /\ WF_vars(Work(r))
       /\ WF_vars(DeliverApp(r))
       /\ \A k \in Kinds : WF_vars(SyncChild(r, k))
       /\ WF_vars(RetryFires(r))
       /\ WF_vars(Start(r))
  /\ WF_vars(EnvironmentStep /\ \E k \in Kinds : GarbageCollect(k))
  /\ WF_vars(EnvironmentStep /\ (PodStarts \/ RolloutFinishes))

FairSpec == Spec /\ Fairness

\* What the status says of the pods is what the Deployment says.
StatusMatchesPods ==
  HasDeployment =>
    /\ app.status.readyReplicas = kids["Deployment"].ready
    /\ app.status.deployedVersion = kids["Deployment"].version

\* The application is gone, or Ready at its current generation, with those
\* children as the spec asks.
Converged(kinds) ==
  \/ app = NoApp
  \/ /\ ~app.deleting /\ ReportsReady(app)
     /\ \A k \in kinds : Applied(k, app)
     /\ StatusMatchesPods

\* Events and retries are enough, without the periodic resync: once users and faults
\* are done the application converges and stays so, with the Deployment as the spec
\* asks whoever changed it, for it is watched, and the other children as long as
\* nobody else changed them.
EventsSuffice == <>[]Converged((Kinds \ touched) \cup (Kinds \cap {"Deployment"}))

\* With the periodic resync it converges in every child.
EventuallyConverged ==
  (\A r \in Replicas : WF_vars(Resync(r))) => <>[]Converged(Kinds)

\* A deleted application goes away.
DeletionCompletes ==
  \A u \in 1 .. MaxUid :
    (app # NoApp /\ app.uid = u /\ app.deleting) ~> (app = NoApp \/ app.uid # u)

\* Nothing is left behind: when the last incarnation is gone, every child the
\* operator made for it or for an earlier one goes too.
OrphansCollected ==
  (uids = MaxUid /\ app = NoApp) ~> (\A k \in Kinds \ touched : kids[k] = NoChild)
=============================================================================
