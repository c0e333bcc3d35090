------------------------ MODULE ReconcilerInvariants ------------------------
(***************************************************************************)
(* The inductive invariant behind ReconcilerProofs, in named parts: why    *)
(* the resourceVersion check, the finalizer and leader election together   *)
(* make the status of an application trustworthy.                          *)
(***************************************************************************)
EXTENDS ReconcilerProperties

\* The versions of the application that r has and has still to see.
InSight(r) == {cache[r]} \cup {watch[r][i] : i \in 1 .. Len(watch[r])}

SameObject(a, b) ==
  /\ a.uid = b.uid /\ a.generation = b.generation /\ a.spec = b.spec
  /\ a.deleting = b.deleting /\ a.finalizer = b.finalizer

\* A worker exists in a running replica only, holds an application while it
\* works, and starts from the first child.
WorkerInv(r) ==
  /\ ~running[r] => watch[r] = <<>> /\ pc[r] = "idle"
  /\ IF pc[r] = "idle" THEN idx[r] = 1 /\ ~fresh[r] ELSE local[r] \in Apps

\* The watch stream of a running replica ends at the stored application.
StreamInv(r) ==
  running[r] => IF watch[r] = <<>> THEN cache[r] = app
                ELSE watch[r][Len(watch[r])] = app

\* What the resourceVersion check buys: the copy of a worker whose update
\* would be accepted is the stored application, and so is the cache.
FreshInv(r) ==
  fresh[r] => /\ app # NoApp /\ SameObject(local[r], app)
              /\ watch[r] = <<>> /\ cache[r] = app

\* What needs nothing but the resourceVersion check; any number of replicas
\* may be at work.
LockInv ==
  /\ TypeOK
  /\ \A r \in Replicas : WorkerInv(r) /\ StreamInv(r) /\ FreshInv(r)
  /\ StatusNotAhead

\* Leader election.
OneLeader == \A q, r \in Replicas : running[q] /\ running[r] => q = r

\* Which request a worker is about to send.
IntentInv(r) ==
  /\ pc[r] = "delete" => ~Wanted(Kind(r), local[r].spec)
  /\ pc[r] \in {"read", "create", "patch"} => Wanted(Kind(r), local[r].spec)
  /\ pc[r] = "removeFinalizer" => local[r].deleting

\* A version that shows the finalizer and no deletion is of the application
\* that is stored now.
HoldsBack(v) ==
  v # NoApp /\ v.finalizer /\ ~v.deleting =>
    app # NoApp /\ app.uid = v.uid /\ app.finalizer

FinalizerInv(r) == running[r] => \A v \in InSight(r) : HoldsBack(v)

\* Once the status says Ready, nobody will act on an older spec again.
SameDemand(a, b) ==
  a.uid = b.uid /\ a.generation = b.generation /\ a.spec = b.spec

ReadyInv(r) ==
  app # NoApp /\ ReportsReady(app) /\ running[r] =>
    /\ \A v \in InSight(r) : v # NoApp /\ SameDemand(v, app)
    /\ pc[r] # "idle" => SameDemand(local[r], app)

\* A worker that may still write the status has done what it has gone past.
Behind(r) == IF Applying(r) THEN 1 .. idx[r] - 1 ELSE 1 .. Len(Order)

ProgressInv(r) ==
  fresh[r] /\ (Applying(r) \/ (pc[r] = "status" /\ err[r] = NoError)) =>
    \A i \in Behind(r) : Order[i] \in touched \/ Applied(Order[i], app)

\* The whole argument: with one leader, the status never lies.
LeaderInv ==
  /\ LockInv
  /\ OneLeader
  /\ \A r \in Replicas :
       IntentInv(r) /\ FinalizerInv(r) /\ ReadyInv(r) /\ ProgressInv(r)
  /\ FinalizerProtects
  /\ ReadyMeansApplied

------------------------------------------------------------------------------
(* What holds of the replicas' work with or without leader election: why     *)
(* nothing is forgotten, transition times stay, and a copy says what its     *)
(* worker may do with it.                                                    *)

\* What a worker holds, and that a replica that is down has nothing.
HandsInv(r) ==
  /\ ~running[r] => cache[r] = NoApp /\ ~queued[r] /\ ~retry[r]
  /\ pc[r] = "idle" => local[r] = NoApp
  /\ pc[r] = "addFinalizer" => ~local[r].deleting /\ ~local[r].finalizer
  /\ pc[r] \in ChildSteps \cup {"status"} => ~local[r].deleting /\ local[r].finalizer

\* Nothing is known of incarnations still to come.
KnownTo(r) == InSight(r) \cup {local[r]}

IsPast(v) == v # NoApp => v.uid <= uids

UidsInv == IsPast(app) /\ \A r \in Replicas : \A v \in KnownTo(r) : IsPast(v)

\* An application marked for deletion is still there because of the finalizer.
HeldInv == app # NoApp /\ app.deleting => app.finalizer

\* A replica with nothing queued, to retry, in its hands or on its way has seen the
\* application Ready, whatever its cache knows of the children.
Quiet(r) ==
  running[r] /\ pc[r] = "idle" /\ ~queued[r] /\ ~retry[r] /\ watch[r] = <<>>

QuietInv(r) == Quiet(r) /\ app # NoApp => ReportsReady(app)

\* The conditions in the copy of a worker whose update would be accepted: those the
\* reconcile is yet to set are the stored ones, the one set at its start is the
\* stored one unless it says something else.
TimesInv(r) ==
  fresh[r] =>
    LET stored == app.status.conditions
        held   == local[r].status.conditions
    IN  /\ held["Ready"] = stored["Ready"] /\ held["Degraded"] = stored["Degraded"]
        /\ SameEntry(stored["ConfigurationValid"], held["ConfigurationValid"]) =>
             stored["ConfigurationValid"] = held["ConfigurationValid"]

WorkInv ==
  /\ \A r \in Replicas : HandsInv(r) /\ QuietInv(r) /\ TimesInv(r)
  /\ UidsInv /\ HeldInv
=============================================================================
