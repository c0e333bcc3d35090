------------------------------ MODULE Operator ------------------------------
(***************************************************************************)
(* What the operator promises the cluster, without replicas, caches, work  *)
(* queues or workers: every write to the API server it may ever send, and  *)
(* what must hold when it sends it.  All that is left of its inner life is *)
(* `heard`, the specs of the present incarnation it may still act on; it   *)
(* hears every new one at once and forgets old ones when it likes.         *)
(* ReconcilerRefinement shows that Reconciler keeps these promises.        *)
(***************************************************************************)
EXTENDS Cluster

VARIABLE heard

operatorVars == <<clusterVars, heard>>

Init == ClusterInit /\ heard = {}

\* In every step: a new spec is heard, nothing outlives its incarnation, and
\* only what has been heard before may linger.
Hears ==
  IF app' = NoApp THEN heard' = {}
  ELSE LET old == IF app # NoApp /\ app.uid = app'.uid THEN heard ELSE {}
       IN  app'.spec \in heard' /\ heard' \subseteq old \cup {app'.spec}

\* A write whose answer is lost counts as a disturbance as well.
PerhapsDisturbed == disturbances' \in {disturbances, disturbances + 1}

------------------------------------------------------------------------------
(* The writes                                                                *)

Protect ==
  /\ app # NoApp /\ ~app.deleting
  /\ app' = [app EXCEPT !.finalizer = TRUE]
  /\ PerhapsDisturbed
  /\ UNCHANGED <<uids, kids, touched, now>>

\* The object goes away only because somebody deleted it.
Release ==
  /\ app # NoApp /\ app.deleting
  /\ app' = NoApp
  /\ PerhapsDisturbed
  /\ UNCHANGED <<uids, kids, touched, now>>

MayOwn(k) == kids[k] # NoChild => kids[k].owner \in {NoOwner, app.uid}

\* Child k becomes what one of the specs heard of asks for: made or changed for
\* this incarnation, never taken from another one, or removed.
Adjust(k) ==
  /\ app # NoApp /\ app.finalizer
  /\ \E spec \in heard :
       \/ /\ Wanted(k, spec) /\ MayOwn(k)
          /\ kids' = [kids EXCEPT ![k] =
               [owner   |-> app.uid, want |-> Desired(k, spec),
                ready   |-> IF @ = NoChild THEN 0 ELSE @.ready,
                version |-> IF @ = NoChild THEN "" ELSE @.version]]
       \/ ~Wanted(k, spec) /\ kids' = [kids EXCEPT ![k] = NoChild]
  /\ touched' = touched \ {k}
  /\ PerhapsDisturbed
  /\ UNCHANGED <<app, uids, now>>

\* Ready is said of a spec that is the only one left to act on, with every
\* child it asks for in place and enough pods counted.
MayReportReady(status) ==
  /\ heard = {app.spec}
  /\ \A k \in Kinds \ touched : Applied(k, app)
  /\ status.readyReplicas >= app.spec.replicas.min

Report ==
  /\ app # NoApp /\ app.finalizer /\ ~app.deleting
  /\ app' # NoApp /\ app' = [app EXCEPT !.status = app'.status]
  /\ app'.status \in Statuses
  /\ app'.status.observedGeneration = app.generation
  /\ app'.status.deployedVersion = app.spec.image.tag
  /\ IsReady(app'.status.conditions) => MayReportReady(app'.status)
  /\ PerhapsDisturbed
  /\ UNCHANGED <<uids, kids, touched, now>>

\* A step that shows nowhere but in what may still be acted on.
Think == PerhapsDisturbed /\ UNCHANGED <<app, uids, kids, touched, now>>

------------------------------------------------------------------------------

Next ==
  /\ \/ Think
     \/ Protect \/ Release \/ (\E k \in Kinds : Adjust(k)) \/ Report
     \/ ClusterNext
  /\ Hears

Spec == Init /\ [][Next]_operatorVars
=============================================================================
