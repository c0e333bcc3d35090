------------------------ MODULE ReconcilerRefinement ------------------------
(***************************************************************************)
(* Reconciler implements Operator: whatever the replicas, their caches and *)
(* their workers do under leader election, the API server sees nothing but *)
(* the writes Operator allows.                                             *)
(***************************************************************************)
EXTENDS ReconcilerInvariants

\* The versions of the present incarnation somebody may still act on: old ones
\* live on in caches, watch streams and the copies of workers.
Known == (UNION {KnownTo(r) : r \in Replicas}) \cup {app}

Heard ==
  IF app = NoApp THEN {}
  ELSE {v.spec : v \in {w \in Known : w # NoApp /\ w.uid = app.uid}}

Abstract == INSTANCE Operator WITH heard <- Heard

\* Refinement: no interleaving of the replicas' reads, writes, crashes and
\* leader changes makes the operator send a request Operator does not allow.
ImplementsOperator == Abstract!Spec
=============================================================================
