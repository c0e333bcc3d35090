---------------------------- MODULE MCReconciler ----------------------------
(***************************************************************************)
(* Constants for model-checking ReconcilerProperties, ReconcilerRefinement *)
(* and DocumentedClaims: the specs and kinds of each instance.             *)
(***************************************************************************)
EXTENDS DocumentedClaims, ReconcilerRefinement, MCSpecs, TLC

BogusAndGateway == {BaseSpec, SpecBogus, SpecGateway}
TwoSpecs == {BaseSpec, SpecHPA}

DeploymentOnly == <<"Deployment">>
DeploymentAndHPA == <<"Deployment", "HPA">>
DeploymentAndRoute == <<"Deployment", "HTTPRoute">>
DeploymentAndService == <<"Deployment", "Service">>

ServiceOnly == <<"Service">>

OneSpec == {BaseSpec}

\* Replicas are interchangeable.
ReplicaSymmetry == Permutations(Replicas)
=============================================================================
