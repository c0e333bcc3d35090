------------------------------- MODULE MCSpecs -------------------------------
(***************************************************************************)
(* Specs for the instances: a small one, and the variants users switch     *)
(* between.                                                                *)
(***************************************************************************)
EXTENDS Integers

BaseSpec ==
  [image         |-> [repository |-> "repo", tag |-> "v1", pullPolicy |-> "IfNotPresent"],
   replicas      |-> [min |-> 1, max |-> 2],
   service       |-> [port |-> 80, type |-> "ClusterIP"],
   configuration |-> [n \in {} |-> ""],
   autoscaling   |-> [enabled |-> FALSE, targetCPU |-> 0],
   gateway       |-> [enabled |-> FALSE, host |-> "", gatewayRef |-> <<>>, pathPrefix |-> ""],
   observability |-> [metrics |-> FALSE],
   security      |-> [networkPolicy |-> FALSE],
   resources     |-> [requests |-> [cpu |-> "100m", memory |-> ""],
                      limits |-> [cpu |-> "", memory |-> ""]],
   healthChecks  |-> [livenessPath |-> "", readinessPath |-> "", port |-> 0],
   rollout       |-> [strategy |-> "", maxUnavailable |-> "", maxSurge |-> ""]]

\* v1 without autoscaling, v2 with it: the edit changes one child and creates
\* or deletes the other.
SpecHPA == [BaseSpec EXCEPT !.image.tag = "v2", !.autoscaling.enabled = TRUE]

\* Exposed through a gateway.
SpecGateway == [BaseSpec EXCEPT !.gateway.enabled = TRUE, !.gateway.host = "h"]

\* A CPU request resource.MustParse does not accept.
SpecBogus == [BaseSpec EXCEPT !.resources.requests.cpu = "bogus"]

\* A memory limit and a configuration entry the others do not set.
SpecConfigured ==
  [BaseSpec EXCEPT !.configuration = [n \in {"LEVEL"} |-> "debug"],
                   !.resources.limits.memory = "64Mi"]

MCAtoi == [s \in {"1", "2"} |-> IF s = "1" THEN 1 ELSE 2]
=============================================================================
