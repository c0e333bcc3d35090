------------------------------ MODULE MCVersions ------------------------------
(***************************************************************************)
(* Constants for model-checking VersionedStore.                            *)
(***************************************************************************)
EXTENDS VersionedStore

PlainSpec ==
  [image          |-> [repository |-> "repo", tag |-> "v1", pullPolicy |-> "Always"],
   replicas       |-> [min |-> 2, max |-> 0],
   service        |-> [port |-> 80, type |-> ""],
   configuration  |-> Nil,
   autoscaling    |-> [enabled |-> FALSE, targetCPU |-> 0],
   gateway        |-> [enabled |-> FALSE, host |-> "", gatewayRef |-> <<>>, pathPrefix |-> ""],
   observability  |-> [metrics |-> FALSE],
   security       |-> [networkPolicy |-> FALSE],
   resources      |-> [requests |-> [cpu |-> "", memory |-> ""],
                       limits |-> [cpu |-> "", memory |-> ""]],
   healthChecks   |-> [livenessPath |-> "", readinessPath |-> "", port |-> 0],
   rollout        |-> [strategy |-> "", maxUnavailable |-> "", maxSurge |-> ""],
   envFrom        |-> Nil,
   podAnnotations |-> Nil]

\* No two fields are the same, and none is zero.
FullSpec ==
  [image          |-> [repository |-> "repo", tag |-> "v1", pullPolicy |-> "Always"],
   replicas       |-> [min |-> 2, max |-> 3],
   service        |-> [port |-> 80, type |-> "NodePort"],
   configuration  |-> "greeting",
   autoscaling    |-> [enabled |-> TRUE, targetCPU |-> 70],
   gateway        |-> [enabled |-> TRUE, host |-> "host", gatewayRef |-> <<"shared", "infra">>,
                       pathPrefix |-> "/app"],
   observability  |-> [metrics |-> TRUE],
   security       |-> [networkPolicy |-> TRUE],
   resources      |-> [requests |-> [cpu |-> "100m", memory |-> "64Mi"],
                       limits |-> [cpu |-> "200m", memory |-> "128Mi"]],
   healthChecks   |-> [livenessPath |-> "/live", readinessPath |-> "/ready", port |-> 8080],
   rollout        |-> [strategy |-> "Recreate", maxUnavailable |-> "1", maxSurge |-> "2"],
   envFrom        |-> "secret",
   podAnnotations |-> "team"]

\* Without max, without anything optional; and one that sets everything.
MCSubmitted == {PlainSpec, FullSpec}

MCReferences == {<<>>, <<"shared", "infra">>}

Edit(section, field, value) == [section |-> section, field |-> field, value |-> value]

\* Counts the webhook or the schema refuses, optional sections, an unknown
\* strategy, an empty tag, a hub field.
MCEdits ==
  {Edit("replicas", "min", m) : m \in {0, 1, 3, 1001}} \cup {Edit("replicas", "max", 3)}
  \cup {Edit("gateway", "enabled", TRUE), Edit("autoscaling", "enabled", TRUE),
        Edit("rollout", "strategy", "Recreate"), Edit("rollout", "strategy", "BlueGreen"),
        Edit("healthChecks", "livenessPath", "")}
  \cup {Edit("image", "tag", t) : t \in {"", "v2"}}
  \cup {Edit("envFrom", "", "config")}

MCAtoi == [s \in {"1", "2"} |-> IF s = "1" THEN 1 ELSE 2]
==============================================================================
