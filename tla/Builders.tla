------------------------------ MODULE Builders ------------------------------
(***************************************************************************)
(* internal/controller/subreconcilers, the pure part: which children a     *)
(* PlatformApplication spec asks for (Wanted) and what each of them says   *)
(* (Desired).  A spec is a record with the fields of                       *)
(* api/v1alpha1/platformapplication_types.go.  Names and labels are        *)
(* functions of the application's name, which is fixed here, and are left  *)
(* out; the constants every child of a kind carries (probe timings,        *)
(* security contexts, selectors) are left out as well.                     *)
(*                                                                         *)
(* A string whose content the code looks into is modelled by what the code *)
(* sees in it: a quantity by whether resource.MustParse accepts it         *)
(* (Unparseable), a percentage-or-number by what strconv.Atoi returns      *)
(* (Atoi), a gateway reference by the parts strings.SplitN cuts it into.   *)
(***************************************************************************)
EXTENDS Integers, Sequences

CONSTANTS
  Unparseable,  \* the quantity strings resource.MustParse panics on
  Atoi,         \* function from the strings strconv.Atoi accepts to their value
  Int32Limit    \* 2^31: int32(v) keeps v modulo twice this

\* The order in which reconcileResources calls the sub-reconcilers.
SubReconcilers == <<"Deployment", "Service", "HPA", "HTTPRoute",
                    "NetworkPolicy", "PodDisruptionBudget", "ServiceMonitor">>

KindNames == {"Deployment", "Service", "HPA", "HTTPRoute", "NetworkPolicy",
              "PodDisruptionBudget", "ServiceMonitor"}

\* Unstructured objects are read from the API server, all others from the
\* informer cache.
LiveReads == {"ServiceMonitor"}

Wanted(k, spec) ==
  CASE k = "HPA"                 -> spec.autoscaling.enabled
    [] k = "HTTPRoute"           -> spec.gateway.enabled
    [] k = "NetworkPolicy"       -> spec.security.networkPolicy
    [] k = "PodDisruptionBudget" -> spec.replicas.min > 1
    [] k = "ServiceMonitor"      -> spec.observability.metrics
    [] OTHER                     -> TRUE

Quantities(spec) ==
  {spec.resources.requests.cpu, spec.resources.requests.memory,
   spec.resources.limits.cpu, spec.resources.limits.memory}

\* resource.MustParse panics while the Deployment is being built.
BuildPanics(k, spec) ==
  k = "Deployment" /\ Quantities(spec) \cap Unparseable # {}

OrElse(value, default) == IF value = "" THEN default ELSE value

\* The conversion int32(v) of a Go int, two's complement.
Int32(v) == ((v + Int32Limit) % (2 * Int32Limit)) - Int32Limit

\* intstr.FromString, or FromInt32 when strconv.Atoi accepts the string.  The
\* empty string stands for a pointer that is left nil.
IntOrString(s) ==
  IF s \in DOMAIN Atoi THEN [int |-> Int32(Atoi[s])] ELSE [string |-> s]

DeploymentStrategy(rollout) ==
  IF rollout.strategy = "Recreate" THEN [type |-> "Recreate"]
  ELSE IF rollout.maxUnavailable = "" /\ rollout.maxSurge = ""
  THEN [type |-> "RollingUpdate"]
  ELSE [type |-> "RollingUpdate",
        maxUnavailable |-> IntOrString(rollout.maxUnavailable),
        maxSurge |-> IntOrString(rollout.maxSurge)]

\* container.Env lists the configuration in key order, so it is a function of
\* the configuration; it is modelled by the configuration itself.
DesiredDeployment(spec) ==
  [replicas      |-> IF spec.replicas.min < 1 THEN 1 ELSE spec.replicas.min,
   image         |-> <<spec.image.repository, spec.image.tag>>,
   pullPolicy    |-> spec.image.pullPolicy,
   containerPort |-> spec.service.port,
   env           |-> spec.configuration,
   resources     |-> spec.resources,
   probePort     |-> IF spec.healthChecks.port # 0 THEN spec.healthChecks.port
                     ELSE spec.service.port,
   livenessPath  |-> OrElse(spec.healthChecks.livenessPath, "/healthz"),
   readinessPath |-> OrElse(spec.healthChecks.readinessPath, "/readyz"),
   strategy      |-> DeploymentStrategy(spec.rollout)]

DesiredService(spec) ==
  [type |-> OrElse(spec.service.type, "ClusterIP"), port |-> spec.service.port]

DesiredHPA(spec) ==
  [minReplicas |-> spec.replicas.min,
   maxReplicas |-> IF spec.replicas.max < spec.replicas.min THEN spec.replicas.min
                   ELSE spec.replicas.max,
   targetCPU   |-> IF spec.autoscaling.targetCPU = 0 THEN 80
                   ELSE spec.autoscaling.targetCPU]

DesiredHTTPRoute(spec) ==
  [pathPrefix |-> OrElse(spec.gateway.pathPrefix, "/"),
   port       |-> spec.service.port,
   hostnames  |-> IF spec.gateway.host = "" THEN {} ELSE {spec.gateway.host},
   parentRefs |-> IF Len(spec.gateway.gatewayRef) = 2 THEN {spec.gateway.gatewayRef}
                  ELSE {}]

DesiredNetworkPolicy(spec) == [ingressPort |-> spec.service.port]

DesiredPDB(spec) ==
  [maxUnavailable |-> IF spec.replicas.min > 4 THEN "25%" ELSE "1"]

DesiredServiceMonitor(spec) ==
  [endpointPort |-> "http", path |-> "/metrics", interval |-> "30s"]

Desired(k, spec) ==
  CASE k = "Deployment"          -> DesiredDeployment(spec)
    [] k = "Service"             -> DesiredService(spec)
    [] k = "HPA"                 -> DesiredHPA(spec)
    [] k = "HTTPRoute"           -> DesiredHTTPRoute(spec)
    [] k = "NetworkPolicy"       -> DesiredNetworkPolicy(spec)
    [] k = "PodDisruptionBudget" -> DesiredPDB(spec)
    [] k = "ServiceMonitor"      -> DesiredServiceMonitor(spec)

\* The fields of a child that are set for some specs and left out for others.
OptionalFields(k, child) ==
  CASE k = "Deployment" ->
         {<<"env", n>> : n \in DOMAIN child.env}
         \cup {f \in {"requests", "limits"} \X {"cpu", "memory"} :
                 child.resources[f[1]][f[2]] # ""}
         \cup {<<"strategy", f>> : f \in {g \in DOMAIN child.strategy \ {"type"} :
                                           child.strategy[g] # IntOrString("")}}
    [] k = "HTTPRoute" -> {f \in {"hostnames", "parentRefs"} : child[f] # {}}
    [] OTHER -> {}
=============================================================================
