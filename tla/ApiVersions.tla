----------------------------- MODULE ApiVersions -----------------------------
(***************************************************************************)
(* api/v1alpha1, v1beta1 and v1, the pure part: the conversions from and   *)
(* to the version that is stored (v1beta1, the hub), what the schema       *)
(* defaults and admits (the markers of the types), and what the admission  *)
(* webhooks do.  The operator works in v1alpha1.  A spec is a record of    *)
(* sections, as in Builders; the hub and v1 have two more.  Markers,       *)
(* defaulters and validators of v1alpha1 and v1beta1 are the same twice,   *)
(* and look at the shared sections only.  main registers no v1 types, so   *)
(* no request comes in that version.                                       *)
(***************************************************************************)
EXTENDS Builders

CONSTANTS Configurations, References  \* what a configuration and a gatewayRef can be

\* The defaults are named because the provers do not take a literal for a string.
Strings ==
  STRING \cup {"", "IfNotPresent", "ClusterIP", "/", "/healthz", "/readyz", "RollingUpdate"}

\* The specs of v1alpha1.
AlphaSpecs ==
  [image         : [repository : Strings, tag : Strings, pullPolicy : Strings],
   replicas      : [min : Int, max : Int],
   service       : [port : Int, type : Strings],
   configuration : Configurations,
   autoscaling   : [enabled : BOOLEAN, targetCPU : Int],
   gateway       : [enabled : BOOLEAN, host : Strings, gatewayRef : References,
                    pathPrefix : Strings],
   observability : [metrics : BOOLEAN],
   security      : [networkPolicy : BOOLEAN],
   resources     : [requests : [cpu : Strings, memory : Strings],
                    limits : [cpu : Strings, memory : Strings]],
   healthChecks  : [livenessPath : Strings, readinessPath : Strings, port : Int],
   rollout       : [strategy : Strings, maxUnavailable : Strings, maxSurge : Strings]]

\* The specs of v1beta1.
HubSpecs ==
  [image          : [repository : Strings, tag : Strings, pullPolicy : Strings],
   replicas       : [min : Int, max : Int],
   service        : [port : Int, type : Strings],
   configuration  : Configurations,
   autoscaling    : [enabled : BOOLEAN, targetCPU : Int],
   gateway        : [enabled : BOOLEAN, host : Strings, gatewayRef : References,
                     pathPrefix : Strings],
   observability  : [metrics : BOOLEAN],
   security       : [networkPolicy : BOOLEAN],
   resources      : [requests : [cpu : Strings, memory : Strings],
                     limits : [cpu : Strings, memory : Strings]],
   healthChecks   : [livenessPath : Strings, readinessPath : Strings, port : Int],
   rollout        : [strategy : Strings, maxUnavailable : Strings, maxSurge : Strings],
   envFrom        : Strings,
   podAnnotations : Strings]

\* v1 has the sections of the hub.
V1Specs == HubSpecs

Versions == {"v1alpha1", "v1beta1"}

\* What v1alpha1 does not have.
HubOnly == {"envFrom", "podAnnotations"}

\* A nil list or map.
Nil == ""

\* The conversions copy field by field; a field left out would be zero.

\* ConvertFrom of v1alpha1: what only the hub has is dropped.
HubToAlpha(hub) ==
  [image          |-> [repository |-> hub.image.repository, tag |-> hub.image.tag,
                       pullPolicy |-> hub.image.pullPolicy],
   replicas       |-> [min |-> hub.replicas.min, max |-> hub.replicas.max],
   service        |-> [port |-> hub.service.port, type |-> hub.service.type],
   configuration  |-> hub.configuration,
   autoscaling    |-> [enabled |-> hub.autoscaling.enabled,
                       targetCPU |-> hub.autoscaling.targetCPU],
   gateway        |-> [enabled |-> hub.gateway.enabled, host |-> hub.gateway.host,
                       gatewayRef |-> hub.gateway.gatewayRef,
                       pathPrefix |-> hub.gateway.pathPrefix],
   observability  |-> [metrics |-> hub.observability.metrics],
   security       |-> [networkPolicy |-> hub.security.networkPolicy],
   resources      |-> [requests |-> [cpu |-> hub.resources.requests.cpu,
                                     memory |-> hub.resources.requests.memory],
                       limits |-> [cpu |-> hub.resources.limits.cpu,
                                   memory |-> hub.resources.limits.memory]],
   healthChecks   |-> [livenessPath |-> hub.healthChecks.livenessPath,
                       readinessPath |-> hub.healthChecks.readinessPath,
                       port |-> hub.healthChecks.port],
   rollout        |-> [strategy |-> hub.rollout.strategy,
                       maxUnavailable |-> hub.rollout.maxUnavailable,
                       maxSurge |-> hub.rollout.maxSurge]]

\* Variant: the image tag is not copied.
AlphaToHubForgetsTag(alpha) ==
  [image         |-> [alpha.image EXCEPT !.tag = ""],
   replicas      |-> alpha.replicas,
   service       |-> alpha.service,       configuration |-> alpha.configuration,
   autoscaling   |-> alpha.autoscaling,   gateway      |-> alpha.gateway,
   observability |-> alpha.observability, security     |-> alpha.security,
   resources     |-> alpha.resources,     healthChecks |-> alpha.healthChecks,
   rollout       |-> alpha.rollout,
   envFrom       |-> Nil,                 podAnnotations |-> Nil]

\* ConvertTo of v1alpha1: what only the hub has is nil.
AlphaToHub(alpha) ==
  [image          |-> [repository |-> alpha.image.repository, tag |-> alpha.image.tag,
                       pullPolicy |-> alpha.image.pullPolicy],
   replicas       |-> [min |-> alpha.replicas.min, max |-> alpha.replicas.max],
   service        |-> [port |-> alpha.service.port, type |-> alpha.service.type],
   configuration  |-> alpha.configuration,
   autoscaling    |-> [enabled |-> alpha.autoscaling.enabled,
                       targetCPU |-> alpha.autoscaling.targetCPU],
   gateway        |-> [enabled |-> alpha.gateway.enabled, host |-> alpha.gateway.host,
                       gatewayRef |-> alpha.gateway.gatewayRef,
                       pathPrefix |-> alpha.gateway.pathPrefix],
   observability  |-> [metrics |-> alpha.observability.metrics],
   security       |-> [networkPolicy |-> alpha.security.networkPolicy],
   resources      |-> [requests |-> [cpu |-> alpha.resources.requests.cpu,
                                     memory |-> alpha.resources.requests.memory],
                       limits |-> [cpu |-> alpha.resources.limits.cpu,
                                   memory |-> alpha.resources.limits.memory]],
   healthChecks   |-> [livenessPath |-> alpha.healthChecks.livenessPath,
                       readinessPath |-> alpha.healthChecks.readinessPath,
                       port |-> alpha.healthChecks.port],
   rollout        |-> [strategy |-> alpha.rollout.strategy,
                       maxUnavailable |-> alpha.rollout.maxUnavailable,
                       maxSurge |-> alpha.rollout.maxSurge],
   envFrom        |-> Nil,
   podAnnotations |-> Nil]

\* ConvertTo and ConvertFrom of v1, which has every section of the hub.
V1ToHub(v1) ==
  [image          |-> [repository |-> v1.image.repository, tag |-> v1.image.tag,
                       pullPolicy |-> v1.image.pullPolicy],
   replicas       |-> [min |-> v1.replicas.min, max |-> v1.replicas.max],
   service        |-> [port |-> v1.service.port, type |-> v1.service.type],
   configuration  |-> v1.configuration,
   autoscaling    |-> [enabled |-> v1.autoscaling.enabled,
                       targetCPU |-> v1.autoscaling.targetCPU],
   gateway        |-> [enabled |-> v1.gateway.enabled, host |-> v1.gateway.host,
                       gatewayRef |-> v1.gateway.gatewayRef,
                       pathPrefix |-> v1.gateway.pathPrefix],
   observability  |-> [metrics |-> v1.observability.metrics],
   security       |-> [networkPolicy |-> v1.security.networkPolicy],
   resources      |-> [requests |-> [cpu |-> v1.resources.requests.cpu,
                                     memory |-> v1.resources.requests.memory],
                       limits |-> [cpu |-> v1.resources.limits.cpu,
                                   memory |-> v1.resources.limits.memory]],
   healthChecks   |-> [livenessPath |-> v1.healthChecks.livenessPath,
                       readinessPath |-> v1.healthChecks.readinessPath,
                       port |-> v1.healthChecks.port],
   rollout        |-> [strategy |-> v1.rollout.strategy,
                       maxUnavailable |-> v1.rollout.maxUnavailable,
                       maxSurge |-> v1.rollout.maxSurge],
   envFrom        |-> v1.envFrom,
   podAnnotations |-> v1.podAnnotations]

\* Variant: an assignment of ConvertFrom is left out.
HubToV1ForgetsMaxSurge(hub) ==
  [hub EXCEPT !.rollout = [strategy |-> @.strategy, maxUnavailable |-> @.maxUnavailable,
                           maxSurge |-> ""]]

HubToV1(hub) ==
  [image          |-> [repository |-> hub.image.repository, tag |-> hub.image.tag,
                       pullPolicy |-> hub.image.pullPolicy],
   replicas       |-> [min |-> hub.replicas.min, max |-> hub.replicas.max],
   service        |-> [port |-> hub.service.port, type |-> hub.service.type],
   configuration  |-> hub.configuration,
   autoscaling    |-> [enabled |-> hub.autoscaling.enabled,
                       targetCPU |-> hub.autoscaling.targetCPU],
   gateway        |-> [enabled |-> hub.gateway.enabled, host |-> hub.gateway.host,
                       gatewayRef |-> hub.gateway.gatewayRef,
                       pathPrefix |-> hub.gateway.pathPrefix],
   observability  |-> [metrics |-> hub.observability.metrics],
   security       |-> [networkPolicy |-> hub.security.networkPolicy],
   resources      |-> [requests |-> [cpu |-> hub.resources.requests.cpu,
                                     memory |-> hub.resources.requests.memory],
                       limits |-> [cpu |-> hub.resources.limits.cpu,
                                   memory |-> hub.resources.limits.memory]],
   healthChecks   |-> [livenessPath |-> hub.healthChecks.livenessPath,
                       readinessPath |-> hub.healthChecks.readinessPath,
                       port |-> hub.healthChecks.port],
   rollout        |-> [strategy |-> hub.rollout.strategy,
                       maxUnavailable |-> hub.rollout.maxUnavailable,
                       maxSurge |-> hub.rollout.maxSurge],
   envFrom        |-> hub.envFrom,
   podAnnotations |-> hub.podAnnotations]

SpecsOf(api)          == IF api = "v1alpha1" THEN AlphaSpecs ELSE HubSpecs
ReadAs(api, spec)     == IF api = "v1alpha1" THEN HubToAlpha(spec) ELSE spec
StoredFrom(api, spec) == IF api = "v1alpha1" THEN AlphaToHub(spec) ELSE spec

\* Variant: another default than the builder's.
FillHealthChecksOtherwise(checks) ==
  [checks EXCEPT !.livenessPath = OrElse(@, "/health"), !.readinessPath = OrElse(@, "/readyz")]

\* Default of the defaulting webhook, section by section.
FillImage(image)         == [image EXCEPT !.pullPolicy = OrElse(@, "IfNotPresent")]
FillReplicas(replicas)   == [replicas EXCEPT !.max = IF @ = 0 THEN replicas.min ELSE @]
FillService(service)     == [service EXCEPT !.type = OrElse(@, "ClusterIP")]
FillAutoscaling(scaling) ==
  [scaling EXCEPT !.targetCPU = IF scaling.enabled /\ @ = 0 THEN 80 ELSE @]
FillHealthChecks(checks) ==
  [checks EXCEPT !.livenessPath = OrElse(@, "/healthz"), !.readinessPath = OrElse(@, "/readyz")]
FillRollout(rollout)     == [rollout EXCEPT !.strategy = OrElse(@, "RollingUpdate")]
FillGateway(gateway)     ==
  [gateway EXCEPT !.pathPrefix = IF gateway.enabled THEN OrElse(@, "/") ELSE @]

Default(spec) ==
  [spec EXCEPT !.image        = FillImage(@),
               !.replicas     = FillReplicas(@),
               !.service      = FillService(@),
               !.autoscaling  = FillAutoscaling(@),
               !.healthChecks = FillHealthChecks(@),
               !.rollout      = FillRollout(@),
               !.gateway      = FillGateway(@)]

Ports == 1 .. 65535

\* validatePlatformApplication returns no error; its warnings refuse nothing.
\* A deletion is not validated.
Valid(spec) ==
  /\ ~(spec.replicas.max > 0 /\ spec.replicas.min > spec.replicas.max)
  /\ spec.replicas.min >= 1
  /\ spec.image.repository # ""
  /\ spec.image.tag # ""
  /\ spec.service.port \in Ports

------------------------------------------------------------------------------
(* The schema *)

\* The default markers.  They apply to the sections a request has, before the
\* webhook, and to all of them after it: it sends every section back.
SchemaDefault(spec) ==
  [spec EXCEPT !.image        = [spec.image EXCEPT !.pullPolicy = OrElse(@, "IfNotPresent")],
               !.service      = [spec.service EXCEPT !.type = OrElse(@, "ClusterIP")],
               !.autoscaling  = [spec.autoscaling EXCEPT !.targetCPU = IF @ = 0 THEN 80 ELSE @],
               !.gateway      = [spec.gateway EXCEPT !.pathPrefix = OrElse(@, "/")],
               !.healthChecks = [spec.healthChecks EXCEPT
                                       !.livenessPath = OrElse(@, "/healthz"),
                                       !.readinessPath = OrElse(@, "/readyz")],
               !.rollout      = [spec.rollout EXCEPT !.strategy = OrElse(@, "RollingUpdate")]]

\* The validation markers, section by section.  An optional number that is zero is
\* left out.
PullPolicies == {"Always", "IfNotPresent", "Never"}
ServiceTypes == {"ClusterIP", "NodePort", "LoadBalancer"}
Strategies   == {"RollingUpdate", "Recreate"}

AdmitsImage(image) ==
  /\ image.repository # "" /\ image.tag # ""
  /\ image.pullPolicy \in PullPolicies
AdmitsReplicas(replicas)   == replicas.min \in 1 .. 1000 /\ replicas.max \in 0 .. 1000
AdmitsService(service)     == service.port \in Ports /\ service.type \in ServiceTypes
AdmitsAutoscaling(scaling) == scaling.targetCPU \in 0 .. 100
AdmitsRollout(rollout)     == rollout.strategy \in Strategies

SchemaAdmits(spec) ==
  /\ AdmitsImage(spec.image)
  /\ AdmitsReplicas(spec.replicas)
  /\ AdmitsService(spec.service)
  /\ AdmitsAutoscaling(spec.autoscaling)
  /\ AdmitsRollout(spec.rollout)

\* What a request becomes, and whether it is let through.
Defaulted(spec)  == SchemaDefault(Default(spec))
Admissible(spec) == SchemaAdmits(spec) /\ Valid(spec)
==============================================================================
