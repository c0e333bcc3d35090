------------------------- MODULE VersionedStoreProofs -------------------------
(***************************************************************************)
(* What holds of the conversions and the defaults for every spec, and of   *)
(* stored applications for every set of submitted specs and                *)
(* edits.  The invariant StoreInv says that what is stored has been        *)
(* admitted and defaulted, and that the operator's copy, while nothing has *)
(* been written since, is what is stored as v1alpha1 shows it.             *)
(***************************************************************************)
EXTENDS VersionedStore, TLAPS

------------------------------------------------------------------------------
(* Conversions and defaults, for every spec                                  *)

AnySpecs == AlphaSpecs \cup HubSpecs

\* Copying every field of a section copies the section.
SharedSectionsOf(s) ==
  [image |-> s.image, replicas |-> s.replicas, service |-> s.service,
   configuration |-> s.configuration, autoscaling |-> s.autoscaling,
   gateway |-> s.gateway, observability |-> s.observability, security |-> s.security,
   resources |-> s.resources, healthChecks |-> s.healthChecks, rollout |-> s.rollout]

AlphaAsHub(s) ==
  [image |-> s.image, replicas |-> s.replicas, service |-> s.service,
   configuration |-> s.configuration, autoscaling |-> s.autoscaling,
   gateway |-> s.gateway, observability |-> s.observability, security |-> s.security,
   resources |-> s.resources, healthChecks |-> s.healthChecks, rollout |-> s.rollout,
   envFrom |-> Nil, podAnnotations |-> Nil]

LEMMA HubToAlphaKeepsShared ==
  ASSUME NEW s \in HubSpecs
  PROVE  HubToAlpha(s) = SharedSectionsOf(s)
<1> DEFINE t == HubToAlpha(s)
<1>1. t = SharedSectionsOf(t)
  BY DEF HubToAlpha, SharedSectionsOf
<1>2. /\ t.image = s.image /\ t.replicas = s.replicas
      /\ t.service = s.service /\ t.configuration = s.configuration
  BY DEF HubToAlpha, HubSpecs
<1>3. /\ t.autoscaling = s.autoscaling /\ t.gateway = s.gateway
      /\ t.observability = s.observability /\ t.security = s.security
  BY DEF HubToAlpha, HubSpecs
<1>4. /\ t.resources = s.resources /\ t.healthChecks = s.healthChecks
      /\ t.rollout = s.rollout
  BY DEF HubToAlpha, HubSpecs
<1> HIDE DEF t
<1>5. t = SharedSectionsOf(s)
  BY <1>1, <1>2, <1>3, <1>4 DEF SharedSectionsOf
<1> QED
  BY <1>5 DEF t

LEMMA AlphaToHubKeepsAll ==
  ASSUME NEW s \in AlphaSpecs
  PROVE  AlphaToHub(s) = AlphaAsHub(s)
<1> DEFINE t == AlphaToHub(s)
<1>1. t = AlphaAsHub(t)
  BY DEF AlphaToHub, AlphaAsHub
<1>2. /\ t.image = s.image /\ t.replicas = s.replicas
      /\ t.service = s.service /\ t.configuration = s.configuration
  BY DEF AlphaToHub, AlphaSpecs
<1>3. /\ t.autoscaling = s.autoscaling /\ t.gateway = s.gateway
      /\ t.observability = s.observability /\ t.security = s.security
  BY DEF AlphaToHub, AlphaSpecs
<1>4. /\ t.resources = s.resources /\ t.healthChecks = s.healthChecks
      /\ t.rollout = s.rollout
  BY DEF AlphaToHub, AlphaSpecs
<1> HIDE DEF t
<1>5. t = AlphaAsHub(s)
  BY <1>1, <1>2, <1>3, <1>4 DEF AlphaAsHub
<1> QED
  BY <1>5 DEF t

\* Storing a v1alpha1 spec and reading it again gives the same spec: ConvertTo
\* and ConvertFrom lose nothing that v1alpha1 has.
THEOREM AlphaRoundTrip ==
  ASSUME NEW spec \in AlphaSpecs
  PROVE  HubToAlpha(AlphaToHub(spec)) = spec
<1>1. AlphaToHub(spec) = AlphaAsHub(spec) /\ AlphaAsHub(spec) \in HubSpecs
  <2>1. Nil \in Strings
    BY DEF Nil, Strings
  <2>2. AlphaAsHub(spec) \in HubSpecs
    BY <2>1 DEF AlphaAsHub, AlphaSpecs, HubSpecs
  <2> QED
    BY <2>2, AlphaToHubKeepsAll
<1>2. HubToAlpha(AlphaToHub(spec)) = SharedSectionsOf(AlphaAsHub(spec))
  BY <1>1, HubToAlphaKeepsShared
<1>3. SharedSectionsOf(AlphaAsHub(spec)) = spec
  BY DEF SharedSectionsOf, AlphaAsHub, AlphaSpecs
<1> QED
  BY <1>2, <1>3

\* A spec of the hub is the record of its sections.
Sections(s) ==
  [image |-> s.image, replicas |-> s.replicas, service |-> s.service,
   configuration |-> s.configuration, autoscaling |-> s.autoscaling,
   gateway |-> s.gateway, observability |-> s.observability, security |-> s.security,
   resources |-> s.resources, healthChecks |-> s.healthChecks, rollout |-> s.rollout,
   envFrom |-> s.envFrom, podAnnotations |-> s.podAnnotations]

\* ConvertTo of v1 has an assignment for each field there is.
LEMMA V1ToHubKeepsAll ==
  ASSUME NEW s \in HubSpecs
  PROVE  V1ToHub(s) = s
<1> DEFINE t == V1ToHub(s)
<1>1. t = Sections(t) /\ s = Sections(s)
  BY DEF V1ToHub, Sections, HubSpecs
<1>2. /\ t.image = s.image /\ t.replicas = s.replicas
      /\ t.service = s.service /\ t.configuration = s.configuration
  BY DEF V1ToHub, HubSpecs
<1>3. /\ t.autoscaling = s.autoscaling /\ t.gateway = s.gateway
      /\ t.observability = s.observability /\ t.security = s.security
  BY DEF V1ToHub, HubSpecs
<1>4. /\ t.resources = s.resources /\ t.healthChecks = s.healthChecks
      /\ t.rollout = s.rollout /\ t.envFrom = s.envFrom
  BY DEF V1ToHub, HubSpecs
<1>5. t.podAnnotations = s.podAnnotations
  BY DEF V1ToHub, HubSpecs
<1> HIDE DEF t
<1>6. t = s
  BY <1>1, <1>2, <1>3, <1>4, <1>5 DEF Sections
<1> QED
  BY <1>6 DEF t

\* And so has ConvertFrom.
LEMMA HubToV1KeepsAll ==
  ASSUME NEW s \in HubSpecs
  PROVE  HubToV1(s) = s
<1> DEFINE t == HubToV1(s)
<1>1. t = Sections(t) /\ s = Sections(s)
  BY DEF HubToV1, Sections, HubSpecs
<1>2. /\ t.image = s.image /\ t.replicas = s.replicas
      /\ t.service = s.service /\ t.configuration = s.configuration
  BY DEF HubToV1, HubSpecs
<1>3. /\ t.autoscaling = s.autoscaling /\ t.gateway = s.gateway
      /\ t.observability = s.observability /\ t.security = s.security
  BY DEF HubToV1, HubSpecs
<1>4. /\ t.resources = s.resources /\ t.healthChecks = s.healthChecks
      /\ t.rollout = s.rollout /\ t.envFrom = s.envFrom
  BY DEF HubToV1, HubSpecs
<1>5. t.podAnnotations = s.podAnnotations
  BY DEF HubToV1, HubSpecs
<1> HIDE DEF t
<1>6. t = s
  BY <1>1, <1>2, <1>3, <1>4, <1>5 DEF Sections
<1> QED
  BY <1>6 DEF t

\* Defaulting works on the sections one by one.
LEMMA DefaultSections ==
  ASSUME NEW s \in AnySpecs
  PROVE  /\ Default(s).image = FillImage(s.image)
         /\ Default(s).replicas = FillReplicas(s.replicas)
         /\ Default(s).service = FillService(s.service)
         /\ Default(s).configuration = s.configuration
         /\ Default(s).autoscaling = FillAutoscaling(s.autoscaling)
         /\ Default(s).gateway = FillGateway(s.gateway)
         /\ Default(s).observability = s.observability
         /\ Default(s).security = s.security
         /\ Default(s).resources = s.resources
         /\ Default(s).healthChecks = FillHealthChecks(s.healthChecks)
         /\ Default(s).rollout = FillRollout(s.rollout)
<1>1. Default(s).image = FillImage(s.image)
  BY DEF Default, AnySpecs, AlphaSpecs, HubSpecs
<1>2. Default(s).replicas = FillReplicas(s.replicas)
  BY DEF Default, AnySpecs, AlphaSpecs, HubSpecs
<1>3. Default(s).service = FillService(s.service)
  BY DEF Default, AnySpecs, AlphaSpecs, HubSpecs
<1>4. Default(s).configuration = s.configuration
  BY DEF Default, AnySpecs, AlphaSpecs, HubSpecs
<1>5. Default(s).autoscaling = FillAutoscaling(s.autoscaling)
  BY DEF Default, AnySpecs, AlphaSpecs, HubSpecs
<1>6. Default(s).gateway = FillGateway(s.gateway)
  BY DEF Default, AnySpecs, AlphaSpecs, HubSpecs
<1>7. Default(s).observability = s.observability
  BY DEF Default, AnySpecs, AlphaSpecs, HubSpecs
<1>8. Default(s).security = s.security
  BY DEF Default, AnySpecs, AlphaSpecs, HubSpecs
<1>9. Default(s).resources = s.resources
  BY DEF Default, AnySpecs, AlphaSpecs, HubSpecs
<1>10. Default(s).healthChecks = FillHealthChecks(s.healthChecks)
  BY DEF Default, AnySpecs, AlphaSpecs, HubSpecs
<1>11. Default(s).rollout = FillRollout(s.rollout)
  BY DEF Default, AnySpecs, AlphaSpecs, HubSpecs
<1>12. QED
  BY <1>1, <1>2, <1>3, <1>4, <1>5, <1>6, <1>7, <1>8, <1>9, <1>10, <1>11

\* What is in a section afterwards.
LEMMA DefaultFields ==
  ASSUME NEW s \in AnySpecs
  PROVE  /\ Default(s).image.repository = s.image.repository /\ Default(s).image.tag = s.image.tag
         /\ s.image.pullPolicy # "" => Default(s).image.pullPolicy = s.image.pullPolicy
         /\ Default(s).replicas.min = s.replicas.min
         /\ Default(s).replicas.max = (IF s.replicas.max = 0 THEN s.replicas.min
                              ELSE s.replicas.max)
         /\ Default(s).service.port = s.service.port
         /\ Default(s).service.type = OrElse(s.service.type, "ClusterIP")
         /\ Default(s).autoscaling.enabled = s.autoscaling.enabled
         /\ Default(s).autoscaling.targetCPU =
              (IF s.autoscaling.enabled /\ s.autoscaling.targetCPU = 0 THEN 80
               ELSE s.autoscaling.targetCPU)
         /\ Default(s).gateway.enabled = s.gateway.enabled /\ Default(s).gateway.host = s.gateway.host
         /\ Default(s).gateway.gatewayRef = s.gateway.gatewayRef
         /\ Default(s).gateway.pathPrefix = (IF s.gateway.enabled
                                    THEN OrElse(s.gateway.pathPrefix, "/")
                                    ELSE s.gateway.pathPrefix)
         /\ Default(s).healthChecks.livenessPath = OrElse(s.healthChecks.livenessPath, "/healthz")
         /\ Default(s).healthChecks.readinessPath = OrElse(s.healthChecks.readinessPath, "/readyz")
         /\ Default(s).healthChecks.port = s.healthChecks.port
         /\ Default(s).rollout.strategy = OrElse(s.rollout.strategy, "RollingUpdate")
         /\ Default(s).rollout.maxUnavailable = s.rollout.maxUnavailable
         /\ Default(s).rollout.maxSurge = s.rollout.maxSurge
<1>1. /\ Default(s).image.repository = s.image.repository /\ Default(s).image.tag = s.image.tag
      /\ s.image.pullPolicy # "" => Default(s).image.pullPolicy = s.image.pullPolicy
  BY DefaultSections DEF FillImage, OrElse, AnySpecs, AlphaSpecs, HubSpecs
<1>2. /\ Default(s).replicas.min = s.replicas.min
      /\ Default(s).replicas.max = (IF s.replicas.max = 0 THEN s.replicas.min ELSE s.replicas.max)
  BY DefaultSections DEF FillReplicas, AnySpecs, AlphaSpecs, HubSpecs
<1>3. /\ Default(s).service.port = s.service.port
      /\ Default(s).service.type = OrElse(s.service.type, "ClusterIP")
  BY DefaultSections DEF FillService, AnySpecs, AlphaSpecs, HubSpecs
<1>4. /\ Default(s).autoscaling.enabled = s.autoscaling.enabled
      /\ Default(s).autoscaling.targetCPU =
           (IF s.autoscaling.enabled /\ s.autoscaling.targetCPU = 0 THEN 80
            ELSE s.autoscaling.targetCPU)
  BY DefaultSections DEF FillAutoscaling, AnySpecs, AlphaSpecs, HubSpecs
<1>5. /\ Default(s).gateway.enabled = s.gateway.enabled /\ Default(s).gateway.host = s.gateway.host
      /\ Default(s).gateway.gatewayRef = s.gateway.gatewayRef
      /\ Default(s).gateway.pathPrefix = (IF s.gateway.enabled THEN OrElse(s.gateway.pathPrefix, "/")
                                 ELSE s.gateway.pathPrefix)
  BY DefaultSections DEF FillGateway, AnySpecs, AlphaSpecs, HubSpecs
<1>6. /\ Default(s).healthChecks.livenessPath = OrElse(s.healthChecks.livenessPath, "/healthz")
      /\ Default(s).healthChecks.readinessPath = OrElse(s.healthChecks.readinessPath, "/readyz")
      /\ Default(s).healthChecks.port = s.healthChecks.port
  BY DefaultSections DEF FillHealthChecks, AnySpecs, AlphaSpecs, HubSpecs
<1>7. /\ Default(s).rollout.strategy = OrElse(s.rollout.strategy, "RollingUpdate")
      /\ Default(s).rollout.maxUnavailable = s.rollout.maxUnavailable
      /\ Default(s).rollout.maxSurge = s.rollout.maxSurge
  BY DefaultSections DEF FillRollout, AnySpecs, AlphaSpecs, HubSpecs
<1>8. QED
  BY <1>1, <1>2, <1>3, <1>4, <1>5, <1>6, <1>7

Clamped(min, max) == IF max < min THEN min ELSE max
Filled(min, max)  == IF max = 0 THEN min ELSE max

\* HPA: clamping maxReplicas to at least minReplicas makes no difference between
\* a maximum that is not set and one that is defaulted to the minimum.
LEMMA ClampedMaximum ==
  ASSUME NEW min \in Nat, NEW max \in Int
  PROVE  Clamped(min, Filled(min, max)) = Clamped(min, max)
BY DEF Clamped, Filled

\* What the builders make of the fields that have defaults is the same in d and s.
Alike(d, s) ==
  /\ d.image.repository = s.image.repository /\ d.image.tag = s.image.tag
  /\ d.image.pullPolicy = s.image.pullPolicy
  /\ d.replicas.min = s.replicas.min
  /\ Clamped(d.replicas.min, d.replicas.max) = Clamped(s.replicas.min, s.replicas.max)
  /\ d.service.port = s.service.port
  /\ OrElse(d.service.type, "ClusterIP") = OrElse(s.service.type, "ClusterIP")
  /\ d.configuration = s.configuration
  /\ d.autoscaling.enabled = s.autoscaling.enabled
  /\ s.autoscaling.enabled =>
       (IF d.autoscaling.targetCPU = 0 THEN 80 ELSE d.autoscaling.targetCPU) =
       (IF s.autoscaling.targetCPU = 0 THEN 80 ELSE s.autoscaling.targetCPU)
  /\ d.gateway.enabled = s.gateway.enabled /\ d.gateway.host = s.gateway.host
  /\ d.gateway.gatewayRef = s.gateway.gatewayRef
  /\ s.gateway.enabled => OrElse(d.gateway.pathPrefix, "/") = OrElse(s.gateway.pathPrefix, "/")
  /\ d.observability = s.observability
  /\ d.security = s.security
  /\ d.resources = s.resources
  /\ OrElse(d.healthChecks.livenessPath, "/healthz") =
       OrElse(s.healthChecks.livenessPath, "/healthz")
  /\ OrElse(d.healthChecks.readinessPath, "/readyz") =
       OrElse(s.healthChecks.readinessPath, "/readyz")
  /\ d.healthChecks.port = s.healthChecks.port
  /\ DeploymentStrategy(d.rollout) = DeploymentStrategy(s.rollout)

\* Then the children are the same, of every kind.
LEMMA AlikeChildren ==
  ASSUME NEW d, NEW s, Alike(d, s), NEW k \in KindNames
  PROVE  /\ Wanted(k, d) = Wanted(k, s)
         /\ Wanted(k, s) => Desired(k, d) = Desired(k, s)
<1>1. Wanted(k, d) = Wanted(k, s)
  BY DEF Alike, Wanted, KindNames
<1>2. DesiredDeployment(d) = DesiredDeployment(s)
  BY DEF Alike, DesiredDeployment
<1>3. DesiredService(d) = DesiredService(s)
  BY DEF Alike, DesiredService
<1>4. s.autoscaling.enabled => DesiredHPA(d) = DesiredHPA(s)
  BY DEF Alike, DesiredHPA, Clamped
<1>5. s.gateway.enabled => DesiredHTTPRoute(d) = DesiredHTTPRoute(s)
  BY DEF Alike, DesiredHTTPRoute
<1>6. /\ DesiredNetworkPolicy(d) = DesiredNetworkPolicy(s)
      /\ DesiredPDB(d) = DesiredPDB(s)
      /\ DesiredServiceMonitor(d) = DesiredServiceMonitor(s)
  BY DEF Alike, DesiredNetworkPolicy, DesiredPDB, DesiredServiceMonitor
<1>7. QED
  BY <1>1, <1>2, <1>3, <1>4, <1>5, <1>6 DEF Wanted, Desired, KindNames

LEMMA Positive ==
  ASSUME NEW n \in Int, n >= 1
  PROVE  n \in Nat
OBVIOUS

LEMMA DefaultAlike ==
  ASSUME NEW s \in AnySpecs, s.image.pullPolicy # "", s.replicas.min >= 1
  PROVE  Alike(Default(s), s)
<1>1. /\ OrElse(Default(s).service.type, "ClusterIP") = OrElse(s.service.type, "ClusterIP")
      /\ OrElse(Default(s).healthChecks.livenessPath, "/healthz") =
           OrElse(s.healthChecks.livenessPath, "/healthz")
      /\ OrElse(Default(s).healthChecks.readinessPath, "/readyz") =
           OrElse(s.healthChecks.readinessPath, "/readyz")
  BY DefaultFields DEF OrElse
<1>2. ASSUME s.gateway.enabled
      PROVE  OrElse(Default(s).gateway.pathPrefix, "/") = OrElse(s.gateway.pathPrefix, "/")
  <2>1. Default(s).gateway.pathPrefix = OrElse(s.gateway.pathPrefix, "/")
    BY <1>2, DefaultFields
  <2>2. QED
    BY <2>1 DEF OrElse
<1>3. DeploymentStrategy(Default(s).rollout) = DeploymentStrategy(s.rollout)
  BY DefaultFields DEF DeploymentStrategy, OrElse
<1>4. Clamped(Default(s).replicas.min, Default(s).replicas.max) =
        Clamped(s.replicas.min, s.replicas.max)
  <2>1. s.replicas.min \in Nat /\ s.replicas.max \in Int
    <3>1. s.replicas.min \in Int /\ s.replicas.max \in Int
      BY DEF AnySpecs, AlphaSpecs, HubSpecs
    <3>2. QED
      BY <3>1, Positive
  <2>2. /\ Default(s).replicas.min = s.replicas.min
        /\ Default(s).replicas.max = Filled(s.replicas.min, s.replicas.max)
    BY DefaultFields DEF Filled
  <2>3. QED
    BY <2>1, <2>2, ClampedMaximum
<1>5. QED
  BY <1>1, <1>2, <1>3, <1>4, DefaultFields, DefaultSections DEF Alike

\* The schema's defaults section by section.
LEMMA SchemaSections ==
  ASSUME NEW s \in AnySpecs
  PROVE  LET d == SchemaDefault(s)
         IN  /\ d.image = [s.image EXCEPT !.pullPolicy = OrElse(@, "IfNotPresent")]
             /\ d.replicas = s.replicas
             /\ d.service = [s.service EXCEPT !.type = OrElse(@, "ClusterIP")]
             /\ d.configuration = s.configuration
             /\ d.autoscaling = [s.autoscaling EXCEPT !.targetCPU = IF @ = 0 THEN 80 ELSE @]
             /\ d.gateway = [s.gateway EXCEPT !.pathPrefix = OrElse(@, "/")]
             /\ d.observability = s.observability
             /\ d.security = s.security
             /\ d.resources = s.resources
             /\ d.healthChecks = [s.healthChecks EXCEPT !.livenessPath = OrElse(@, "/healthz"),
                                                       !.readinessPath = OrElse(@, "/readyz")]
             /\ d.rollout = [s.rollout EXCEPT !.strategy = OrElse(@, "RollingUpdate")]
<1> DEFINE d == SchemaDefault(s)
<1>1. d.image = [s.image EXCEPT !.pullPolicy = OrElse(@, "IfNotPresent")]
  BY DEF SchemaDefault, AnySpecs, AlphaSpecs, HubSpecs
<1>2. d.replicas = s.replicas /\ d.configuration = s.configuration
  BY DEF SchemaDefault, AnySpecs, AlphaSpecs, HubSpecs
<1>3. d.service = [s.service EXCEPT !.type = OrElse(@, "ClusterIP")]
  BY DEF SchemaDefault, AnySpecs, AlphaSpecs, HubSpecs
<1>4. d.autoscaling = [s.autoscaling EXCEPT !.targetCPU = IF @ = 0 THEN 80 ELSE @]
  BY DEF SchemaDefault, AnySpecs, AlphaSpecs, HubSpecs
<1>5. d.gateway = [s.gateway EXCEPT !.pathPrefix = OrElse(@, "/")]
  BY DEF SchemaDefault, AnySpecs, AlphaSpecs, HubSpecs
<1>6. d.observability = s.observability /\ d.security = s.security /\ d.resources = s.resources
  BY DEF SchemaDefault, AnySpecs, AlphaSpecs, HubSpecs
<1>7. d.healthChecks = [s.healthChecks EXCEPT !.livenessPath = OrElse(@, "/healthz"),
                                             !.readinessPath = OrElse(@, "/readyz")]
  BY DEF SchemaDefault, AnySpecs, AlphaSpecs, HubSpecs
<1>8. d.rollout = [s.rollout EXCEPT !.strategy = OrElse(@, "RollingUpdate")]
  BY DEF SchemaDefault, AnySpecs, AlphaSpecs, HubSpecs
<1>9. QED
  BY <1>1, <1>2, <1>3, <1>4, <1>5, <1>6, <1>7, <1>8

\* What the schema's defaults change and what they leave.
LEMMA SchemaFields ==
  ASSUME NEW s \in AnySpecs
  PROVE  LET d == SchemaDefault(s)
         IN  /\ d.image.repository = s.image.repository /\ d.image.tag = s.image.tag
             /\ d.image.pullPolicy = OrElse(s.image.pullPolicy, "IfNotPresent")
             /\ d.replicas = s.replicas
             /\ d.service.port = s.service.port
             /\ d.service.type = OrElse(s.service.type, "ClusterIP")
             /\ d.configuration = s.configuration
             /\ d.autoscaling.enabled = s.autoscaling.enabled
             /\ d.autoscaling.targetCPU =
                  (IF s.autoscaling.targetCPU = 0 THEN 80 ELSE s.autoscaling.targetCPU)
             /\ d.gateway.enabled = s.gateway.enabled /\ d.gateway.host = s.gateway.host
             /\ d.gateway.gatewayRef = s.gateway.gatewayRef
             /\ d.gateway.pathPrefix = OrElse(s.gateway.pathPrefix, "/")
             /\ d.observability = s.observability
             /\ d.security = s.security
             /\ d.resources = s.resources
             /\ d.healthChecks.livenessPath = OrElse(s.healthChecks.livenessPath, "/healthz")
             /\ d.healthChecks.readinessPath = OrElse(s.healthChecks.readinessPath, "/readyz")
             /\ d.healthChecks.port = s.healthChecks.port
             /\ d.rollout.strategy = OrElse(s.rollout.strategy, "RollingUpdate")
             /\ d.rollout.maxUnavailable = s.rollout.maxUnavailable
             /\ d.rollout.maxSurge = s.rollout.maxSurge
<1> DEFINE d == SchemaDefault(s)
<1>1. /\ d.image.repository = s.image.repository /\ d.image.tag = s.image.tag
      /\ d.image.pullPolicy = OrElse(s.image.pullPolicy, "IfNotPresent")
  BY SchemaSections DEF AnySpecs, AlphaSpecs, HubSpecs
<1>2. d.service.port = s.service.port /\ d.service.type = OrElse(s.service.type, "ClusterIP")
  BY SchemaSections DEF AnySpecs, AlphaSpecs, HubSpecs
<1>3. /\ d.autoscaling.enabled = s.autoscaling.enabled
      /\ d.autoscaling.targetCPU =
           (IF s.autoscaling.targetCPU = 0 THEN 80 ELSE s.autoscaling.targetCPU)
  BY SchemaSections DEF AnySpecs, AlphaSpecs, HubSpecs
<1>4. /\ d.gateway.enabled = s.gateway.enabled /\ d.gateway.host = s.gateway.host
      /\ d.gateway.gatewayRef = s.gateway.gatewayRef
      /\ d.gateway.pathPrefix = OrElse(s.gateway.pathPrefix, "/")
  BY SchemaSections DEF AnySpecs, AlphaSpecs, HubSpecs
<1>5. /\ d.healthChecks.livenessPath = OrElse(s.healthChecks.livenessPath, "/healthz")
      /\ d.healthChecks.readinessPath = OrElse(s.healthChecks.readinessPath, "/readyz")
      /\ d.healthChecks.port = s.healthChecks.port
  BY SchemaSections DEF AnySpecs, AlphaSpecs, HubSpecs
<1>6. /\ d.rollout.strategy = OrElse(s.rollout.strategy, "RollingUpdate")
      /\ d.rollout.maxUnavailable = s.rollout.maxUnavailable
      /\ d.rollout.maxSurge = s.rollout.maxSurge
  BY SchemaSections DEF AnySpecs, AlphaSpecs, HubSpecs
<1>7. QED
  BY <1>1, <1>2, <1>3, <1>4, <1>5, <1>6, SchemaSections

LEMMA SchemaAlike ==
  ASSUME NEW s \in AnySpecs, s.image.pullPolicy # ""
  PROVE  Alike(SchemaDefault(s), s)
<1> DEFINE d == SchemaDefault(s)
<1>1. /\ d.image.pullPolicy = s.image.pullPolicy
      /\ OrElse(d.service.type, "ClusterIP") = OrElse(s.service.type, "ClusterIP")
      /\ OrElse(d.gateway.pathPrefix, "/") = OrElse(s.gateway.pathPrefix, "/")
  BY SchemaFields DEF OrElse
<1>2. /\ OrElse(d.healthChecks.livenessPath, "/healthz") =
           OrElse(s.healthChecks.livenessPath, "/healthz")
      /\ OrElse(d.healthChecks.readinessPath, "/readyz") =
           OrElse(s.healthChecks.readinessPath, "/readyz")
  BY SchemaFields DEF OrElse
<1>3. DeploymentStrategy(d.rollout) = DeploymentStrategy(s.rollout)
  BY SchemaFields DEF DeploymentStrategy, OrElse
<1>4. (IF d.autoscaling.targetCPU = 0 THEN 80 ELSE d.autoscaling.targetCPU) =
        (IF s.autoscaling.targetCPU = 0 THEN 80 ELSE s.autoscaling.targetCPU)
  BY SchemaFields
<1>5. QED
  BY <1>1, <1>2, <1>3, <1>4, SchemaFields DEF Alike

\* The default of a string is a string.
LEMMA OrElseType ==
  ASSUME NEW value \in Strings, NEW default \in Strings
  PROVE  OrElse(value, default) \in Strings
BY DEF OrElse

\* Defaulting leaves the set of specs of a version.
LEMMA DefaultTypes ==
  ASSUME NEW s \in AnySpecs
  PROVE  /\ Default(s) \in AnySpecs
         /\ SchemaDefault(s) \in AnySpecs
         /\ s \in AlphaSpecs => Defaulted(s) \in AlphaSpecs
         /\ s \in HubSpecs => Defaulted(s) \in HubSpecs
<1>0. /\ "IfNotPresent" \in Strings /\ "ClusterIP" \in Strings /\ "/" \in Strings
      /\ "/healthz" \in Strings /\ "/readyz" \in Strings /\ "RollingUpdate" \in Strings
  BY DEF Strings
<1>1. ASSUME NEW r \in [repository : Strings, tag : Strings, pullPolicy : Strings]
      PROVE  /\ FillImage(r) \in [repository : Strings, tag : Strings, pullPolicy : Strings]
             /\ [r EXCEPT !.pullPolicy = OrElse(@, "IfNotPresent")] \in
                  [repository : Strings, tag : Strings, pullPolicy : Strings]
  BY <1>0, OrElseType DEF FillImage
<1>2. ASSUME NEW r \in [min : Int, max : Int]
      PROVE  FillReplicas(r) \in [min : Int, max : Int]
  BY DEF FillReplicas
<1>3. ASSUME NEW r \in [port : Int, type : Strings]
      PROVE  /\ FillService(r) \in [port : Int, type : Strings]
             /\ [r EXCEPT !.type = OrElse(@, "ClusterIP")] \in [port : Int, type : Strings]
  BY <1>0, OrElseType DEF FillService
<1>4. ASSUME NEW r \in [enabled : BOOLEAN, targetCPU : Int]
      PROVE  /\ FillAutoscaling(r) \in [enabled : BOOLEAN, targetCPU : Int]
             /\ [r EXCEPT !.targetCPU = IF @ = 0 THEN 80 ELSE @] \in
                  [enabled : BOOLEAN, targetCPU : Int]
  BY DEF FillAutoscaling
<1>5. ASSUME NEW r \in [enabled : BOOLEAN, host : Strings, gatewayRef : References,
                       pathPrefix : Strings]
      PROVE  /\ FillGateway(r) \in [enabled : BOOLEAN, host : Strings,
                                     gatewayRef : References, pathPrefix : Strings]
             /\ [r EXCEPT !.pathPrefix = OrElse(@, "/")] \in
                  [enabled : BOOLEAN, host : Strings, gatewayRef : References,
                   pathPrefix : Strings]
  BY <1>0, OrElseType DEF FillGateway
<1>6. ASSUME NEW r \in [livenessPath : Strings, readinessPath : Strings, port : Int]
      PROVE  /\ FillHealthChecks(r) \in
                  [livenessPath : Strings, readinessPath : Strings, port : Int]
             /\ [r EXCEPT !.livenessPath = OrElse(@, "/healthz"),
                          !.readinessPath = OrElse(@, "/readyz")] \in
                  [livenessPath : Strings, readinessPath : Strings, port : Int]
  BY <1>0, OrElseType DEF FillHealthChecks
<1>7. ASSUME NEW r \in [strategy : Strings, maxUnavailable : Strings, maxSurge : Strings]
      PROVE  /\ FillRollout(r) \in
                  [strategy : Strings, maxUnavailable : Strings, maxSurge : Strings]
             /\ [r EXCEPT !.strategy = OrElse(@, "RollingUpdate")] \in
                  [strategy : Strings, maxUnavailable : Strings, maxSurge : Strings]
  BY <1>0, OrElseType DEF FillRollout
<1>8. ASSUME NEW a, a \in AlphaSpecs
      PROVE  Default(a) \in AlphaSpecs /\ SchemaDefault(a) \in AlphaSpecs
  <2>1. Default(a) \in AlphaSpecs
    <3> DEFINE i == FillImage(a.image)
               n == FillReplicas(a.replicas)
               r == FillService(a.service)
               c == FillAutoscaling(a.autoscaling)
               g == FillGateway(a.gateway)
               p == FillHealthChecks(a.healthChecks)
               o == FillRollout(a.rollout)
    <3>1. Default(a) = [a EXCEPT !.image = i, !.replicas = n, !.service = r,
                                 !.autoscaling = c, !.healthChecks = p,
                                 !.rollout = o, !.gateway = g]
      BY Zenon DEF Default
    <3>2. /\ i \in [repository : Strings, tag : Strings, pullPolicy : Strings]
          /\ n \in [min : Int, max : Int]
          /\ r \in [port : Int, type : Strings]
          /\ c \in [enabled : BOOLEAN, targetCPU : Int]
          /\ g \in [enabled : BOOLEAN, host : Strings, gatewayRef : References,
                    pathPrefix : Strings]
          /\ p \in [livenessPath : Strings, readinessPath : Strings, port : Int]
          /\ o \in [strategy : Strings, maxUnavailable : Strings, maxSurge : Strings]
      BY <1>8, <1>1, <1>2, <1>3, <1>4, <1>5, <1>6, <1>7 DEF AlphaSpecs
    <3> HIDE DEF i, n, r, c, g, p, o
    <3>3. Default(a) =
            [image |-> i, replicas |-> n, service |-> r,
             configuration |-> a.configuration, autoscaling |-> c, gateway |-> g,
             observability |-> a.observability, security |-> a.security,
             resources |-> a.resources, healthChecks |-> p, rollout |-> o]
      BY <1>8, <3>1 DEF AlphaSpecs
    <3>4. QED
      BY <1>8, <3>3, <3>2 DEF AlphaSpecs
  <2>2. SchemaDefault(a) \in AlphaSpecs
    <3> DEFINE i == [a.image EXCEPT !.pullPolicy = OrElse(@, "IfNotPresent")]
               r == [a.service EXCEPT !.type = OrElse(@, "ClusterIP")]
               c == [a.autoscaling EXCEPT !.targetCPU = IF @ = 0 THEN 80 ELSE @]
               g == [a.gateway EXCEPT !.pathPrefix = OrElse(@, "/")]
               p == [a.healthChecks EXCEPT !.livenessPath = OrElse(@, "/healthz"),
                                           !.readinessPath = OrElse(@, "/readyz")]
               o == [a.rollout EXCEPT !.strategy = OrElse(@, "RollingUpdate")]
    <3>1. SchemaDefault(a) = [a EXCEPT !.image = i, !.service = r, !.autoscaling = c,
                                       !.gateway = g, !.healthChecks = p, !.rollout = o]
      BY Zenon DEF SchemaDefault
    <3>2. /\ i \in [repository : Strings, tag : Strings, pullPolicy : Strings]
          /\ r \in [port : Int, type : Strings]
          /\ c \in [enabled : BOOLEAN, targetCPU : Int]
          /\ g \in [enabled : BOOLEAN, host : Strings, gatewayRef : References,
                    pathPrefix : Strings]
          /\ p \in [livenessPath : Strings, readinessPath : Strings, port : Int]
          /\ o \in [strategy : Strings, maxUnavailable : Strings, maxSurge : Strings]
      BY <1>8, <1>1, <1>3, <1>4, <1>5, <1>6, <1>7 DEF AlphaSpecs
    <3> HIDE DEF i, r, c, g, p, o
    <3>3. SchemaDefault(a) =
            [image |-> i, replicas |-> a.replicas, service |-> r,
             configuration |-> a.configuration, autoscaling |-> c, gateway |-> g,
             observability |-> a.observability, security |-> a.security,
             resources |-> a.resources, healthChecks |-> p, rollout |-> o]
      BY <1>8, <3>1 DEF AlphaSpecs
    <3>4. QED
      BY <1>8, <3>3, <3>2 DEF AlphaSpecs
  <2>3. QED
    BY <2>1, <2>2
<1>9. ASSUME NEW h, h \in HubSpecs
      PROVE  Default(h) \in HubSpecs /\ SchemaDefault(h) \in HubSpecs
  <2>1. Default(h) \in HubSpecs
    <3> DEFINE i == FillImage(h.image)
               n == FillReplicas(h.replicas)
               r == FillService(h.service)
               c == FillAutoscaling(h.autoscaling)
               g == FillGateway(h.gateway)
               p == FillHealthChecks(h.healthChecks)
               o == FillRollout(h.rollout)
    <3>1. Default(h) = [h EXCEPT !.image = i, !.replicas = n, !.service = r,
                                 !.autoscaling = c, !.healthChecks = p,
                                 !.rollout = o, !.gateway = g]
      BY Zenon DEF Default
    <3>2. /\ i \in [repository : Strings, tag : Strings, pullPolicy : Strings]
          /\ n \in [min : Int, max : Int]
          /\ r \in [port : Int, type : Strings]
          /\ c \in [enabled : BOOLEAN, targetCPU : Int]
          /\ g \in [enabled : BOOLEAN, host : Strings, gatewayRef : References,
                    pathPrefix : Strings]
          /\ p \in [livenessPath : Strings, readinessPath : Strings, port : Int]
          /\ o \in [strategy : Strings, maxUnavailable : Strings, maxSurge : Strings]
      BY <1>9, <1>1, <1>2, <1>3, <1>4, <1>5, <1>6, <1>7 DEF HubSpecs
    <3> HIDE DEF i, n, r, c, g, p, o
    <3>3. Default(h) =
            [image |-> i, replicas |-> n, service |-> r,
             configuration |-> h.configuration, autoscaling |-> c, gateway |-> g,
             observability |-> h.observability, security |-> h.security,
             resources |-> h.resources, healthChecks |-> p, rollout |-> o,
             envFrom |-> h.envFrom, podAnnotations |-> h.podAnnotations]
      BY <1>9, <3>1 DEF HubSpecs
    <3>4. QED
      BY <1>9, <3>3, <3>2 DEF HubSpecs
  <2>2. SchemaDefault(h) \in HubSpecs
    <3> DEFINE i == [h.image EXCEPT !.pullPolicy = OrElse(@, "IfNotPresent")]
               r == [h.service EXCEPT !.type = OrElse(@, "ClusterIP")]
               c == [h.autoscaling EXCEPT !.targetCPU = IF @ = 0 THEN 80 ELSE @]
               g == [h.gateway EXCEPT !.pathPrefix = OrElse(@, "/")]
               p == [h.healthChecks EXCEPT !.livenessPath = OrElse(@, "/healthz"),
                                           !.readinessPath = OrElse(@, "/readyz")]
               o == [h.rollout EXCEPT !.strategy = OrElse(@, "RollingUpdate")]
    <3>1. SchemaDefault(h) = [h EXCEPT !.image = i, !.service = r, !.autoscaling = c,
                                       !.gateway = g, !.healthChecks = p, !.rollout = o]
      BY Zenon DEF SchemaDefault
    <3>2. /\ i \in [repository : Strings, tag : Strings, pullPolicy : Strings]
          /\ r \in [port : Int, type : Strings]
          /\ c \in [enabled : BOOLEAN, targetCPU : Int]
          /\ g \in [enabled : BOOLEAN, host : Strings, gatewayRef : References,
                    pathPrefix : Strings]
          /\ p \in [livenessPath : Strings, readinessPath : Strings, port : Int]
          /\ o \in [strategy : Strings, maxUnavailable : Strings, maxSurge : Strings]
      BY <1>9, <1>1, <1>3, <1>4, <1>5, <1>6, <1>7 DEF HubSpecs
    <3> HIDE DEF i, r, c, g, p, o
    <3>3. SchemaDefault(h) =
            [image |-> i, replicas |-> h.replicas, service |-> r,
             configuration |-> h.configuration, autoscaling |-> c, gateway |-> g,
             observability |-> h.observability, security |-> h.security,
             resources |-> h.resources, healthChecks |-> p, rollout |-> o,
             envFrom |-> h.envFrom, podAnnotations |-> h.podAnnotations]
      BY <1>9, <3>1 DEF HubSpecs
    <3>4. QED
      BY <1>9, <3>3, <3>2 DEF HubSpecs
  <2>3. QED
    BY <2>1, <2>2
<1>10. QED
  BY <1>8, <1>9 DEF AnySpecs, Defaulted

\* Schema, webhook and builders agree on every default: for every spec with a
\* pull policy and at least one replica, as the schema demands, and every kind, the
\* child is the same whichever of them has filled the fields in.
THEOREM DefaultsAgreeForEverySpec ==
  ASSUME NEW s \in AnySpecs, s.image.pullPolicy # "", s.replicas.min >= 1,
         NEW k \in KindNames,
         NEW filled \in {Default(s), SchemaDefault(s), Defaulted(s)}
  PROVE  /\ Wanted(k, filled) = Wanted(k, s)
         /\ Wanted(k, s) => Desired(k, filled) = Desired(k, s)
<1>1. /\ Wanted(k, Default(s)) = Wanted(k, s)
      /\ Wanted(k, s) => Desired(k, Default(s)) = Desired(k, s)
  BY DefaultAlike, AlikeChildren
<1>2. /\ Wanted(k, SchemaDefault(s)) = Wanted(k, s)
      /\ Wanted(k, s) => Desired(k, SchemaDefault(s)) = Desired(k, s)
  BY SchemaAlike, AlikeChildren
<1>3. /\ Wanted(k, Defaulted(s)) = Wanted(k, s)
      /\ Wanted(k, s) => Desired(k, Defaulted(s)) = Desired(k, s)
  <2>1. Default(s) \in AnySpecs /\ Default(s).image.pullPolicy # ""
    BY DefaultTypes, DefaultFields
  <2>2. Alike(Defaulted(s), Default(s))
    BY <2>1, SchemaAlike DEF Defaulted
  <2>3. /\ Wanted(k, Defaulted(s)) = Wanted(k, Default(s))
        /\ Wanted(k, Default(s)) => Desired(k, Defaulted(s)) = Desired(k, Default(s))
    BY <2>2, AlikeChildren
  <2>4. QED
    BY <2>3, <1>1
<1>4. QED
  BY <1>1, <1>2, <1>3

------------------------------------------------------------------------------
(* The stored application                                                    *)

Objects == [spec : HubSpecs, finalizer : BOOLEAN, deleting : BOOLEAN]
Copies  == [spec : AlphaSpecs, finalizer : BOOLEAN, deleting : BOOLEAN]

\* The optional fields that no validation looks at are filled in.
Settled(s) ==
  /\ s.replicas.max # 0
  /\ s.autoscaling.targetCPU # 0
  /\ s.gateway.pathPrefix # ""
  /\ s.healthChecks.livenessPath # ""
  /\ s.healthChecks.readinessPath # ""

StoreInv ==
  /\ stored \in Objects \cup {NoObject}
  /\ copy \in Copies \cup {NoObject}
  /\ fresh \in BOOLEAN
  /\ stored # NoObject => Admissible(stored.spec) /\ Settled(stored.spec)
  /\ copy # NoObject /\ fresh =>
       stored # NoObject /\ copy.spec = HubToAlpha(stored.spec)

------------------------------------------------------------------------------
(* Defaulting *)

\* Nothing is left to fill in an admitted and settled spec.
LEMMA SettledUnchanged ==
  ASSUME NEW s \in AnySpecs, Admissible(s), Settled(s)
  PROVE  Defaulted(s) = s
<1>0. s.image.pullPolicy # "" /\ s.service.type # "" /\ s.rollout.strategy # ""
  <2>1. AdmitsImage(s.image) /\ AdmitsService(s.service) /\ AdmitsRollout(s.rollout)
    BY DEF Admissible, SchemaAdmits
  <2>2. s.image.pullPolicy # ""
    BY <2>1 DEF AdmitsImage, PullPolicies
  <2>3. s.service.type # ""
    <3>1. s.service.type \in ServiceTypes
      BY <2>1, Zenon DEF AdmitsService
    <3>2. QED
      BY <3>1 DEF ServiceTypes
  <2>4. s.rollout.strategy # ""
    BY <2>1 DEF AdmitsRollout, Strategies
  <2>5. QED
    BY <2>2, <2>3, <2>4
<1>1. FillImage(s.image) = s.image /\ OrElse(s.image.pullPolicy, "IfNotPresent") = s.image.pullPolicy
  BY <1>0 DEF FillImage, OrElse, AnySpecs, AlphaSpecs, HubSpecs
<1>2. FillReplicas(s.replicas) = s.replicas
  BY DEF FillReplicas, Settled, AnySpecs, AlphaSpecs, HubSpecs
<1>3. FillService(s.service) = s.service /\ OrElse(s.service.type, "ClusterIP") = s.service.type
  BY <1>0 DEF FillService, OrElse, AnySpecs, AlphaSpecs, HubSpecs
<1>4. FillAutoscaling(s.autoscaling) = s.autoscaling
  BY DEF FillAutoscaling, Settled, AnySpecs, AlphaSpecs, HubSpecs
<1>5. FillHealthChecks(s.healthChecks) = s.healthChecks
  BY DEF FillHealthChecks, OrElse, Settled, AnySpecs, AlphaSpecs, HubSpecs
<1>6. FillRollout(s.rollout) = s.rollout
  BY <1>0 DEF FillRollout, OrElse, AnySpecs, AlphaSpecs, HubSpecs
<1>7. FillGateway(s.gateway) = s.gateway
  BY DEF FillGateway, OrElse, Settled, AnySpecs, AlphaSpecs, HubSpecs
<1>8. Default(s) = s
  BY <1>1, <1>2, <1>3, <1>4, <1>5, <1>6, <1>7 DEF Default, AnySpecs, AlphaSpecs, HubSpecs
<1>9. SchemaDefault(s) = s
  <2>1. [s.image EXCEPT !.pullPolicy = OrElse(@, "IfNotPresent")] = s.image
    BY <1>1 DEF AnySpecs, AlphaSpecs, HubSpecs
  <2>2. [s.service EXCEPT !.type = OrElse(@, "ClusterIP")] = s.service
    BY <1>3 DEF AnySpecs, AlphaSpecs, HubSpecs
  <2>3. [s.autoscaling EXCEPT !.targetCPU = IF @ = 0 THEN 80 ELSE @] = s.autoscaling
    BY DEF Settled, AnySpecs, AlphaSpecs, HubSpecs
  <2>4. [s.gateway EXCEPT !.pathPrefix = OrElse(@, "/")] = s.gateway
    BY DEF Settled, OrElse, AnySpecs, AlphaSpecs, HubSpecs
  <2>5. [s.healthChecks EXCEPT !.livenessPath = OrElse(@, "/healthz"),
                               !.readinessPath = OrElse(@, "/readyz")] = s.healthChecks
    BY DEF Settled, OrElse, AnySpecs, AlphaSpecs, HubSpecs
  <2>6. [s.rollout EXCEPT !.strategy = OrElse(@, "RollingUpdate")] = s.rollout
    BY <1>0 DEF OrElse, AnySpecs, AlphaSpecs, HubSpecs
  <2>7. QED
    BY <2>1, <2>2, <2>3, <2>4, <2>5, <2>6 DEF SchemaDefault, AnySpecs, AlphaSpecs, HubSpecs
<1>10. QED
  BY <1>8, <1>9 DEF Defaulted

\* Defaulting an admissible spec settles it.
LEMMA DefaultedSettles ==
  ASSUME NEW s \in AnySpecs, Admissible(Defaulted(s))
  PROVE  Settled(Defaulted(s))
<1> DEFINE d == Default(s)
           f == Defaulted(s)
<1>1. d \in AnySpecs
  BY DefaultTypes
<1>2. f.replicas = d.replicas
  BY <1>1, SchemaFields DEF Defaulted
<1>3. f.replicas.max # 0
  <2>1. f.replicas.min = s.replicas.min
    BY <1>2, DefaultFields
  <2>2. f.replicas.max = (IF s.replicas.max = 0 THEN s.replicas.min ELSE s.replicas.max)
    BY <1>2, DefaultFields
  <2>3. f.replicas.min # 0
    <3>1. AdmitsReplicas(f.replicas)
      BY DEF Admissible, SchemaAdmits
    <3>2. f.replicas.min \in 1 .. 1000
      BY <3>1, Zenon DEF AdmitsReplicas
    <3>3. \A n \in 1 .. 1000 : n # 0
      OBVIOUS
    <3>4. QED
      BY <3>2, <3>3
  <2>4. QED
    BY <2>1, <2>2, <2>3
<1>4. /\ f.autoscaling.targetCPU # 0
      /\ f.gateway.pathPrefix # ""
      /\ f.healthChecks.livenessPath # ""
      /\ f.healthChecks.readinessPath # ""
  <2>1. /\ f.autoscaling.targetCPU =
             (IF d.autoscaling.targetCPU = 0 THEN 80 ELSE d.autoscaling.targetCPU)
        /\ f.gateway.pathPrefix = OrElse(d.gateway.pathPrefix, "/")
        /\ f.healthChecks.livenessPath = OrElse(d.healthChecks.livenessPath, "/healthz")
        /\ f.healthChecks.readinessPath = OrElse(d.healthChecks.readinessPath, "/readyz")
    BY <1>1, SchemaFields DEF Defaulted
  <2>2. f.autoscaling.targetCPU # 0
    BY <2>1
  <2>3. \A v, w : w # "" => OrElse(v, w) # ""
    BY DEF OrElse
  <2>4. f.gateway.pathPrefix # ""
    BY <2>1, <2>3
  <2>5. f.healthChecks.livenessPath # "" /\ f.healthChecks.readinessPath # ""
    BY <2>1, <2>3
  <2>6. QED
    BY <2>2, <2>4, <2>5
<1>5. QED
  BY <1>3, <1>4 DEF Settled

\* Schema and webhooks look at nothing but what the versions share.
LEMMA SharedSections ==
  /\ \A h \in HubSpecs :
       /\ HubToAlpha(h) \in AlphaSpecs
       /\ Admissible(HubToAlpha(h)) = Admissible(h)
       /\ Settled(HubToAlpha(h)) = Settled(h)
  /\ \A a \in AlphaSpecs :
       /\ AlphaToHub(a) \in HubSpecs
       /\ Admissible(AlphaToHub(a)) = Admissible(a)
       /\ Settled(AlphaToHub(a)) = Settled(a)
<1>1. ASSUME NEW h \in HubSpecs
      PROVE  /\ HubToAlpha(h) \in AlphaSpecs
             /\ Admissible(HubToAlpha(h)) = Admissible(h)
             /\ Settled(HubToAlpha(h)) = Settled(h)
  <2>0. HubToAlpha(h) = SharedSectionsOf(h)
    BY HubToAlphaKeepsShared
  <2>1. HubToAlpha(h) \in AlphaSpecs
    BY <2>0 DEF SharedSectionsOf, HubSpecs, AlphaSpecs
  <2>2. Admissible(HubToAlpha(h)) = Admissible(h)
    <3>1. SchemaAdmits(HubToAlpha(h)) = SchemaAdmits(h)
      BY <2>0 DEF SharedSectionsOf, SchemaAdmits
    <3>2. Valid(HubToAlpha(h)) = Valid(h)
      BY <2>0 DEF SharedSectionsOf, Valid
    <3>3. QED
      BY <3>1, <3>2 DEF Admissible
  <2>3. Settled(HubToAlpha(h)) = Settled(h)
    BY <2>0 DEF SharedSectionsOf, Settled
  <2>4. QED
    BY <2>1, <2>2, <2>3
<1>2. ASSUME NEW a \in AlphaSpecs
      PROVE  /\ AlphaToHub(a) \in HubSpecs
             /\ Admissible(AlphaToHub(a)) = Admissible(a)
             /\ Settled(AlphaToHub(a)) = Settled(a)
  <2>0. AlphaToHub(a) = AlphaAsHub(a)
    BY AlphaToHubKeepsAll
  <2>1. AlphaToHub(a) \in HubSpecs
    <3>1. Nil \in Strings
      BY DEF Nil, Strings
    <3>2. QED
      BY <3>1, <2>0 DEF AlphaAsHub, HubSpecs, AlphaSpecs
  <2>2. Admissible(AlphaToHub(a)) = Admissible(a)
    <3>1. SchemaAdmits(AlphaToHub(a)) = SchemaAdmits(a)
      BY <2>0 DEF AlphaAsHub, SchemaAdmits
    <3>2. Valid(AlphaToHub(a)) = Valid(a)
      BY <2>0 DEF AlphaAsHub, Valid
    <3>3. QED
      BY <3>1, <3>2 DEF Admissible
  <2>3. Settled(AlphaToHub(a)) = Settled(a)
    BY <2>0 DEF AlphaAsHub, Settled
  <2>4. QED
    BY <2>1, <2>2, <2>3
<1>3. QED
  BY <1>1, <1>2

\* What a user's request stores has been admitted and settled.
LEMMA RequestStores ==
  ASSUME NEW api \in Versions, NEW asked \in SpecsOf(api), Admissible(Defaulted(asked))
  PROVE  LET h == StoredFrom(api, Defaulted(asked))
         IN  h \in HubSpecs /\ Admissible(h) /\ Settled(h)
<1>1. asked \in AnySpecs
  BY DEF SpecsOf, AnySpecs
<1>2. Settled(Defaulted(asked))
  BY <1>1, DefaultedSettles
<1>3. CASE api = "v1alpha1"
  <2>1. Defaulted(asked) \in AlphaSpecs
    BY <1>1, <1>3, DefaultTypes DEF SpecsOf
  <2>2. QED
    BY <2>1, <1>2, <1>3, SharedSections DEF StoredFrom
<1>4. CASE api # "v1alpha1"
  <2>1. Defaulted(asked) \in HubSpecs
    BY <1>1, <1>4, DefaultTypes DEF SpecsOf
  <2>2. QED
    BY <2>1, <1>2, <1>4 DEF StoredFrom
<1>5. QED
  BY <1>3, <1>4

------------------------------------------------------------------------------
(* The invariant *)

\* The operator's finalizer update stores the spec that was stored.
LEMMA UpdateStoresTheSame ==
  ASSUME StoreInv, copy # NoObject, Admitted
  PROVE  /\ Defaulted(copy.spec) = copy.spec
         /\ copy.spec = HubToAlpha(stored.spec)
         /\ copy.spec \in AlphaSpecs
         /\ stored \in Objects
         /\ stored # NoObject
         /\ Admissible(copy.spec) /\ Settled(copy.spec)
<1>1. /\ stored # NoObject /\ copy.spec = HubToAlpha(stored.spec)
      /\ stored \in Objects /\ copy \in Copies
      /\ Admissible(stored.spec) /\ Settled(stored.spec)
  BY DEF StoreInv, Admitted, Accepted
<1>2. stored.spec \in HubSpecs /\ copy.spec \in AlphaSpecs
  BY <1>1 DEF Objects, Copies
<1>3. Admissible(copy.spec) /\ Settled(copy.spec)
  BY <1>1, <1>2, SharedSections
<1>4. Defaulted(copy.spec) = copy.spec
  BY <1>2, <1>3, SettledUnchanged DEF AnySpecs
<1>5. QED
  BY <1>1, <1>2, <1>3, <1>4

LEMMA StoreInit == Init => StoreInv
BY DEF Init, StoreInv

\* What is stored in the next state, given that it is admitted and settled.
LEMMA StoreInvFrom ==
  ASSUME stored' # NoObject =>
           stored' \in Objects /\ Admissible(stored'.spec) /\ Settled(stored'.spec),
         copy' \in Copies \cup {NoObject},
         fresh' \in BOOLEAN,
         copy' # NoObject /\ fresh' =>
           stored' # NoObject /\ copy'.spec = HubToAlpha(stored'.spec)
  PROVE  StoreInv'
BY DEF StoreInv

LEMMA StoreNext == StoreInv /\ [Next]_vars => StoreInv'
<1> SUFFICES ASSUME StoreInv, [Next]_vars PROVE StoreInv'
  OBVIOUS
<1>0. /\ stored # NoObject =>
           stored \in Objects /\ Admissible(stored.spec) /\ Settled(stored.spec)
      /\ copy \in Copies \cup {NoObject}
      /\ fresh \in BOOLEAN
      /\ copy # NoObject /\ fresh => stored # NoObject /\ copy.spec = HubToAlpha(stored.spec)
  BY DEF StoreInv
<1>a. ASSUME Written, UNCHANGED copy
      PROVE  /\ copy' \in Copies \cup {NoObject}
             /\ fresh' \in BOOLEAN
             /\ copy' # NoObject /\ fresh' =>
                  stored' # NoObject /\ copy'.spec = HubToAlpha(stored'.spec)
  BY <1>a, <1>0 DEF Written
<1>b. ASSUME Done
      PROVE  /\ copy' \in Copies \cup {NoObject}
             /\ fresh' \in BOOLEAN
             /\ copy' # NoObject /\ fresh' =>
                  stored' # NoObject /\ copy'.spec = HubToAlpha(stored'.spec)
  BY <1>b DEF Done
<1>1. ASSUME NEW api \in Versions, UserCreate(api) PROVE StoreInv'
  <2>1. PICK spec \in Submitted :
          /\ ReadAs(api, spec) \in SpecsOf(api)
          /\ Admissible(Defaulted(ReadAs(api, spec)))
          /\ stored' = Object(StoredFrom(api, Defaulted(ReadAs(api, spec))), FALSE, FALSE)
    BY <1>1 DEF UserCreate
  <2> DEFINE h == StoredFrom(api, Defaulted(ReadAs(api, spec)))
  <2>2. h \in HubSpecs /\ Admissible(h) /\ Settled(h)
    BY <2>1, RequestStores
  <2>3. stored' \in Objects /\ stored'.spec = h
    BY <2>1, <2>2 DEF Object, Objects
  <2>4. Written /\ UNCHANGED copy
    BY <1>1 DEF UserCreate
  <2>5. QED
    BY <2>2, <2>3, <2>4, <1>a, StoreInvFrom
<1>2. ASSUME NEW api \in Versions, UserEdit(api) PROVE StoreInv'
  <2>1. PICK e \in Edits :
          /\ Change(ReadAs(api, stored.spec), e) \in SpecsOf(api)
          /\ Admissible(Defaulted(Change(ReadAs(api, stored.spec), e)))
          /\ stored' = [stored EXCEPT !.spec =
                          StoredFrom(api, Defaulted(Change(ReadAs(api, stored.spec), e)))]
    BY <1>2 DEF UserEdit
  <2> DEFINE h == StoredFrom(api, Defaulted(Change(ReadAs(api, stored.spec), e)))
  <2>2. h \in HubSpecs /\ Admissible(h) /\ Settled(h)
    BY <2>1, RequestStores
  <2>3. stored \in Objects
    BY <1>2, <1>0 DEF UserEdit
  <2>4. stored' \in Objects /\ stored'.spec = h
    BY <2>1, <2>2, <2>3 DEF Objects
  <2>5. Written /\ UNCHANGED copy
    BY <1>2 DEF UserEdit
  <2>6. QED
    BY <2>2, <2>4, <2>5, <1>a, StoreInvFrom
<1>3. ASSUME UserDelete PROVE StoreInv'
  <2>1. stored \in Objects /\ Admissible(stored.spec) /\ Settled(stored.spec)
    BY <1>3, <1>0 DEF UserDelete
  <2>2. CASE stored.finalizer
    <3>1. stored' = [stored EXCEPT !.deleting = TRUE]
      BY <1>3, <2>2 DEF UserDelete
    <3>2. stored' \in Objects /\ stored'.spec = stored.spec
      BY <2>1, <3>1 DEF Objects
    <3>3. Written /\ UNCHANGED copy
      BY <1>3 DEF UserDelete
    <3>4. QED
      BY <2>1, <3>2, <3>3, <1>a, StoreInvFrom
  <2>3. CASE ~stored.finalizer
    <3>1. stored' = NoObject /\ Written /\ UNCHANGED copy
      BY <1>3, <2>3 DEF UserDelete
    <3>2. QED
      BY <3>1, <1>a, StoreInvFrom
  <2>4. QED
    BY <2>2, <2>3
<1>4. ASSUME Fetch PROVE StoreInv'
  <2>1. /\ stored \in Objects /\ stored # NoObject /\ Admissible(stored.spec) /\ Settled(stored.spec)
        /\ stored' = stored /\ fresh' = TRUE
        /\ copy' = [stored EXCEPT !.spec = HubToAlpha(stored.spec)]
    BY <1>4, <1>0 DEF Fetch
  <2>2. HubToAlpha(stored.spec) \in AlphaSpecs
    BY <2>1, SharedSections DEF Objects
  <2>3. copy' \in Copies /\ copy'.spec = HubToAlpha(stored.spec)
    BY <2>1, <2>2 DEF Objects, Copies
  <2>4. QED
    BY <2>1, <2>3, StoreInvFrom
<1>5. ASSUME AddFinalizer PROVE StoreInv'
  <2>1. copy # NoObject /\ Done
    BY <1>5 DEF AddFinalizer
  <2>2. CASE Admitted
    <3> DEFINE h == AlphaToHub(copy.spec)
    <3>1. stored' = Object(h, TRUE, stored.deleting)
      BY <1>5, <2>1, <2>2, UpdateStoresTheSame DEF AddFinalizer
    <3>2. h \in HubSpecs /\ Admissible(h) /\ Settled(h)
      BY <2>1, <2>2, UpdateStoresTheSame, SharedSections
    <3>3. stored.deleting \in BOOLEAN
      BY <2>1, <2>2, UpdateStoresTheSame DEF Objects
    <3>4. stored' \in Objects /\ stored'.spec = h
      BY <3>1, <3>2, <3>3 DEF Object, Objects
    <3>5. QED
      BY <2>1, <3>2, <3>4, <1>b, StoreInvFrom
  <2>3. CASE ~Admitted
    <3>1. stored' = stored
      BY <1>5, <2>3 DEF AddFinalizer
    <3>2. QED
      BY <2>1, <3>1, <1>0, <1>b, StoreInvFrom
  <2>4. QED
    BY <2>2, <2>3
<1>6. ASSUME RemoveFinalizer PROVE StoreInv'
  <2>1. Done /\ stored' \in {stored, NoObject}
    BY <1>6 DEF RemoveFinalizer
  <2>2. QED
    BY <2>1, <1>0, <1>b, StoreInvFrom
<1>7. ASSUME StatusUpdate PROVE StoreInv'
  <2>1. Done /\ copy # NoObject
    BY <1>7 DEF StatusUpdate
  <2>2. CASE Accepted
    <3> DEFINE h == AlphaToHub(HubToAlpha(stored.spec))
    <3>1. stored \in Objects /\ Admissible(stored.spec) /\ Settled(stored.spec)
      BY <2>1, <2>2, <1>0 DEF Accepted
    <3>2. stored' = [stored EXCEPT !.spec = h]
      BY <1>7, <2>2 DEF StatusUpdate
    <3>3. h \in HubSpecs /\ Admissible(h) /\ Settled(h)
      BY <3>1, SharedSections DEF Objects
    <3>4. stored' \in Objects /\ stored'.spec = h
      BY <3>1, <3>2, <3>3 DEF Objects
    <3>5. QED
      BY <2>1, <3>3, <3>4, <1>b, StoreInvFrom
  <2>3. CASE ~Accepted
    <3>1. stored' = stored
      BY <1>7, <2>3 DEF StatusUpdate
    <3>2. QED
      BY <2>1, <3>1, <1>0, <1>b, StoreInvFrom
  <2>4. QED
    BY <2>2, <2>3
<1>8. CASE UNCHANGED vars
  BY <1>8, <1>0, StoreInvFrom DEF vars
<1>9. QED
  BY <1>1, <1>2, <1>3, <1>4, <1>5, <1>6, <1>7, <1>8 DEF Next, Operator

LEMMA StoreInvAlways == Spec => []StoreInv
<1>1. QED
  BY StoreInit, StoreNext, PTL DEF Spec

------------------------------------------------------------------------------
(* What follows *)

\* Whatever users submit and edit, in either version: what is stored can be read
\* and written back in every version, neither refused nor changed on the way.
THEOREM StoredIsAdmissibleTheorem == Spec => []StoredIsAdmissible
<1>1. StoreInv => StoredIsAdmissible
  <2> SUFFICES ASSUME StoreInv, stored # NoObject, NEW api \in Versions
               PROVE  /\ Admissible(ReadAs(api, stored.spec))
                      /\ Defaulted(ReadAs(api, stored.spec)) = ReadAs(api, stored.spec)
    BY DEF StoredIsAdmissible
  <2> DEFINE seen == ReadAs(api, stored.spec)
  <2>1. stored.spec \in HubSpecs /\ Admissible(stored.spec) /\ Settled(stored.spec)
    BY DEF StoreInv, Objects
  <2>2. seen \in AnySpecs /\ Admissible(seen) /\ Settled(seen)
    BY <2>1, SharedSections DEF ReadAs, AnySpecs
  <2>3. QED
    BY <2>2, SettledUnchanged
<1>2. QED
  BY <1>1, StoreInvAlways, PTL

\* Whatever users submit and edit: what is stored is read and written back in v1, of
\* which all four conversions copy every field by hand, without losing one, and in
\* v1alpha1 without losing one that v1alpha1 has.
THEOREM WrittenBackUnchangedTheorem == Spec => []WrittenBackUnchanged
<1>1. StoreInv => WrittenBackUnchanged
  <2> SUFFICES ASSUME StoreInv, stored # NoObject
               PROVE  /\ V1ToHub(HubToV1(stored.spec)) = stored.spec
                      /\ HubToAlpha(AlphaToHub(HubToAlpha(stored.spec))) = HubToAlpha(stored.spec)
    BY DEF WrittenBackUnchanged
  <2>1. stored.spec \in HubSpecs
    BY DEF StoreInv, Objects
  <2>2. HubToAlpha(stored.spec) \in AlphaSpecs
    BY <2>1, SharedSections
  <2>3. QED
    BY <2>1, <2>2, V1ToHubKeepsAll, HubToV1KeepsAll, AlphaRoundTrip
<1>2. QED
  BY <1>1, StoreInvAlways, PTL

\* Whatever users write meanwhile, the operator's writes leave what both versions
\* have of a spec as it was.
THEOREM OperatorKeepsSharedTheorem == Spec => OperatorKeepsShared
<1> DEFINE Kept == Operator /\ stored' # NoObject =>
                     HubToAlpha(stored'.spec) = HubToAlpha(stored.spec)
<1>1. StoreInv /\ [Next]_vars => [Kept]_vars
  <2> SUFFICES ASSUME StoreInv, Operator, stored' # NoObject
               PROVE  HubToAlpha(stored'.spec) = HubToAlpha(stored.spec)
    OBVIOUS
  <2>1. CASE Fetch
    BY <2>1 DEF Fetch
  <2>2. CASE AddFinalizer
    <3>1. CASE Admitted
      <4>1. stored' = Object(AlphaToHub(copy.spec), TRUE, stored.deleting)
        BY <2>2, <3>1, UpdateStoresTheSame DEF AddFinalizer
      <4>2. stored'.spec = AlphaToHub(copy.spec)
        BY <4>1 DEF Object
      <4>3. copy.spec \in AlphaSpecs /\ copy.spec = HubToAlpha(stored.spec)
        BY <2>2, <3>1, UpdateStoresTheSame DEF AddFinalizer
      <4>4. QED
        BY <4>2, <4>3, AlphaRoundTrip
    <3>2. CASE ~Admitted
      BY <2>2, <3>2 DEF AddFinalizer
    <3>3. QED
      BY <3>1, <3>2
  <2>3. CASE RemoveFinalizer
    BY <2>3 DEF RemoveFinalizer
  <2>4. CASE StatusUpdate
    <3>1. CASE Accepted
      <4>1. stored \in Objects
        BY <2>4, <3>1 DEF StatusUpdate, Accepted, StoreInv
      <4>2. HubToAlpha(stored.spec) \in AlphaSpecs
        BY <4>1, SharedSections DEF Objects
      <4>3. stored'.spec = AlphaToHub(HubToAlpha(stored.spec))
        BY <4>1, <2>4, <3>1 DEF StatusUpdate, Objects
      <4>4. QED
        BY <4>2, <4>3, AlphaRoundTrip
    <3>2. CASE ~Accepted
      BY <2>4, <3>2 DEF StatusUpdate
    <3>3. QED
      BY <3>1, <3>2
  <2>5. QED
    BY <2>1, <2>2, <2>3, <2>4 DEF Operator
<1>2. QED
  BY <1>1, StoreInvAlways, PTL DEF Spec, OperatorKeepsShared

\* The finalizer writes of the operator are refused for one reason only, that the object
\* has changed since it was read: schema and webhooks take every copy that is current.
\* (What the liveness of DeletionIsAdmitted rests on.)
THEOREM OnlyConflictsRefuse == Spec => [](copy # NoObject /\ Accepted => Admitted)
<1>1. StoreInv => (copy # NoObject /\ Accepted => Admitted)
  <2> SUFFICES ASSUME StoreInv, copy # NoObject, Accepted
               PROVE  Admissible(Defaulted(copy.spec))
    BY DEF Admitted
  <2>1. /\ stored \in Objects /\ copy \in Copies /\ copy.spec = HubToAlpha(stored.spec)
        /\ Admissible(stored.spec) /\ Settled(stored.spec)
    BY DEF StoreInv, Accepted
  <2>2. stored.spec \in HubSpecs /\ copy.spec \in AlphaSpecs
    BY <2>1 DEF Objects, Copies
  <2>3. Admissible(copy.spec) /\ Settled(copy.spec)
    BY <2>1, <2>2, SharedSections
  <2>4. Defaulted(copy.spec) = copy.spec
    BY <2>2, <2>3, SettledUnchanged DEF AnySpecs
  <2>5. QED
    BY <2>3, <2>4
<1>2. QED
  BY <1>1, StoreInvAlways, PTL

\* Whatever is sent, the children do not depend on who fills the defaults in.
THEOREM DefaultsAgreeTheorem == Spec => []DefaultsAgree
<1>1. DefaultsAgree
  <2> SUFFICES ASSUME NEW spec \in Requests, NEW k \in KindNames,
                      spec.image.pullPolicy # "", spec.replicas.min >= 1,
                      NEW filled \in {Default(spec), SchemaDefault(spec), Defaulted(spec)}
               PROVE  /\ Wanted(k, filled) = Wanted(k, spec)
                      /\ Wanted(k, spec) => Desired(k, filled) = Desired(k, spec)
    BY DEF DefaultsAgree
  <2>1. spec \in AnySpecs
    BY DEF Requests, AnySpecs
  <2>2. QED
    BY <2>1, DefaultsAgreeForEverySpec
<1>2. QED
  BY <1>1, PTL
==============================================================================
