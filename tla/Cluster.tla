------------------------------- MODULE Cluster -------------------------------
(***************************************************************************)
(* The API server and everybody who writes to it except the operator: the  *)
(* one PlatformApplication `app`, its child objects `kids`, the users, the *)
(* garbage collector and the Deployment controller.  None of this is code  *)
(* of the repository; it is modelled from how internal/controller uses it  *)
(* and from what the Kubernetes API promises.  Every change of `app` is a  *)
(* new resourceVersion; the operator's own writes are in Reconciler.       *)
(***************************************************************************)
EXTENDS Builders, Conditions, Errors, FiniteSets

CONSTANTS
  Specs,            \* the specs users submit
  Order,            \* the sub-reconcilers of the instance, in code order
  MissingKinds,     \* kinds whose CustomResourceDefinition is not installed
  NoApp, NoChild,   \* "there is no such object"
  MaxUid,           \* bound: how often the application is created
  MaxGeneration,    \* bound: generations of one incarnation users reach by edits
  MaxTime,          \* bound on the clock
  MaxDisturbances,  \* bound on everything in Disturbances and on API faults
  Disturbances      \* what may go wrong: subset of DisturbanceNames

DisturbanceNames == {"crash", "pod", "drift", "foreign", "resync"}

Kinds == {Order[i] : i \in DOMAIN Order}

NoOwner == 0

InitialStatus ==
  [observedGeneration |-> 0, readyReplicas |-> 0, url |-> "",
   deployedVersion |-> "", conditions |-> NoConditions]

------------------------------------------------------------------------------
(* Types of the stored objects *)

Urls == {""} \cup {s.gateway.host : s \in Specs}
Tags == {""} \cup {s.image.tag : s \in Specs}
Messages == [kind : Kinds \cup {""}, reason : Reasons \cup {""},
             ready : Nat, min : Nat]
ConditionReasons ==
  {"", "Reconciling", "Valid", "ReconcileError", "Deployed", "Healthy", "Available",
   "Deploying", "InsufficientReplicas"}
ConditionEntries ==
  [status : BOOLEAN, reason : ConditionReasons, message : Messages,
   lastTransitionTime : Nat]
ConditionLists == [ConditionTypes -> ConditionEntries]
Statuses == [observedGeneration : Nat, readyReplicas : Nat, url : Urls,
             deployedVersion : Tags, conditions : ConditionLists]
Apps == [uid : Nat, generation : Nat, deleting : BOOLEAN, finalizer : BOOLEAN,
         spec : Specs, status : Statuses]
Children(k) == [owner : Nat, want : {Desired(k, s) : s \in Specs},
                ready : Nat, version : Tags]
MaybeApp == Apps \cup {NoApp}
MaybeChild(k) == Children(k) \cup {NoChild}
AnyChild == [owner : Nat, want : {Desired(k, s) : k \in Kinds, s \in Specs},
             ready : Nat, version : Tags] \cup {NoChild}
ChildMaps == {f \in [Kinds -> AnyChild] : \A k \in Kinds : f[k] \in MaybeChild(k)}

\* The schema of the CustomResourceDefinition demands replicas.min >= 1; the
\* model needs no more than a number.
ASSUME SpecsAssumption == \A s \in Specs : s.replicas.min \in Nat
ASSUME OrderAssumption == Order \in Seq(KindNames) /\ Order # <<>>
ASSUME NothingAssumption ==
  NoApp \notin Apps /\ \A k \in Kinds : NoChild \notin Children(k)

\* A patch replaces what it sets, which is all there is to it as long as the
\* specs that want a child set the same optional fields of it; FieldOwnership
\* has what server-side apply does with a field that is dropped.
ASSUME FieldsAssumption ==
  \A k \in Kinds : \A s, t \in Specs :
    Wanted(k, s) /\ Wanted(k, t) =>
      OptionalFields(k, Desired(k, s)) = OptionalFields(k, Desired(k, t))

------------------------------------------------------------------------------

VARIABLES
  app,           \* the stored PlatformApplication, or NoApp
  uids,          \* how many incarnations there have been; the newest has this uid
  kids,          \* the stored child of each kind, or NoChild
  touched,       \* history: kinds an outsider changed since the operator wrote them
  now,           \* the clock that stamps conditions
  disturbances   \* how many of the bounded disturbances have happened

clusterVars == <<app, uids, kids, touched, now, disturbances>>

ClusterInit ==
  /\ app = NoApp
  /\ uids = 0
  /\ kids = [k \in Kinds |-> NoChild]
  /\ touched = {}
  /\ now = 0
  /\ disturbances = 0

\* Child k is what application version a asks for, and belongs to it.
Applied(k, a) ==
  IF Wanted(k, a.spec)
  THEN /\ kids[k] # NoChild
       /\ kids[k].owner = a.uid
       /\ kids[k].want = Desired(k, a.spec)
  ELSE kids[k] = NoChild

UpToDate(a) == a.status.observedGeneration = a.generation

ReportsReady(a) == UpToDate(a) /\ IsReady(a.status.conditions)

\* Status never lies about the children: when the status of the current
\* generation says Ready, every child nobody has tampered with is exactly the
\* one the spec asks for and belongs to this incarnation.  (The status is
\* written last, after all children, and only on the version that was read.)
ReadyMeansApplied ==
  app # NoApp /\ ReportsReady(app) =>
    \A k \in Kinds \ touched : Applied(k, app)

\* No status is of a generation still to come.
StatusNotAhead ==
  app # NoApp => app.status.observedGeneration <= app.generation

MayDisturb == disturbances < MaxDisturbances /\ disturbances' = disturbances + 1

Disturb(what) == what \in Disturbances /\ MayDisturb

------------------------------------------------------------------------------
(* Users *)

UserCreate ==
  /\ app = NoApp /\ uids < MaxUid
  /\ uids' = uids + 1
  /\ \E spec \in Specs :
       app' = [uid |-> uids', generation |-> 1, deleting |-> FALSE,
               finalizer |-> FALSE, spec |-> spec, status |-> InitialStatus]
  /\ UNCHANGED <<kids, touched, now, disturbances>>

UserEdit ==
  /\ app # NoApp /\ app.generation < MaxGeneration
  /\ \E spec \in Specs \ {app.spec} :
       app' = [app EXCEPT !.spec = spec, !.generation = @ + 1]
  /\ UNCHANGED <<uids, kids, touched, now, disturbances>>

\* An object with a finalizer is only marked, which also counts as a new
\* generation; one without is removed at once.
UserDelete ==
  /\ app # NoApp /\ ~app.deleting
  /\ app' = IF app.finalizer
            THEN [app EXCEPT !.deleting = TRUE, !.generation = @ + 1]
            ELSE NoApp
  /\ UNCHANGED <<uids, kids, touched, now, disturbances>>

\* Somebody edits or deletes a child behind the operator's back.
UserDrift(k) ==
  /\ Disturb("drift") /\ kids[k] # NoChild
  /\ \/ \E spec \in Specs :
          /\ Desired(k, spec) # kids[k].want
          /\ kids' = [kids EXCEPT ![k].want = Desired(k, spec)]
     \/ kids' = [kids EXCEPT ![k] = NoChild]
  /\ touched' = touched \cup {k}
  /\ UNCHANGED <<app, uids, now>>

\* Somebody creates an object of their own under the name of a child.
UserForeign(k) ==
  /\ Disturb("foreign") /\ kids[k] = NoChild /\ k \notin MissingKinds
  /\ \E spec \in Specs :
       kids' = [kids EXCEPT ![k] = [owner |-> NoOwner, want |-> Desired(k, spec),
                                    ready |-> 0, version |-> ""]]
  /\ touched' = touched \cup {k}
  /\ UNCHANGED <<app, uids, now>>

------------------------------------------------------------------------------
(* Other controllers and the clock *)

OwnerIsGone(k) ==
  /\ kids[k] # NoChild /\ kids[k].owner # NoOwner
  /\ app # NoApp => app.uid # kids[k].owner

GarbageCollect(k) ==
  /\ OwnerIsGone(k)
  /\ kids' = [kids EXCEPT ![k] = NoChild]
  /\ UNCHANGED <<app, uids, touched, now, disturbances>>

HasDeployment == "Deployment" \in Kinds /\ kids["Deployment"] # NoChild

\* The Deployment controller: pods start one by one; once enough of them are
\* ready the ones that run an older template are replaced.
PodStarts ==
  /\ HasDeployment
  /\ LET d == kids["Deployment"]
     IN  /\ d.ready < d.want.replicas
         /\ kids' = [kids EXCEPT !["Deployment"].ready = @ + 1,
                                 !["Deployment"].version =
                                   IF d.ready = 0 THEN d.want.image[2] ELSE @]
  /\ UNCHANGED <<app, uids, touched, now, disturbances>>

RolloutFinishes ==
  /\ HasDeployment
  /\ LET d == kids["Deployment"]
     IN  /\ d.ready >= d.want.replicas
         /\ d.ready > d.want.replicas \/ d.version # d.want.image[2]
         /\ kids' = [kids EXCEPT !["Deployment"].ready = d.want.replicas,
                                 !["Deployment"].version = d.want.image[2]]
  /\ UNCHANGED <<app, uids, touched, now, disturbances>>

PodFails ==
  /\ Disturb("pod") /\ HasDeployment
  /\ kids["Deployment"].ready > 0
  /\ kids' = [kids EXCEPT !["Deployment"].ready = @ - 1]
  /\ UNCHANGED <<app, uids, touched, now>>

Tick ==
  /\ now < MaxTime
  /\ now' = now + 1
  /\ UNCHANGED <<app, uids, kids, touched, disturbances>>

ClusterNext ==
  \/ UserCreate \/ UserEdit \/ UserDelete
  \/ \E k \in Kinds : UserDrift(k) \/ UserForeign(k) \/ GarbageCollect(k)
  \/ PodStarts \/ RolloutFinishes \/ PodFails
  \/ Tick
==============================================================================
