--------------------------- MODULE ClusterProofs ---------------------------
(***************************************************************************)
(* What the others do to the cluster: users, the garbage collector, the    *)
(* Deployment controller and whoever drifts a child keep its types, and    *)
(* spoil no child of the stored application without touching it.           *)
(***************************************************************************)
EXTENDS Cluster, TLAPS

ClusterTypes ==
  /\ app \in MaybeApp
  /\ uids \in Nat
  /\ kids \in ChildMaps
  /\ touched \in SUBSET Kinds
  /\ now \in Nat
  /\ disturbances \in Nat

LEMMA KindsAreNames == Kinds \subseteq KindNames /\ \A i \in DOMAIN Order : Order[i] \in Kinds
BY OrderAssumption DEF Kinds

\* What a Deployment the operator asks for says about pods.
LEMMA DeploymentWants ==
  ASSUME "Deployment" \in Kinds, NEW d \in Children("Deployment")
  PROVE  d.want.replicas \in Nat /\ d.want.image[2] \in Tags
<1>1. PICK s \in Specs : d.want = Desired("Deployment", s)
  BY DEF Children
<1>2. d.want = DesiredDeployment(s)
  BY <1>1 DEF Desired
<1>3. d.want.replicas \in Nat
  BY <1>2, SpecsAssumption DEF DesiredDeployment
<1>4. d.want.image[2] = s.image.tag
  BY <1>2 DEF DesiredDeployment
<1>5. QED
  BY <1>3, <1>4 DEF Tags

LEMMA InitialAppType ==
  ASSUME NEW spec \in Specs, NEW u \in Nat
  PROVE  [uid |-> u, generation |-> 1, deleting |-> FALSE, finalizer |-> FALSE,
          spec |-> spec, status |-> InitialStatus] \in Apps
<1>1. NoEntry \in ConditionEntries
  BY DEF NoEntry, ConditionEntries, NoMessage, Messages, ConditionReasons
<1>2. InitialStatus \in Statuses
  BY <1>1 DEF InitialStatus, Statuses, NoConditions, ConditionLists, Urls, Tags
<1>3. QED
  BY <1>2 DEF Apps

\* Replacing one child keeps the others.
LEMMA ChildMapUpdate ==
  ASSUME NEW f \in ChildMaps, NEW k \in Kinds, NEW c \in MaybeChild(k)
  PROVE  [f EXCEPT ![k] = c] \in ChildMaps
<1>1. c \in AnyChild
  BY DEF AnyChild, MaybeChild, Children
<1>2. QED
  BY <1>1 DEF ChildMaps

LEMMA UsersKeepTypes ==
  ASSUME ClusterTypes, StatusNotAhead, UserCreate \/ UserEdit \/ UserDelete
  PROVE  /\ app' \in MaybeApp /\ StatusNotAhead'
         /\ uids' \in Nat
         /\ UNCHANGED <<kids, touched, now, disturbances>>
<1>1. CASE UserCreate
  <2>1. PICK spec \in Specs :
          app' = [uid |-> uids', generation |-> 1, deleting |-> FALSE,
                  finalizer |-> FALSE, spec |-> spec, status |-> InitialStatus]
    BY <1>1 DEF UserCreate
  <2>2. uids' \in Nat
    BY <1>1 DEF UserCreate, ClusterTypes
  <2>3. app' \in Apps /\ app'.status.observedGeneration = 0 /\ app'.generation = 1
    BY <2>1, <2>2, InitialAppType DEF InitialStatus
  <2>4. QED
    BY <1>1, <2>2, <2>3 DEF UserCreate, MaybeApp, StatusNotAhead
<1>2. CASE UserEdit
  <2>1. app \in Apps
    BY <1>2 DEF UserEdit, ClusterTypes, MaybeApp
  <2>2. PICK spec \in Specs : app' = [app EXCEPT !.spec = spec, !.generation = @ + 1]
    BY <1>2 DEF UserEdit
  <2>4. app.status.observedGeneration \in Nat /\ app.generation \in Nat
    BY <2>1 DEF Apps, Statuses
  <2>3. /\ app' \in Apps /\ app'.generation = app.generation + 1
        /\ app'.status = app.status
    <3>1. app' = [uid |-> app.uid, generation |-> app.generation + 1,
                  deleting |-> app.deleting, finalizer |-> app.finalizer,
                  spec |-> spec, status |-> app.status]
      BY <2>1, <2>2 DEF Apps
    <3>2. QED
      BY <2>1, <2>4, <3>1 DEF Apps
  <2>5. app # NoApp
    BY <1>2 DEF UserEdit
  <2>6. StatusNotAhead'
    BY <2>3, <2>4, <2>5 DEF StatusNotAhead
  <2>7. QED
    BY <1>2, <2>3, <2>6 DEF UserEdit, ClusterTypes, MaybeApp
<1>3. CASE UserDelete
  <2>1. app \in Apps
    BY <1>3 DEF UserDelete, ClusterTypes, MaybeApp
  <2>2. CASE app' = NoApp
    BY <1>3, <2>2 DEF UserDelete, ClusterTypes, MaybeApp, StatusNotAhead
  <2>3. CASE app' = [app EXCEPT !.deleting = TRUE, !.generation = @ + 1]
    <3>2. app.status.observedGeneration \in Nat /\ app.generation \in Nat
      BY <2>1 DEF Apps, Statuses
    <3>1. /\ app' \in Apps /\ app'.generation = app.generation + 1
          /\ app'.status = app.status
      <4>1. app' = [uid |-> app.uid, generation |-> app.generation + 1,
                    deleting |-> TRUE, finalizer |-> app.finalizer,
                    spec |-> app.spec, status |-> app.status]
        BY <2>1, <2>3 DEF Apps
      <4>2. QED
        BY <2>1, <3>2, <4>1 DEF Apps
    <3>3. StatusNotAhead'
      BY <1>3, <3>1, <3>2 DEF StatusNotAhead, UserDelete
    <3>4. QED
      BY <1>3, <3>1, <3>3 DEF UserDelete, ClusterTypes, MaybeApp
  <2>4. QED
    BY <1>3, <2>2, <2>3 DEF UserDelete
<1>4. QED
  BY <1>1, <1>2, <1>3

\* The Deployment controller keeps the owner and the spec of the Deployment.
LEMMA PodsKeepChild ==
  ASSUME ClusterTypes, PodStarts \/ RolloutFinishes \/ PodFails
  PROVE  /\ "Deployment" \in Kinds
         /\ \E c \in Children("Deployment") :
              /\ kids' = [kids EXCEPT !["Deployment"] = c]
              /\ c.owner = kids["Deployment"].owner /\ c.want = kids["Deployment"].want
<1> DEFINE d == kids["Deployment"]
<1>1. "Deployment" \in Kinds /\ d \in Children("Deployment") /\ kids \in ChildMaps
  BY DEF ClusterTypes, ChildMaps, MaybeChild, PodStarts, RolloutFinishes, PodFails, HasDeployment
<1>2. /\ d.want.replicas \in Nat /\ d.want.image[2] \in Tags
      /\ d.ready \in Nat /\ d.version \in Tags
  BY <1>1, DeploymentWants DEF Children
<1>3. \A n \in Nat, t \in Tags :
        LET c == [d EXCEPT !.ready = n, !.version = t]
        IN  c \in Children("Deployment") /\ c.owner = d.owner /\ c.want = d.want
  BY <1>1 DEF Children
<1>4. \E n \in Nat, t \in Tags :
        kids' = [kids EXCEPT !["Deployment"] = [d EXCEPT !.ready = n, !.version = t]]
  <2>1. CASE PodStarts
    <3> DEFINE t == IF d.ready = 0 THEN d.want.image[2] ELSE d.version
    <3>1. kids' = [kids EXCEPT !["Deployment"] =
                     [d EXCEPT !.ready = d.ready + 1, !.version = t]]
      BY <1>1, <2>1 DEF PodStarts, ChildMaps
    <3>2. d.ready + 1 \in Nat /\ t \in Tags
      BY <1>2
    <3> HIDE DEF t
    <3>3. QED
      BY <3>1, <3>2
  <2>2. CASE RolloutFinishes
    <3>1. kids' = [kids EXCEPT !["Deployment"] =
                     [d EXCEPT !.ready = d.want.replicas, !.version = d.want.image[2]]]
      BY <1>1, <2>2 DEF RolloutFinishes, ChildMaps
    <3>2. QED
      BY <1>2, <3>1
  <2>3. CASE PodFails
    <3>1. kids' = [kids EXCEPT !["Deployment"] = [d EXCEPT !.ready = d.ready - 1]]
      BY <1>1, <2>3 DEF PodFails, ChildMaps
    <3>2. d.ready - 1 \in Nat
      BY <1>2, <2>3 DEF PodFails
    <3>3. [d EXCEPT !.ready = d.ready - 1] =
            [d EXCEPT !.ready = d.ready - 1, !.version = d.version]
      BY <1>1 DEF Children
    <3>4. QED
      BY <1>2, <3>1, <3>2, <3>3
  <2>4. QED
    BY <2>1, <2>2, <2>3
<1>5. QED
  BY <1>1, <1>3, <1>4

\* Changes to the children by anybody but the operator keep them well-formed.
LEMMA OutsidersKeepTypes ==
  ASSUME ClusterTypes,
         \/ \E k \in Kinds : UserDrift(k) \/ UserForeign(k) \/ GarbageCollect(k)
         \/ PodStarts \/ RolloutFinishes \/ PodFails
  PROVE  /\ kids' \in ChildMaps
         /\ touched' \in SUBSET Kinds /\ touched \subseteq touched'
         /\ disturbances' \in Nat
         /\ UNCHANGED <<app, uids, now>>
<1>1. \A k \in Kinds : kids[k] # NoChild => kids[k] \in Children(k)
  BY DEF ClusterTypes, ChildMaps, MaybeChild
<1>2. kids \in ChildMaps /\ touched \in SUBSET Kinds /\ disturbances \in Nat
  BY DEF ClusterTypes
<1>3. ASSUME NEW k \in Kinds, UserDrift(k)
      PROVE  kids' \in ChildMaps
  <2>1. CASE \E spec \in Specs : kids' = [kids EXCEPT ![k].want = Desired(k, spec)]
    <3>1. PICK spec \in Specs : kids' = [kids EXCEPT ![k].want = Desired(k, spec)]
      BY <2>1
    <3>2. [kids[k] EXCEPT !.want = Desired(k, spec)] \in Children(k)
      BY <1>1, <1>3 DEF UserDrift, Children
    <3>3. QED
      BY <1>2, <3>1, <3>2, ChildMapUpdate DEF MaybeChild
  <2>2. CASE kids' = [kids EXCEPT ![k] = NoChild]
    BY <1>2, <2>2, ChildMapUpdate DEF MaybeChild
  <2>3. QED
    BY <1>3, <2>1, <2>2 DEF UserDrift
<1>4. ASSUME NEW k \in Kinds, UserForeign(k)
      PROVE  kids' \in ChildMaps
  <2>1. PICK spec \in Specs :
          kids' = [kids EXCEPT ![k] = [owner |-> NoOwner, want |-> Desired(k, spec),
                                       ready |-> 0, version |-> ""]]
    BY <1>4 DEF UserForeign
  <2>2. [owner |-> NoOwner, want |-> Desired(k, spec), ready |-> 0, version |-> ""]
          \in Children(k)
    BY DEF Children, NoOwner, Tags
  <2>3. QED
    BY <1>2, <2>1, <2>2, ChildMapUpdate DEF MaybeChild
<1>5. ASSUME NEW k \in Kinds, GarbageCollect(k)
      PROVE  kids' \in ChildMaps
  BY <1>2, <1>5, ChildMapUpdate DEF GarbageCollect, MaybeChild
<1>6. ASSUME PodStarts \/ RolloutFinishes \/ PodFails
      PROVE  kids' \in ChildMaps
  BY <1>2, <1>6, PodsKeepChild, ChildMapUpdate DEF MaybeChild
<1>7. kids' \in ChildMaps
  BY <1>3, <1>4, <1>5, <1>6
<1>8. ASSUME NEW k \in Kinds, UserDrift(k) \/ UserForeign(k) \/ GarbageCollect(k)
      PROVE  /\ touched' \in SUBSET Kinds /\ touched \subseteq touched'
             /\ disturbances' \in Nat
             /\ UNCHANGED <<app, uids, now>>
  <2>1. CASE UserDrift(k)
    BY <1>2, <2>1 DEF UserDrift, Disturb, MayDisturb
  <2>2. CASE UserForeign(k)
    <3>1. /\ touched' = touched \cup {k} /\ disturbances' = disturbances + 1
          /\ UNCHANGED <<app, uids, now>>
      BY <2>2, Zenon DEF UserForeign, Disturb, MayDisturb
    <3>2. QED
      BY <1>2, <3>1
  <2>3. CASE GarbageCollect(k)
    BY <1>2, <2>3 DEF GarbageCollect
  <2>4. QED
    BY <1>8, <2>1, <2>2, <2>3
<1>9. ASSUME PodStarts \/ RolloutFinishes \/ PodFails
      PROVE  /\ touched' \in SUBSET Kinds /\ touched \subseteq touched'
             /\ disturbances' \in Nat
             /\ UNCHANGED <<app, uids, now>>
  BY <1>2, <1>9 DEF PodStarts, RolloutFinishes, PodFails, Disturb, MayDisturb
<1>10. QED
  BY <1>7, <1>8, <1>9

------------------------------------------------------------------------------
(* What the status says                                                      *)

\* The children count as before as far as the stored application goes.
Kept(k) == k \in touched \/ Applied(k, app) => k \in touched' \/ Applied(k, app)'

\* Users can neither take the finalizer nor make an application ready.
LEMMA UsersRespect ==
  ASSUME ClusterTypes, StatusNotAhead, UserCreate \/ UserEdit \/ UserDelete
  PROVE  /\ app' \in MaybeApp
         /\ app # NoApp /\ app.finalizer =>
              app' # NoApp /\ app'.uid = app.uid /\ app'.finalizer
         /\ ~(app' # NoApp /\ ReportsReady(app')) \/ app' = app
<1>1. app' \in MaybeApp
  BY UsersKeepTypes
<1>2. CASE UserCreate
  <2>1. app = NoApp
    BY <1>2 DEF UserCreate
  <2>2. app'.status.observedGeneration = 0 /\ app'.generation = 1
    <3>1. PICK spec \in Specs :
            app' = [uid |-> uids', generation |-> 1, deleting |-> FALSE,
                    finalizer |-> FALSE, spec |-> spec, status |-> InitialStatus]
      BY <1>2 DEF UserCreate
    <3>2. QED
      BY <3>1 DEF InitialStatus
  <2>3. QED
    BY <1>1, <2>1, <2>2 DEF ReportsReady, UpToDate
<1>3. CASE UserEdit
  <2>1. app # NoApp /\ app \in Apps
    BY <1>3 DEF UserEdit, ClusterTypes, MaybeApp
  <2>2. app.status.observedGeneration \in Nat /\ app.generation \in Nat
        /\ app.status.observedGeneration <= app.generation
    BY <2>1 DEF Apps, Statuses, StatusNotAhead
  <2>3. PICK spec \in Specs : app' = [app EXCEPT !.spec = spec, !.generation = @ + 1]
    BY <1>3 DEF UserEdit
  <2>4. app' = [uid |-> app.uid, generation |-> app.generation + 1,
                deleting |-> app.deleting, finalizer |-> app.finalizer,
                spec |-> spec, status |-> app.status]
    BY <2>1, <2>3 DEF Apps
  <2>5. app' \in Apps
    BY <2>1, <2>2, <2>4 DEF Apps
  <2>6. QED
    BY <1>1, <2>2, <2>4, <2>5, NothingAssumption DEF ReportsReady, UpToDate
<1>4. CASE UserDelete
  <2>1. app # NoApp /\ app \in Apps
    BY <1>4 DEF UserDelete, ClusterTypes, MaybeApp
  <2>2. app.status.observedGeneration \in Nat /\ app.generation \in Nat
        /\ app.status.observedGeneration <= app.generation
    BY <2>1 DEF Apps, Statuses, StatusNotAhead
  <2>3. CASE ~app.finalizer
    BY <1>1, <1>4, <2>3 DEF UserDelete
  <2>4. CASE app.finalizer
    <3>1. app' = [app EXCEPT !.deleting = TRUE, !.generation = @ + 1]
      BY <1>4, <2>4 DEF UserDelete
    <3>2. app' = [uid |-> app.uid, generation |-> app.generation + 1,
                  deleting |-> TRUE, finalizer |-> app.finalizer,
                  spec |-> app.spec, status |-> app.status]
      BY <2>1, <3>1 DEF Apps
    <3>3. app' \in Apps
      BY <2>1, <2>2, <3>2 DEF Apps
    <3>4. app' # NoApp /\ app'.uid = app.uid /\ app'.finalizer
      BY <2>4, <3>2, <3>3, NothingAssumption
    <3>5. app'.status.observedGeneration # app'.generation
      BY <2>2, <3>2
    <3>6. QED
      BY <1>1, <3>4, <3>5 DEF ReportsReady, UpToDate
  <2>5. QED
    BY <2>3, <2>4
<1>5. QED
  BY <1>2, <1>3, <1>4

\* Nobody spoils a child of the stored application without touching it: the
\* garbage collector takes only what belongs to another incarnation and the
\* Deployment controller writes only the status.
LEMMA OutsidersKeepChildren ==
  ASSUME ClusterTypes, app # NoApp, NEW k \in Kinds,
         \/ \E j \in Kinds : UserDrift(j) \/ UserForeign(j) \/ GarbageCollect(j)
         \/ PodStarts \/ RolloutFinishes \/ PodFails
  PROVE  Kept(k)
<1>1. app' = app
  BY DEF UserDrift, UserForeign, GarbageCollect, PodStarts, RolloutFinishes, PodFails
<1>2. kids \in ChildMaps /\ kids[k] \in MaybeChild(k)
  BY DEF ClusterTypes, ChildMaps
<1>3. SUFFICES ASSUME k \notin touched, Applied(k, app), k \notin touched'
               PROVE  Applied(k, app)'
  <2>1. touched \subseteq touched'
    BY OutsidersKeepTypes
  <2>2. QED
    BY <2>1 DEF Kept
<1>4. ASSUME NEW j \in Kinds, UserDrift(j) \/ UserForeign(j)
      PROVE  Applied(k, app)'
  <2>1. j # k
    BY <1>3, <1>4 DEF UserDrift, UserForeign
  <2>2. kids'[k] = kids[k]
    BY <1>2, <1>4, <2>1 DEF UserDrift, UserForeign, ChildMaps
  <2>3. QED
    BY <1>1, <1>3, <2>2 DEF Applied
<1>5. ASSUME NEW j \in Kinds, GarbageCollect(j)
      PROVE  Applied(k, app)'
  <2>1. CASE j = k
    <3>1. kids[k] # NoChild /\ kids[k].owner # app.uid
      BY <1>5, <2>1 DEF GarbageCollect, OwnerIsGone
    <3>2. QED
      BY <1>3, <3>1 DEF Applied
  <2>2. CASE j # k
    <3>1. kids'[k] = kids[k]
      BY <1>2, <1>5, <2>2 DEF GarbageCollect, ChildMaps
    <3>2. QED
      BY <1>1, <1>3, <3>1 DEF Applied
  <2>3. QED
    BY <2>1, <2>2
<1>6. ASSUME PodStarts \/ RolloutFinishes \/ PodFails
      PROVE  Applied(k, app)'
  <2>1. "Deployment" \in Kinds /\ kids["Deployment"] # NoChild
    BY <1>6 DEF PodStarts, RolloutFinishes, PodFails, HasDeployment
  <2>2. CASE k # "Deployment"
    <3>1. kids'[k] = kids[k]
      BY <1>2, <1>6, <2>2 DEF PodStarts, RolloutFinishes, PodFails, ChildMaps
    <3>2. QED
      BY <1>1, <1>3, <3>1 DEF Applied
  <2>3. CASE k = "Deployment"
    <3>1. kids[k] \in Children(k)
      BY <1>2, <2>1, <2>3 DEF MaybeChild
    <3>2. /\ kids'[k].owner = kids[k].owner /\ kids'[k].want = kids[k].want
          /\ kids'[k] \in Children(k)
      BY <1>2, <1>6, <2>3, PodsKeepChild DEF ChildMaps
    <3>4. kids'[k] # NoChild
      BY <2>1, <2>3, <3>2, NothingAssumption
    <3>5. Wanted(k, app.spec)
      BY <2>3 DEF Wanted
    <3>6. QED
      BY <1>1, <1>3, <3>2, <3>4, <3>5 DEF Applied
  <2>4. QED
    BY <2>2, <2>3
<1>7. QED
  BY <1>4, <1>5, <1>6
=============================================================================
