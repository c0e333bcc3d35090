--------------------------- MODULE OperatorProofs ---------------------------
(***************************************************************************)
(* Operator's promises are strong enough: whoever writes only what they    *)
(* allow has a status that never lies, whatever users and other            *)
(* controllers do in between.  No leader, cache or worker is mentioned.    *)
(***************************************************************************)
EXTENDS Operator, ClusterProofs

\* Once the status says Ready, the stored spec is the only one left to act on.
OnlyOneHeard == app # NoApp /\ ReportsReady(app) => heard = {app.spec}

PromiseInv ==
  /\ ClusterTypes
  /\ heard \subseteq Specs
  /\ StatusNotAhead
  /\ OnlyOneHeard
  /\ ReadyMeansApplied

LEMMA InitPromise == Init => PromiseInv
<1> SUFFICES ASSUME Init PROVE PromiseInv
  OBVIOUS
<1>1. ClusterTypes
  <2>1. kids \in ChildMaps
    BY DEF Init, ClusterInit, ChildMaps, AnyChild, MaybeChild
  <2>2. QED
    BY <2>1 DEF Init, ClusterInit, ClusterTypes, MaybeApp
<1>2. QED
  BY <1>1 DEF Init, ClusterInit, PromiseInv, StatusNotAhead, OnlyOneHeard, ReadyMeansApplied

\* What is heard stays the one spec as long as that is the stored one.
LEMMA HeardStays ==
  ASSUME PromiseInv, Hears, app' \in MaybeApp
  PROVE  /\ heard' \subseteq Specs
         /\ app # NoApp /\ app' # NoApp /\ heard = {app.spec} /\ app'.spec = app.spec
              => heard' = {app'.spec}
<1>1. heard \subseteq Specs
  BY DEF PromiseInv
<1>2. app' # NoApp => app'.spec \in Specs
  BY DEF MaybeApp, Apps
<1>3. QED
  BY <1>1, <1>2 DEF Hears

\* A step that changes nothing but marks of the application, its status apart, and no
\* child the status speaks of.
LEMMA ReadyStays ==
  ASSUME PromiseInv, Hears, ClusterTypes', StatusNotAhead',
         app' # NoApp /\ ReportsReady(app') =>
           /\ app # NoApp /\ ReportsReady(app) /\ app'.spec = app.spec /\ app'.uid = app.uid
           /\ \A k \in Kinds : Kept(k)
  PROVE  PromiseInv'
<1>1. app' \in MaybeApp
  BY DEF ClusterTypes
<1>2. heard' \subseteq Specs
  BY <1>1, HeardStays
<1>3. OnlyOneHeard'
  BY <1>1, HeardStays DEF PromiseInv, OnlyOneHeard, ReportsReady, UpToDate
<1>4. ReadyMeansApplied'
  <2> SUFFICES ASSUME app' # NoApp, ReportsReady(app'), NEW k \in Kinds, k \notin touched'
               PROVE  Applied(k, app)'
    BY DEF ReadyMeansApplied, ReportsReady, UpToDate, Applied
  <2>1. app # NoApp /\ ReportsReady(app) /\ Kept(k)
    OBVIOUS
  <2>2. k \in touched \/ Applied(k, app)
    BY <2>1 DEF PromiseInv, ReadyMeansApplied
  <2>3. QED
    BY <2>1, <2>2 DEF Kept
<1>5. QED
  BY <1>2, <1>3, <1>4 DEF PromiseInv

LEMMA UntouchedIsKept ==
  ASSUME NEW k, UNCHANGED <<kids, touched>>, app'.uid = app.uid, app'.spec = app.spec
  PROVE  Kept(k)
BY DEF Kept, Applied

LEMMA ThinkKeeps ==
  ASSUME PromiseInv, Hears, Think
  PROVE  PromiseInv'
<1>1. UNCHANGED <<app, uids, kids, touched, now>> /\ disturbances' \in Nat
  BY DEF Think, PerhapsDisturbed, PromiseInv, ClusterTypes
<1>2. ClusterTypes' /\ StatusNotAhead'
  BY <1>1 DEF PromiseInv, ClusterTypes, StatusNotAhead
<1>3. QED
  BY <1>1, <1>2, ReadyStays, UntouchedIsKept

LEMMA ProtectKeeps ==
  ASSUME PromiseInv, Hears, Protect
  PROVE  PromiseInv'
<1>1. UNCHANGED <<uids, kids, touched, now>> /\ disturbances' \in Nat
  BY DEF Protect, PerhapsDisturbed, PromiseInv, ClusterTypes
<1>2. app \in Apps /\ app # NoApp /\ app' = [app EXCEPT !.finalizer = TRUE]
  BY DEF Protect, PromiseInv, ClusterTypes, MaybeApp
<1>3. /\ app' \in Apps
      /\ \A field \in {"uid", "generation", "spec", "status"} : app'[field] = app[field]
  BY <1>2 DEF Apps
<1>4. ClusterTypes' /\ StatusNotAhead'
  BY <1>1, <1>2, <1>3 DEF PromiseInv, ClusterTypes, StatusNotAhead, MaybeApp
<1>5. QED
  BY <1>1, <1>2, <1>3, <1>4, ReadyStays, UntouchedIsKept DEF ReportsReady, UpToDate

LEMMA ReleaseKeeps ==
  ASSUME PromiseInv, Hears, Release
  PROVE  PromiseInv'
<1>1. UNCHANGED <<uids, kids, touched, now>> /\ disturbances' \in Nat /\ app' = NoApp
  BY DEF Release, PerhapsDisturbed, PromiseInv, ClusterTypes
<1>2. ClusterTypes' /\ StatusNotAhead'
  BY <1>1 DEF PromiseInv, ClusterTypes, StatusNotAhead, MaybeApp
<1>3. QED
  BY <1>1, <1>2, ReadyStays

\* A child is made what one of the specs heard asks for; once Ready is said that is the
\* stored one.
LEMMA AdjustKeeps ==
  ASSUME PromiseInv, Hears, NEW k \in Kinds, Adjust(k)
  PROVE  PromiseInv'
<1>1. /\ app # NoApp /\ app' = app /\ UNCHANGED <<uids, now>> /\ disturbances' \in Nat
      /\ touched' = touched \ {k}
  <2>1. /\ app # NoApp /\ UNCHANGED <<app, uids, now>> /\ PerhapsDisturbed
        /\ touched' = touched \ {k}
    BY Zenon DEF Adjust
  <2>2. disturbances' \in Nat
    BY <2>1 DEF PerhapsDisturbed, PromiseInv, ClusterTypes
  <2>3. QED
    BY <2>1, <2>2
<1>2. app \in Apps /\ kids \in ChildMaps
  BY <1>1 DEF PromiseInv, ClusterTypes, MaybeApp
<1> DEFINE Made(spec) ==
             [owner   |-> app.uid, want |-> Desired(k, spec),
              ready   |-> IF kids[k] = NoChild THEN 0 ELSE kids[k].ready,
              version |-> IF kids[k] = NoChild THEN "" ELSE kids[k].version]
<1>3. PICK spec \in heard :
        \/ Wanted(k, spec) /\ kids' = [kids EXCEPT ![k] = Made(spec)]
        \/ ~Wanted(k, spec) /\ kids' = [kids EXCEPT ![k] = NoChild]
  BY <1>2 DEF Adjust, ChildMaps
<1>4. Made(spec) \in Children(k)
  <2>1. spec \in Specs /\ app.uid \in Nat
    BY <1>2 DEF PromiseInv, Apps
  <2>2. kids[k] # NoChild => kids[k] \in Children(k)
    BY <1>2 DEF ChildMaps, MaybeChild
  <2>3. QED
    BY <2>1, <2>2 DEF Children, Tags
<1>5. Made(spec).owner = app.uid /\ Made(spec).want = Desired(k, spec)
  OBVIOUS
<1> HIDE DEF Made
<1>6. kids' \in ChildMaps
  BY <1>2, <1>3, <1>4, ChildMapUpdate DEF MaybeChild
<1>7. ClusterTypes' /\ StatusNotAhead'
  BY <1>1, <1>6 DEF PromiseInv, ClusterTypes, StatusNotAhead
<1>8. ASSUME ReportsReady(app), NEW j \in Kinds
      PROVE  Kept(j)
  <2>1. CASE j # k
    <3>1. kids'[j] = kids[j]
      BY <1>2, <1>3, <2>1 DEF ChildMaps
    <3>2. QED
      BY <1>1, <2>1, <3>1 DEF Kept, Applied
  <2>2. CASE j = k
    <3>1. spec = app.spec
      BY <1>1, <1>3, <1>8 DEF PromiseInv, OnlyOneHeard
    <3>2. kids'[k] = IF Wanted(k, spec) THEN Made(spec) ELSE NoChild
      BY <1>2, <1>3 DEF ChildMaps
    <3>3. Made(spec) # NoChild
      BY <1>4, NothingAssumption
    <3>4. Applied(k, app)'
      BY <1>1, <1>5, <3>1, <3>2, <3>3 DEF Applied
    <3>5. QED
      BY <2>2, <3>4 DEF Kept
  <2>3. QED
    BY <2>1, <2>2
<1>9. QED
  BY <1>1, <1>7, <1>8, ReadyStays

\* Ready is said only with every child in place that nobody else has touched.
LEMMA ReportKeeps ==
  ASSUME PromiseInv, Hears, Report
  PROVE  PromiseInv'
<1>1. UNCHANGED <<uids, kids, touched, now>> /\ disturbances' \in Nat
  BY DEF Report, PerhapsDisturbed, PromiseInv, ClusterTypes
<1>2. /\ app \in Apps /\ app # NoApp /\ app' # NoApp /\ app'.status \in Statuses
      /\ app' = [app EXCEPT !.status = app'.status]
      /\ app'.status.observedGeneration = app.generation
      /\ IsReady(app'.status.conditions) => MayReportReady(app'.status)
  BY DEF Report, PromiseInv, ClusterTypes, MaybeApp
<1>3. /\ app' \in Apps
      /\ \A field \in {"uid", "generation", "spec"} : app'[field] = app[field]
  BY <1>2 DEF Apps
<1>4. ClusterTypes'
  BY <1>1, <1>3 DEF PromiseInv, ClusterTypes, MaybeApp
<1>5. StatusNotAhead'
  <2>1. app.generation \in Nat
    BY <1>2 DEF Apps
  <2>2. QED
    BY <1>2, <1>3, <2>1 DEF StatusNotAhead
<1>6. heard' \subseteq Specs
  BY <1>4, HeardStays DEF ClusterTypes
<1>7. ASSUME ReportsReady(app')
      PROVE  /\ heard = {app.spec}
             /\ \A k \in Kinds \ touched : Applied(k, app)
  BY <1>2, <1>7 DEF ReportsReady, MayReportReady
<1>8. OnlyOneHeard'
  BY <1>2, <1>3, <1>4, <1>7, HeardStays
     DEF OnlyOneHeard, ClusterTypes, ReportsReady, UpToDate
<1>9. ReadyMeansApplied'
  BY <1>1, <1>3, <1>7 DEF ReadyMeansApplied, Applied, ReportsReady, UpToDate
<1>10. QED
  BY <1>4, <1>5, <1>6, <1>8, <1>9 DEF PromiseInv

LEMMA ClusterKeeps ==
  ASSUME PromiseInv, Hears, ClusterNext
  PROVE  PromiseInv'
<1>1. ClusterTypes /\ StatusNotAhead
  BY DEF PromiseInv
<1>2. CASE UserCreate \/ UserEdit \/ UserDelete
  <2>1. ClusterTypes' /\ StatusNotAhead' /\ UNCHANGED <<kids, touched>>
    BY <1>1, <1>2, UsersKeepTypes DEF ClusterTypes
  <2>2. ~(app' # NoApp /\ ReportsReady(app')) \/ app' = app
    BY <1>1, <1>2, UsersRespect
  <2>3. QED
    BY <2>1, <2>2, ReadyStays, UntouchedIsKept
<1>3. CASE \/ \E k \in Kinds : UserDrift(k) \/ UserForeign(k) \/ GarbageCollect(k)
           \/ PodStarts \/ RolloutFinishes \/ PodFails
  <2>1. ClusterTypes' /\ StatusNotAhead' /\ app' = app
    BY <1>1, <1>3, OutsidersKeepTypes DEF ClusterTypes, StatusNotAhead
  <2>2. app # NoApp => \A k \in Kinds : Kept(k)
    BY <1>1, <1>3, OutsidersKeepChildren
  <2>3. QED
    BY <2>1, <2>2, ReadyStays
<1>4. CASE Tick
  <2>1. ClusterTypes' /\ StatusNotAhead' /\ UNCHANGED <<app, kids, touched>>
    BY <1>1, <1>4 DEF Tick, ClusterTypes, StatusNotAhead
  <2>2. QED
    BY <2>1, ReadyStays, UntouchedIsKept
<1>5. QED
  BY <1>2, <1>3, <1>4 DEF ClusterNext

LEMMA NextPromise == PromiseInv /\ [Next]_operatorVars => PromiseInv'
<1> SUFFICES ASSUME PromiseInv, [Next]_operatorVars PROVE PromiseInv'
  OBVIOUS
<1>1. CASE Next
  BY <1>1, ThinkKeeps, ProtectKeeps, ReleaseKeeps, AdjustKeeps, ReportKeeps, ClusterKeeps
     DEF Next
<1>2. CASE UNCHANGED operatorVars
  BY <1>2 DEF operatorVars, clusterVars, PromiseInv, ClusterTypes, StatusNotAhead,
              OnlyOneHeard, ReadyMeansApplied, Applied, ReportsReady, UpToDate
<1>3. QED
  BY <1>1, <1>2

\* Whoever keeps Operator's promises never lies: when the status of the current
\* generation says Ready, every child nobody has tampered with is the one the spec asks
\* for.  That the children are in place when it is said is a guard of Report; that they
\* stay so needs that no other spec is left to act on and that others touch no child of
\* ours without its counting as touched.
THEOREM PromisesMakeReadyTrue == Spec => []ReadyMeansApplied
<1>1. PromiseInv => ReadyMeansApplied
  BY DEF PromiseInv
<1>2. QED
  BY <1>1, InitPromise, NextPromise, PTL DEF Spec
=============================================================================
