---------------------------- MODULE VersionedStore ----------------------------
(***************************************************************************)
(* One PlatformApplication in storage, written by users through either API *)
(* version and by the operator through v1alpha1 (the controller's r.Update *)
(* and r.Status().Update).  What the API server does with a request is     *)
(* external: the stored object is converted to the version of the request, *)
(* changed, defaulted and validated by the schema and the webhooks of that *)
(* version, and converted back.  A status update goes through the          *)
(* conversions as well, but no webhook is configured for it                *)
(* (config/webhook/manifests.yaml).                                        *)
(***************************************************************************)
EXTENDS ApiVersions

CONSTANTS
  Submitted,  \* the hub specs users create an application with
  Edits,      \* what users change: records [section, field, value]
  NoObject,
  MaxWrites   \* bound on the requests of users

VARIABLES
  stored,    \* [spec, finalizer, deleting] in the hub version, or NoObject
  copy,      \* what the operator has read, in v1alpha1, or NoObject
  fresh,     \* nothing has been written since
  writes     \* how many requests users have made

vars == <<stored, copy, fresh, writes>>

Init ==
  /\ stored = NoObject
  /\ copy = NoObject
  /\ fresh = FALSE
  /\ writes = 0

Object(spec, finalizer, deleting) ==
  [spec |-> spec, finalizer |-> finalizer, deleting |-> deleting]

\* A request that changes nothing makes no new resourceVersion.
Written == fresh' = (fresh /\ stored' = stored)

\* An edit sets one field of a section, or the whole of a section the hub adds.
Change(spec, e) ==
  IF e.section \in HubOnly THEN [spec EXCEPT ![e.section] = e.value]
  ELSE [spec EXCEPT ![e.section][e.field] = e.value]

Expressible(api, e) == e.section \in HubOnly => api = "v1beta1"

------------------------------------------------------------------------------
(* Users *)

UserRequest == writes < MaxWrites /\ writes' = writes + 1

\* What a user sends: fields v1alpha1 does not have cannot be in it, and what does
\* not decode is refused.
UserCreate(api) ==
  /\ UserRequest /\ stored = NoObject
  /\ \E spec \in Submitted :
       LET asked == ReadAs(api, spec)
           sent  == Defaulted(asked)
       IN  /\ asked \in SpecsOf(api) /\ Admissible(sent)
           /\ stored' = Object(StoredFrom(api, sent), FALSE, FALSE)
  /\ Written
  /\ UNCHANGED copy

\* A patch: the server reads, merges, admits and writes in one step.
UserEdit(api) ==
  /\ UserRequest /\ stored # NoObject
  /\ \E e \in Edits :
       LET asked == Change(ReadAs(api, stored.spec), e)
           sent  == Defaulted(asked)
       IN  /\ Expressible(api, e) /\ asked \in SpecsOf(api) /\ Admissible(sent)
           /\ stored' = [stored EXCEPT !.spec = StoredFrom(api, sent)]
  /\ Written
  /\ UNCHANGED copy

UserDelete ==
  /\ UserRequest /\ stored # NoObject /\ ~stored.deleting
  /\ stored' = IF stored.finalizer THEN [stored EXCEPT !.deleting = TRUE] ELSE NoObject
  /\ Written
  /\ UNCHANGED copy

------------------------------------------------------------------------------
(* The operator *)

Fetch ==
  /\ copy = NoObject /\ stored # NoObject
  /\ copy' = [stored EXCEPT !.spec = HubToAlpha(@)]
  /\ fresh' = TRUE
  /\ UNCHANGED <<stored, writes>>

\* Variant: the update is sent without a resourceVersion.
AcceptedWithoutLock == stored # NoObject

\* The resourceVersion of the copy is the stored one.
Accepted == fresh

Admitted == Accepted /\ Admissible(Defaulted(copy.spec))

Done == copy' = NoObject /\ fresh' = FALSE /\ UNCHANGED writes

AddFinalizer ==
  /\ copy # NoObject /\ ~copy.deleting /\ ~copy.finalizer
  /\ stored' = IF Admitted
               THEN Object(AlphaToHub(Defaulted(copy.spec)), TRUE, stored.deleting)
               ELSE stored
  /\ Done

RemoveFinalizer ==
  /\ copy # NoObject /\ copy.deleting /\ copy.finalizer
  /\ stored' = IF Admitted THEN NoObject ELSE stored
  /\ Done

\* The spec of the request is ignored, but the stored one is read and written
\* in the version of the request.
StatusUpdate ==
  /\ copy # NoObject /\ ~copy.deleting /\ copy.finalizer
  /\ stored' = IF Accepted THEN [stored EXCEPT !.spec = AlphaToHub(HubToAlpha(@))]
               ELSE stored
  /\ Done

Operator == Fetch \/ AddFinalizer \/ RemoveFinalizer \/ StatusUpdate

Next ==
  \/ \E api \in Versions : UserCreate(api) \/ UserEdit(api)
  \/ UserDelete
  \/ Operator

Spec == Init /\ [][Next]_vars

\* The key of an application is queued as long as there is something to do.
FairSpec == Spec /\ WF_vars(Operator)

------------------------------------------------------------------------------
(* Properties *)

\* What is stored can be read and written back unchanged in every version: the
\* schema and webhooks neither refuse nor change it.  (Otherwise the finalizer
\* writes of the operator would be refused, or change the spec.)
StoredIsAdmissible ==
  stored # NoObject =>
    \A api \in Versions :
      LET seen == ReadAs(api, stored.spec)
      IN  Admissible(seen) /\ Defaulted(seen) = seen

\* Whoever reads what is stored and writes it back, without a change, changes
\* nothing in v1, and in v1alpha1 nothing of what it shows: no field is forgotten
\* on the way out or on the way in.
WrittenBackUnchanged ==
  stored # NoObject =>
    /\ V1ToHub(HubToV1(stored.spec)) = stored.spec
    /\ HubToAlpha(AlphaToHub(HubToAlpha(stored.spec))) = HubToAlpha(stored.spec)

\* The operator writes nothing but finalizers and status: what both versions
\* have of a spec is the same after its write, whatever users wrote meanwhile.
OperatorKeepsShared ==
  [][Operator /\ stored' # NoObject =>
       HubToAlpha(stored'.spec) = HubToAlpha(stored.spec)]_vars

\* The admission webhooks never keep a deleted application from going away.
DeletionIsAdmitted ==
  (stored # NoObject /\ stored.deleting) ~> (stored = NoObject)

\* What is sent to the webhooks next.
Requests ==
  LET sent == IF stored = NoObject THEN {HubToAlpha(spec) : spec \in Submitted}
              ELSE {Change(HubToAlpha(stored.spec), e) :
                      e \in {f \in Edits : f.section \notin HubOnly}}
  IN  {spec \in sent : spec \in AlphaSpecs}

\* The defaults exist three times: in the schema, in the webhook and in the
\* builders (for clusters that run without webhooks).  The children are the same
\* whichever of them fills a field.  The pull policy has no default in the
\* builders: the schema always fills it, and it demands a replica.
DefaultsAgree ==
  \A spec \in Requests, k \in KindNames :
    spec.image.pullPolicy # "" /\ spec.replicas.min >= 1 =>
      \A filled \in {Default(spec), SchemaDefault(spec), Defaulted(spec)} :
        /\ Wanted(k, filled) = Wanted(k, spec)
        /\ Wanted(k, spec) => Desired(k, filled) = Desired(k, spec)

\* README: envFrom and podAnnotations are fields of the stored version for every
\* pod.  What users have set there is not for the operator to change.
OperatorKeepsHubFields ==
  [][Operator /\ stored' # NoObject =>
       \A s \in HubOnly : stored'.spec[s] = stored.spec[s]]_vars
==============================================================================
