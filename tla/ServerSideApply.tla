--------------------------- MODULE ServerSideApply ---------------------------
(***************************************************************************)
(* How the API server changes an object and keeps track of who owns which  *)
(* of its fields (metadata.managedFields), for the requests apply.go sends *)
(* and those of other writers.  An object maps each field it has to        *)
(* [value, owners]; a configuration maps fields to values.  None of this   *)
(* is code of the repository.                                              *)
(***************************************************************************)

\* POST: whoever creates an object owns all of it.
CreatedBy(manager, config) ==
  [f \in DOMAIN config |-> [value |-> config[f], owners |-> {manager}]]

\* Fields an apply would change that somebody else owns.
Conflicts(object, manager, config) ==
  {f \in DOMAIN object \cap DOMAIN config :
     object[f].value # config[f] /\ object[f].owners \ {manager} # {}}

\* Fields an apply removes: the manager had them to itself and no longer sets them.
Dropped(object, manager, config) ==
  {f \in DOMAIN object \ DOMAIN config : object[f].owners = {manager}}

\* PATCH with force: the manager gets every value it asks for, shares a field
\* whose value others want too, and gives up what it no longer sets.
AppliedBy(manager, object, config) ==
  [f \in (DOMAIN object \cup DOMAIN config) \ Dropped(object, manager, config) |->
     IF f \notin DOMAIN config
     THEN [object[f] EXCEPT !.owners = @ \ {manager}]
     ELSE [value  |-> config[f],
           owners |-> {manager} \cup
             IF f \in DOMAIN object /\ object[f].value = config[f]
             THEN object[f].owners ELSE {}]]

\* PUT, and PATCHes that are no apply: the manager takes over what it changes.
UpdatedBy(manager, object, config) ==
  [f \in DOMAIN config |->
     IF f \in DOMAIN object /\ object[f].value = config[f] THEN object[f]
     ELSE [value |-> config[f], owners |-> {manager}]]
==============================================================================
