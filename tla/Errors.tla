------------------------------- MODULE Errors -------------------------------
(***************************************************************************)
(* internal/errors: how a failed API call is classified.  An error is a    *)
(* record [class, reason]: class is Unclassified until the error has been  *)
(* wrapped as a ReconcileError, and a wrapped error keeps its class        *)
(* however often fmt.Errorf("...: %w") wraps it again (errors.As).         *)
(***************************************************************************)

ClassTransient == "transient"
ClassPermanent == "permanent"
ClassConflict  == "conflict"
ClassUnknown   == "unknown"
Unclassified   == "raw"

Classes == {ClassTransient, ClassPermanent, ClassConflict}

\* What went wrong, as the predicates of apierrors tell errors apart.  NoMatch
\* (the RESTMapper knows no such kind) and Other answer FALSE to all of them.
Reasons == {"Conflict", "ServerTimeout", "Timeout", "TooManyRequests",
            "ServiceUnavailable", "InternalError", "NotFound", "Forbidden",
            "Invalid", "BadRequest", "AlreadyExists", "NoMatch", "Other"}

\* After these the server may still have carried the request out.
OutcomeUnknown == {"ServerTimeout", "Timeout", "InternalError", "Other"}

RawError(reason) == [class |-> Unclassified, reason |-> reason]

ClassOfReason(reason) ==
  CASE reason = "Conflict" -> ClassConflict
    [] reason \in {"ServerTimeout", "Timeout", "TooManyRequests",
                   "ServiceUnavailable", "InternalError"} -> ClassTransient
    [] reason \in {"NotFound", "Forbidden", "Invalid", "BadRequest"} -> ClassPermanent
    [] OTHER -> ClassUnknown

Classify(e) == IF e.class # Unclassified THEN e.class ELSE ClassOfReason(e.reason)

\* An unknown error is wrapped as a transient one.
ClassifyOrWrap(e) ==
  [e EXCEPT !.class = IF Classify(e) = ClassUnknown THEN ClassTransient ELSE Classify(e)]
=============================================================================
