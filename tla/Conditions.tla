----------------------------- MODULE Conditions -----------------------------
(***************************************************************************)
(* internal/status: the condition list of a PlatformApplication's status.  *)
(* The list has at most one entry per condition type (listType=map), so it *)
(* is modelled as a function of the type; NoEntry stands for a type that   *)
(* is not in the list (the API demands a reason of every real entry).      *)
(* A message is modelled by what varies in it.                             *)
(***************************************************************************)

ConditionTypes == {"Ready", "Progressing", "Degraded", "ConfigurationValid"}

NoMessage == [kind |-> "", reason |-> "", ready |-> 0, min |-> 0]

NoEntry == [status |-> FALSE, reason |-> "", message |-> NoMessage,
            lastTransitionTime |-> 0]

NoConditions == [t \in ConditionTypes |-> NoEntry]

\* Variant: the entry is stamped every time.
SetConditionAlways(conds, type, status, reason, message, now) ==
  [conds EXCEPT ![type] =
     [status |-> status, reason |-> reason, message |-> message,
      lastTransitionTime |-> now]]

\* SetCondition keeps an entry whose status, reason and message are unchanged;
\* otherwise it adds or overwrites the entry and stamps it with the time.
SetCondition(conds, type, status, reason, message, now) ==
  IF /\ conds[type].status = status
     /\ conds[type].reason = reason
     /\ conds[type].message = message
  THEN conds
  ELSE [conds EXCEPT ![type] =
          [status |-> status, reason |-> reason, message |-> message,
           lastTransitionTime |-> now]]

IsReady(conds) == conds["Ready"].status
=============================================================================
