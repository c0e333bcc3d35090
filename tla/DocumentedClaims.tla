-------------------------- MODULE DocumentedClaims --------------------------
(***************************************************************************)
(* What comments and documents of the repository say of the reconciler and *)
(* the code does not do.  Each is checked by a run of its own that expects *)
(* a violation; PROJECT.json quotes the lines.                             *)
(***************************************************************************)
EXTENDS ReconcilerInvariants

\* ADR-0004 and servicemonitor.go: a missing CustomResourceDefinition matters
\* only to applications that use the kind; any other becomes Ready.
UnusedCRDHarmless ==
  (app # NoApp /\ \A k \in MissingKinds : ~Wanted(k, app.spec)) ~>
    \/ app = NoApp
    \/ app.deleting \/ (\E k \in MissingKinds : Wanted(k, app.spec))
    \/ ReportsReady(app)
=============================================================================
