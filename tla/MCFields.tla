------------------------------ MODULE MCFields ------------------------------
(***************************************************************************)
(* Constants for model-checking FieldOwnership: a spec with optional       *)
(* fields, one without, one with an autoscaler.                            *)
(***************************************************************************)
EXTENDS FieldOwnership, MCSpecs

ThreeSpecs == {BaseSpec, SpecConfigured, SpecHPA}
ForeignAnnotation == <<"annotation", "team">>
=============================================================================
