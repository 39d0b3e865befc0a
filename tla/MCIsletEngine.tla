--------------------------- MODULE MCIsletEngine ---------------------------
(***************************************************************************)
(* IsletEngine on small instances: calls and identifiers are model values, *)
(* interchangeable wherever a run checks no liveness.                      *)
(***************************************************************************)
EXTENDS WebReport, TLC

Symmetry == Permutations(Calls) \cup Permutations(Ids)

=============================================================================
