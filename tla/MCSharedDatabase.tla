-------------------------- MODULE MCSharedDatabase --------------------------
(***************************************************************************)
(* SharedDatabase with Managers that connect as the same role.             *)
(***************************************************************************)
EXTENDS SharedDatabase

SameRole == [m \in Managers |-> "role"]

=============================================================================
