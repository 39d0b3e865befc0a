--------------------------- MODULE MCWebSessions ---------------------------
(***************************************************************************)
(* WebSessions on small instances.  Requests are interchangeable.          *)
(***************************************************************************)
EXTENDS WebSessions, TLC

Symmetry == Permutations(Requests)

=============================================================================
