------------------------------ MODULE MCSearch -------------------------------
(***************************************************************************)
(* A root with two moves, neither of which is the default one.             *)
(***************************************************************************)
EXTENDS Search

MCEdges == {"Down", "Left"}
=============================================================================
