---------------------------- MODULE MCTournament -----------------------------
(***************************************************************************)
(* Two threads and three games of one move at most.                        *)
(***************************************************************************)
EXTENDS Tournament
=============================================================================
