------------------------------ MODULE MCEngine -------------------------------
(***************************************************************************)
(* Five lines, with three of them a go, so that a go comes before, while   *)
(* and after the search before it answers.                                 *)
(***************************************************************************)
EXTENDS Engine

MCValues == {"nothing", "stray", "unreadable", "huge", "number"}
=============================================================================
