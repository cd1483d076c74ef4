----------------------------- MODULE MCSelfPlay ------------------------------
(***************************************************************************)
(* A room of two rows: the pusher can walk in circles, the box can be      *)
(* brought home, and it can be pushed into a corner.                       *)
(*                                                                         *)
(*      ######                                                             *)
(*      #@ $.#                                                             *)
(*      #    #                                                             *)
(*      ######                                                             *)
(***************************************************************************)
EXTENDS SelfPlay

At(row, cols) == {row * 20 + col : col \in cols}

MCFloor == At(18, 1 .. 4) \cup At(17, 1 .. 4)
MCWalls == UNION {At(19, 0 .. 5), At(18, {0, 5}), At(17, {0, 5}), At(16, 0 .. 5)}
MCTargets == At(18, {4})
MCStartBoxes == At(18, {3})
MCStartChar == 18 * 20 + 1

\* In halves of 1.0.
MCAverages == {-2, 1, 2}
MCEstimates == {-2, 1}
=============================================================================
