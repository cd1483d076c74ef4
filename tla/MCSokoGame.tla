----------------------------- MODULE MCSokoGame ------------------------------
(***************************************************************************)
(* A square of four floors to walk round in, and a box to push home.       *)
(*                                                                         *)
(*      ######                                                             *)
(*      #@ $.#                                                             *)
(*      #  ###                                                             *)
(*      ####                                                               *)
(***************************************************************************)
EXTENDS SokoGame

At(row, cols) == {row * 20 + col : col \in cols}

MCFloor == At(18, 1 .. 4) \cup At(17, {1, 2})
MCWalls == UNION {At(19, 0 .. 5), At(18, {0, 5}), At(17, {0, 3, 4, 5}), At(16, 0 .. 3)}
MCTargets == At(18, {4})
MCStartBoxes == At(18, {3})
MCStartChar == 18 * 20 + 1
=============================================================================
