----------------------------- MODULE MCSokoMoves -----------------------------
(***************************************************************************)
(* A room of three by four squares with a pillar, two boxes and targets    *)
(* away from the corners:                                                  *)
(*                                                                         *)
(*      ######                                                             *)
(*      #    #                                                             *)
(*      # #$.#                                                             *)
(*      #@$. #                                                             *)
(*      ######                                                             *)
(***************************************************************************)
EXTENDS SokoMoves

At(row, cols) == {row * 20 + col : col \in cols}

MCWalls == At(19, 0 .. 5) \cup At(18, {0, 5}) \cup At(17, {0, 2, 5}) \cup At(16, {0, 5}) \cup At(15, 0 .. 5)
MCFloor == At(18, 1 .. 4) \cup At(17, {1, 3, 4}) \cup At(16, 1 .. 4)
MCTargets == At(17, {4}) \cup At(16, {3})
MCStartBoxes == At(17, {3}) \cup At(16, {2})
MCStartChar == 16 * 20 + 1
=============================================================================
