---------------------------- MODULE MCEndPosition ----------------------------
(***************************************************************************)
(* The board the test IsEndBoard starts from, soko/board_test.cc:98-109.   *)
(* It has the walls and the targets of the level the program ships.        *)
(*                                                                         *)
(*          #####                                                          *)
(*          #   #                                                          *)
(*          #   #                                                          *)
(*        ###   ##                                                         *)
(*        #      #                                                         *)
(*      ### # ## #   ######                                                *)
(*      #   # ## #####  **#                                                *)
(*      #             @$.*#                                                *)
(*      ##### ### # ##  **#                                                *)
(*          #     #########                                                *)
(*          #######                                                        *)
(***************************************************************************)
EXTENDS SokoMoves

At(row, cols) == {row * 20 + col : col \in cols}

MCFloor ==
    UNION {At(18, 5 .. 7), At(17, 5 .. 7), At(16, 5 .. 7), At(15, 3 .. 8),
           At(14, {3, 5, 8}), At(13, {1, 2, 3, 5, 8} \cup 14 .. 17),
           At(12, 1 .. 17), At(11, {5, 9, 11} \cup 14 .. 17), At(10, 5 .. 9)}

\* The walls of the test, as it happens: every wall is next to the floor.
MCWalls ==
    {s + d : s \in MCFloor, d \in {-21, -20, -19, -1, 1, 19, 20, 21}} \ MCFloor

MCTargets == UNION {At(13, {16, 17}), At(12, {16, 17}), At(11, {16, 17})}
MCStartBoxes == UNION {At(13, {16, 17}), At(12, {15, 17}), At(11, {16, 17})}
MCStartChar == 12 * 20 + 14
=============================================================================
