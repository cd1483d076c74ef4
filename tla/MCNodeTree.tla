----------------------------- MODULE MCNodeTree ------------------------------
(***************************************************************************)
(* Four addresses, all in use and used again, and positions with three     *)
(* moves, so that a node is made between two others.                       *)
(***************************************************************************)
EXTENDS NodeTree

\* Any address is as good as another.
Symmetry == Permutations(Node)

MCOpenings == {<<>>, <<"b">>}
MCMoveLists == {<<"a", "b", "c">>}
=============================================================================
