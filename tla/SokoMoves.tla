------------------------------ MODULE SokoMoves ------------------------------
(***************************************************************************)
(* A pusher that makes legal moves on the board without anybody looking at *)
(* the result of the game, which is what NodeTree::ResetToPosition and the *)
(* board tests do with a list of moves.                                    *)
(***************************************************************************)
EXTENDS SokoBoard

VARIABLE board

Init == board = StartBoard

Move(d) ==
    /\ LegalMove(board, d)
    /\ board' = ApplyMove(board, d)

Next == \E d \in Direction : Move(d)

Spec == Init /\ [][Next]_board
-----------------------------------------------------------------------------
\* The board stays one the bitsets can hold.
TypeOK == board \in Board

\* No sequence of legal moves loses, duplicates or walls in a box, or leaves the
\* pusher on a box or in a wall: ApplyMove and GenerateLegalMoves, written
\* separately, agree on what a push needs.
BoardConsistent ==
    /\ Cardinality(board.boxes) = Cardinality(StartBoxes)
    /\ board.boxes \cap Walls = {}
    /\ board.char \notin Walls \cup board.boxes

\* No sequence of legal moves brings the pusher or a box next to a square that
\* is outside of the 400 bits, where std::bitset::test throws out_of_range.
NoSquareOutOfRange == Tested(board) \subseteq Square

\* Whatever was moved, there is a next legal move: the way back is open.  The
\* search relies on it, an expanded node with no edge has no best child.
NeverBlocked == LegalMoves(board) # {} \/ board = StartBoard

\* A box IsStuck objects to never moves again.
StuckBoxesStay == [][\A s \in board.boxes : StuckBox(board, s) => s \in board'.boxes]_board

\* What the tests suppose of IsStuck: a stuck board cannot be finished.
StuckMeansUnsolvable == [][IsStuck(board) => ~IsEnd(board')]_board
=============================================================================
