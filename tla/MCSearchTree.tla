---------------------------- MODULE MCSearchTree -----------------------------
(***************************************************************************)
(* The tree of a real position: a node is the list of the moves that lead  *)
(* to it, its edges are the legal moves there and its verdict is the one   *)
(* ExtendNode comes to in SokoGame.                                        *)
(*                                                                         *)
(*      ######                                                             *)
(*      #@ $.#                                                             *)
(*      #  ###                                                             *)
(*      ####                                                               *)
(***************************************************************************)
EXTENDS SearchTree

At(row, cols) == {row * 20 + col : col \in cols}

Soko == INSTANCE SokoGame WITH
    Floor <- At(18, 1 .. 4) \cup At(17, {1, 2}),
    Walls <- UNION {At(19, 0 .. 5), At(18, {0, 5}), At(17, {0, 3, 4, 5}), At(16, 0 .. 3)},
    Targets <- At(18, {4}),
    StartBoxes <- At(18, {3}),
    StartChar <- 18 * 20 + 1,
    MaxDepth <- 4,
    played <- <<>>,
    probe <- <<>>

\* A position of the tree: the moves to it and the history they make.
At0 == [moves |-> <<>>, history |-> Soko!Reset(Soko!StartBoard)]

After(p, d) == [moves |-> Append(p.moves, d), history |-> Soko!AppendMove(p.history, d)]

Moves(p) ==
    IF Soko!Verdict(p.history) # "UNDECIDED" THEN <<>>
    ELSE Soko!GenerateLegalMoves(Soko!Latest(p.history).board)

\* The positions of the tree, level by level.  No path is longer than 4 moves.
Below(level) == UNION {{After(p, Moves(p)[i]) : i \in DOMAIN Moves(p)} : p \in level}

Position == {At0} \cup Below({At0}) \cup Below(Below({At0}))
            \cup Below(Below(Below({At0}))) \cup Below(Below(Below(Below({At0}))))

PositionOf(x) == CHOOSE p \in Position : p.moves = x

MCNode == {p.moves : p \in Position}

MCRoot == <<>>

MCPath == [x \in MCNode |-> {SubSeq(x, 1, k) : k \in 0 .. Len(x)}]

MCOutcome == [x \in MCNode |-> Soko!Verdict(PositionOf(x).history)]

MCKids ==
    [x \in MCNode |->
        SelectSeq(<<Append(x, "Up"), Append(x, "Down"), Append(x, "Left"), Append(x, "Right")>>,
                  LAMBDA y : y \in MCNode)]

\* In units of 1/5, so that the first play urgency is a whole number.
MCValues == {-5, 3}
=============================================================================
