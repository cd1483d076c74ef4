------------------------------ MODULE SokoGame -------------------------------
(***************************************************************************)
(* The history of a game, soko/position.cc, in the two places the program  *)
(* keeps one: the history of the tree (played), which the game extends     *)
(* move by move, and the copy of a search worker (probe), which ExtendNode *)
(* cuts back to the game and extends along the path to the node it expands.*)
(***************************************************************************)
EXTENDS SokoBoard, FiniteSetsExt

CONSTANT MaxDepth  \* bound: how deep below the head the search expands

ASSUME MaxDepthAssumption == MaxDepth \in Nat

VARIABLES
    played,  \* NodeTree::history_
    probe    \* SearchWorker::history_

vars == <<played, probe>>

Position == [board : Board, repetitions : Nat]

Latest(h) == h[Len(h)]

(***************************************************************************)
(* PositionHistory::Append.  ComputeLastMoveRepetitions looks back for the *)
(* nearest equal board only and adds one to what it has recorded there.    *)
(***************************************************************************)
Earlier(h, b) == {i \in DOMAIN h : h[i].board = b}

\* Mutant: the search for an equal board stops at the first one of the game.
Mut_FromTheStart(h, b) ==
    IF Earlier(h, b) = {} THEN 0 ELSE 1 + h[Min(Earlier(h, b))].repetitions

ComputeLastMoveRepetitions(h, b) ==
    IF Earlier(h, b) = {} THEN 0 ELSE 1 + h[Max(Earlier(h, b))].repetitions

AppendMove(h, d) ==
    LET b == ApplyMove(Latest(h).board, d)
    IN  Append(h, [board |-> b, repetitions |-> ComputeLastMoveRepetitions(h, b)])

Trim(h, size) == SubSeq(h, 1, size)

Reset(b) == <<[board |-> b, repetitions |-> 0]>>

\* PositionHistory::ComputeGameResult, which decides the game.
ComputeGameResult(h) ==
    IF IsEnd(Latest(h).board) THEN "WIN"
    ELSE IF Latest(h).repetitions >= 2 \/ IsStuck(Latest(h).board) THEN "LOSE"
    ELSE "UNDECIDED"

\* Mutant: repetitions are left to the game.
Mut_Verdict(h) ==
    IF IsEnd(Latest(h).board) THEN "WIN"
    ELSE IF IsStuck(Latest(h).board) THEN "LOSE"
    ELSE "UNDECIDED"

\* What ExtendNode makes of a node: terminal, or one with an edge per move.
Verdict(h) ==
    IF IsEnd(Latest(h).board) THEN "WIN"
    ELSE IF Latest(h).repetitions >= 1 \/ IsStuck(Latest(h).board) THEN "LOSE"
    ELSE "UNDECIDED"

-----------------------------------------------------------------------------
Init ==
    /\ played = Reset(StartBoard)
    /\ probe = played

\* NodeTree::MakeMove on a game that goes on.  The workers of the search for the
\* next move start from a copy of the game.
MakeMove(d) ==
    /\ ComputeGameResult(played) = "UNDECIDED"
    /\ LegalMove(Latest(played).board, d)
    /\ played' = AppendMove(played, d)
    /\ probe' = played'

\* ExtendNode begins: back to the length of the game.
TrimProbe ==
    /\ probe' = Trim(probe, Len(played))
    /\ UNCHANGED played

\* ExtendNode goes on: one move further down.  Only a node without a verdict
\* has edges.
AppendProbe(d) ==
    /\ Len(probe) < Len(played) + MaxDepth
    /\ Verdict(probe) = "UNDECIDED"
    /\ LegalMove(Latest(probe).board, d)
    /\ probe' = AppendMove(probe, d)
    /\ UNCHANGED played

Next ==
    \/ TrimProbe
    \/ \E d \in Direction : MakeMove(d) \/ AppendProbe(d)

Spec == Init /\ [][Next]_vars
-----------------------------------------------------------------------------
\* Both histories are made of boards with a count.
TypeOK ==
    /\ played \in Seq(Position) /\ played # <<>>
    /\ probe \in Seq(Position) /\ probe # <<>>

\* The number kept with a position is how often its board occurred before in
\* the same history, although each Append consults one earlier position only
\* and the worker's history is cut and regrown all the time.
CountsOccurrences(h) ==
    \A i \in DOMAIN h :
        h[i].repetitions = Cardinality({j \in 1 .. i - 1 : h[j].board = h[i].board})

RepetitionsCount == CountsOccurrences(played) /\ CountsOccurrences(probe)

\* Whatever a worker expanded before, its history begins with the game: Trim
\* takes away exactly what the search appended.
ProbeContinuesGame ==
    Len(played) <= Len(probe) /\ SubSeq(probe, 1, Len(played)) = played

\* A path of the search tree runs through no board twice, and through none the
\* game has seen: only its last position may repeat one.  So no path is longer
\* than there are boards, and the descent and the walk back end.
SearchPathsDoNotRepeat ==
    \A i \in 1 .. Len(probe) - 1, j \in Len(played) + 1 .. Len(probe) - 1 :
        i # j => probe[i].board # probe[j].board
=============================================================================
