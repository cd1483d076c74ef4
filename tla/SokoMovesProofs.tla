--------------------------- MODULE SokoMovesProofs ---------------------------
(***************************************************************************)
(* What the rules of the board guarantee in every closed level, and with   *)
(* them the properties of SokoMoves.                                       *)
(***************************************************************************)
EXTENDS SokoMoves, FiniteSetTheorems, TLAPS

(***************************************************************************)
(* Every box and the pusher stand on floor, apart from each other.  This   *)
(* is the inductive invariant: a push needs the square behind the box to   *)
(* be no wall, and next to floor there is only floor or wall.              *)
(***************************************************************************)
OnFloor(b) ==
    /\ b \in Board
    /\ b.boxes \subseteq Floor
    /\ b.char \in Floor \ b.boxes

\* A step leads to a square of the level, and back again.
LEMMA StepTo ==
    ASSUME NEW s \in Floor, NEW d \in Direction
    PROVE  /\ AddDirection(s, d) \in Square
           /\ AddDirection(s, d) \in Floor \/ AddDirection(s, d) \in Walls
  BY LevelAssumption

\* The opposite direction leads back.
Opposite == [Up |-> "Down", Down |-> "Up", Left |-> "Right", Right |-> "Left"]

LEMMA WayBack ==
    ASSUME NEW s \in Floor, NEW d \in Direction, AddDirection(s, d) \in Square
    PROVE  /\ Opposite[d] \in Direction
           /\ AddDirection(AddDirection(s, d), Opposite[d]) = s
           /\ AddDirection(s, d) # s
<1>1. s \in 0 .. 399
  BY LevelAssumption DEF Square
<1>2. (s + Delta[d]) % 65536 \in 0 .. 399
  BY DEF AddDirection, Square
<1>3. CASE d = "Up"
  BY <1>1, <1>2, <1>3 DEF AddDirection, Delta, Opposite, Direction
<1>4. CASE d = "Down"
  BY <1>1, <1>2, <1>4 DEF AddDirection, Delta, Opposite, Direction
<1>5. CASE d = "Left"
  BY <1>1, <1>2, <1>5 DEF AddDirection, Delta, Opposite, Direction
<1>6. CASE d = "Right"
  BY <1>1, <1>2, <1>6 DEF AddDirection, Delta, Opposite, Direction
<1>7. QED
  BY <1>3, <1>4, <1>5, <1>6 DEF Direction

\* Making a legal move keeps the boxes and the pusher on the floor.
LEMMA ApplyMoveOnFloor ==
    ASSUME NEW b, OnFloor(b), NEW d \in Direction, LegalMove(b, d)
    PROVE  OnFloor(ApplyMove(b, d))
<1> DEFINE to == AddDirection(b.char, d)
           to2 == AddDirection(to, d)
<1>1. to \in Floor /\ to \in Square
  BY StepTo DEF OnFloor, LegalMove
<1>2. to \in b.boxes => to2 \in Floor /\ to2 \in Square /\ to2 \notin b.boxes
  BY <1>1, StepTo DEF LegalMove
<1>3. to2 # to
  BY <1>1, StepTo, WayBack
<1>4. CASE to \in b.boxes
  <2>1. ApplyMove(b, d) = [boxes |-> (b.boxes \ {to}) \cup {to2}, char |-> to]
    BY <1>4 DEF ApplyMove
  <2>2. QED
    BY <1>1, <1>2, <1>3, <1>4, <2>1 DEF OnFloor, Board
<1>5. CASE to \notin b.boxes
  <2>1. ApplyMove(b, d) = [boxes |-> b.boxes, char |-> to]
    BY <1>5 DEF ApplyMove
  <2>2. QED
    BY <1>1, <1>5, <2>1 DEF OnFloor, Board
<1>6. QED
  BY <1>4, <1>5

\* A level has finitely many boxes.
LEMMA BoxesFinite ==
    ASSUME NEW b, OnFloor(b)
    PROVE  IsFiniteSet(b.boxes)
<1>1. IsFiniteSet(0 .. 399)
  BY FS_Interval, 0 \in Int, 399 \in Int, Zenon
<1>2. b.boxes \subseteq 0 .. 399
  BY DEF OnFloor, Board, Square
<1>3. QED
  BY <1>1, <1>2, FS_Subset

\* A push moves one box: no box is lost and none appears.
LEMMA ApplyMoveKeepsBoxes ==
    ASSUME NEW b, OnFloor(b), NEW d \in Direction, LegalMove(b, d)
    PROVE  Cardinality(ApplyMove(b, d).boxes) = Cardinality(b.boxes)
<1> DEFINE to == AddDirection(b.char, d)
           to2 == AddDirection(to, d)
<1>1. CASE to \in b.boxes
  <2>1. ApplyMove(b, d).boxes = (b.boxes \ {to}) \cup {to2}
    BY <1>1 DEF ApplyMove
  <2>2. to2 \notin b.boxes
    BY <1>1 DEF LegalMove
  <2>3. /\ IsFiniteSet(b.boxes \ {to})
        /\ Cardinality(b.boxes \ {to}) = Cardinality(b.boxes) - 1
    BY <1>1, BoxesFinite, FS_RemoveElement
  <2>4. Cardinality((b.boxes \ {to}) \cup {to2}) = Cardinality(b.boxes \ {to}) + 1
    BY <2>2, <2>3, FS_AddElement
  <2>5. Cardinality(b.boxes) \in Nat
    BY BoxesFinite, FS_CardinalityType
  <2>6. QED
    BY <2>1, <2>3, <2>4, <2>5
<1>2. CASE to \notin b.boxes
  BY <1>2 DEF ApplyMove
<1>3. QED
  BY <1>1, <1>2

\* The square two steps away is another one, in either direction.
LEMMA TwoSteps ==
    ASSUME NEW s \in Square, NEW d \in Direction
    PROVE  AddDirection(AddDirection(s, d), d) # s
<1>1. s \in 0 .. 399
  BY DEF Square
<1>2. QED
  BY <1>1 DEF AddDirection, Delta, Direction

\* A direction is d, its opposite, or one of the two across.
LEMMA DirectionOrAcross ==
    ASSUME NEW d \in Direction, NEW e \in Direction
    PROVE  e = d \/ e = Opposite[d] \/ (e \in Across(d) /\ d \in Across(e))
  BY DEF Direction, Opposite, Across

\* A box that is pushed has neither wall nor box before it or behind it.
LEMMA PushedBoxIsFree ==
    ASSUME NEW b, OnFloor(b), NEW d \in Direction, LegalMove(b, d),
           AddDirection(b.char, d) \in b.boxes
    PROVE  ~StuckBox(b, AddDirection(b.char, d))
<1> DEFINE s == AddDirection(b.char, d)
<1>1. s \in Floor
  BY DEF OnFloor
<1>2. AddDirection(s, d) \notin b.boxes \cup Walls
  BY DEF LegalMove
<1>3. AddDirection(s, Opposite[d]) = b.char
  BY StepTo, WayBack DEF OnFloor
<1>4. AddDirection(s, Opposite[d]) \notin b.boxes \cup Walls
  BY <1>3, LevelAssumption DEF OnFloor
<1>5. ~InCorner(s)
  <2>1. d \in {"Up", "Down"} => \A v \in {"Up", "Down"} : v = d \/ v = Opposite[d]
    BY DEF Opposite
  <2>2. d \in {"Left", "Right"} => \A v \in {"Left", "Right"} : v = d \/ v = Opposite[d]
    BY DEF Opposite
  <2>3. QED
    BY <1>2, <1>4, <2>1, <2>2 DEF InCorner, IsWall, Direction
<1>6. ASSUME NEW e \in Direction, PairedAlongWall(b, s, e)
      PROVE  FALSE
  <2>1. e # d /\ e # Opposite[d]
    BY <1>2, <1>4, <1>6 DEF PairedAlongWall
  <2>2. \A c \in Across(e) : c = d \/ c = Opposite[d]
    BY <2>1 DEF Direction, Across, Opposite
  <2>3. QED
    BY <1>2, <1>4, <1>6, <2>2 DEF PairedAlongWall, IsWall
<1>7. QED
  BY <1>5, <1>6 DEF StuckBox

-----------------------------------------------------------------------------
\* Everything a reachable board consists of is on the floor.
LEMMA OnFloorInvariant == Spec => []OnFloor(board)
<1>1. Init => OnFloor(board)
  BY LevelAssumption DEF Init, StartBoard, OnFloor, Board
<1>2. OnFloor(board) /\ [Next]_board => OnFloor(board)'
  <2> SUFFICES ASSUME OnFloor(board), [Next]_board
               PROVE  OnFloor(board')
    OBVIOUS
  <2>1. CASE Next
    BY <2>1, ApplyMoveOnFloor DEF Next, Move
  <2>2. CASE UNCHANGED board
    BY <2>2
  <2>3. QED
    BY <2>1, <2>2
<1>3. QED
  BY <1>1, <1>2, PTL DEF Spec

\* TypeOK holds in every closed level: no legal move leaves the bitsets.
THEOREM TypeCorrect == Spec => []TypeOK
<1>1. OnFloor(board) => TypeOK
  BY DEF OnFloor, TypeOK
<1>2. QED
  BY <1>1, OnFloorInvariant, PTL

\* NoSquareOutOfRange: std::bitset::test never throws, whatever is played.
THEOREM NoSquareOutOfRangeHolds == Spec => []NoSquareOutOfRange
<1>1. OnFloor(board) => NoSquareOutOfRange
  BY StepTo DEF OnFloor, NoSquareOutOfRange, Tested
<1>2. QED
  BY <1>1, OnFloorInvariant, PTL

\* BoardConsistent: in every level the boxes are conserved and stay apart from
\* the walls and the pusher.
THEOREM BoardConsistentHolds == Spec => []BoardConsistent
<1> DEFINE SameCount == Cardinality(board.boxes) = Cardinality(StartBoxes)
<1>1. Init => SameCount
  BY DEF Init, StartBoard
<1>2. SameCount /\ OnFloor(board) /\ [Next]_board => SameCount'
  <2> SUFFICES ASSUME SameCount, OnFloor(board), [Next]_board
               PROVE  SameCount'
    OBVIOUS
  <2>1. CASE Next
    BY <2>1, ApplyMoveKeepsBoxes DEF Next, Move
  <2>2. CASE UNCHANGED board
    BY <2>2
  <2>3. QED
    BY <2>1, <2>2
<1>3. SameCount /\ OnFloor(board) => BoardConsistent
  BY LevelAssumption DEF OnFloor, BoardConsistent
<1>4. QED
  BY <1>1, <1>2, <1>3, OnFloorInvariant, PTL DEF Spec

\* NeverBlocked: the move back is legal after every legal move.
THEOREM NeverBlockedHolds == Spec => []NeverBlocked
<1>1. Init => NeverBlocked
  BY DEF Init, NeverBlocked
<1>2. NeverBlocked /\ OnFloor(board) /\ [Next]_board => NeverBlocked'
  <2> SUFFICES ASSUME NeverBlocked, OnFloor(board), [Next]_board
               PROVE  NeverBlocked'
    OBVIOUS
  <2>1. ASSUME NEW d \in Direction, Move(d)
        PROVE  NeverBlocked'
    <3> DEFINE from == board.char
               to == AddDirection(from, d)
               to2 == AddDirection(to, d)
    <3>1. from \in Floor /\ from \in Square /\ from \notin Walls \cup board.boxes
      BY LevelAssumption DEF OnFloor, Board
    <3>2. Opposite[d] \in Direction /\ AddDirection(to, Opposite[d]) = from
      BY <3>1, StepTo, WayBack
    <3>3. from # to2
      BY <3>1, TwoSteps
    <3>4. board'.char = to /\ board'.boxes \subseteq board.boxes \cup {to2}
      BY <2>1 DEF Move, ApplyMove
    <3>5. LegalMove(board', Opposite[d])
      BY <3>1, <3>2, <3>3, <3>4 DEF LegalMove
    <3>6. QED
      BY <3>2, <3>5 DEF NeverBlocked, LegalMoves
  <2>2. CASE UNCHANGED board
    BY <2>2 DEF NeverBlocked, LegalMoves, LegalMove
  <2>3. QED
    BY <2>1, <2>2 DEF Next
<1>3. QED
  BY <1>1, <1>2, OnFloorInvariant, PTL DEF Spec

\* StuckBoxesStay: IsStuck never calls a box stuck that could still be pushed,
\* in any level and whatever is played.
THEOREM StuckBoxesStayHolds == Spec => StuckBoxesStay
<1>1. OnFloor(board) /\ [Next]_board
        => [\A s \in board.boxes : StuckBox(board, s) => s \in board'.boxes]_board
  <2> SUFFICES ASSUME OnFloor(board), NEW d \in Direction, Move(d),
                      NEW s \in board.boxes, StuckBox(board, s)
               PROVE  s \in board'.boxes
    BY DEF Next
  <2>1. s # AddDirection(board.char, d)
    BY PushedBoxIsFree DEF Move
  <2>2. QED
    BY <2>1 DEF Move, ApplyMove
<1>2. QED
  BY <1>1, OnFloorInvariant, PTL DEF Spec, StuckBoxesStay
-----------------------------------------------------------------------------
(***************************************************************************)
(* The shipped level has targets in two corners.  A push fills one target  *)
(* at a time, so the board before the last push has a box in a corner.     *)
(***************************************************************************)
TwoCornerTargets ==
    \E s, t \in Targets : s # t /\ InCorner(s) /\ InCorner(t)

FinishedOnlyFromStuck == [][IsEnd(board') => IsEnd(board) \/ IsStuck(board)]_board

\* With two corner targets no unstuck board is a move away from the end, so a
\* game that stops at the first stuck board can never be finished.
THEOREM CornerTargetsCannotBeFilled ==
    TwoCornerTargets => (Spec => FinishedOnlyFromStuck)
<1> SUFFICES ASSUME TwoCornerTargets
             PROVE  Spec => FinishedOnlyFromStuck
  OBVIOUS
<1>1. [Next]_board => [IsEnd(board') => IsEnd(board) \/ IsStuck(board)]_board
  <2> SUFFICES ASSUME NEW d \in Direction, Move(d), IsEnd(board')
               PROVE  IsStuck(board)
    BY DEF Next
  <2>1. PICK s \in Targets, t \in Targets : s # t /\ InCorner(s) /\ InCorner(t)
    BY DEF TwoCornerTargets
  <2>2. s \in board'.boxes /\ t \in board'.boxes
    BY DEF IsEnd
  <2>3. s \in board.boxes \/ t \in board.boxes
    BY <2>1, <2>2 DEF Move, ApplyMove
  <2>4. QED
    BY <2>1, <2>3 DEF IsStuck, StuckBox
<1>2. QED
  BY <1>1, PTL DEF Spec, FinishedOnlyFromStuck
=============================================================================
