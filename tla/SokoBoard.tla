------------------------------ MODULE SokoBoard ------------------------------
(***************************************************************************)
(* The rules of the Sokoban board of soko/board.cc and soko/bitboard.h.    *)
(*                                                                         *)
(* A square is the integer row * 20 + col the code stores in 16 bits; a    *)
(* BitBoard is the set of the squares whose bit is set.  Walls and targets *)
(* never change in a game, so they are constants and a board keeps what    *)
(* ApplyMove changes: the boxes and the pusher (char_).                    *)
(***************************************************************************)
EXTENDS Integers, Sequences, FiniteSets

CONSTANTS
    Walls,       \* walls_: the squares of the level that are a wall
    Targets,     \* targets_: the squares the boxes belong on
    Floor,       \* the squares the pusher could ever stand on (proofs only)
    StartBoxes,  \* boxes_ as SetFromFen leaves it
    StartChar    \* char_ as SetFromFen leaves it

(***************************************************************************)
(* Squares.  The bitset has 400 bits and test() throws outside of them;    *)
(* AddDirection computes row * 20 + col in an int and stores 16 bits.      *)
(***************************************************************************)
Square == 0 .. 399

Direction == {"Up", "Down", "Left", "Right"}

\* The order in which the std::map kCharMoves is iterated.
MoveOrder == <<"Up", "Down", "Left", "Right">>

Delta == [Up |-> 20, Down |-> -20, Left |-> -1, Right |-> 1]

AddDirection(s, d) == (s + Delta[d]) % 65536

(***************************************************************************)
(* A closed level, which is what the only level the program plays is:      *)
(* everything the pusher can reach is floor and is fenced by walls.        *)
(* SetFromFen itself checks nothing of this.                               *)
(***************************************************************************)
ASSUME LevelAssumption ==
    /\ Walls \subseteq Square
    /\ Floor \subseteq Square
    /\ Targets \subseteq Square
    /\ Floor \cap Walls = {}
    /\ StartBoxes \subseteq Floor
    /\ StartChar \in Floor \ StartBoxes
    /\ \A s \in Floor, d \in Direction : AddDirection(s, d) \in Floor \cup Walls

Board == [boxes : SUBSET Square, char : Square]

(***************************************************************************)
(* SokoBoard::GenerateLegalMoves.                                          *)
(***************************************************************************)

\* Mutant: the square behind a box is looked up among the boxes only.
Mut_PushIntoWall(b, d) ==
    LET to == AddDirection(b.char, d)
        to2 == AddDirection(to, d)
    IN  to \notin Walls /\ (to \in b.boxes => to2 \notin b.boxes)

\* Mutant: the square behind is looked up although there is no box to push.
Mut_AlwaysPush(b, d) ==
    LET to == AddDirection(b.char, d)
        to2 == AddDirection(to, d)
    IN  to \notin Walls /\ to2 \notin b.boxes \cup Walls

LegalMove(b, d) ==
    LET to == AddDirection(b.char, d)
        to2 == AddDirection(to, d)
    IN  /\ to \notin Walls
        /\ to \in b.boxes => to2 \notin b.boxes \cup Walls

LegalMoves(b) == {d \in Direction : LegalMove(b, d)}

\* The list itself, in the order the edges of a node get.
GenerateLegalMoves(b) == SelectSeq(MoveOrder, LAMBDA d : LegalMove(b, d))

(***************************************************************************)
(* SokoBoard::ApplyMove, for a move that does not throw "bad move".        *)
(***************************************************************************)

\* Mutant: the pushed box is not cleared from the square it leaves.
Mut_PushLeavesBox(b, d) ==
    LET to == AddDirection(b.char, d)
        to2 == AddDirection(to, d)
    IN  [boxes |-> IF to \in b.boxes THEN b.boxes \cup {to2} ELSE b.boxes,
         char |-> to]

ApplyMove(b, d) ==
    LET to == AddDirection(b.char, d)
        to2 == AddDirection(to, d)
    IN  [boxes |-> IF to \in b.boxes THEN (b.boxes \ {to}) \cup {to2}
                                     ELSE b.boxes,
         char |-> to]

\* BitBoard::intersects compares all the bits: the boxes are the targets.
IsEnd(b) == b.boxes = Targets

(***************************************************************************)
(* SokoBoard::IsStuck.  kStuckChecks: a box between two walls that meet.   *)
(* kStuckChecks2: two boxes side by side along one wall.                   *)
(***************************************************************************)
IsWall(s, d) == AddDirection(s, d) \in Walls

InCorner(s) ==
    \E v \in {"Up", "Down"}, h \in {"Left", "Right"} : IsWall(s, v) /\ IsWall(s, h)

\* The two directions kStuckChecks2 pairs with a direction.
Across(d) == IF d \in {"Up", "Down"} THEN {"Left", "Right"} ELSE {"Up", "Down"}

\* Mutant: nobody looks whether the neighbour is a box.
Mut_AlongWall(b, s, d) ==
    \E c \in Across(d) : IsWall(s, c) /\ IsWall(AddDirection(s, d), c)

PairedAlongWall(b, s, d) ==
    /\ AddDirection(s, d) \in b.boxes
    /\ \E c \in Across(d) : IsWall(s, c) /\ IsWall(AddDirection(s, d), c)

StuckBox(b, s) == InCorner(s) \/ \E d \in Direction : PairedAlongWall(b, s, d)

IsStuck(b) == \E s \in b.boxes : StuckBox(b, s)

(***************************************************************************)
(* The squares whose bits GenerateLegalMoves and IsStuck may test: the     *)
(* neighbours of the pusher and of the boxes.  (The square behind a box    *)
(* that would be pushed is a neighbour of that box.)                       *)
(***************************************************************************)
Tested(b) == {AddDirection(s, d) : s \in b.boxes \cup {b.char}, d \in Direction}

\* The board SetFromFen makes of the level.
StartBoard == [boxes |-> StartBoxes, char |-> StartChar]
=============================================================================
