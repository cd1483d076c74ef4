------------------------------ MODULE GameProofs ------------------------------
(***************************************************************************)
(* The histories of SokoGame and the games of SelfPlay, in every closed    *)
(* level, for every depth of the search and whatever the averages are.     *)
(***************************************************************************)
EXTENDS SelfPlay, FiniteSetTheorems, SequenceTheorems, WellFoundedInduction, TLAPS

\* The rules of the board, as they are applied to the game.
Rules == INSTANCE SokoMovesProofs WITH board <- Latest(played).board

\* They are those of SokoBoard.
LEMMA RulesOfTheBoard ==
    /\ Rules!Direction = Direction /\ Rules!Square = Square /\ Rules!Board = Board
    /\ \A s, d : Rules!AddDirection(s, d) = AddDirection(s, d)
    /\ \A b, d : Rules!LegalMove(b, d) <=> LegalMove(b, d)
    /\ \A b, d : Rules!ApplyMove(b, d) = ApplyMove(b, d)
    /\ Rules!StartBoard = StartBoard
<1>1. Rules!Direction = Direction /\ Rules!Square = Square
  BY DEF Direction, Rules!Direction, Square, Rules!Square
<1>2. \A s, d : Rules!AddDirection(s, d) = AddDirection(s, d)
  BY DEF AddDirection, Rules!AddDirection, Delta, Rules!Delta
<1>3. Rules!Board = Board
  BY <1>1 DEF Board, Rules!Board
<1>4. \A b, d : Rules!LegalMove(b, d) <=> LegalMove(b, d)
  BY <1>2 DEF LegalMove, Rules!LegalMove
<1>5. \A b, d : Rules!ApplyMove(b, d) = ApplyMove(b, d)
  BY <1>2 DEF ApplyMove, Rules!ApplyMove
<1>6. Rules!StartBoard = StartBoard
  BY DEF StartBoard, Rules!StartBoard
<1>7. QED
  BY <1>1, <1>2, <1>3, <1>4, <1>5, <1>6

LEMMA ApplyMoveOnFloor ==
    ASSUME NEW b, Rules!OnFloor(b), NEW d \in Direction, LegalMove(b, d)
    PROVE  Rules!OnFloor(ApplyMove(b, d))
<1>1. Rules!OnFloor(Rules!ApplyMove(b, d))
  BY Rules!ApplyMoveOnFloor, RulesOfTheBoard, LevelAssumption
<1>2. QED
  BY <1>1, RulesOfTheBoard

\* Positions on the floor, which the rules of the board keep.
FloorPosition == [board : {b \in Board : Rules!OnFloor(b)}, repetitions : Nat]

\* A set of indices has a largest one.
LEMMA LargestIndex ==
    ASSUME NEW len \in Nat, NEW S \in SUBSET (1 .. len), S # {}
    PROVE  Max(S) \in S /\ \A j \in S : Max(S) >= j
<1> DEFINE above(k) == (k + 1) .. len
           T == {above(k) : k \in S}
           R == StrictSubsetOrdering(1 .. len)
<1>1. IsFiniteSet(1 .. len)
  BY FS_Interval, 1 \in Int, len \in Int, Zenon
<1>2. IsWellFoundedOn(R, SUBSET (1 .. len))
  BY <1>1, FS_FiniteSubsetsOfFinite, FS_StrictSubsetOrderingWellFounded
<1>3. T \subseteq SUBSET (1 .. len) /\ T # {}
  <2>1. \A k \in S : above(k) \subseteq 1 .. len
    OBVIOUS
  <2>2. T # {}
    OBVIOUS
  <2>3. QED
    BY <2>1, <2>2
<1>4. PICK x \in T : \A y \in T : ~(<<y, x>> \in R)
  BY <1>2, <1>3, WFMin
<1>5. PICK k \in S : x = above(k)
  OBVIOUS
<1>6. ASSUME NEW j \in S, j > k
      PROVE  FALSE
  <2>1. above(j) \subseteq above(k) /\ above(j) # above(k)
    <3>1. j \in above(k) /\ j \notin above(j)
      BY <1>6
    <3>2. above(j) \subseteq above(k)
      BY <1>6
    <3>3. QED
      BY <3>1, <3>2
  <2>2. <<above(j), x>> \in R
    BY <2>1, <1>3, <1>5 DEF StrictSubsetOrdering
  <2>3. QED
    BY <2>2, <1>4
<1>7. \A j \in S : k >= j
  BY <1>6
<1>8. QED
  BY <1>7 DEF Max

\* What ComputeLastMoveRepetitions returns: the nearest equal board carries the
\* number of those before it, so one more than that is the number of them all.
LEMMA NearestCounts ==
    ASSUME NEW h \in Seq(FloorPosition), CountsOccurrences(h), NEW b
    PROVE  /\ ComputeLastMoveRepetitions(h, b) \in Nat
           /\ ComputeLastMoveRepetitions(h, b)
                = Cardinality({j \in 1 .. Len(h) : h[j].board = b})
<1> DEFINE E == {j \in 1 .. Len(h) : h[j].board = b}
           k == Max(E)
<1>1. Len(h) \in Nat /\ DOMAIN h = 1 .. Len(h) /\ Earlier(h, b) = E
  BY LenProperties DEF Earlier
<1>2. IsFiniteSet(E)
  <2>1. IsFiniteSet(1 .. Len(h))
    BY <1>1, FS_Interval, 1 \in Int, Len(h) \in Int, Zenon
  <2>2. QED
    BY <2>1, FS_Subset
<1>3. CASE E = {}
  BY <1>1, <1>3, FS_EmptySet DEF ComputeLastMoveRepetitions
<1>4. CASE E # {}
  <2>1. k \in E /\ \A j \in E : k >= j
    BY <1>1, <1>4, LargestIndex
  <2>2. {j \in 1 .. k - 1 : h[j].board = h[k].board} = E \ {k}
    <3>1. k \in 1 .. Len(h) /\ h[k].board = b
      BY <2>1
    <3>2. \A j \in E : j # k => j \in 1 .. k - 1
      BY <2>1, <3>1, <1>1
    <3>3. \A j \in 1 .. k - 1 : j \in 1 .. Len(h) /\ j # k
      BY <3>1, <1>1
    <3>4. QED
      BY <3>1, <3>2, <3>3
  <2>3. h[k].repetitions = Cardinality(E \ {k})
    BY <2>1, <2>2, <1>1 DEF CountsOccurrences
  <2>4. Cardinality(E \ {k}) = Cardinality(E) - 1 /\ Cardinality(E) \in Nat
    <3>1. \A x \in E : Cardinality(E \ {x}) = Cardinality(E) - 1
      BY <1>2, FS_RemoveElement
    <3>2. Cardinality(E) \in Nat
      BY <1>2, FS_CardinalityType
    <3>3. QED
      BY <2>1, <3>1, <3>2
  <2>5. ComputeLastMoveRepetitions(h, b) = 1 + h[k].repetitions
    BY <1>1, <1>4 DEF ComputeLastMoveRepetitions
  <2>6. QED
    BY <2>3, <2>4, <2>5
<1>5. QED
  BY <1>3, <1>4

\* What a history is made of, and that its counts are right.
GoodHistory(h) ==
    /\ h \in Seq(FloorPosition)
    /\ h # <<>>
    /\ CountsOccurrences(h)

\* Appending a legal move keeps a history good and changes nothing before it.
LEMMA AppendMoveGood ==
    ASSUME NEW h, GoodHistory(h), NEW d \in Direction, LegalMove(Latest(h).board, d)
    PROVE  /\ GoodHistory(AppendMove(h, d))
           /\ Len(AppendMove(h, d)) = Len(h) + 1
           /\ \A i \in 1 .. Len(h) : AppendMove(h, d)[i] = h[i]
<1> DEFINE b == ApplyMove(Latest(h).board, d)
           p == [board |-> b, repetitions |-> ComputeLastMoveRepetitions(h, b)]
           g == Append(h, p)
<1>1. Len(h) \in Nat \ {0} /\ h[Len(h)] \in FloorPosition
  BY LenProperties, EmptySeq DEF GoodHistory
<1>2. Rules!OnFloor(b)
  BY <1>1, ApplyMoveOnFloor DEF Latest, FloorPosition
<1>3. /\ p \in FloorPosition
      /\ p.repetitions = Cardinality({j \in 1 .. Len(h) : h[j].board = b})
  BY <1>2, NearestCounts, RulesOfTheBoard DEF FloorPosition, GoodHistory, Rules!OnFloor
<1>4. /\ g \in Seq(FloorPosition) /\ g # <<>>
      /\ Len(g) = Len(h) + 1
      /\ \A i \in 1 .. Len(h) : g[i] = h[i]
      /\ g[Len(h) + 1] = p
  BY <1>3, AppendProperties DEF GoodHistory
<1>5. CountsOccurrences(g)
  <2> SUFFICES ASSUME NEW i \in 1 .. Len(h) + 1
               PROVE  g[i].repetitions = Cardinality({j \in 1 .. i - 1 : g[j].board = g[i].board})
    BY <1>1, <1>4, LenProperties DEF CountsOccurrences
  <2>1. CASE i \in 1 .. Len(h)
    <3>1. h[i].repetitions = Cardinality({j \in 1 .. i - 1 : h[j].board = h[i].board})
      BY <2>1, LenProperties DEF GoodHistory, CountsOccurrences
    <3>2. {j \in 1 .. i - 1 : h[j].board = h[i].board}
            = {j \in 1 .. i - 1 : g[j].board = g[i].board}
      BY <2>1, <1>1, <1>4
    <3>3. QED
      BY <2>1, <3>1, <3>2, <1>4
  <2>2. CASE i = Len(h) + 1
    <3>1. {j \in 1 .. Len(h) : h[j].board = b} = {j \in 1 .. i - 1 : g[j].board = g[i].board}
      BY <2>2, <1>1, <1>4
    <3>2. QED
      BY <2>2, <3>1, <1>3, <1>4
  <2>3. i \in 1 .. Len(h) \/ i = Len(h) + 1
    BY <1>1
  <2>4. QED
    BY <2>1, <2>2, <2>3
<1>6. QED
  BY <1>4, <1>5 DEF GoodHistory, AppendMove

\* Cutting a history keeps what is left of it good.
LEMMA TrimGood ==
    ASSUME NEW h, GoodHistory(h), NEW len \in 1 .. Len(h)
    PROVE  /\ GoodHistory(Trim(h, len))
           /\ Len(Trim(h, len)) = len
           /\ \A i \in 1 .. len : Trim(h, len)[i] = h[i]
<1> DEFINE g == SubSeq(h, 1, len)
<1>1. Len(h) \in Nat /\ \A i \in 1 .. len : h[i] \in FloorPosition
  BY LenProperties, ElementOfSeq DEF GoodHistory
<1>2. g \in Seq(FloorPosition) /\ Len(g) = len /\ \A i \in 1 .. len : g[i] = h[i]
  BY <1>1, SubSeqProperties
<1>3. g # <<>>
  BY <1>2, EmptySeq
<1>4. CountsOccurrences(g)
  <2> SUFFICES ASSUME NEW i \in 1 .. len
               PROVE  g[i].repetitions = Cardinality({j \in 1 .. i - 1 : g[j].board = g[i].board})
    BY <1>2, LenProperties DEF CountsOccurrences
  <2>1. h[i].repetitions = Cardinality({j \in 1 .. i - 1 : h[j].board = h[i].board})
    BY <1>1, LenProperties DEF GoodHistory, CountsOccurrences
  <2>2. {j \in 1 .. i - 1 : h[j].board = h[i].board}
          = {j \in 1 .. i - 1 : g[j].board = g[i].board}
    BY <1>1, <1>2
  <2>3. QED
    BY <2>1, <2>2, <1>2
<1>5. QED
  BY <1>2, <1>3, <1>4 DEF GoodHistory, Trim
-----------------------------------------------------------------------------
(***************************************************************************)
(* The inductive invariant.  ProbeContinuesGame and SearchPathsDoNotRepeat *)
(* need the counts: ExtendNode refuses to go on below a repetition, and a  *)
(* count of zero says that the board is new to the whole path.             *)
(***************************************************************************)
Continues ==
    /\ Len(played) <= Len(probe)
    /\ \A i \in 1 .. Len(played) : probe[i] = played[i]

IInv ==
    /\ GoodHistory(played)
    /\ GoodHistory(probe)
    /\ Continues
    /\ SearchPathsDoNotRepeat

LEMMA InitIInv == Init => IInv
<1> SUFFICES ASSUME Init PROVE IInv
  OBVIOUS
<1> DEFINE p == [board |-> StartBoard, repetitions |-> 0]
<1>1. Rules!OnFloor(StartBoard)
  BY LevelAssumption, RulesOfTheBoard DEF StartBoard, Rules!OnFloor, Board
<1>2. p \in FloorPosition
  BY <1>1, RulesOfTheBoard DEF FloorPosition, Rules!OnFloor
<1>3. played = <<p>> /\ probe = <<p>>
  BY DEF Init, Reset
<1>4. <<p>> \in Seq(FloorPosition) /\ Len(<<p>>) = 1 /\ <<p>> # <<>> /\ <<p>>[1] = p
  BY <1>2
<1>5. CountsOccurrences(<<p>>)
  <2>1. {j \in 1 .. 1 - 1 : <<p>>[j].board = <<p>>[1].board} = {}
    OBVIOUS
  <2>2. QED
    BY <2>1, <1>4, FS_EmptySet DEF CountsOccurrences
<1>6. QED
  BY <1>3, <1>4, <1>5 DEF IInv, GoodHistory, Continues, SearchPathsDoNotRepeat

LEMMA NextIInv == IInv /\ [Next]_vars => IInv'
<1> SUFFICES ASSUME IInv, [Next]_vars PROVE IInv'
  OBVIOUS
<1>1. /\ GoodHistory(played) /\ GoodHistory(probe)
      /\ Len(played) \in Nat \ {0} /\ Len(probe) \in Nat \ {0}
      /\ Len(played) <= Len(probe)
  BY LenProperties, EmptySeq DEF IInv, GoodHistory, Continues
<1>2. CASE TrimProbe
  <2>1. /\ GoodHistory(probe') /\ Len(probe') = Len(played)
        /\ \A i \in 1 .. Len(played) : probe'[i] = probe[i]
    BY <1>1, <1>2, TrimGood DEF TrimProbe
  <2>2. played' = played
    BY <1>2 DEF TrimProbe
  <2>3. QED
    BY <1>1, <2>1, <2>2 DEF IInv, Continues, SearchPathsDoNotRepeat
<1>3. ASSUME NEW d \in Direction, MakeMove(d)
      PROVE  IInv'
  <2>1. GoodHistory(played') /\ probe' = played'
    BY <1>1, <1>3, AppendMoveGood DEF MakeMove
  <2>2. Len(played') \in Nat
    BY <2>1, LenProperties DEF GoodHistory
  <2>3. QED
    BY <2>1, <2>2 DEF IInv, Continues, SearchPathsDoNotRepeat
<1>4. ASSUME NEW d \in Direction, AppendProbe(d)
      PROVE  IInv'
  <2> DEFINE len == Len(probe)
  <2>1. /\ GoodHistory(probe') /\ Len(probe') = len + 1 /\ played' = played
        /\ \A i \in 1 .. len : probe'[i] = probe[i]
    BY <1>1, <1>4, AppendMoveGood DEF AppendProbe
  <2>2. \A i \in 1 .. len - 1 : probe[i].board # probe[len].board
    <3>1. probe[len].repetitions = Cardinality({j \in 1 .. len - 1 : probe[j].board = probe[len].board})
      BY <1>1, LenProperties DEF GoodHistory, CountsOccurrences
    <3>2. probe[len].repetitions \in Nat /\ ~(probe[len].repetitions >= 1)
      <4>1. probe[len] \in FloorPosition
        BY <1>1, ElementOfSeq DEF GoodHistory
      <4>2. QED
        BY <4>1, <1>4 DEF AppendProbe, Verdict, Latest, FloorPosition
    <3>3. IsFiniteSet({j \in 1 .. len - 1 : probe[j].board = probe[len].board})
      <4>1. IsFiniteSet(1 .. len - 1)
        BY <1>1, FS_Interval, 1 \in Int, len - 1 \in Int
      <4>2. QED
        BY <4>1, FS_Subset
    <3>4. {j \in 1 .. len - 1 : probe[j].board = probe[len].board} = {}
      <4>1. \A S : IsFiniteSet(S) => (Cardinality(S) = 0 <=> S = {})
        BY FS_EmptySet
      <4>2. probe[len].repetitions = 0
        BY <3>2
      <4>3. QED
        BY <3>1, <3>3, <4>1, <4>2
    <3>5. QED
      BY <3>4
  <2>3. SearchPathsDoNotRepeat'
    <3> SUFFICES ASSUME NEW i \in 1 .. len, NEW j \in Len(played) + 1 .. len, i # j
                 PROVE  probe[i].board # probe[j].board
      BY <1>1, <2>1 DEF SearchPathsDoNotRepeat
    <3>1. CASE i = len
      BY <1>1, <2>2, <3>1
    <3>2. CASE j = len
      BY <1>1, <2>2, <3>2
    <3>3. CASE i # len /\ j # len
      <4>1. i \in 1 .. len - 1 /\ j \in Len(played) + 1 .. len - 1
        BY <1>1, <3>3
      <4>2. QED
        BY <4>1 DEF IInv, SearchPathsDoNotRepeat
    <3>4. QED
      BY <3>1, <3>2, <3>3
  <2>4. Continues'
    BY <1>1, <2>1 DEF IInv, Continues
  <2>5. QED
    BY <1>1, <2>1, <2>3, <2>4 DEF IInv
<1>5. CASE UNCHANGED vars
  BY <1>5 DEF IInv, vars, GoodHistory, Continues, SearchPathsDoNotRepeat, CountsOccurrences
<1>6. QED
  BY <1>2, <1>3, <1>4, <1>5 DEF Next

LEMMA IInvInvariant == Spec => []IInv
  BY InitIInv, NextIInv, PTL DEF Spec

\* TypeOK: both histories are made of boards the bitsets can hold.
THEOREM TypeCorrect == Spec => []TypeOK
<1>1. FloorPosition \subseteq Position
  BY DEF FloorPosition, Position
<1>2. ASSUME NEW h, GoodHistory(h)
      PROVE  h \in Seq(Position) /\ h # <<>>
  BY <1>1, <1>2, SeqMonotonic DEF GoodHistory
<1>3. IInv => TypeOK
  BY <1>2 DEF IInv, TypeOK
<1>4. QED
  BY <1>3, IInvInvariant, PTL

\* RepetitionsCount: looking back to the nearest equal board counts them all, in
\* the history of the game and in the one the search cuts and regrows.
THEOREM RepetitionsCountHolds == Spec => []RepetitionsCount
<1>1. IInv => RepetitionsCount
  BY DEF IInv, GoodHistory, RepetitionsCount
<1>2. QED
  BY <1>1, IInvInvariant, PTL

\* ProbeContinuesGame: a worker evaluates positions of the game being played.
THEOREM ProbeContinuesGameHolds == Spec => []ProbeContinuesGame
<1>1. IInv => ProbeContinuesGame
  <2> SUFFICES ASSUME IInv PROVE ProbeContinuesGame
    OBVIOUS
  <2>1. /\ Len(played) \in 1 .. Len(probe)
        /\ \A i \in 1 .. Len(played) : probe[i] = played[i]
    BY LenProperties, EmptySeq DEF IInv, GoodHistory, Continues
  <2>2. /\ Trim(probe, Len(played)) \in Seq(FloorPosition)
        /\ Len(Trim(probe, Len(played))) = Len(played)
        /\ \A i \in 1 .. Len(played) : Trim(probe, Len(played))[i] = played[i]
    BY <2>1, TrimGood DEF IInv, GoodHistory
  <2>3. Trim(probe, Len(played)) = played
    BY <2>2, SeqEqual DEF IInv, GoodHistory
  <2>4. QED
    BY <2>1, <2>3 DEF ProbeContinuesGame, Trim
<1>2. QED
  BY <1>1, IInvInvariant, PTL

\* SearchPathsDoNotRepeat: at any depth a path of the tree repeats no board, so
\* the tree is no deeper than there are boards.
THEOREM SearchPathsDoNotRepeatHolds == Spec => []SearchPathsDoNotRepeat
<1>1. IInv => SearchPathsDoNotRepeat
  BY DEF IInv
<1>2. QED
  BY <1>1, IInvInvariant, PTL

\* The boards of a game are those of legal moves made one after the other, although
\* the tree keeps them in a history with counts and each Append starts from the
\* last of it: SokoGame implements SokoMoves.
THEOREM GameFollowsTheRules == Spec => Rules!Spec
<1>1. Init => Rules!Init
  BY RulesOfTheBoard DEF Init, Reset, Latest, Rules!Init
<1>2. IInv /\ [Next]_vars => [Rules!Next]_(Latest(played).board)
  <2> SUFFICES ASSUME IInv, [Next]_vars
               PROVE  Rules!Next \/ UNCHANGED Latest(played).board
    OBVIOUS
  <2>1. ASSUME NEW d \in Direction, MakeMove(d)
        PROVE  Rules!Next
    <3> DEFINE b == ApplyMove(Latest(played).board, d)
               p == [board |-> b, repetitions |-> ComputeLastMoveRepetitions(played, b)]
    <3>1. played \in Seq(FloorPosition) /\ played' = Append(played, p)
      BY <2>1 DEF IInv, GoodHistory, MakeMove, AppendMove
    <3>2. played' \in Seq(FloorPosition)
      BY <2>1, <3>1, AppendMoveGood DEF IInv, MakeMove, GoodHistory
    <3> HIDE DEF p
    <3>3. Latest(played') = p
      BY <3>1 DEF Latest
    <3>4. Latest(played').board = ApplyMove(Latest(played).board, d)
      BY <3>3 DEF p
    <3>5. LegalMove(Latest(played).board, d)
      BY <2>1 DEF MakeMove
    <3>6. d \in Rules!Direction /\ Rules!LegalMove(Latest(played).board, d)
          /\ Latest(played').board = Rules!ApplyMove(Latest(played).board, d)
      BY <3>4, <3>5, RulesOfTheBoard
    <3>7. QED
      BY <3>6 DEF Rules!Next, Rules!Move
  <2>2. ASSUME UNCHANGED played PROVE UNCHANGED Latest(played).board
    BY <2>2 DEF Latest
  <2>3. QED
    BY <2>1, <2>2 DEF Next, TrimProbe, AppendProbe, vars
<1>3. QED
  BY <1>1, <1>2, IInvInvariant, PTL DEF Spec, Rules!Spec

\* So what holds of legal moves holds of games: no head but the first is without a
\* legal move, the boxes are conserved, and a box IsStuck objects to stays where it is.
THEOREM GamesKeepTheRules ==
    Spec => /\ []Rules!NeverBlocked
            /\ []Rules!BoardConsistent
            /\ Rules!StuckBoxesStay
<1>1. Rules!Spec => []Rules!NeverBlocked
  BY Rules!NeverBlockedHolds, LevelAssumption, RulesOfTheBoard
<1>2. Rules!Spec => []Rules!BoardConsistent
  BY Rules!BoardConsistentHolds, LevelAssumption, RulesOfTheBoard
<1>3. Rules!Spec => Rules!StuckBoxesStay
  BY Rules!StuckBoxesStayHolds, LevelAssumption, RulesOfTheBoard
<1>4. QED
  BY <1>1, <1>2, <1>3, GameFollowsTheRules
-----------------------------------------------------------------------------
(***************************************************************************)
(* A game and its searches.                                                *)
(***************************************************************************)

\* The tree belongs to the history while it is searched and judged.
Searched == pc \in {"search", "judge"}

\* A root has edges only when the search did not judge its position, and a terminal
\* one is sure.
RootIsJudged ==
    /\ root \in {"new", "edges", "terminal"}
    /\ Searched /\ root = "edges" => Verdict(played) = "UNDECIDED"
    /\ Searched /\ root = "terminal" => /\ parent_q \in {One, -One}
                                        /\ parent_q = -Sure(Verdict(played))
                                        /\ Verdict(played) # "UNDECIDED"
    /\ pc = "judge" => root # "new"

\* No board was played from that had been there before.
FreshSoFar == \A i \in 1 .. Len(played) - 1 : played[i].repetitions = 0

PlayIInv ==
    /\ GoodHistory(played)
    /\ RootIsJudged
    /\ FreshSoFar
    /\ NoBoardThreeTimes

-----------------------------------------------------------------------------
LEMMA PlayedFrom ==
  ASSUME PlayIInv, PlayBestMove
  PROVE  /\ final.move \in Direction /\ LegalMove(Latest(played).board, final.move)
         /\ root = "edges" /\ Verdict(played) = "UNDECIDED"
         /\ ComputeGameResult(played) = "UNDECIDED"
<1>1. final.move \in Direction /\ LegalMove(Latest(played).board, final.move)
  BY DEF PlayBestMove, Moves
<1>2. root # "terminal"
  <2>1. root = "terminal" => GetBestEval = parent_q
    BY DEF GetBestEval, HasChildren
  <2>2. QED
    BY <2>1 DEF PlayBestMove, PlayIInv, RootIsJudged, Searched
<1>3. root = "edges" /\ Verdict(played) = "UNDECIDED"
  BY <1>2 DEF PlayBestMove, PlayIInv, RootIsJudged, Searched
<1>4. Latest(played).repetitions \in Nat
  <2>1. Len(played) \in Nat \ {0}
    BY LenProperties, EmptySeq DEF PlayIInv, GoodHistory
  <2>2. played[Len(played)] \in FloorPosition
    BY <2>1, ElementOfSeq DEF PlayIInv, GoodHistory
  <2>3. QED
    BY <2>2 DEF Latest, FloorPosition
<1>5. ComputeGameResult(played) = "UNDECIDED"
  BY <1>3, <1>4 DEF ComputeGameResult, Verdict
<1>6. QED
  BY <1>1, <1>3, <1>5

\* A board that is played to was seen once at most, because it was not played from
\* when it was there for the second time.
LEMMA NoThirdTime ==
  ASSUME PlayIInv, PlayBestMove
  PROVE  GoodHistory(played') /\ FreshSoFar' /\ NoBoardThreeTimes'
<1> DEFINE h == played
           b == ApplyMove(Latest(h).board, final.move)
<1>1. GoodHistory(h) /\ Len(h) \in Nat \ {0} /\ DOMAIN h = 1 .. Len(h)
  BY LenProperties, EmptySeq DEF PlayIInv, GoodHistory
<1>2. /\ GoodHistory(played') /\ Len(played') = Len(h) + 1
      /\ \A i \in 1 .. Len(h) : played'[i] = h[i]
  BY <1>1, PlayedFrom, AppendMoveGood DEF PlayBestMove
<1>3. h[Len(h)].repetitions = 0
  <2>1. h[Len(h)] \in FloorPosition
    BY <1>1, ElementOfSeq DEF GoodHistory
  <2>2. ~(h[Len(h)].repetitions >= 1)
    BY PlayedFrom DEF Verdict, Latest
  <2>3. QED
    BY <2>1, <2>2 DEF FloorPosition
<1>4. \A i \in 1 .. Len(h) : h[i].repetitions = 0
  BY <1>1, <1>3 DEF PlayIInv, FreshSoFar
<1>5. FreshSoFar'
  BY <1>1, <1>2, <1>4 DEF FreshSoFar
<1>6. ComputeLastMoveRepetitions(h, b) <= 1
  <2>1. CASE Earlier(h, b) = {}
    BY <2>1 DEF ComputeLastMoveRepetitions
  <2>2. CASE Earlier(h, b) # {}
    <3>1. Earlier(h, b) \in SUBSET (1 .. Len(h))
      BY <1>1 DEF Earlier
    <3>2. Max(Earlier(h, b)) \in 1 .. Len(h)
      BY <1>1, <2>2, <3>1, LargestIndex
    <3>3. h[Max(Earlier(h, b))].repetitions = 0
      BY <1>4, <3>2
    <3>4. QED
      BY <2>2, <3>3 DEF ComputeLastMoveRepetitions
  <2>3. QED
    BY <2>1, <2>2
<1>7. Latest(played').repetitions = ComputeLastMoveRepetitions(h, b)
  <2>1. played' = Append(h, [board |-> b, repetitions |-> ComputeLastMoveRepetitions(h, b)])
    BY DEF PlayBestMove, AppendMove
  <2>2. played'[Len(h) + 1] = [board |-> b, repetitions |-> ComputeLastMoveRepetitions(h, b)]
    BY <2>1, <1>1 DEF GoodHistory
  <2>3. QED
    BY <2>2, <1>2 DEF Latest
<1>8. NoBoardThreeTimes'
  BY <1>6, <1>7 DEF NoBoardThreeTimes
<1>9. QED
  BY <1>2, <1>5, <1>8

LEMMA PlayInitIInv == PlayInit => PlayIInv
<1> SUFFICES ASSUME PlayInit PROVE PlayIInv
  OBVIOUS
<1>1. GoodHistory(played)
  BY InitIInv DEF PlayInit, IInv
<1>2. RootIsJudged
  BY DEF PlayInit, RootIsJudged, Searched
<1>3. played = <<[board |-> StartBoard, repetitions |-> 0]>>
  BY DEF PlayInit, Init, Reset
<1>4. FreshSoFar /\ NoBoardThreeTimes
  BY <1>3 DEF FreshSoFar, NoBoardThreeTimes, Latest
<1>5. QED
  BY <1>1, <1>2, <1>4 DEF PlayIInv

LEMMA PlayNextIInv == PlayIInv /\ [PlayNext]_playVars => PlayIInv'
<1> SUFFICES ASSUME PlayIInv, [PlayNext]_playVars PROVE PlayIInv'
  OBVIOUS
<1>1. CASE PlayBestMove
  <2>1. RootIsJudged'
    BY <1>1 DEF PlayBestMove, searchVars, PlayIInv, RootIsJudged, Searched
  <2>2. QED
    BY <1>1, <2>1, NoThirdTime DEF PlayIInv
<1>2. ASSUME played' = played
      PROVE  GoodHistory(played') /\ FreshSoFar' /\ NoBoardThreeTimes'
  BY <1>2 DEF PlayIInv, FreshSoFar, NoBoardThreeTimes
<1>3. CASE BeginMove
  <2>1. played' = played /\ root' = "new" /\ pc' \in {"search", "over"}
    BY <1>3 DEF BeginMove, gameVars, vars
  <2>2. QED
    BY <1>2, <2>1 DEF PlayIInv, RootIsJudged, Searched
<1>4. CASE VisitRoot
  <2>1. played' = played /\ pc' = pc /\ pc = "search"
    BY <1>4 DEF VisitRoot, gameVars, vars
  <2>2. RootIsJudged'
    <3>1. CASE Verdict(played) = "UNDECIDED"
      BY <1>4, <2>1, <3>1 DEF VisitRoot, RootIsJudged, Searched
    <3>2. CASE Verdict(played) # "UNDECIDED"
      <4>1. -Sure(Verdict(played)) \in {One, -One}
        BY SelfPlayAssumption DEF Sure
      <4>2. root' = "terminal" /\ parent_q' = -Sure(Verdict(played))
        BY <1>4, <3>2 DEF VisitRoot
      <4>3. QED
        BY <2>1, <3>2, <4>1, <4>2 DEF RootIsJudged, Searched
    <3>3. QED
      BY <3>1, <3>2
  <2>3. QED
    BY <1>2, <2>1, <2>2 DEF PlayIInv
<1>5. CASE VisitTerminalRoot \/ (\E d \in Direction : VisitChild(d)) \/ MaybeTriggerStop
  <2>1. UNCHANGED <<played, root, parent_q, pc>>
    BY <1>5 DEF VisitTerminalRoot, VisitChild, MaybeTriggerStop, gameVars, vars
  <2>2. QED
    BY <1>2, <2>1 DEF PlayIInv, RootIsJudged, Searched
<1>6. CASE Join
  <2>1. UNCHANGED <<played, root, parent_q>> /\ pc = "search" /\ pc' = "judge" /\ root # "new"
    BY <1>6 DEF Join, gameVars, vars, searchVars
  <2>2. QED
    BY <1>2, <2>1 DEF PlayIInv, RootIsJudged, Searched
<1>7. CASE Judge \/ Terminate
  <2>1. UNCHANGED <<played, root, parent_q>> /\ pc' \in {"over", "terminated"}
    BY <1>7 DEF Judge, Terminate, gameVars, vars, searchVars
  <2>2. QED
    BY <1>2, <2>1 DEF PlayIInv, RootIsJudged, Searched
<1>8. CASE Over \/ UNCHANGED playVars
  <2>1. UNCHANGED <<played, root, parent_q, pc>>
    BY <1>8 DEF Over, playVars, gameVars, vars, searchVars
  <2>2. QED
    BY <1>2, <2>1 DEF PlayIInv, RootIsJudged, Searched
<1>9. QED
  BY <1>1, <1>3, <1>4, <1>5, <1>6, <1>7, <1>8 DEF PlayNext

LEMMA PlayIInvInvariant == PlaySpec => []PlayIInv
  BY PlayInitIInv, PlayNextIInv, PTL DEF PlaySpec

\* The rule of the game about a board that is there for the third time never comes to
\* bear, on any level: the search ends the game before.
THEOREM NoBoardThreeTimesHolds == PlaySpec => []NoBoardThreeTimes
<1>1. PlayIInv => NoBoardThreeTimes
  BY DEF PlayIInv
<1>2. QED
  BY <1>1, PlayIInvInvariant, PTL

LEMMA PlayStepIsMove == PlayIInv /\ [PlayNext]_playVars => [\E d \in Direction : MakeMove(d)]_vars
<1> SUFFICES ASSUME PlayIInv, [PlayNext]_playVars
             PROVE  (\E d \in Direction : MakeMove(d)) \/ UNCHANGED vars
  OBVIOUS
<1>1. CASE PlayBestMove
  BY <1>1, PlayedFrom DEF PlayBestMove, MakeMove
<1>2. QED
  BY <1>1 DEF PlayNext, BeginMove, VisitRoot, VisitTerminalRoot, VisitChild, MaybeTriggerStop, Join, Judge,
              Terminate, Over, playVars, gameVars

\* Only legal moves of a game that goes on are made, although the move is chosen
\* before the tree it is judged by is finished.
THEOREM PlaysByTheRulesHolds == PlaySpec => PlaysByTheRules
  BY PlayIInvInvariant, PlayStepIsMove, PTL DEF PlaySpec, PlaysByTheRules

\* A game with its searches is a game of SokoGame, so that what is proved of its
\* histories holds of it.
THEOREM PlayIsAGame == PlaySpec => Spec
<1>1. PlayInit => Init
  BY DEF PlayInit
<1>2. PlayIInv /\ [PlayNext]_playVars => [Next]_vars
  BY PlayStepIsMove DEF Next
<1>3. QED
  BY <1>1, <1>2, PlayIInvInvariant, PTL DEF PlaySpec, Spec
-----------------------------------------------------------------------------
(***************************************************************************)
(* Results.                                                                *)
(***************************************************************************)

\* What the children of the root say while the game decides by them, and after.
ChildrenAreValued ==
    /\ visits \in [Direction -> Nat] /\ average \in [Direction -> -One .. One]
    /\ pc \notin {"play", "over"} =>
         \A d \in Direction : visits[d] > 0 =>
            d \in Moves /\ (Outcome(d) # "UNDECIDED" => average[d] = Sure(Outcome(d)))
    /\ root = "edges" => parent_q \in Estimates

\* A game that is searched is not decided by its history.
DecidedOnce ==
    /\ pc # "over" => game_result = "UNDECIDED"
    /\ Searched => ComputeGameResult(played) = "UNDECIDED"

ResultIInv == PlayIInv /\ ChildrenAreValued /\ DecidedOnce /\ ResultsAreExplained

\* The comparison of GetBestChildrenNoTemperature is a total order.
LEMMA IndexOf ==
  /\ Index("Up") = 1 /\ Index("Down") = 2 /\ Index("Left") = 3 /\ Index("Right") = 4
<1>1. /\ DOMAIN MoveOrder = 1 .. 4
      /\ MoveOrder[1] = "Up" /\ MoveOrder[2] = "Down" /\ MoveOrder[3] = "Left" /\ MoveOrder[4] = "Right"
  BY DEF MoveOrder
<1>2. \A i \in 1 .. 4 : i = 1 \/ i = 2 \/ i = 3 \/ i = 4
  OBVIOUS
<1>3. \A d \in Direction : Index(d) \in 1 .. 4 /\ MoveOrder[Index(d)] = d
  BY <1>1 DEF Index, Direction
<1>4. QED
  BY <1>1, <1>2, <1>3 DEF Direction

LEMMA AheadIsOrder ==
  ASSUME ChildrenAreValued
  PROVE  /\ \A d, e \in Direction : d # e => Ahead(d, e) \/ Ahead(e, d)
         /\ \A d, e, f \in Direction : Ahead(d, e) /\ Ahead(e, f) => Ahead(d, f)
<1>1. \A d \in Direction : visits[d] \in Int /\ average[d] \in Int /\ Index(d) \in Int
  BY IndexOf, SelfPlayAssumption DEF ChildrenAreValued, Direction
<1>2. \A d, e \in Direction : d # e => Index(d) # Index(e)
  BY IndexOf DEF Direction
<1>3. QED
  BY <1>1, <1>2 DEF Ahead

HasBest(S) == S # {} => \E d \in S : \A e \in S \ {d} : Ahead(d, e)

LEMMA BestOfOneMore ==
  ASSUME ChildrenAreValued, NEW S \in SUBSET Direction, NEW x \in Direction, HasBest(S)
  PROVE  HasBest(S \cup {x})
<1>1. CASE S = {} \/ x \in S
  BY <1>1 DEF HasBest
<1>2. CASE S # {} /\ x \notin S
  <2>1. PICK d \in S : \A e \in S \ {d} : Ahead(d, e)
    BY <1>2 DEF HasBest
  <2>2. CASE Ahead(d, x)
    BY <2>1, <2>2 DEF HasBest
  <2>3. CASE Ahead(x, d)
    <3>1. \A e \in S : Ahead(x, e)
      BY <2>1, <2>3, AheadIsOrder
    <3>2. QED
      BY <3>1 DEF HasBest
  <2>4. QED
    BY <1>2, <2>1, <2>2, <2>3, AheadIsOrder
<1>3. QED
  BY <1>1, <1>2

\* So that there is a best child, and it has the most visits.
LEMMA BestChild ==
  ASSUME ChildrenAreValued, Moves # {}
  PROVE  /\ GetBestChildNoTemperature \in Moves
         /\ \A e \in Moves : visits[e] <= visits[GetBestChildNoTemperature]
<1>0. Moves \in SUBSET Direction
  BY DEF Moves
<1>1. HasBest({})
  BY DEF HasBest
<1>2. HasBest(Moves \cap {"Up"})
  <2>1. Moves \cap {"Up"} = {} \/ Moves \cap {"Up"} = {} \cup {"Up"}
    OBVIOUS
  <2>2. QED
    BY <2>1, <1>1, BestOfOneMore DEF Direction
<1>3. HasBest(Moves \cap {"Up", "Down"})
  <2>1. \/ Moves \cap {"Up", "Down"} = Moves \cap {"Up"}
        \/ Moves \cap {"Up", "Down"} = (Moves \cap {"Up"}) \cup {"Down"}
    OBVIOUS
  <2>2. QED
    BY <2>1, <1>0, <1>2, BestOfOneMore DEF Direction
<1>4. HasBest(Moves \cap {"Up", "Down", "Left"})
  <2>1. \/ Moves \cap {"Up", "Down", "Left"} = Moves \cap {"Up", "Down"}
        \/ Moves \cap {"Up", "Down", "Left"} = (Moves \cap {"Up", "Down"}) \cup {"Left"}
    OBVIOUS
  <2>2. QED
    BY <2>1, <1>0, <1>3, BestOfOneMore DEF Direction
<1>5. HasBest(Moves)
  <2>1. \/ Moves = Moves \cap {"Up", "Down", "Left"}
        \/ Moves = (Moves \cap {"Up", "Down", "Left"}) \cup {"Right"}
    BY <1>0 DEF Direction
  <2>2. QED
    BY <2>1, <1>0, <1>4, BestOfOneMore DEF Direction
<1>6. \E d \in Moves : \A e \in Moves \ {d} : Ahead(d, e)
  BY <1>5 DEF HasBest
<1>7. /\ GetBestChildNoTemperature \in Moves
      /\ \A e \in Moves \ {GetBestChildNoTemperature} : Ahead(GetBestChildNoTemperature, e)
  BY <1>6 DEF GetBestChildNoTemperature
<1>8. QED
  BY <1>0, <1>7 DEF Ahead, ChildrenAreValued

LEMMA CountOfHead == PlayIInv => Latest(played).repetitions \in Nat
<1> SUFFICES ASSUME PlayIInv PROVE Latest(played).repetitions \in Nat
  OBVIOUS
<1>1. Len(played) \in Nat \ {0}
  BY LenProperties, EmptySeq DEF PlayIInv, GoodHistory
<1>2. played[Len(played)] \in FloorPosition
  BY <1>1, ElementOfSeq DEF PlayIInv, GoodHistory
<1>3. QED
  BY <1>2 DEF Latest, FloorPosition

LEMMA PlayInitResults == PlayInit => ResultIInv
<1> SUFFICES ASSUME PlayInit PROVE ResultIInv
  OBVIOUS
<1>1. ChildrenAreValued
  BY SelfPlayAssumption DEF PlayInit, ChildrenAreValued
<1>2. DecidedOnce /\ ResultsAreExplained
  BY DEF PlayInit, DecidedOnce, Searched, ResultsAreExplained
<1>3. QED
  BY <1>1, <1>2, PlayInitIInv DEF ResultIInv

\* A game decided by its history: the boxes are home, or one is stuck.
LEMMA BeginMoveResults == ResultIInv /\ BeginMove => (ChildrenAreValued /\ DecidedOnce /\ ResultsAreExplained)'
<1> SUFFICES ASSUME ResultIInv, BeginMove PROVE (ChildrenAreValued /\ DecidedOnce /\ ResultsAreExplained)'
  OBVIOUS
<1>1. played' = played /\ root' = "new" /\ game_result' = ComputeGameResult(played)
  BY DEF BeginMove, gameVars, vars
<1>2. visits' = [d \in Direction |-> 0] /\ average' = [d \in Direction |-> 0]
  BY DEF BeginMove
<1>3. ChildrenAreValued'
  BY <1>1, <1>2, SelfPlayAssumption DEF ChildrenAreValued
<1>4. pc' = "over" \/ (pc' = "search" /\ game_result' = "UNDECIDED")
  BY DEF BeginMove
<1>5. DecidedOnce'
  BY <1>1, <1>4 DEF DecidedOnce, Searched
<1>6. Latest(played).repetitions \in Nat /\ Latest(played).repetitions <= 1
  BY CountOfHead DEF ResultIInv, PlayIInv, NoBoardThreeTimes
<1>7. game_result' = "WIN" => IsEnd(Latest(played).board)
  BY <1>1 DEF ComputeGameResult
<1>8. game_result' = "LOSE" => IsStuck(Latest(played).board)
  BY <1>1, <1>6 DEF ComputeGameResult
<1>9. ResultsAreExplained'
  BY <1>1, <1>7, <1>8 DEF ResultsAreExplained
<1>10. QED
  BY <1>3, <1>5, <1>9

\* A visit gives a child behind a legal move the value its verdict has.
LEMMA VisitChildResults ==
  ASSUME ResultIInv, NEW d \in Direction, VisitChild(d)
  PROVE  ChildrenAreValued'
<1> DEFINE Q == IF Outcome(d) = "UNDECIDED" THEN Averages ELSE {Sure(Outcome(d))}
<1>1. /\ UNCHANGED <<played, root, parent_q, pc>> /\ d \in Moves
      /\ visits' = [visits EXCEPT ![d] = @ + 1]
  BY DEF VisitChild, gameVars, vars
<1>2. PICK q \in Q : average' = [average EXCEPT ![d] = q]
  BY DEF VisitChild
<1>3. q \in -One .. One /\ (Outcome(d) # "UNDECIDED" => q = Sure(Outcome(d)))
  BY <1>2, SelfPlayAssumption DEF Sure
<1>4. visits \in [Direction -> Nat] /\ average \in [Direction -> -One .. One]
  BY DEF ResultIInv, ChildrenAreValued
<1>5. visits' \in [Direction -> Nat] /\ average' \in [Direction -> -One .. One]
  BY <1>1, <1>2, <1>3, <1>4
<1>6. \A e \in Direction : Outcome(e)' = Outcome(e)
  BY <1>1 DEF Outcome
<1>7. Moves' = Moves
  BY <1>1 DEF Moves
<1>8. ASSUME pc' \notin {"play", "over"}, NEW e \in Direction, visits'[e] > 0
      PROVE  e \in Moves' /\ (Outcome(e)' # "UNDECIDED" => average'[e] = Sure(Outcome(e)'))
  <2>1. CASE e = d
    BY <1>1, <1>2, <1>3, <1>4, <1>6, <1>7, <2>1
  <2>2. CASE e # d
    <3>1. visits'[e] = visits[e] /\ average'[e] = average[e] /\ pc' = pc
      BY <1>1, <1>2, <1>4, <2>2
    <3>2. e \in Moves /\ (Outcome(e) # "UNDECIDED" => average[e] = Sure(Outcome(e)))
      BY <1>8, <3>1 DEF ResultIInv, ChildrenAreValued
    <3>3. QED
      BY <3>1, <3>2, <1>6, <1>7
  <2>3. QED
    BY <2>1, <2>2
<1>9. root' = "edges" => parent_q' \in Estimates
  BY <1>1 DEF ResultIInv, ChildrenAreValued
<1>10. QED
  BY <1>5, <1>8, <1>9, <1>6 DEF ChildrenAreValued

\* A game decided by the value of its search.
LEMMA JudgeResults == ResultIInv /\ Judge => ResultsAreExplained'
<1> SUFFICES ASSUME ResultIInv, Judge PROVE ResultsAreExplained'
  OBVIOUS
<1> DEFINE best == GetBestChildNoTemperature
           head == Latest(played)
<1>1. /\ UNCHANGED <<played, visits, average, parent_q>>
      /\ GetBestEval \in {One, -One}
      /\ game_result' = IF GetBestEval = One THEN "WIN" ELSE "LOSE"
      /\ pc = "judge"
  BY DEF Judge, gameVars, vars, searchVars
<1>2. One \in Int /\ One > 0 /\ One # -One
  BY SelfPlayAssumption
<1>3. ~IsEnd(head.board) /\ ~IsStuck(head.board)
  BY <1>1 DEF ResultIInv, DecidedOnce, Searched, ComputeGameResult
<1>4. visits \in [Direction -> Nat] /\ average \in [Direction -> -One .. One]
  BY DEF ResultIInv, ChildrenAreValued
<1>5. \A d \in Direction : visits[d] > 0 =>
         d \in Moves /\ (Outcome(d) # "UNDECIDED" => average[d] = Sure(Outcome(d)))
  BY <1>1 DEF ResultIInv, ChildrenAreValued
<1>6. CASE HasChildren /\ visits[best] > 0
  <2>1. best \in Moves /\ best \in Direction
    BY <1>6, BestChild DEF ResultIInv, HasChildren, Moves
  <2>2. GetBestEval = average[best]
    BY <1>6 DEF GetBestEval
  <2>3. CASE Outcome(best) = "UNDECIDED"
    BY <1>1, <1>6, <2>1, <2>2, <2>3 DEF ResultsAreExplained, Rounded, Moves, Outcome
  <2>4. CASE Outcome(best) = "WIN"
    <3>1. game_result' = "WIN"
      BY <1>1, <1>5, <1>6, <2>1, <2>2, <2>4 DEF Sure
    <3>2. QED
      BY <1>1, <1>6, <2>1, <2>4, <3>1 DEF ResultsAreExplained, Moves, Outcome
  <2>5. CASE Outcome(best) = "LOSE"
    <3>1. game_result' = "LOSE"
      BY <1>1, <1>2, <1>5, <1>6, <2>1, <2>2, <2>5 DEF Sure
    <3>2. QED
      BY <1>1, <1>6, <2>1, <2>5, <3>1 DEF ResultsAreExplained, Moves, Outcome
  <2>6. QED
    BY <2>3, <2>4, <2>5 DEF Outcome, Verdict
<1>7. CASE root = "edges" /\ ~(HasChildren /\ visits[best] > 0)
  <2>1. GetBestEval = parent_q /\ parent_q \in -One .. One - 1
    BY <1>7, SelfPlayAssumption DEF GetBestEval, ResultIInv, ChildrenAreValued
  <2>2. game_result' = "LOSE" /\ parent_q = -One
    BY <1>1, <1>2, <2>1
  <2>3. \A d \in Moves : visits[d] <= 0
    <3>1. SUFFICES ASSUME Moves # {} PROVE \A d \in Moves : visits[d] <= 0
      OBVIOUS
    <3>2. best \in Moves /\ \A d \in Moves : visits[d] <= visits[best]
      BY <3>1, BestChild DEF ResultIInv
    <3>3. visits[best] = 0
      BY <1>4, <1>7, <3>1, <3>2 DEF HasChildren, Moves
    <3>4. QED
      BY <3>2, <3>3
  <2>4. \A d \in Direction : visits[d] = 0
    BY <1>4, <1>5, <2>3
  <2>5. visits = [d \in Direction |-> 0]
    BY <1>4, <2>4
  <2>6. QED
    BY <1>1, <2>2, <2>5 DEF ResultsAreExplained
<1>8. CASE root = "terminal"
  <2>1. GetBestEval = parent_q
    BY <1>8 DEF GetBestEval, HasChildren
  <2>2. parent_q = -Sure(Verdict(played)) /\ Verdict(played) # "UNDECIDED"
    BY <1>1, <1>8 DEF ResultIInv, PlayIInv, RootIsJudged, Searched
  <2>3. Verdict(played) = "LOSE" /\ head.repetitions >= 1
    BY <1>3, <2>2 DEF Verdict
  <2>4. parent_q = One
    BY <1>2, <2>2, <2>3 DEF Sure
  <2>5. game_result' = "WIN"
    BY <1>1, <2>1, <2>4
  <2>6. QED
    BY <1>1, <2>3, <2>5 DEF ResultsAreExplained
<1>9. QED
  BY <1>1, <1>6, <1>7, <1>8 DEF ResultIInv, PlayIInv, RootIsJudged

LEMMA PlayNextResults == ResultIInv /\ [PlayNext]_playVars => ResultIInv'
<1> SUFFICES ASSUME ResultIInv, [PlayNext]_playVars PROVE ResultIInv'
  OBVIOUS
<1>0. PlayIInv'
  BY PlayNextIInv DEF ResultIInv
<1>1. SUFFICES ChildrenAreValued' /\ DecidedOnce' /\ ResultsAreExplained'
  BY <1>0 DEF ResultIInv
<1>2. ASSUME game_result' = "UNDECIDED" PROVE ResultsAreExplained'
  BY <1>2 DEF ResultsAreExplained
<1>3. CASE BeginMove
  BY <1>3, BeginMoveResults
<1>4. CASE VisitRoot
  <2>1. UNCHANGED <<played, game_result, visits, average, pc>> /\ pc = "search"
    BY <1>4 DEF VisitRoot, gameVars, vars
  <2>2. root' = "edges" => parent_q' \in Estimates
    BY <1>4 DEF VisitRoot
  <2>3. QED
    BY <1>2, <2>1, <2>2 DEF ResultIInv, ChildrenAreValued, DecidedOnce, Searched, Moves, Outcome
<1>5. CASE \E d \in Direction : VisitChild(d)
  <2>1. UNCHANGED <<played, game_result, pc>> /\ pc = "search"
    BY <1>5 DEF VisitChild, gameVars, vars
  <2>2. ChildrenAreValued'
    BY <1>5, VisitChildResults
  <2>3. QED
    BY <1>2, <2>1, <2>2 DEF ResultIInv, DecidedOnce, Searched
<1>6. CASE VisitTerminalRoot \/ MaybeTriggerStop \/ Join
  <2>1. /\ UNCHANGED <<played, game_result, root, parent_q, visits, average>>
        /\ pc = "search" /\ pc' \in {"search", "judge"}
    BY <1>6 DEF VisitTerminalRoot, MaybeTriggerStop, Join, gameVars, vars, searchVars
  <2>2. QED
    BY <1>2, <2>1 DEF ResultIInv, ChildrenAreValued, DecidedOnce, Searched, Moves, Outcome
<1>7. CASE Judge
  <2>1. UNCHANGED <<played, root, parent_q, visits, average>> /\ pc' = "over"
    BY <1>7 DEF Judge, gameVars, vars, searchVars
  <2>2. QED
    BY <1>7, <2>1, JudgeResults DEF ResultIInv, ChildrenAreValued, DecidedOnce, Searched
<1>8. CASE PlayBestMove
  <2>1. /\ UNCHANGED <<game_result, root, parent_q, visits, average>>
        /\ pc = "judge" /\ pc' = "play"
    BY <1>8 DEF PlayBestMove, searchVars
  <2>2. QED
    BY <1>2, <2>1 DEF ResultIInv, ChildrenAreValued, DecidedOnce, Searched
<1>9. CASE Terminate
  <2>1. /\ UNCHANGED <<played, game_result, root, parent_q, visits, average>>
        /\ pc = "judge" /\ pc' = "terminated"
    BY <1>9 DEF Terminate, gameVars, vars, searchVars
  <2>2. QED
    BY <1>2, <2>1 DEF ResultIInv, ChildrenAreValued, DecidedOnce, Searched, Moves, Outcome
<1>10. CASE Over \/ UNCHANGED playVars
  <2>1. UNCHANGED <<played, game_result, root, parent_q, visits, average, pc>>
    BY <1>10 DEF Over, playVars, gameVars, vars, searchVars
  <2>2. QED
    BY <2>1 DEF ResultIInv, ChildrenAreValued, DecidedOnce, Searched, ResultsAreExplained, Rounded, Moves, Outcome
<1>11. QED
  BY <1>3, <1>4, <1>5, <1>6, <1>7, <1>8, <1>9, <1>10 DEF PlayNext

\* Whatever the averages are and whenever the deadline comes, a result has one of the
\* reasons listed; an average of 1.0 that no verdict stands behind is among them.
THEOREM ResultsAreExplainedHolds == PlaySpec => []ResultsAreExplained
<1>1. PlaySpec => []ResultIInv
  BY PlayInitResults, PlayNextResults, PTL DEF PlaySpec
<1>2. ResultIInv => ResultsAreExplained
  BY DEF ResultIInv
<1>3. QED
  BY <1>1, <1>2, PTL
=============================================================================
