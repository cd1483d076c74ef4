------------------------------ MODULE SelfPlay -------------------------------
(***************************************************************************)
(* SelfPlayGame::Play of selfplay/game.cc with the part of the search it   *)
(* decides by: how the head is judged and valued, which move is announced  *)
(* at the deadline, and what the tree says when the workers are joined.    *)
(*                                                                         *)
(* The history is SokoGame's.  A search is reduced to its root and the     *)
(* root's children; which child is visited next, and what an average comes *)
(* to, is open.  Averages are numbers from -One to One, One being 1.0.     *)
(* Aborting a game is Tournament's.                                        *)
(***************************************************************************)
EXTENDS SokoGame

CONSTANTS
    One,        \* stands for the value 1.0
    Averages,   \* what GetQ() of a child without a verdict can be
    Estimates,  \* what -GetQ() of a root that was visited once can be
    MaxVisits   \* bound: visits of the root

ASSUME SelfPlayAssumption ==
    /\ One \in Nat \ {0}
    /\ Averages \subseteq -One .. One
    /\ Estimates \subseteq -One .. One - 1  \* GetQVal stays below 1.0
    /\ MaxVisits \in Nat

VARIABLES
    training,     \* whether records for training are kept, a parameter of Play
    game_result,  \* game_result_
    root,         \* root_node_: not visited, terminal, or with edges
    n,            \* its visits
    parent_q,     \* -root_node_->GetQ() while no child was visited
    visits,       \* GetN() of its children
    average,      \* GetQ() of its children that were visited
    final,        \* final_bestmove_, and whether it was sent
    pc            \* where Play is

searchVars == <<root, n, parent_q, visits, average, final>>
gameVars == <<vars, training>>
playVars == <<gameVars, game_result, searchVars, pc>>

Moves == {d \in Direction : LegalMove(Latest(played).board, d)}

\* What ExtendNode says of the child behind a move.
Outcome(d) == Verdict(AppendMove(played, d))

Sure(verdict) == IF verdict = "WIN" THEN One ELSE -One
-----------------------------------------------------------------------------
(***************************************************************************)
(* The search.                                                             *)
(***************************************************************************)

\* The first iteration: the root is extended, evaluated and backed up.
VisitRoot ==
    /\ pc = "search" /\ root = "new"
    /\ n' = 1
    /\ IF Verdict(played) = "UNDECIDED"
         THEN root' = "edges" /\ parent_q' \in Estimates
         ELSE root' = "terminal" /\ parent_q' = -Sure(Verdict(played))
    /\ UNCHANGED <<gameVars, game_result, visits, average, final, pc>>

\* A terminal root is visited again, and keeps its value.
VisitTerminalRoot ==
    /\ pc = "search" /\ root = "terminal"
    /\ n < MaxVisits
    /\ n' = n + 1
    /\ UNCHANGED <<gameVars, game_result, root, parent_q, visits, average, final, pc>>

\* A visit to a child, or to a node below it.
VisitChild(d) ==
    /\ pc = "search" /\ root = "edges"
    /\ n < MaxVisits /\ d \in Moves
    /\ n' = n + 1
    /\ visits' = [visits EXCEPT ![d] = @ + 1]
    /\ \E q \in IF Outcome(d) = "UNDECIDED" THEN Averages ELSE {Sure(Outcome(d))} :
          average' = [average EXCEPT ![d] = q]
    /\ UNCHANGED <<gameVars, game_result, root, parent_q, final, pc>>

\* Children are compared by visits, average (0 without a visit) and the address
\* of the edge; no edge has a prior.
Index(d) == CHOOSE i \in DOMAIN MoveOrder : MoveOrder[i] = d

Ahead(d, e) ==
    \/ visits[d] > visits[e]
    \/ visits[d] = visits[e] /\ average[d] > average[e]
    \/ visits[d] = visits[e] /\ average[d] = average[e] /\ Index(d) > Index(e)

GetBestChildNoTemperature == CHOOSE d \in Moves : \A e \in Moves \ {d} : Ahead(d, e)

HasChildren == root = "edges" /\ Moves # {}

\* Mutant: the watchdog waits for a root with edges.
Mut_MaybeTriggerStop ==
    /\ pc = "search" /\ HasChildren
    /\ ~final.sent
    /\ final' = [move |-> GetBestChildNoTemperature, sent |-> TRUE]
    /\ UNCHANGED <<gameVars, game_result, root, n, parent_q, visits, average, pc>>

\* The deadline: the best move so far is sent, if the root has edges, and stays.
\* An edge that there is not is the move Up.
MaybeTriggerStop ==
    /\ pc = "search"
    /\ ~final.sent
    /\ final' = [move |-> IF HasChildren THEN GetBestChildNoTemperature ELSE "Up", sent |-> TRUE]
    /\ UNCHANGED <<gameVars, game_result, root, n, parent_q, visits, average, pc>>

\* The workers end their iteration, the first one in any case, and are joined.
Join ==
    /\ pc = "search" /\ final.sent /\ root # "new"
    /\ pc' = "judge"
    /\ UNCHANGED <<gameVars, game_result, searchVars>>
-----------------------------------------------------------------------------
(***************************************************************************)
(* The game.                                                               *)
(***************************************************************************)

\* The result of the history; a game that goes on gets a search of a new root.
BeginMove ==
    /\ pc = "play"
    /\ game_result' = ComputeGameResult(played)
    /\ pc' = IF game_result' = "UNDECIDED" THEN "search" ELSE "over"
    /\ root' = "new" /\ n' = 0 /\ parent_q' = 0
    /\ visits' = [d \in Direction |-> 0]
    /\ average' = [d \in Direction |-> 0]
    /\ final' = [move |-> "Up", sent |-> FALSE]
    /\ UNCHANGED gameVars

\* Mutant: the root is valued with the sign of its children.
Mut_GetBestEval ==
    LET best == GetBestChildNoTemperature
    IN  IF HasChildren /\ visits[best] > 0 THEN average[best] ELSE -parent_q

\* Of the tree as it is after the join.
GetBestEval ==
    LET best == GetBestChildNoTemperature
    IN  IF HasChildren /\ visits[best] > 0 THEN average[best] ELSE parent_q

\* GetV4TrainingData throws when no visit went below the root.
InvalidData == training /\ n <= 1

Judge ==
    /\ pc = "judge" /\ ~InvalidData
    /\ GetBestEval \in {One, -One}
    /\ game_result' = IF GetBestEval = One THEN "WIN" ELSE "LOSE"
    /\ pc' = "over"
    /\ UNCHANGED <<gameVars, searchVars>>

\* Mutant: the move is made whether or not the head has an edge for it.
Mut_PlayBestMove ==
    /\ pc = "judge" /\ ~InvalidData
    /\ GetBestEval \notin {One, -One}
    /\ played' = AppendMove(played, final.move)
    /\ probe' = played'
    /\ pc' = "play"
    /\ UNCHANGED <<training, game_result, searchVars>>

\* The move announced is made, whatever became of it since; the children the head
\* had are not looked at again.
PlayBestMove ==
    /\ pc = "judge" /\ ~InvalidData
    /\ GetBestEval \notin {One, -One}
    /\ final.move \in Moves
    /\ played' = AppendMove(played, final.move)
    /\ probe' = played'
    /\ pc' = "play"
    /\ UNCHANGED <<training, game_result, searchVars>>

\* The program ends: no training record can be made, or CreateSingleChildNode is
\* called for a head with edges.
Terminate ==
    /\ pc = "judge"
    /\ InvalidData \/ (GetBestEval \notin {One, -One} /\ final.move \notin Moves)
    /\ pc' = "terminated"
    /\ UNCHANGED <<gameVars, game_result, searchVars>>
-----------------------------------------------------------------------------
PlayInit ==
    /\ Init
    /\ training \in BOOLEAN
    /\ game_result = "UNDECIDED"
    /\ root = "new" /\ n = 0 /\ parent_q = 0
    /\ visits = [d \in Direction |-> 0]
    /\ average = [d \in Direction |-> 0]
    /\ final = [move |-> "Up", sent |-> FALSE]
    /\ pc = "play"

Over == pc \in {"over", "terminated"} /\ UNCHANGED playVars

PlayNext ==
    \/ BeginMove
    \/ VisitRoot
    \/ VisitTerminalRoot
    \/ \E d \in Direction : VisitChild(d)
    \/ MaybeTriggerStop
    \/ Join
    \/ Judge
    \/ PlayBestMove
    \/ Terminate
    \/ Over

\* Some thread of the game runs; no number of visits holds it up for ever.
PlaySpec == PlayInit /\ [][PlayNext]_playVars /\ WF_playVars(PlayNext)
-----------------------------------------------------------------------------
\* A recorded result has a reason in the position or the one after a move that
\* was visited.  For a win: the boxes are home, or a visited move brings them
\* home, or its average is 1.0 without a verdict.  And one more: the head repeats
\* a board, which the search calls lost and GetBestEval negates.  For a loss:
\* the head or the child is stuck, or the child repeats, or an estimate is -1.0.
Rounded(d, q) == visits[d] > 0 /\ Outcome(d) = "UNDECIDED" /\ average[d] = q

ResultsAreExplained ==
    LET head == Latest(played)
    IN  /\ game_result = "WIN" =>
              \/ IsEnd(head.board)
              \/ head.repetitions >= 1
              \/ \E d \in Moves : (visits[d] > 0 /\ Outcome(d) = "WIN") \/ Rounded(d, One)
        /\ game_result = "LOSE" =>
              \/ IsStuck(head.board)
              \/ \E d \in Moves : (visits[d] > 0 /\ Outcome(d) = "LOSE") \/ Rounded(d, -One)
              \/ visits = [d \in Direction |-> 0] /\ parent_q = -One

\* The rule that a board seen for the third time loses never decides a game: a
\* head that repeats a board is terminal to the search, and the game ends there.
NoBoardThreeTimes == Latest(played).repetitions <= 1

\* The game changes the history by legal moves of an undecided game only, although
\* it makes the move announced before the tree it values was finished.
PlaysByTheRules == [][\E d \in Direction : MakeMove(d)]_vars

\* The game is decided, or the program has ended.
PlayEnds == <>(pc \in {"over", "terminated"})
=============================================================================
