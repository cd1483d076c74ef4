------------------------------ MODULE Tournament -----------------------------
(***************************************************************************)
(* The self-play tournament, selfplay/tournament.cc, and the games its     *)
(* threads play, selfplay/game.cc.                                         *)
(*                                                                         *)
(* Two locks order this: mutex_ of the tournament, which is held while     *)
(* Abort goes through the games one by one, and mutex_ of each game, whose *)
(* critical sections (make a search, abort) are single steps here.  The    *)
(* rest of a game, its flag abort_ included, is read without a lock.       *)
(*                                                                         *)
(* A search is what BestMovePromise says of it: it is searching until it   *)
(* has answered or was aborted, and then RunBlocking returns.  How a       *)
(* position is judged is SokoGame's; here any judgement may come, and a    *)
(* game is decided after MaxMoves moves at the latest.                     *)
(***************************************************************************)
EXTENDS Integers, Sequences, FiniteSets

CONSTANTS
    Worker,      \* the threads that play, kParallelism of them
    TotalGames,  \* kTotalGames; -1 for no limit
    MaxGames,    \* bound: games begun when there is no limit
    MaxMoves,    \* bound: moves of one game
    Free, Caller  \* the holders of mutex_ for more than a step

ASSUME TournamentAssumption ==
    /\ IsFiniteSet(Worker)
    /\ TotalGames \in Nat \cup {-1}
    /\ MaxGames \in Nat /\ MaxMoves \in Nat
    /\ Free # Caller

VARIABLES
    abort,       \* abort_ of the tournament
    gamesCount,  \* games_count_
    games,       \* games_: the workers whose game is in the list
    mutex,       \* who holds mutex_
    left,        \* the games Abort has still to abort
    game,        \* the game of each worker
    reported,    \* the calls of game_callback_, SendGameInfo
    results,     \* tournament_info_.results
    statuses,    \* the calls of tournament_callback_, SendTournament
    escaped,     \* history: workers with a game begun but not listed as Abort came
    owner,       \* where the thread of RunBlocking and the destructor is
    caller,      \* where the thread of Abort or Stop is
    pc           \* where each worker is

gameVars == <<gamesCount, games, game, reported, results, statuses, pc>>
abortVars == <<abort, mutex, left, escaped>>
vars == <<gameVars, abortVars, owner, caller>>

Result == {"WIN", "LOSE", "UNDECIDED"}

\* SelfPlayGame: abort_, game_result_, the moves made and search_.
NewGame(id) == [id |-> id, abort |-> FALSE, result |-> "UNDECIDED", moves |-> 0, search |-> "none"]

\* What SendGameInfo is called with, and writes a line of; a training file is
\* named by the number too.
GameInfo(g) == [game_id |-> g.id, game_result |-> g.result]

\* What SendTournament is called with, and writes a line of.
TournamentInfo(finished, res) == [finished |-> finished, results |-> res]

Goto(w, where) == pc' = [pc EXCEPT ![w] = where]
-----------------------------------------------------------------------------
(***************************************************************************)
(* SelfPlayTournament::Worker and PlayOneGame.                             *)
(***************************************************************************)

\* Mutant: the limit lets one more game begin.
Mut_NoMoreGames == abort \/ (TotalGames # -1 /\ gamesCount > TotalGames)

NoMoreGames == abort \/ (TotalGames # -1 /\ gamesCount >= TotalGames)

\* Mutant: the number is read in the lock, the count is raised when the game is
\* listed.
Mut_TakeGame(w) ==
    /\ pc[w] = "next" /\ mutex = Free
    /\ TotalGames = -1 => gamesCount < MaxGames \/ abort
    /\ IF NoMoreGames
         THEN Goto(w, "done") /\ UNCHANGED <<gamesCount, game>>
         ELSE /\ game' = [game EXCEPT ![w] = NewGame(gamesCount)]
              /\ UNCHANGED gamesCount
              /\ Goto(w, "enter")
    /\ UNCHANGED <<games, reported, results, statuses, abortVars, owner, caller>>

\* Mutant: with no more games to begin the worker asks again.
Mut_AskAgain(w) ==
    /\ pc[w] = "next" /\ mutex = Free
    /\ IF NoMoreGames
         THEN UNCHANGED <<pc, gamesCount, game>>
         ELSE /\ game' = [game EXCEPT ![w] = NewGame(gamesCount)]
              /\ gamesCount' = gamesCount + 1
              /\ Goto(w, "enter")
    /\ UNCHANGED <<games, reported, results, statuses, abortVars, owner, caller>>

\* A worker takes the number of its next game, or stops.
TakeGame(w) ==
    /\ pc[w] = "next" /\ mutex = Free
    /\ TotalGames = -1 => gamesCount < MaxGames \/ abort
    /\ IF NoMoreGames
         THEN Goto(w, "done") /\ UNCHANGED <<gamesCount, game>>
         ELSE /\ game' = [game EXCEPT ![w] = NewGame(gamesCount)]
              /\ gamesCount' = gamesCount + 1
              /\ Goto(w, "enter")
    /\ UNCHANGED <<games, reported, results, statuses, abortVars, owner, caller>>

\* The game is made and put into the list, in a critical section of its own.
EnterGame(w) ==
    /\ pc[w] = "enter" /\ mutex = Free
    /\ games' = games \cup {w}
    /\ Goto(w, "play")
    /\ UNCHANGED <<gamesCount, game, reported, results, statuses, abortVars, owner, caller>>

\* Play begins a move: abort_, then the result of the history so far.
BeginMove(w) ==
    /\ pc[w] = "play"
    /\ IF game[w].abort THEN Goto(w, "over") /\ UNCHANGED game
       ELSE \E r \in Result :
              /\ game[w].moves = MaxMoves => r # "UNDECIDED"
              /\ game' = [game EXCEPT ![w].result = r]
              /\ Goto(w, IF r = "UNDECIDED" THEN "create" ELSE "over")
    /\ UNCHANGED <<gamesCount, games, reported, results, statuses, abortVars, owner, caller>>

\* Mutant: abort_ is not looked at again under the lock.
Mut_CreateSearch(w) ==
    /\ pc[w] = "create"
    /\ game' = [game EXCEPT ![w].search = "searching"]
    /\ Goto(w, "search")
    /\ UNCHANGED <<gamesCount, games, reported, results, statuses, abortVars, owner, caller>>

\* Under the lock of the game: a new search, unless the game was aborted.
CreateSearch(w) ==
    /\ pc[w] = "create"
    /\ IF game[w].abort THEN Goto(w, "over") /\ UNCHANGED game
       ELSE game' = [game EXCEPT ![w].search = "searching"] /\ Goto(w, "search")
    /\ UNCHANGED <<gamesCount, games, reported, results, statuses, abortVars, owner, caller>>

\* Search::RunBlocking: the search answers by its deadline.
Answer(w) ==
    /\ pc[w] = "search"
    /\ game[w].search = "searching"
    /\ game' = [game EXCEPT ![w].search = "answered"]
    /\ UNCHANGED <<gamesCount, games, reported, results, statuses, pc, abortVars, owner, caller>>

\* RunBlocking returns: the game is over when it was aborted or the search is
\* sure; else a move is made.
JudgeMove(w) ==
    /\ pc[w] = "search"
    /\ game[w].search # "searching"
    /\ IF game[w].abort THEN Goto(w, "over") /\ UNCHANGED game
       ELSE \E eval \in {-1, 0, 1} :
              IF eval = 0
                THEN game' = [game EXCEPT ![w].moves = @ + 1] /\ Goto(w, "play")
                ELSE /\ game' = [game EXCEPT ![w].result = IF eval = 1 THEN "WIN" ELSE "LOSE"]
                     /\ Goto(w, "over")
    /\ UNCHANGED <<gamesCount, games, reported, results, statuses, abortVars, owner, caller>>

\* Mutant: a game decided after the tournament was aborted is not counted.
Mut_ReportGame(w) ==
    /\ pc[w] = "over"
    /\ IF game[w].result = "UNDECIDED"
         THEN Goto(w, "erase") /\ UNCHANGED reported
         ELSE reported' = Append(reported, GameInfo(game[w])) /\ Goto(w, IF abort THEN "erase" ELSE "tally")
    /\ UNCHANGED <<gamesCount, games, game, results, statuses, abortVars, owner, caller>>

\* A decided game is reported, with no lock held.
ReportGame(w) ==
    /\ pc[w] = "over"
    /\ IF game[w].result = "UNDECIDED"
         THEN Goto(w, "erase") /\ UNCHANGED reported
         ELSE reported' = Append(reported, GameInfo(game[w])) /\ Goto(w, "tally")
    /\ UNCHANGED <<gamesCount, games, game, results, statuses, abortVars, owner, caller>>

\* And counted.  tournament_callback_ is called with the lock held.
TallyGame(w) ==
    /\ pc[w] = "tally" /\ mutex = Free
    /\ results' = [results EXCEPT ![game[w].result] = @ + 1]
    /\ statuses' = Append(statuses, TournamentInfo(FALSE, results'))
    /\ Goto(w, "erase")
    /\ UNCHANGED <<gamesCount, games, game, reported, abortVars, owner, caller>>

EraseGame(w) ==
    /\ pc[w] = "erase" /\ mutex = Free
    /\ games' = games \ {w}
    /\ Goto(w, "next")
    /\ UNCHANGED <<gamesCount, game, reported, results, statuses, abortVars, owner, caller>>

WorkerStep(w) ==
    \/ TakeGame(w)
    \/ EnterGame(w)
    \/ BeginMove(w)
    \/ CreateSearch(w)
    \/ Answer(w)
    \/ JudgeMove(w)
    \/ ReportGame(w)
    \/ TallyGame(w)
    \/ EraseGame(w)
-----------------------------------------------------------------------------
(***************************************************************************)
(* Abort and Stop.                                                         *)
(***************************************************************************)
BeginAbort ==
    /\ caller = "idle" /\ owner = "run"
    /\ mutex = Free
    /\ mutex' = Caller
    /\ abort' = TRUE
    /\ left' = games
    /\ escaped' = {w \in Worker : pc[w] = "enter"}
    /\ caller' = "aborting"
    /\ UNCHANGED <<gameVars, owner>>

\* Mutant: a game that has no search yet is passed over.
Mut_Aborted(g) ==
    IF g.search = "none" THEN g
    ELSE [g EXCEPT !.abort = TRUE, !.search = IF @ = "searching" THEN "aborted" ELSE @]

\* SelfPlayGame::Abort, and with it Search::Abort.
Aborted(g) == [g EXCEPT !.abort = TRUE, !.search = IF @ = "searching" THEN "aborted" ELSE @]

AbortGame ==
    /\ caller = "aborting"
    /\ \E w \in left :
          /\ left' = left \ {w}
          /\ game' = [game EXCEPT ![w] = Aborted(@)]
    /\ UNCHANGED <<abort, mutex, escaped, gamesCount, games, reported, results, statuses,
                   pc, owner, caller>>

EndAbort ==
    /\ caller = "aborting" /\ left = {}
    /\ mutex' = Free
    /\ caller' = "aborted"
    /\ UNCHANGED <<abort, left, escaped, gameVars, owner>>

\* Somebody else calls Abort, or Stop, once, while RunBlocking runs.
CallAbort == BeginAbort \/ AbortGame \/ EndAbort

CallStop ==
    /\ caller = "idle" /\ owner = "run" /\ mutex = Free
    /\ abort' = TRUE
    /\ caller' = "stopped"
    /\ UNCHANGED <<gameVars, mutex, left, escaped, owner>>
-----------------------------------------------------------------------------
(***************************************************************************)
(* RunBlocking: the workers are joined, and the last status is sent; then  *)
(* the destructor, which is Abort and Wait again.                          *)
(***************************************************************************)

\* Mutant: the last status is sent whether or not the games were aborted.
Mut_SendsFinal == TRUE

SendsFinal == ~abort

\* The end of Wait, or of RunBlocking with a single game at a time.
Finish(from, to) ==
    /\ owner = from
    /\ \A w \in Worker : pc[w] = "done"
    /\ mutex = Free
    /\ statuses' = statuses \o IF SendsFinal THEN <<TournamentInfo(TRUE, results)>> ELSE <<>>
    /\ owner' = to
    /\ UNCHANGED <<gamesCount, games, game, reported, results, pc, abortVars, caller>>

\* The workers are gone and so are their games: the Abort of the destructor meets
\* nobody, and is one step.
DestructorAborts ==
    /\ owner = "ran" /\ mutex = Free
    /\ abort' = TRUE
    /\ game' = [w \in Worker |-> IF w \in games THEN Aborted(game[w]) ELSE game[w]]
    /\ owner' = "wait"
    /\ UNCHANGED <<gamesCount, games, reported, results, statuses, pc, mutex, left,
                   escaped, caller>>

OwnerStep ==
    \/ Finish("run", "ran")
    \/ DestructorAborts
    \/ Finish("wait", "gone")
-----------------------------------------------------------------------------
Init ==
    /\ abort = FALSE /\ mutex = Free /\ left = {} /\ escaped = {}
    /\ gamesCount = 0 /\ games = {}
    /\ game = [w \in Worker |-> NewGame(-1)]
    /\ reported = <<>>
    /\ results = [r \in {"WIN", "LOSE"} |-> 0]
    /\ statuses = <<>>
    /\ owner = "run" /\ caller = "idle"
    /\ pc = [w \in Worker |-> "next"]

Gone == owner = "gone" /\ UNCHANGED vars

Next ==
    \/ OwnerStep
    \/ CallAbort \/ CallStop
    \/ Gone
    \/ \E w \in Worker : WorkerStep(w)

\* Every thread runs, and gets mutex_ when it is free again and again.  Whether
\* anybody calls Abort or Stop is open; a call that has begun goes on.
Fairness ==
    /\ SF_vars(OwnerStep)
    /\ WF_vars(AbortGame \/ EndAbort)
    /\ \A w \in Worker : SF_vars(WorkerStep(w))

Spec == Init /\ [][Next]_vars /\ Fairness
-----------------------------------------------------------------------------
\* The variables have their types; only Abort keeps the mutex.
TypeOK ==
    /\ abort \in BOOLEAN
    /\ gamesCount \in Nat /\ (TotalGames # -1 => gamesCount <= TotalGames)
    /\ games \subseteq Worker /\ left \subseteq games /\ escaped \subseteq Worker
    /\ mutex \in {Free, Caller}
    /\ game \in [Worker -> [id : Nat \cup {-1}, abort : BOOLEAN, result : Result, moves : 0 .. MaxMoves,
                            search : {"none", "searching", "answered", "aborted"}]]
    /\ reported \in Seq([game_id : Nat, game_result : {"WIN", "LOSE"}])
    /\ results \in [{"WIN", "LOSE"} -> Nat]
    /\ statuses \in Seq([finished : BOOLEAN, results : [{"WIN", "LOSE"} -> Nat]])
    /\ owner \in {"run", "ran", "wait", "gone"}
    /\ caller \in {"idle", "aborting", "aborted", "stopped"}
    /\ pc \in [Worker -> {"next", "enter", "play", "create", "search", "over", "tally", "erase", "done"}]

\* A worker has a game, and has not reported it; those that have and did not count it.
InGame(w) == pc[w] \notin {"next", "done"}
Unreported(w) == pc[w] \in {"enter", "play", "create", "search", "over"}
Tallying(r) == {w \in Worker : pc[w] = "tally" /\ game[w].result = r}
ReportedAs(r) == {i \in DOMAIN reported : reported[i].game_result = r}

\* No number is given to two games and no game is reported twice, whichever of
\* the threads is ahead: training files and reports are named by it.
NumbersAreUnique ==
    /\ \A v, w \in Worker : InGame(v) /\ InGame(w) /\ game[v].id = game[w].id => v = w
    /\ \A i, j \in DOMAIN reported : reported[i].game_id = reported[j].game_id => i = j
    /\ \A i \in DOMAIN reported, w \in Worker : Unreported(w) => reported[i].game_id # game[w].id

\* The results count the games reported with them, but for those a worker is
\* about to add.
ResultsAddUp ==
    \A r \in {"WIN", "LOSE"} :
        results[r] + Cardinality(Tallying(r)) = Cardinality(ReportedAs(r))

\* Each status counts one game more than the one before, whichever thread sends
\* it.  The last one comes once, after all others, and is complete: every game
\* begun was decided, reported and counted.  It comes only if nobody called Abort
\* or Stop while the games were played.
FinalIsComplete ==
    \A i \in DOMAIN statuses :
        LET res == statuses[i].results
        IN  IF statuses[i].finished
              THEN /\ i = Len(statuses) /\ caller = "idle"
                   /\ res["WIN"] + res["LOSE"] = gamesCount /\ Len(reported) = gamesCount
              ELSE res["WIN"] + res["LOSE"] = i

\* A game that was aborted has no search that goes on, although the flag is read
\* without a lock and may come up between any two steps of Play.
AbortedGameDoesNotSearch == \A w \in Worker : game[w].abort => game[w].search # "searching"

\* When Abort returned, the only games that go on as if nothing had happened are
\* those whose worker had a number and was not in the list yet.
AbortedOrEscaped ==
    caller = "aborted" => \A w \in games : game[w].abort \/ w \in escaped

\* RunBlocking and the destructor return: all games are played, or someone has
\* called Abort or Stop.
TournamentEnds == <>(owner = "gone")
=============================================================================
