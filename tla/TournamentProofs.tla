--------------------------- MODULE TournamentProofs --------------------------
(***************************************************************************)
(* The tournament, for any finite set of threads and any number of games.  *)
(***************************************************************************)
EXTENDS Tournament, SequenceTheorems, FiniteSetTheorems, TLAPS

Game == [id : Nat \cup {-1}, abort : BOOLEAN, result : Result, moves : 0 .. MaxMoves,
         search : {"none", "searching", "answered", "aborted"}]
Place == {"next", "enter", "play", "create", "search", "over", "tally", "erase", "done"}
Report == [game_id : Nat, game_result : {"WIN", "LOSE"}]
Status == [finished : BOOLEAN, results : [{"WIN", "LOSE"} -> Nat]]

\* The mutex is held from the first step of Abort to its last one, and the flag of
\* the tournament stays up.
MutexHeld ==
    /\ mutex = Caller <=> caller = "aborting"
    /\ caller # "aborting" => left = {}
    /\ caller # "idle" => abort

\* The games Abort has been to are aborted; nobody takes a number any more, so that
\* who lists a game now had its number before.
AbortedSoFar ==
    caller \in {"aborting", "aborted"} =>
        /\ \A w \in games \ left : game[w].abort \/ w \in escaped
        /\ \A w \in Worker : pc[w] = "enter" => w \in escaped

\* Numbers are below the count of games begun.
NumbersBelowCount ==
    /\ \A w \in Worker : InGame(w) => game[w].id \in Nat /\ game[w].id < gamesCount
    /\ \A i \in DOMAIN reported : reported[i].game_id < gamesCount

\* What a place in Play says of the game: a move is left to make, a game that is
\* over is decided or aborted, and only decided games are counted.
GameAtPlace(w) ==
    /\ pc[w] \in {"create", "search"} => game[w].moves < MaxMoves
    /\ pc[w] = "tally" => game[w].result # "UNDECIDED"
    /\ pc[w] = "over" => game[w].result # "UNDECIDED" \/ game[w].abort
    /\ game[w].abort => abort

GamesAtPlace == \A w \in Worker : GameAtPlace(w)

Unreporting == {w \in Worker : Unreported(w)}
Counting == {w \in Worker : pc[w] = "tally"}

\* As long as nobody aborts, every game begun is reported or is some thread's;
\* every game reported is counted or is about to be.
BegunAreReported ==
    /\ ~abort => gamesCount = Len(reported) + Cardinality(Unreporting)
    /\ Len(reported) = results["WIN"] + results["LOSE"] + Cardinality(Counting)

\* The threads are joined before the last status is sent.
StatusesKept ==
    /\ owner # "run" => \A w \in Worker : pc[w] = "done"
    /\ owner \in {"wait", "gone"} => abort
    /\ owner = "run" =>
          /\ \A i \in DOMAIN statuses : ~statuses[i].finished
          /\ Len(statuses) = results["WIN"] + results["LOSE"]

IInv ==
    /\ TypeOK
    /\ MutexHeld
    /\ AbortedSoFar
    /\ NumbersBelowCount
    /\ NumbersAreUnique
    /\ GamesAtPlace
    /\ AbortedGameDoesNotSearch
    /\ ResultsAddUp
    /\ BegunAreReported
    /\ StatusesKept
    /\ FinalIsComplete

-----------------------------------------------------------------------------
\* Sets of threads, and of places in the list of reports, can be counted.
LEMMA ThreadsFinite ==
  ASSUME NEW S \in SUBSET Worker
  PROVE  IsFiniteSet(S) /\ Cardinality(S) \in Nat
  BY TournamentAssumption, FS_Subset, FS_CardinalityType

LEMMA CountOneMore ==
  ASSUME NEW S, IsFiniteSet(S), NEW x, x \notin S
  PROVE  Cardinality(S \cup {x}) = Cardinality(S) + 1
  BY FS_AddElement

LEMMA CountOneLess ==
  ASSUME NEW S \in SUBSET Worker, NEW w \in S
  PROVE  Cardinality(S \ {w}) = Cardinality(S) - 1
<1>1. IsFiniteSet(S)
  BY ThreadsFinite
<1>2. QED
  BY <1>1, FS_RemoveElement

LEMMA CountNone ==
  ASSUME NEW S, S = {}
  PROVE  Cardinality(S) = 0
<1>1. Cardinality({}) = 0
  BY FS_EmptySet
<1>2. QED
  BY <1>1, Zenon

LEMMA Alone ==
  ASSUME NEW S, NEW x \in S
  PROVE  <<x>> \in Seq(S)
  OBVIOUS

LEMMA OneMore ==
  ASSUME NEW S, NEW s \in Seq(S), NEW x \in S
  PROVE  /\ Len(Append(s, x)) = Len(s) + 1
         /\ DOMAIN s = 1 .. Len(s) /\ DOMAIN Append(s, x) = 1 .. Len(s) + 1
         /\ \A i \in 1 .. Len(s) : Append(s, x)[i] = s[i]
         /\ Append(s, x)[Len(s) + 1] = x
  BY AppendProperties

\* One status more is sent.
LEMMA StatusSent ==
  ASSUME statuses \in Seq(Status), NEW x \in Status, statuses' = Append(statuses, x)
  PROVE  /\ Len(statuses') = Len(statuses) + 1 /\ DOMAIN statuses' = 1 .. Len(statuses) + 1
         /\ DOMAIN statuses = 1 .. Len(statuses)
         /\ \A i \in 1 .. Len(statuses) : statuses'[i] = statuses[i]
         /\ statuses'[Len(statuses) + 1] = x
<1> DEFINE sent == Append(statuses, x)
<1>1. /\ Len(sent) = Len(statuses) + 1 /\ DOMAIN sent = 1 .. Len(statuses) + 1
      /\ DOMAIN statuses = 1 .. Len(statuses)
      /\ \A i \in 1 .. Len(statuses) : sent[i] = statuses[i]
      /\ sent[Len(statuses) + 1] = x
  BY OneMore
<1>2. statuses' = sent
  OBVIOUS
<1> HIDE DEF sent
<1>3. QED
  BY <1>1, <1>2

LEMMA PlacesFinite ==
  ASSUME NEW n \in Nat, NEW S \in SUBSET (1 .. n)
  PROVE  IsFiniteSet(S) /\ Cardinality(S) \in Nat
<1>1. IsFiniteSet(1 .. n)
  BY FS_Interval
<1>2. IsFiniteSet(S)
  BY <1>1, FS_Subset
<1>3. QED
  BY <1>2, FS_CardinalityType

LEMMA InitIInv == Init => IInv
<1> SUFFICES ASSUME Init PROVE IInv
  OBVIOUS
<1>1. TypeOK
  <2>1. reported \in Seq(Report) /\ statuses \in Seq(Status)
    BY EmptySeq DEF Init
  <2>2. game \in [Worker -> Game]
    <3>1. NewGame(-1) \in Game
      BY TournamentAssumption DEF NewGame, Game, Result
    <3>2. QED
      BY <3>1 DEF Init
  <2>3. results \in [{"WIN", "LOSE"} -> Nat] /\ pc \in [Worker -> Place]
    BY DEF Init, Place
  <2>4. abort \in BOOLEAN
    BY DEF Init
  <2>5. /\ gamesCount \in Nat /\ (TotalGames # -1 => gamesCount <= TotalGames)
        /\ games \subseteq Worker /\ left \subseteq games /\ escaped \subseteq Worker
        /\ mutex \in {Free, Caller}
        /\ owner \in {"run", "ran", "wait", "gone"}
        /\ caller \in {"idle", "aborting", "aborted", "stopped"}
    BY TournamentAssumption DEF Init
  <2>6. QED
    BY <2>1, <2>2, <2>3, <2>4, <2>5 DEF TypeOK, Report, Status, Game, Place
<1>2. MutexHeld /\ AbortedSoFar
  BY TournamentAssumption DEF Init, MutexHeld, AbortedSoFar
<1>3. NumbersBelowCount /\ NumbersAreUnique
  BY DEF Init, NumbersBelowCount, NumbersAreUnique, InGame, Unreported
<1>4. GamesAtPlace /\ AbortedGameDoesNotSearch
  <2>1. \A w \in Worker : ~game[w].abort /\ pc[w] = "next"
    BY DEF Init, NewGame
  <2>2. QED
    BY <2>1 DEF GamesAtPlace, GameAtPlace, AbortedGameDoesNotSearch
<1>5. ResultsAddUp /\ BegunAreReported
  <2>1. /\ \A r \in {"WIN", "LOSE"} : results[r] = 0 /\ Tallying(r) = {} /\ ReportedAs(r) = {}
        /\ Unreporting = {} /\ Counting = {}
        /\ Len(reported) = 0 /\ gamesCount = 0
    BY DEF Init, Tallying, ReportedAs, Unreported, Unreporting, Counting
  <2>2. /\ Cardinality(Unreporting) = 0 /\ Cardinality(Counting) = 0
        /\ \A r \in {"WIN", "LOSE"} : Cardinality(Tallying(r)) = 0 /\ Cardinality(ReportedAs(r)) = 0
    BY <2>1, CountNone
  <2>3. ResultsAddUp
    BY <2>1, <2>2 DEF ResultsAddUp
  <2>4. BegunAreReported
    BY <2>1, <2>2 DEF BegunAreReported
  <2>5. QED
    BY <2>3, <2>4
<1>6. StatusesKept /\ FinalIsComplete
  BY DEF Init, StatusesKept, FinalIsComplete
<1>7. QED
  BY <1>1, <1>2, <1>3, <1>4, <1>5, <1>6 DEF IInv

-----------------------------------------------------------------------------
\* Every action leaves each variable within its type.
LEMMA TypeStep ==
  ASSUME IInv, [Next]_vars
  PROVE  TypeOK'
<1> USE DEF Game, Place, Report, Status
<1>1. /\ game \in [Worker -> Game] /\ pc \in [Worker -> Place]
      /\ reported \in Seq(Report) /\ statuses \in Seq(Status)
      /\ results \in [{"WIN", "LOSE"} -> Nat]
      /\ gamesCount \in Nat /\ games \subseteq Worker /\ left \subseteq games
      /\ escaped \subseteq Worker /\ abort \in BOOLEAN
      /\ TotalGames # -1 => gamesCount <= TotalGames
  BY DEF IInv, TypeOK
<1>2. /\ mutex \in {Free, Caller}
      /\ owner \in {"run", "ran", "wait", "gone"}
      /\ caller \in {"idle", "aborting", "aborted", "stopped"}
  BY DEF IInv, TypeOK
<1>3. mutex = Free => left = {}
  BY TournamentAssumption DEF IInv, MutexHeld
<1>4. (game \in [Worker -> Game] /\ pc \in [Worker -> Place])'
  <2>1. ASSUME NEW w \in Worker, WorkerStep(w)
        PROVE  (game \in [Worker -> Game] /\ pc \in [Worker -> Place])'
    <3> SUFFICES \E g \in Game, p \in Place :
                    /\ game' = [game EXCEPT ![w] = g] \/ game' = game
                    /\ pc' = [pc EXCEPT ![w] = p] \/ pc' = pc
      <4>1. \A g \in Game : [game EXCEPT ![w] = g] \in [Worker -> Game]
        BY <1>1
      <4>2. \A p \in Place : [pc EXCEPT ![w] = p] \in [Worker -> Place]
        BY <1>1
      <4>3. game \in [Worker -> Game] /\ pc \in [Worker -> Place]
        BY <1>1
      <4>4. PICK g \in Game, p \in Place :
               /\ game' = [game EXCEPT ![w] = g] \/ game' = game
               /\ pc' = [pc EXCEPT ![w] = p] \/ pc' = pc
        OBVIOUS
      <4> HIDE DEF Game, Place
      <4>5. game' \in [Worker -> Game]
        BY <4>1, <4>3, <4>4
      <4>6. pc' \in [Worker -> Place]
        BY <4>2, <4>3, <4>4
      <4>7. QED
        BY <4>5, <4>6
    <3>0. game[w] \in Game /\ pc[w] \in Place
      BY <1>1
    <3>1. CASE TakeGame(w)
      <4>1. NewGame(gamesCount) \in Game
        BY <1>1, TournamentAssumption DEF NewGame, Result
      <4>2. QED
        BY <3>1, <4>1, <3>0 DEF TakeGame, Goto
    <3>2. CASE EnterGame(w) \/ CreateSearch(w) \/ Answer(w) \/ ReportGame(w) \/ TallyGame(w) \/ EraseGame(w)
      <4>1. [game[w] EXCEPT !.search = "searching"] \in Game /\ [game[w] EXCEPT !.search = "answered"] \in Game
        BY <3>0
      <4>2. CASE EnterGame(w) \/ ReportGame(w) \/ TallyGame(w) \/ EraseGame(w)
        BY <4>2, <3>0 DEF EnterGame, ReportGame, TallyGame, EraseGame, Goto
      <4>3. CASE CreateSearch(w)
        BY <4>3, <4>1, <3>0, <1>1 DEF CreateSearch, Goto
      <4>4. CASE Answer(w)
        BY <4>4, <4>1, <3>0, <1>1 DEF Answer
      <4>5. QED
        BY <3>2, <4>2, <4>3, <4>4
    <3>3. CASE BeginMove(w)
      <4>1. \A r \in Result : [game[w] EXCEPT !.result = r] \in Game
        BY <3>0
      <4>2. QED
        BY <3>3, <4>1, <3>0, <1>1 DEF BeginMove, Goto
    <3>4. CASE JudgeMove(w)
      <4>1. game[w].moves + 1 \in 0 .. MaxMoves
        BY <3>0, <3>4, TournamentAssumption DEF IInv, GamesAtPlace, GameAtPlace, JudgeMove
      <4>2. [game[w] EXCEPT !.moves = game[w].moves + 1] \in Game
        BY <3>0, <4>1
      <4>3. \A r \in Result : [game[w] EXCEPT !.result = r] \in Game
        BY <3>0
      <4>4. CASE game[w].abort
        BY <4>4, <3>4, <3>0 DEF JudgeMove, Goto
      <4>5. CASE ~game[w].abort
        <5>1. PICK eval \in {-1, 0, 1} :
                IF eval = 0
                  THEN game' = [game EXCEPT ![w].moves = @ + 1] /\ Goto(w, "play")
                  ELSE /\ game' = [game EXCEPT ![w].result = IF eval = 1 THEN "WIN" ELSE "LOSE"]
                       /\ Goto(w, "over")
          BY <3>4, <4>5 DEF JudgeMove
        <5>2. CASE eval = 0
          BY <5>1, <5>2, <4>2, <1>1 DEF Goto
        <5>3. CASE eval # 0
          <6>1. (IF eval = 1 THEN "WIN" ELSE "LOSE") \in Result
            BY DEF Result
          <6>2. game' = [game EXCEPT ![w] = [game[w] EXCEPT !.result = IF eval = 1 THEN "WIN" ELSE "LOSE"]]
            BY <5>1, <5>3, <1>1
          <6>3. QED
            BY <5>1, <5>3, <6>1, <6>2, <4>3 DEF Goto
        <5>4. QED
          BY <5>2, <5>3
      <4>6. QED
        BY <4>4, <4>5
    <3>5. QED
      BY <2>1, <3>1, <3>2, <3>3, <3>4 DEF WorkerStep
  <2>2. ASSUME NEW w \in Worker PROVE Aborted(game[w]) \in Game
    <3>1. game[w] \in Game
      BY <1>1
    <3>2. (IF game[w].search = "searching" THEN "aborted" ELSE game[w].search)
             \in {"none", "searching", "answered", "aborted"}
      BY <3>1
    <3>3. QED
      BY <3>1, <3>2 DEF Aborted
  <2>3. CASE DestructorAborts
    <3>1. pc' = pc /\ game' = [w \in Worker |-> IF w \in games THEN Aborted(game[w]) ELSE game[w]]
      BY <2>3 DEF DestructorAborts
    <3>2. \A w \in Worker : (IF w \in games THEN Aborted(game[w]) ELSE game[w]) \in Game
      BY <2>2, <1>1
    <3>3. QED
      BY <3>1, <3>2, <1>1
  <2>4. CASE AbortGame
    <3>1. PICK w \in left : game' = [game EXCEPT ![w] = Aborted(game[w])]
      BY <2>4, <1>1 DEF AbortGame
    <3>2. pc' = pc /\ w \in Worker
      BY <2>4, <1>1 DEF AbortGame
    <3>3. QED
      BY <3>1, <3>2, <2>2, <1>1
  <2>5. CASE UNCHANGED <<game, pc>>
    BY <2>5, <1>1
  <2>6. QED
    BY <2>1, <2>3, <2>4, <2>5
    DEF Next, OwnerStep, Finish, CallAbort, BeginAbort, EndAbort, CallStop, Gone, vars, gameVars
<1>5. (reported \in Seq(Report) /\ statuses \in Seq(Status) /\ results \in [{"WIN", "LOSE"} -> Nat])'
  <2>1. ASSUME NEW w \in Worker, ReportGame(w)
        PROVE  (reported \in Seq(Report) /\ statuses \in Seq(Status) /\ results \in [{"WIN", "LOSE"} -> Nat])'
    <3>1. CASE game[w].result = "UNDECIDED"
      BY <2>1, <3>1, <1>1 DEF ReportGame
    <3>2. CASE game[w].result # "UNDECIDED"
      <4>1. game[w] \in Game /\ pc[w] = "over"
        BY <1>1, <2>1 DEF ReportGame
      <4>2. game[w].id \in Nat
        BY <4>1 DEF IInv, NumbersBelowCount, InGame
      <4>3. GameInfo(game[w]) \in Report
        BY <4>1, <4>2, <3>2 DEF GameInfo, Result
      <4>4. reported' = Append(reported, GameInfo(game[w]))
        BY <2>1, <3>2 DEF ReportGame
      <4>5. reported' \in Seq(Report)
        BY <4>3, <4>4, <1>1, AppendProperties
      <4>6. QED
        BY <2>1, <4>5, <1>1 DEF ReportGame
    <3>3. QED
      BY <3>1, <3>2
  <2>2. ASSUME NEW w \in Worker, TallyGame(w)
        PROVE  (reported \in Seq(Report) /\ statuses \in Seq(Status) /\ results \in [{"WIN", "LOSE"} -> Nat])'
    <3>1. game[w] \in Game /\ game[w].result # "UNDECIDED"
      BY <2>2, <1>1 DEF TallyGame, IInv, GamesAtPlace, GameAtPlace
    <3>2. game[w].result \in {"WIN", "LOSE"}
      BY <3>1 DEF Result
    <3>3. results' \in [{"WIN", "LOSE"} -> Nat]
      BY <3>2, <2>2, <1>1 DEF TallyGame
    <3>4. TournamentInfo(FALSE, results') \in Status
      BY <3>3 DEF TournamentInfo
    <3>5. statuses' \in Seq(Status)
      BY <3>4, <2>2, <1>1, AppendProperties DEF TallyGame
    <3>6. QED
      BY <3>3, <3>5, <2>2, <1>1 DEF TallyGame
  <2>3. ASSUME NEW from, NEW to, Finish(from, to)
        PROVE  (reported \in Seq(Report) /\ statuses \in Seq(Status) /\ results \in [{"WIN", "LOSE"} -> Nat])'
    <3>1. TournamentInfo(TRUE, results) \in Status
      BY <1>1 DEF TournamentInfo
    <3>2. <<TournamentInfo(TRUE, results)>> \in Seq(Status)
      BY <3>1, Alone
    <3>3. statuses' \in Seq(Status)
      <4>1. CASE SendsFinal
        BY <4>1, <3>2, <2>3, <1>1, ConcatProperties DEF Finish
      <4>2. CASE ~SendsFinal
        BY <4>2, EmptySeq, <2>3, <1>1, ConcatProperties DEF Finish
      <4>3. QED
        BY <4>1, <4>2
    <3>4. QED
      BY <3>3, <2>3, <1>1 DEF Finish
  <2>4. CASE UNCHANGED <<reported, statuses, results>>
    BY <2>4, <1>1
  <2>5. QED
    BY <2>1, <2>2, <2>3, <2>4
    DEF Next, OwnerStep, DestructorAborts, CallAbort, BeginAbort, AbortGame, EndAbort, CallStop, Gone,
        WorkerStep, TakeGame, EnterGame, BeginMove, CreateSearch, Answer, JudgeMove, EraseGame,
        vars, gameVars
<1>6. (/\ gamesCount \in Nat /\ (TotalGames # -1 => gamesCount <= TotalGames)
       /\ games \subseteq Worker /\ left \subseteq games /\ escaped \subseteq Worker)'
  <2>1. ASSUME NEW w \in Worker, TakeGame(w)
        PROVE  (gamesCount \in Nat /\ (TotalGames # -1 => gamesCount <= TotalGames))'
    BY <2>1, <1>1, TournamentAssumption DEF TakeGame, NoMoreGames
  <2>2. (gamesCount \in Nat /\ (TotalGames # -1 => gamesCount <= TotalGames))'
    <3>1. CASE UNCHANGED gamesCount
      BY <3>1, <1>1
    <3>2. QED
      BY <2>1, <3>1
      DEF Next, OwnerStep, Finish, DestructorAborts, CallAbort, BeginAbort, AbortGame, EndAbort, CallStop,
          Gone, WorkerStep, EnterGame, BeginMove, CreateSearch, Answer, JudgeMove, ReportGame, TallyGame,
          EraseGame, vars, gameVars
  <2>3. (games \subseteq Worker /\ left \subseteq games /\ escaped \subseteq Worker)'
    <3>1. ASSUME NEW w \in Worker, EnterGame(w) \/ EraseGame(w)
          PROVE  (games \subseteq Worker /\ left \subseteq games /\ escaped \subseteq Worker)'
      BY <3>1, <1>1, <1>3 DEF EnterGame, EraseGame, abortVars
    <3>2. CASE CallAbort
      BY <3>2, <1>1 DEF CallAbort, BeginAbort, AbortGame, EndAbort, gameVars
    <3>3. CASE UNCHANGED <<games, left, escaped>>
      BY <3>3, <1>1
    <3>4. QED
      BY <3>1, <3>2, <3>3
      DEF Next, OwnerStep, Finish, DestructorAborts, CallStop, Gone, WorkerStep, TakeGame, BeginMove,
          CreateSearch, Answer, JudgeMove, ReportGame, TallyGame, vars, gameVars, abortVars
  <2>4. QED
    BY <2>2, <2>3
<1>7. (/\ mutex \in {Free, Caller}
       /\ owner \in {"run", "ran", "wait", "gone"}
       /\ caller \in {"idle", "aborting", "aborted", "stopped"})'
  <2>1. CASE OwnerStep
    BY <2>1, <1>2 DEF OwnerStep, Finish, DestructorAborts, abortVars
  <2>2. CASE CallAbort \/ CallStop
    BY <2>2, <1>2 DEF CallAbort, BeginAbort, AbortGame, EndAbort, CallStop
  <2>3. CASE UNCHANGED <<mutex, owner, caller>>
    BY <2>3, <1>2
  <2>4. ASSUME NEW w \in Worker, WorkerStep(w)
        PROVE  UNCHANGED <<mutex, owner, caller>>
    BY <2>4 DEF WorkerStep, TakeGame, EnterGame, BeginMove, CreateSearch, Answer, JudgeMove, ReportGame,
          TallyGame, EraseGame, abortVars
  <2>5. QED
    BY <2>1, <2>2, <2>3, <2>4 DEF Next, Gone, vars, abortVars
<1>8. abort' \in BOOLEAN
  <2>1. abort' = TRUE \/ abort' = abort
    BY DEF Next, OwnerStep, Finish, DestructorAborts, CallAbort, BeginAbort, AbortGame, EndAbort, CallStop,
          Gone, WorkerStep, TakeGame, EnterGame, BeginMove, CreateSearch, Answer, JudgeMove, ReportGame,
          TallyGame, EraseGame, vars, gameVars, abortVars
  <2>2. QED
    BY <1>1, <2>1, Zenon
<1>9. QED
  BY <1>4, <1>5, <1>6, <1>7, <1>8 DEF TypeOK

-----------------------------------------------------------------------------
\* What a thread that plays does to the other threads: nothing.
LEMMA OthersStay ==
  ASSUME TypeOK, NEW w \in Worker, WorkerStep(w), NEW v \in Worker, v # w
  PROVE  game'[v] = game[v] /\ pc'[v] = pc[v]
<1>1. game \in [Worker -> Game] /\ pc \in [Worker -> Place]
  BY DEF TypeOK, Game, Place
<1>2. pc'[v] = pc[v]
  BY <1>1 DEF WorkerStep, TakeGame, EnterGame, BeginMove, CreateSearch, Answer, JudgeMove, ReportGame,
              TallyGame, EraseGame, Goto
<1>3. game'[v] = game[v]
  BY <1>1 DEF WorkerStep, TakeGame, EnterGame, BeginMove, CreateSearch, Answer, JudgeMove, ReportGame,
              TallyGame, EraseGame
<1>4. QED
  BY <1>2, <1>3

OtherStep == OwnerStep \/ CallAbort \/ CallStop \/ Gone \/ UNCHANGED vars

\* And what the others do to the games: they abort them, or leave them alone.
LEMMA OthersAbort ==
  ASSUME IInv, OtherStep, NEW v \in Worker
  PROVE  /\ game'[v] = game[v] \/ (game'[v] = Aborted(game[v]) /\ abort')
         /\ pc' = pc /\ gamesCount' = gamesCount /\ reported' = reported
         /\ games' = games /\ results' = results
         /\ abort => abort'
<1>1. game \in [Worker -> Game] /\ left \subseteq Worker
  BY DEF IInv, TypeOK, Game
<1>2. CASE DestructorAborts
  BY <1>1, <1>2 DEF DestructorAborts
<1>3. CASE AbortGame
  <2>1. PICK w \in left : game' = [game EXCEPT ![w] = Aborted(game[w])]
    BY <1>3 DEF AbortGame
  <2>2. abort /\ abort' = abort
    BY <1>3 DEF AbortGame, IInv, MutexHeld
  <2>3. abort'
    BY <2>2, Zenon
  <2>4. QED
    BY <1>1, <1>3, <2>1, <2>3 DEF AbortGame
<1>4. CASE BeginAbort \/ CallStop
  BY <1>4 DEF BeginAbort, CallStop, gameVars
<1>5. CASE EndAbort
  BY <1>5 DEF EndAbort, gameVars
<1>6. ASSUME NEW from, NEW to, Finish(from, to)
      PROVE  game' = game /\ UNCHANGED <<pc, gamesCount, reported, games, results, abort>>
  BY <1>6 DEF Finish, abortVars
<1>7. CASE Gone \/ UNCHANGED vars
  BY <1>7 DEF Gone, vars, gameVars, abortVars
<1>8. QED
  BY <1>2, <1>3, <1>4, <1>5, <1>6, <1>7 DEF OtherStep, OwnerStep, CallAbort

\* Only the flag and the search of a game change as it is aborted.
LEMMA AbortedFields ==
  ASSUME NEW g \in Game
  PROVE  /\ Aborted(g).id = g.id /\ Aborted(g).result = g.result /\ Aborted(g).moves = g.moves
         /\ Aborted(g).abort
         /\ Aborted(g).search # "searching"
<1>1. Aborted(g) = [g EXCEPT !.abort = TRUE, !.search = IF g.search = "searching" THEN "aborted" ELSE g.search]
  BY DEF Aborted, Game
<1>2. QED
  BY <1>1 DEF Game

LEMMA WhoSteps == [Next]_vars <=> OtherStep \/ \E w \in Worker : WorkerStep(w)
  BY DEF Next, OtherStep

-----------------------------------------------------------------------------
LEMMA MutexStep ==
  ASSUME IInv, [Next]_vars
  PROVE  MutexHeld'
<1> USE TournamentAssumption
<1>1. /\ mutex = Caller <=> caller = "aborting"
      /\ caller # "aborting" => left = {}
      /\ caller # "idle" => abort
  BY DEF IInv, MutexHeld
<1>2. CASE UNCHANGED <<mutex, caller, left, abort>>
  BY <1>1, <1>2 DEF MutexHeld
<1>3. ASSUME NEW w \in Worker, WorkerStep(w)
      PROVE  UNCHANGED <<mutex, caller, left, abort>>
  BY <1>3 DEF WorkerStep, TakeGame, EnterGame, BeginMove, CreateSearch, Answer, JudgeMove, ReportGame,
        TallyGame, EraseGame, abortVars
<1>4. CASE BeginAbort
  BY <1>1, <1>4 DEF BeginAbort, MutexHeld
<1>5. CASE AbortGame
  BY <1>1, <1>5 DEF AbortGame, MutexHeld
<1>6. CASE EndAbort
  BY <1>1, <1>6 DEF EndAbort, MutexHeld
<1>7. CASE CallStop
  BY <1>1, <1>7 DEF CallStop, MutexHeld
<1>8. CASE DestructorAborts
  BY <1>1, <1>8 DEF DestructorAborts, MutexHeld
<1>9. QED
  BY <1>2, <1>3, <1>4, <1>5, <1>6, <1>7, <1>8
  DEF Next, OwnerStep, Finish, CallAbort, Gone, vars, abortVars

\* A thread lists its game with the mutex, and takes a number only while nobody
\* has called Abort.
LEMMA AbortedSoFarStep ==
  ASSUME IInv, [Next]_vars
  PROVE  AbortedSoFar'
<1>1. game \in [Worker -> Game] /\ pc \in [Worker -> Place] /\ games \subseteq Worker /\ left \subseteq games
  BY DEF IInv, TypeOK, Game, Place
<1>2. /\ mutex = Caller <=> caller = "aborting"
      /\ caller # "aborting" => left = {}
      /\ caller # "idle" => abort
  BY DEF IInv, MutexHeld
<1>3. caller \in {"aborting", "aborted"} =>
        /\ \A w \in games \ left : game[w].abort \/ w \in escaped
        /\ \A w \in Worker : pc[w] = "enter" => w \in escaped
  BY DEF IInv, AbortedSoFar
<1>4. ASSUME NEW w \in Worker, WorkerStep(w) PROVE AbortedSoFar'
  <2> SUFFICES ASSUME caller \in {"aborting", "aborted"} PROVE AbortedSoFar'
    BY <1>4 DEF AbortedSoFar, WorkerStep, TakeGame, EnterGame, BeginMove, CreateSearch, Answer, JudgeMove,
                ReportGame, TallyGame, EraseGame
  <2>0. UNCHANGED <<left, escaped, caller>> /\ abort
    BY <1>2, <1>4 DEF WorkerStep, TakeGame, EnterGame, BeginMove, CreateSearch, Answer, JudgeMove,
                ReportGame, TallyGame, EraseGame, abortVars
  <2>1. \A v \in Worker : v # w => game'[v] = game[v] /\ pc'[v] = pc[v]
    BY <1>4, OthersStay DEF IInv
  <2>2. CASE EnterGame(w)
    <3>1. w \in escaped /\ games' = games \cup {w} /\ game' = game /\ pc'[w] = "play"
      BY <2>2, <1>1, <1>3 DEF EnterGame, Goto
    <3>2. QED
      BY <3>1, <2>0, <2>1, <1>1, <1>3 DEF AbortedSoFar
  <2>3. CASE ~EnterGame(w)
    <3>1. games' \subseteq games /\ (w \in games' => game'[w].abort = game[w].abort)
      <4>1. game[w] \in Game
        BY <1>1
      <4>2. CASE TakeGame(w) \/ ReportGame(w) \/ TallyGame(w) \/ EraseGame(w)
        BY <4>2, <2>0 DEF TakeGame, NoMoreGames, ReportGame, TallyGame, EraseGame
      <4>3. CASE BeginMove(w)
        BY <4>3, <4>1, <1>1 DEF BeginMove, Game
      <4>4. CASE CreateSearch(w) \/ Answer(w)
        BY <4>4, <4>1, <1>1 DEF CreateSearch, Answer, Game
      <4>5. CASE JudgeMove(w)
        BY <4>5, <4>1, <1>1 DEF JudgeMove, Game
      <4>6. QED
        BY <1>4, <2>3, <4>2, <4>3, <4>4, <4>5 DEF WorkerStep
    <3>2. pc'[w] # "enter"
      BY <1>4, <2>3, <2>0, <1>1 DEF WorkerStep, TakeGame, NoMoreGames, BeginMove, CreateSearch, Answer,
                JudgeMove, ReportGame, TallyGame, EraseGame, Goto
    <3>3. QED
      BY <3>1, <3>2, <2>0, <2>1, <1>1, <1>3 DEF AbortedSoFar
  <2>4. QED
    BY <2>2, <2>3
<1>5. CASE AbortGame
  <2>1. PICK w \in left : left' = left \ {w} /\ game' = [game EXCEPT ![w] = Aborted(game[w])]
    BY <1>5 DEF AbortGame
  <2>2. Aborted(game[w]).abort /\ w \in Worker
    BY <1>1, AbortedFields
  <2>3. game'[w].abort /\ \A v \in Worker : v # w => game'[v] = game[v]
    BY <2>1, <2>2, <1>1
  <2>4. UNCHANGED <<caller, games, escaped, pc>>
    BY <1>5 DEF AbortGame
  <2>5. QED
    BY <2>1, <2>2, <2>3, <2>4, <1>1, <1>3 DEF AbortedSoFar
<1>6. CASE BeginAbort
  BY <1>6, <1>1 DEF BeginAbort, AbortedSoFar, gameVars
<1>7. CASE EndAbort
  BY <1>7, <1>3, <1>2 DEF EndAbort, AbortedSoFar, gameVars
<1>8. CASE CallStop
  BY <1>8 DEF CallStop, AbortedSoFar
<1>9. CASE DestructorAborts
  <2>1. \A w \in games : game'[w].abort
    BY <1>9, <1>1, AbortedFields DEF DestructorAborts
  <2>2. QED
    BY <2>1, <1>9, <1>3 DEF DestructorAborts, AbortedSoFar
<1>10. CASE UNCHANGED <<caller, games, left, game, escaped, pc>>
  BY <1>10, <1>3 DEF AbortedSoFar
<1>11. QED
  BY <1>4, <1>5, <1>6, <1>7, <1>8, <1>9, <1>10
  DEF Next, OwnerStep, Finish, CallAbort, Gone, vars, gameVars, abortVars

-----------------------------------------------------------------------------
\* A number is given with the mutex, once, and is larger than all before; it is
\* reported by the thread that has it.
LEMMA NumbersStep ==
  ASSUME IInv, [Next]_vars
  PROVE  NumbersBelowCount' /\ NumbersAreUnique'
<1>1. /\ game \in [Worker -> Game] /\ pc \in [Worker -> Place] /\ gamesCount \in Nat
      /\ reported \in Seq(Report)
  BY DEF IInv, TypeOK, Game, Place, Report
<1>2. /\ \A w \in Worker : pc[w] \notin {"next", "done"} => game[w].id \in Nat /\ game[w].id < gamesCount
      /\ \A i \in DOMAIN reported : reported[i].game_id < gamesCount
      /\ \A v, w \in Worker : pc[v] \notin {"next", "done"} /\ pc[w] \notin {"next", "done"}
                               /\ game[v].id = game[w].id => v = w
      /\ \A i, j \in DOMAIN reported : reported[i].game_id = reported[j].game_id => i = j
      /\ \A i \in DOMAIN reported, w \in Worker :
            pc[w] \in {"enter", "play", "create", "search", "over"} => reported[i].game_id # game[w].id
  BY DEF IInv, NumbersBelowCount, NumbersAreUnique, InGame, Unreported
<1>3. \A i \in DOMAIN reported : reported[i].game_id \in Nat
  <2>1. \A i \in DOMAIN reported : reported[i] \in Report
    BY <1>1
  <2>2. QED
    BY <2>1 DEF Report
<1>4. ASSUME NEW w \in Worker, WorkerStep(w)
      PROVE  NumbersBelowCount' /\ NumbersAreUnique'
  <2>1. \A v \in Worker : v # w => game'[v] = game[v] /\ pc'[v] = pc[v]
    BY <1>4, OthersStay DEF IInv
  <2>2. game[w] \in Game
    BY <1>1
  <2>3. CASE TakeGame(w) /\ ~NoMoreGames
    <3>1. game'[w].id = gamesCount /\ gamesCount' = gamesCount + 1 /\ reported' = reported
      BY <2>3, <1>1 DEF TakeGame, NewGame
    <3>2. NumbersBelowCount'
      BY <3>1, <2>1, <1>1, <1>2, <1>3 DEF NumbersBelowCount, InGame
    <3>3. NumbersAreUnique'
      BY <3>1, <2>1, <1>1, <1>2, <1>3 DEF NumbersAreUnique, InGame, Unreported
    <3>4. QED
      BY <3>2, <3>3
  <2>4. CASE ReportGame(w) /\ game[w].result # "UNDECIDED"
    <3>1. /\ reported' = Append(reported, GameInfo(game[w])) /\ game' = game /\ gamesCount' = gamesCount
          /\ pc[w] = "over" /\ pc'[w] = "tally"
      BY <2>4, <1>1 DEF ReportGame, Goto
    <3>2. GameInfo(game[w]).game_id = game[w].id
      BY DEF GameInfo
    <3>3. \A i \in DOMAIN reported' : IF i \in DOMAIN reported THEN reported'[i] = reported[i]
                                      ELSE i = Len(reported) + 1 /\ reported'[i].game_id = game[w].id
      BY <3>1, <3>2, <1>1, AppendProperties
    <3>4. NumbersBelowCount'
      BY <3>1, <3>3, <2>1, <1>2 DEF NumbersBelowCount, InGame
    <3>5. \A i, j \in DOMAIN reported' : reported'[i].game_id = reported'[j].game_id => i = j
      BY <3>1, <3>3, <1>2
    <3>6. \A i \in DOMAIN reported', v \in Worker :
            pc'[v] \in {"enter", "play", "create", "search", "over"} => reported'[i].game_id # game'[v].id
      BY <3>1, <3>3, <2>1, <1>2
    <3>7. \A u, v \in Worker : pc'[u] \notin {"next", "done"} /\ pc'[v] \notin {"next", "done"}
                               /\ game'[u].id = game'[v].id => u = v
      BY <3>1, <2>1, <1>2
    <3>8. QED
      BY <3>4, <3>5, <3>6, <3>7 DEF NumbersAreUnique, InGame, Unreported
  <2>5. CASE ~(TakeGame(w) /\ ~NoMoreGames) /\ ~(ReportGame(w) /\ game[w].result # "UNDECIDED")
    <3>1. reported' = reported /\ gamesCount' = gamesCount
      BY <1>4, <2>5 DEF WorkerStep, TakeGame, EnterGame, BeginMove, CreateSearch, Answer, JudgeMove,
                ReportGame, TallyGame, EraseGame
    <3>2. game'[w].id = game[w].id
      <4>1. CASE BeginMove(w)
        BY <4>1, <2>2, <1>1 DEF BeginMove, Game
      <4>2. CASE CreateSearch(w) \/ Answer(w)
        BY <4>2, <2>2, <1>1 DEF CreateSearch, Answer, Game
      <4>3. CASE JudgeMove(w)
        BY <4>3, <2>2, <1>1 DEF JudgeMove, Game
      <4>4. CASE TakeGame(w) \/ EnterGame(w) \/ ReportGame(w) \/ TallyGame(w) \/ EraseGame(w)
        BY <4>4, <2>5 DEF TakeGame, EnterGame, ReportGame, TallyGame, EraseGame
      <4>5. QED
        BY <1>4, <4>1, <4>2, <4>3, <4>4 DEF WorkerStep
    <3>3. /\ pc'[w] \notin {"next", "done"} => pc[w] \notin {"next", "done"}
          /\ pc'[w] \in {"enter", "play", "create", "search", "over"} =>
                pc[w] \in {"enter", "play", "create", "search", "over"}
      BY <1>4, <2>5, <1>1 DEF WorkerStep, TakeGame, EnterGame, BeginMove, CreateSearch, Answer, JudgeMove,
                ReportGame, TallyGame, EraseGame, Goto
    <3>4. NumbersBelowCount'
      BY <3>1, <3>2, <3>3, <2>1, <1>2 DEF NumbersBelowCount, InGame
    <3>5. NumbersAreUnique'
      BY <3>1, <3>2, <3>3, <2>1, <1>2 DEF NumbersAreUnique, InGame, Unreported
    <3>6. QED
      BY <3>4, <3>5
  <2>6. QED
    BY <2>3, <2>4, <2>5
<1>5. CASE OtherStep
  <2>1. \A v \in Worker : game'[v].id = game[v].id
    BY <1>1, <1>5, OthersAbort, AbortedFields
  <2>2. pc' = pc /\ gamesCount' = gamesCount /\ reported' = reported
    BY <1>5 DEF OtherStep, OwnerStep, Finish, DestructorAborts, CallAbort, BeginAbort, AbortGame, EndAbort,
                CallStop, Gone, vars, gameVars
  <2>3. QED
    BY <2>1, <2>2, <1>2 DEF NumbersBelowCount, NumbersAreUnique, InGame, Unreported
<1>6. QED
  BY <1>4, <1>5, WhoSteps

\* A game that has a search was not aborted when the search was made, and Abort
\* ends the search with the game.
LEMMA GamesStep ==
  ASSUME IInv, [Next]_vars
  PROVE  GamesAtPlace' /\ AbortedGameDoesNotSearch'
<1>1. game \in [Worker -> Game] /\ pc \in [Worker -> Place]
  BY DEF IInv, TypeOK, Game, Place
<1>2. \A w \in Worker :
        /\ pc[w] \in {"create", "search"} => game[w].moves < MaxMoves
        /\ pc[w] = "tally" => game[w].result # "UNDECIDED"
        /\ pc[w] = "over" => game[w].result # "UNDECIDED" \/ game[w].abort
        /\ game[w].abort => abort
        /\ game[w].abort => game[w].search # "searching"
  BY DEF IInv, GamesAtPlace, GameAtPlace, AbortedGameDoesNotSearch
<1>3. SUFFICES ASSUME NEW v \in Worker
               PROVE  GameAtPlace(v)' /\ (game[v].abort => game[v].search # "searching")'
  BY DEF GamesAtPlace, AbortedGameDoesNotSearch
<1>4. ASSUME NEW w \in Worker, WorkerStep(w)
      PROVE  GameAtPlace(v)' /\ (game[v].abort => game[v].search # "searching")'
  <2>0. abort' = abort
    BY <1>4 DEF WorkerStep, TakeGame, EnterGame, BeginMove, CreateSearch, Answer, JudgeMove, ReportGame,
                TallyGame, EraseGame, abortVars
  <2>1. CASE v # w
    <3>1. game'[v] = game[v] /\ pc'[v] = pc[v]
      BY <1>4, <2>1, OthersStay DEF IInv
    <3>2. QED
      BY <3>1, <2>0, <1>2 DEF GameAtPlace
  <2>2. CASE v = w
    <3>0. game[w] \in Game
      BY <1>1
    <3>1. CASE TakeGame(w)
      <4>1. CASE NoMoreGames
        BY <4>1, <3>1, <2>2, <2>0, <1>1, <1>2 DEF TakeGame, Goto, GameAtPlace
      <4>2. CASE ~NoMoreGames
        <5>1. game'[w].abort = FALSE /\ pc'[w] = "enter"
          BY <4>2, <3>1, <1>1 DEF TakeGame, Goto, NewGame
        <5>2. QED
          BY <5>1, <2>2 DEF GameAtPlace
      <4>3. QED
        BY <4>1, <4>2
    <3>2. CASE EnterGame(w) \/ ReportGame(w) \/ TallyGame(w) \/ EraseGame(w)
      <4>1. game' = game /\ pc'[w] \notin {"create", "search", "over"}
        BY <3>2, <1>1 DEF EnterGame, ReportGame, TallyGame, EraseGame, Goto
      <4>2. pc'[w] = "tally" => game[w].result # "UNDECIDED"
        BY <3>2, <1>1 DEF EnterGame, ReportGame, TallyGame, EraseGame, Goto
      <4>3. QED
        BY <4>1, <4>2, <2>2, <2>0, <1>2 DEF GameAtPlace
    <3>3. CASE BeginMove(w)
      <4>1. CASE game[w].abort
        BY <4>1, <3>3, <2>2, <2>0, <1>1, <1>2 DEF BeginMove, Goto, GameAtPlace
      <4>2. CASE ~game[w].abort
        <5>1. PICK r \in Result :
                /\ game[w].moves = MaxMoves => r # "UNDECIDED"
                /\ game' = [game EXCEPT ![w].result = r]
                /\ Goto(w, IF r = "UNDECIDED" THEN "create" ELSE "over")
          BY <4>2, <3>3 DEF BeginMove
        <5>2. /\ game'[w].abort = game[w].abort /\ game'[w].moves = game[w].moves /\ game'[w].result = r
              /\ pc'[w] = IF r = "UNDECIDED" THEN "create" ELSE "over"
          BY <5>1, <3>0, <1>1 DEF Goto, Game
        <5>3. pc'[w] = "create" => game[w].moves < MaxMoves
          BY <5>1, <5>2, <3>0, TournamentAssumption DEF Game
        <5>4. ~game'[w].abort
          BY <4>2, <5>2, Zenon
        <5>5. QED
          BY <5>2, <5>3, <5>4, <2>2 DEF GameAtPlace
      <4>3. QED
        BY <4>1, <4>2
    <3>4. CASE CreateSearch(w)
      <4>1. CASE game[w].abort
        BY <4>1, <3>4, <2>2, <2>0, <1>1, <1>2 DEF CreateSearch, Goto, GameAtPlace
      <4>2. CASE ~game[w].abort
        <5>1. /\ game'[w].abort = game[w].abort /\ game'[w].moves = game[w].moves
              /\ pc[w] = "create" /\ pc'[w] = "search"
          BY <4>2, <3>4, <3>0, <1>1 DEF CreateSearch, Goto, Game
        <5>2. ~game'[w].abort
          BY <4>2, <5>1, Zenon
        <5>3. QED
          BY <5>1, <5>2, <2>2, <1>2 DEF GameAtPlace
      <4>3. QED
        BY <4>1, <4>2
    <3>5. CASE Answer(w)
      <4>1. /\ game'[w].abort = game[w].abort /\ game'[w].moves = game[w].moves
            /\ pc[w] = "search" /\ pc' = pc /\ game'[w].search = "answered"
        BY <3>5, <3>0, <1>1 DEF Answer, Game
      <4>2. game'[w].abort => abort'
        BY <4>1, <2>0, <1>2, Zenon
      <4>3. QED
        BY <4>1, <4>2, <2>2, <1>2 DEF GameAtPlace
    <3>6. CASE JudgeMove(w)
      <4>1. CASE game[w].abort
        BY <4>1, <3>6, <2>2, <2>0, <1>1, <1>2 DEF JudgeMove, Goto, GameAtPlace
      <4>2. CASE ~game[w].abort
        <5>1. game'[w].abort = game[w].abort
          BY <4>2, <3>6, <3>0, <1>1 DEF JudgeMove, Game
        <5>2. ~game'[w].abort
          BY <4>2, <5>1, Zenon
        <5>3. pc'[w] = "play" \/ (pc'[w] = "over" /\ game'[w].result # "UNDECIDED")
          BY <4>2, <3>6, <3>0, <1>1 DEF JudgeMove, Goto, Game
        <5>4. QED
          BY <5>2, <5>3, <2>2 DEF GameAtPlace
      <4>3. QED
        BY <4>1, <4>2
    <3>7. QED
      BY <1>4, <3>1, <3>2, <3>3, <3>4, <3>5, <3>6 DEF WorkerStep
  <2>3. QED
    BY <2>1, <2>2
<1>5. CASE OtherStep
  <2>1. game'[v] = game[v] \/ (game'[v] = Aborted(game[v]) /\ abort')
    BY <1>5, OthersAbort
  <2>2. pc' = pc /\ (abort => abort')
    BY <1>3, <1>5, OthersAbort
  <2>3. CASE game'[v] = game[v]
    BY <2>3, <2>2, <1>2 DEF GameAtPlace
  <2>4. CASE game'[v] = Aborted(game[v]) /\ abort'
    <3>1. /\ game'[v].result = game[v].result /\ game'[v].moves = game[v].moves
          /\ game'[v].abort /\ game'[v].search # "searching"
      BY <2>4, <1>1, AbortedFields
    <3>2. QED
      BY <3>1, <2>4, <2>2, <1>2 DEF GameAtPlace
  <2>5. QED
    BY <2>1, <2>3, <2>4
<1>6. QED
  BY <1>4, <1>5, WhoSteps

-----------------------------------------------------------------------------
\* The sets that are counted, as a thread moves on.
LEMMA CountsStep ==
  ASSUME IInv, NEW w \in Worker, WorkerStep(w)
  PROVE  ResultsAddUp' /\ BegunAreReported'
<1>1. /\ game \in [Worker -> Game] /\ pc \in [Worker -> Place] /\ gamesCount \in Nat
      /\ reported \in Seq(Report) /\ results \in [{"WIN", "LOSE"} -> Nat]
  BY DEF IInv, TypeOK, Game, Place, Report
<1>2. /\ \A r \in {"WIN", "LOSE"} : results[r] + Cardinality(Tallying(r)) = Cardinality(ReportedAs(r))
      /\ ~abort => gamesCount = Len(reported) + Cardinality(Unreporting)
      /\ Len(reported) = results["WIN"] + results["LOSE"] + Cardinality(Counting)
  BY DEF IInv, ResultsAddUp, BegunAreReported
<1>3. \A v \in Worker : v # w => game'[v] = game[v] /\ pc'[v] = pc[v]
  BY OthersStay DEF IInv
<1>4. abort => abort'
  <2>1. abort' = abort
    BY DEF WorkerStep, TakeGame, EnterGame, BeginMove, CreateSearch, Answer, JudgeMove, ReportGame,
           TallyGame, EraseGame, abortVars
  <2>2. QED
    BY <2>1, Zenon
<1>5. /\ Unreporting \in SUBSET Worker /\ Counting \in SUBSET Worker
      /\ \A r \in {"WIN", "LOSE"} : Tallying(r) \in SUBSET Worker
  BY DEF Unreporting, Counting, Tallying
<1>6. /\ IsFiniteSet(Unreporting) /\ Cardinality(Unreporting) \in Nat
      /\ IsFiniteSet(Counting) /\ Cardinality(Counting) \in Nat
      /\ \A r \in {"WIN", "LOSE"} : IsFiniteSet(Tallying(r)) /\ Cardinality(Tallying(r)) \in Nat
  BY <1>5, ThreadsFinite
<1>7. \A r \in {"WIN", "LOSE"} : IsFiniteSet(ReportedAs(r)) /\ Cardinality(ReportedAs(r)) \in Nat
  <2>1. ASSUME NEW r \in {"WIN", "LOSE"} PROVE ReportedAs(r) \in SUBSET (1 .. Len(reported))
    BY <1>1 DEF ReportedAs
  <2>2. Len(reported) \in Nat
    BY <1>1
  <2>3. QED
    BY <2>1, <2>2, PlacesFinite
<1>0. /\ Len(reported) \in Nat /\ gamesCount \in Nat
      /\ results["WIN"] \in Nat /\ results["LOSE"] \in Nat
      /\ Cardinality(Unreporting) \in Nat /\ Cardinality(Counting) \in Nat
  BY <1>1, <1>6
<1>8. CASE TakeGame(w) /\ ~NoMoreGames
  <2>1. /\ pc[w] = "next" /\ pc'[w] = "enter" /\ gamesCount' = gamesCount + 1
        /\ reported' = reported /\ results' = results
    BY <1>8, <1>1 DEF TakeGame, Goto
  <2>2. /\ Unreporting' = Unreporting \cup {w} /\ w \notin Unreporting
        /\ Counting' = Counting
    BY <2>1, <1>3 DEF Unreporting, Unreported, Counting
  <2>3. \A r \in {"WIN", "LOSE"} : Tallying(r)' = Tallying(r) /\ ReportedAs(r)' = ReportedAs(r)
    BY <2>1, <1>3 DEF Tallying, ReportedAs
  <2>4. Cardinality(Unreporting') = Cardinality(Unreporting) + 1
    BY <2>2, <1>6, CountOneMore
  <2>5. ResultsAddUp'
    BY <2>1, <2>3, <1>2 DEF ResultsAddUp
  <2>6. BegunAreReported'
    BY <2>1, <2>2, <2>4, <1>0, <1>2, <1>4 DEF BegunAreReported
  <2>7. QED
    BY <2>5, <2>6
<1>9. CASE ReportGame(w) /\ game[w].result # "UNDECIDED"
  <2>1. /\ reported' = Append(reported, GameInfo(game[w])) /\ game' = game /\ gamesCount' = gamesCount
        /\ results' = results /\ pc[w] = "over" /\ pc'[w] = "tally"
    BY <1>9, <1>1 DEF ReportGame, Goto
  <2>2. /\ Len(reported') = Len(reported) + 1 /\ Len(reported) \in Nat
        /\ DOMAIN reported = 1 .. Len(reported) /\ DOMAIN reported' = 1 .. Len(reported')
        /\ \A i \in 1 .. Len(reported) : reported'[i] = reported[i]
        /\ reported'[Len(reported) + 1].game_result = game[w].result
    BY <2>1, <1>1 DEF GameInfo
  <2>3. /\ Unreporting' = Unreporting \ {w} /\ w \in Unreporting
        /\ Counting' = Counting \cup {w} /\ w \notin Counting
    BY <2>1, <1>3 DEF Unreporting, Unreported, Counting
  <2>4. /\ Cardinality(Unreporting') = Cardinality(Unreporting) - 1
        /\ Cardinality(Counting') = Cardinality(Counting) + 1
    BY <2>3, <1>5, <1>6, CountOneMore, CountOneLess
  <2>5. ASSUME NEW r \in {"WIN", "LOSE"}
        PROVE  results'[r] + Cardinality(Tallying(r)') = Cardinality(ReportedAs(r)')
    <3>1. CASE game[w].result = r
      <4>1. Tallying(r)' = Tallying(r) \cup {w} /\ w \notin Tallying(r)
        BY <3>1, <2>1, <1>3 DEF Tallying
      <4>2. ReportedAs(r)' = ReportedAs(r) \cup {Len(reported) + 1} /\ Len(reported) + 1 \notin ReportedAs(r)
        BY <3>1, <2>2 DEF ReportedAs
      <4>3. /\ Cardinality(Tallying(r)') = Cardinality(Tallying(r)) + 1
            /\ Cardinality(ReportedAs(r)') = Cardinality(ReportedAs(r)) + 1
        BY <4>1, <4>2, <1>6, <1>7, CountOneMore
      <4>4. QED
        BY <4>3, <2>1, <1>1, <1>2, <1>6, <1>7
    <3>2. CASE game[w].result # r
      <4>1. Tallying(r)' = Tallying(r)
        BY <3>2, <2>1, <1>3 DEF Tallying
      <4>2. ReportedAs(r)' = ReportedAs(r)
        BY <3>2, <2>2 DEF ReportedAs
      <4>3. QED
        BY <4>1, <4>2, <2>1, <1>2
    <3>3. QED
      BY <3>1, <3>2
  <2>6. ResultsAddUp'
    BY <2>5 DEF ResultsAddUp
  <2>7. BegunAreReported'
    <3>1. Len(reported') = Len(reported) + 1 /\ gamesCount' = gamesCount /\ results' = results
      BY <2>1, <2>2
    <3>2. QED
      BY <3>1, <2>4, <1>0, <1>2, <1>4 DEF BegunAreReported
  <2>8. QED
    BY <2>6, <2>7
<1>10. CASE ReportGame(w) /\ game[w].result = "UNDECIDED"
  <2>1. /\ reported' = reported /\ game' = game /\ results' = results
        /\ pc[w] = "over" /\ pc'[w] = "erase"
    BY <1>10, <1>1 DEF ReportGame, Goto
  <2>2. abort
    BY <2>1, <1>10 DEF IInv, GamesAtPlace, GameAtPlace
  <2>3. Counting' = Counting
    BY <2>1, <1>3 DEF Counting
  <2>4. \A r \in {"WIN", "LOSE"} : Tallying(r)' = Tallying(r) /\ ReportedAs(r)' = ReportedAs(r)
    BY <2>1, <1>3 DEF Tallying, ReportedAs
  <2>5. ResultsAddUp'
    BY <2>1, <2>4, <1>2 DEF ResultsAddUp
  <2>6. BegunAreReported'
    BY <2>1, <2>2, <2>3, <1>2, <1>4 DEF BegunAreReported
  <2>7. QED
    BY <2>5, <2>6
<1>11. CASE TallyGame(w)
  <2>1. /\ reported' = reported /\ game' = game /\ gamesCount' = gamesCount
        /\ results' = [results EXCEPT ![game[w].result] = @ + 1] /\ pc[w] = "tally" /\ pc'[w] = "erase"
    BY <1>11, <1>1 DEF TallyGame, Goto
  <2>2. game[w].result \in {"WIN", "LOSE"}
    BY <2>1, <1>1 DEF IInv, GamesAtPlace, GameAtPlace, Game, Result
  <2>3. /\ Unreporting' = Unreporting
        /\ Counting' = Counting \ {w} /\ w \in Counting
    BY <2>1, <1>3 DEF Unreporting, Unreported, Counting
  <2>4. Cardinality(Counting') = Cardinality(Counting) - 1
    BY <2>3, <1>5, CountOneLess
  <2>5. ASSUME NEW r \in {"WIN", "LOSE"}
        PROVE  results'[r] + Cardinality(Tallying(r)') = Cardinality(ReportedAs(r)')
    <3>0. ReportedAs(r)' = ReportedAs(r)
      BY <2>1 DEF ReportedAs
    <3>1. CASE game[w].result = r
      <4>1. Tallying(r)' = Tallying(r) \ {w} /\ w \in Tallying(r)
        BY <3>1, <2>1, <1>3 DEF Tallying
      <4>2. Cardinality(Tallying(r)') = Cardinality(Tallying(r)) - 1
        BY <4>1, <1>5, CountOneLess
      <4>3. QED
        BY <4>2, <3>0, <3>1, <2>1, <1>1, <1>2, <1>6, <1>7
    <3>2. CASE game[w].result # r
      <4>1. Tallying(r)' = Tallying(r)
        BY <3>2, <2>1, <1>3 DEF Tallying
      <4>2. QED
        BY <4>1, <3>0, <3>2, <2>1, <1>1, <1>2
    <3>3. QED
      BY <3>1, <3>2
  <2>6. ResultsAddUp'
    BY <2>5 DEF ResultsAddUp
  <2>7. results'["WIN"] + results'["LOSE"] = results["WIN"] + results["LOSE"] + 1
    BY <2>1, <2>2, <1>1
  <2>8. BegunAreReported'
    <3>1. ~abort' => gamesCount' = Len(reported') + Cardinality(Unreporting')
      BY <2>1, <2>3, <1>2, <1>4, Zenon
    <3>2. Len(reported') = results'["WIN"] + results'["LOSE"] + Cardinality(Counting')
      <4>1. Len(reported') = Len(reported)
        BY <2>1
      <4>2. QED
        BY <4>1, <2>4, <2>7, <1>0, <1>2
    <3>3. QED
      BY <3>1, <3>2 DEF BegunAreReported
  <2>9. QED
    BY <2>6, <2>8
<1>12. CASE ~(TakeGame(w) /\ ~NoMoreGames) /\ ~ReportGame(w) /\ ~TallyGame(w)
  <2>1. reported' = reported /\ gamesCount' = gamesCount /\ results' = results
    BY <1>12 DEF WorkerStep, TakeGame, EnterGame, BeginMove, CreateSearch, Answer, JudgeMove, EraseGame
  <2>2. /\ pc[w] # "tally" /\ pc'[w] # "tally"
        /\ pc'[w] \in {"enter", "play", "create", "search", "over"} <=>
              pc[w] \in {"enter", "play", "create", "search", "over"}
    BY <1>12, <1>1 DEF WorkerStep, TakeGame, EnterGame, BeginMove, CreateSearch, Answer, JudgeMove,
            EraseGame, Goto
  <2>3. Unreporting' = Unreporting /\ Counting' = Counting
    BY <2>2, <1>3 DEF Unreporting, Unreported, Counting
  <2>4. \A r \in {"WIN", "LOSE"} : Tallying(r)' = Tallying(r) /\ ReportedAs(r)' = ReportedAs(r)
    BY <2>1, <2>2, <1>3 DEF Tallying, ReportedAs
  <2>5. ResultsAddUp'
    BY <2>1, <2>4, <1>2 DEF ResultsAddUp
  <2>6. BegunAreReported'
    BY <2>1, <2>3, <1>2, <1>4 DEF BegunAreReported
  <2>7. QED
    BY <2>5, <2>6
<1>13. QED
  BY <1>8, <1>9, <1>10, <1>11, <1>12

\* The results are those of the games reported, whoever else moves.
LEMMA ResultsStep ==
  ASSUME IInv, [Next]_vars
  PROVE  ResultsAddUp' /\ BegunAreReported'
<1>1. CASE OtherStep
  <2>1. game \in [Worker -> Game]
    BY DEF IInv, TypeOK, Game
  <2>2. \A v \in Worker : game'[v].result = game[v].result
    BY <2>1, <1>1, OthersAbort, AbortedFields
  <2>3. /\ pc' = pc /\ reported' = reported /\ results' = results /\ gamesCount' = gamesCount
        /\ abort => abort'
    <3>1. CASE Worker = {}
      BY <1>1 DEF OtherStep, OwnerStep, Finish, DestructorAborts, CallAbort, BeginAbort, AbortGame, EndAbort,
                  CallStop, Gone, vars, gameVars, abortVars
    <3>2. CASE Worker # {}
      BY <3>2, <1>1, OthersAbort
    <3>3. QED
      BY <3>1, <3>2
  <2>4. Unreporting' = Unreporting /\ Counting' = Counting
    BY <2>3 DEF Unreporting, Unreported, Counting
  <2>5. \A r \in {"WIN", "LOSE"} : Tallying(r)' = Tallying(r) /\ ReportedAs(r)' = ReportedAs(r)
    BY <2>2, <2>3 DEF Tallying, ReportedAs
  <2>6. ResultsAddUp'
    BY <2>3, <2>5 DEF IInv, ResultsAddUp
  <2>7. BegunAreReported'
    BY <2>3, <2>4 DEF IInv, BegunAreReported
  <2>8. QED
    BY <2>6, <2>7
<1>2. QED
  BY <1>1, CountsStep, WhoSteps

-----------------------------------------------------------------------------
\* A status is sent with every game that is counted; the last one when all threads
\* are done, so that what it says does not change any more.
LEMMA StatusesStep ==
  ASSUME IInv, [Next]_vars
  PROVE  StatusesKept' /\ FinalIsComplete'
<1>1. /\ game \in [Worker -> Game] /\ pc \in [Worker -> Place] /\ gamesCount \in Nat
      /\ results \in [{"WIN", "LOSE"} -> Nat] /\ statuses \in Seq(Status)
      /\ owner \in {"run", "ran", "wait", "gone"}
  BY DEF IInv, TypeOK, Game, Place, Status
<1>2. /\ owner # "run" => \A w \in Worker : pc[w] = "done"
      /\ owner \in {"wait", "gone"} => abort
      /\ owner = "run" => /\ \A i \in DOMAIN statuses : ~statuses[i].finished
                         /\ Len(statuses) = results["WIN"] + results["LOSE"]
  BY DEF IInv, StatusesKept
<1>3. \A i \in DOMAIN statuses :
        /\ statuses[i].finished => /\ i = Len(statuses) /\ Len(reported) = gamesCount
                                   /\ caller = "idle"
                                   /\ statuses[i].results["WIN"] + statuses[i].results["LOSE"] = gamesCount
        /\ ~statuses[i].finished => statuses[i].results["WIN"] + statuses[i].results["LOSE"] = i
  BY DEF IInv, FinalIsComplete
<1>4. Len(statuses) \in Nat /\ results["WIN"] \in Nat /\ results["LOSE"] \in Nat
  BY <1>1
<1>11. caller # "idle" => abort
  BY DEF IInv, MutexHeld
<1>5. ASSUME NEW w \in Worker, WorkerStep(w)
      PROVE  StatusesKept' /\ FinalIsComplete'
  <2>1. pc[w] # "done" /\ owner' = owner
    BY <1>5, <1>1 DEF WorkerStep, TakeGame, EnterGame, BeginMove, CreateSearch, Answer, JudgeMove, ReportGame,
           TallyGame, EraseGame
  <2>2. owner = "run" /\ owner' = "run"
    BY <2>1, <1>2
  <2>3. CASE TallyGame(w)
    <3>1. /\ results' = [results EXCEPT ![game[w].result] = @ + 1] /\ pc[w] = "tally"
          /\ statuses' = Append(statuses, TournamentInfo(FALSE, results'))
      BY <2>3 DEF TallyGame
    <3>2. game[w].result \in {"WIN", "LOSE"}
      BY <3>1, <1>1 DEF IInv, GamesAtPlace, GameAtPlace, Game, Result
    <3>3. results'["WIN"] + results'["LOSE"] = results["WIN"] + results["LOSE"] + 1
      BY <3>1, <3>2, <1>1
    <3>4. /\ ~TournamentInfo(FALSE, results').finished /\ TournamentInfo(FALSE, results').results = results'
          /\ TournamentInfo(FALSE, results') \in Status
      BY TypeStep DEF TournamentInfo, TypeOK, Status
    <3>5. /\ Len(statuses') = Len(statuses) + 1 /\ DOMAIN statuses' = 1 .. Len(statuses) + 1
          /\ DOMAIN statuses = 1 .. Len(statuses)
          /\ \A i \in 1 .. Len(statuses) : statuses'[i] = statuses[i]
          /\ statuses'[Len(statuses) + 1] = TournamentInfo(FALSE, results')
      <4> DEFINE status == TournamentInfo(FALSE, results')
      <4>1. statuses \in Seq(Status) /\ status \in Status
        BY <3>4, <1>1
      <4>2. statuses' = Append(statuses, status)
        BY <3>1
      <4> HIDE DEF status
      <4>3. /\ Len(statuses') = Len(statuses) + 1 /\ DOMAIN statuses' = 1 .. Len(statuses) + 1
            /\ DOMAIN statuses = 1 .. Len(statuses)
            /\ \A i \in 1 .. Len(statuses) : statuses'[i] = statuses[i]
            /\ statuses'[Len(statuses) + 1] = status
        BY <4>1, <4>2, StatusSent
      <4>4. QED
        BY <4>3 DEF status
    <3>6. ASSUME NEW i \in DOMAIN statuses'
          PROVE  /\ ~statuses'[i].finished
                 /\ statuses'[i].results["WIN"] + statuses'[i].results["LOSE"] = i
      <4>1. CASE i \in 1 .. Len(statuses)
        BY <4>1, <3>5, <2>2, <1>2, <1>3
      <4>2. CASE i = Len(statuses) + 1
        BY <4>2, <3>3, <3>4, <3>5, <2>2, <1>2
      <4>3. QED
        BY <4>1, <4>2, <3>5, <1>4
    <3>7. StatusesKept'
      BY <3>3, <3>5, <3>6, <2>2, <1>2 DEF StatusesKept
    <3>8. QED
      BY <3>6, <3>7 DEF FinalIsComplete
  <2>4. CASE ~TallyGame(w)
    <3>1. statuses' = statuses /\ results' = results
      BY <1>5, <2>4 DEF WorkerStep, TakeGame, EnterGame, BeginMove, CreateSearch, Answer, JudgeMove,
              ReportGame, EraseGame
    <3>2. StatusesKept'
      BY <3>1, <2>2, <1>2 DEF StatusesKept
    <3>3. FinalIsComplete'
      BY <3>1, <2>2, <1>2, <1>3 DEF FinalIsComplete
    <3>4. QED
      BY <3>2, <3>3
  <2>5. QED
    BY <2>3, <2>4
<1>6. ASSUME Finish("run", "ran")
      PROVE  StatusesKept' /\ FinalIsComplete'
  <2>1. /\ owner = "run" /\ owner' = "ran" /\ pc' = pc /\ \A w \in Worker : pc[w] = "done"
        /\ gamesCount' = gamesCount /\ reported' = reported /\ caller' = caller
        /\ statuses' = statuses \o IF SendsFinal THEN <<TournamentInfo(TRUE, results)>> ELSE <<>>
    BY <1>6 DEF Finish
  <2>2. StatusesKept'
    BY <2>1 DEF StatusesKept
  <2>3. CASE ~SendsFinal
    <3>1. statuses' = statuses
      BY <2>1, <2>3, <1>1
    <3>2. QED
      BY <3>1, <2>1, <2>2, <1>3 DEF FinalIsComplete
  <2>4. CASE SendsFinal
    <3>1. /\ TournamentInfo(TRUE, results).finished = TRUE
          /\ TournamentInfo(TRUE, results).results = results
          /\ TournamentInfo(TRUE, results) \in Status
      BY <1>1 DEF TournamentInfo, Status
    <3>2. /\ Len(statuses') = Len(statuses) + 1 /\ DOMAIN statuses' = 1 .. Len(statuses) + 1
          /\ DOMAIN statuses = 1 .. Len(statuses)
          /\ \A i \in 1 .. Len(statuses) : statuses'[i] = statuses[i]
          /\ statuses'[Len(statuses) + 1] = TournamentInfo(TRUE, results)
      <4> DEFINE status == TournamentInfo(TRUE, results)
      <4>1. statuses \in Seq(Status) /\ status \in Status
        BY <3>1, <1>1
      <4>2. statuses' = Append(statuses, status)
        BY <2>1, <2>4, <3>1, <1>1, AppendIsConcat
      <4> HIDE DEF status
      <4>3. /\ Len(statuses') = Len(statuses) + 1 /\ DOMAIN statuses' = 1 .. Len(statuses) + 1
            /\ DOMAIN statuses = 1 .. Len(statuses)
            /\ \A i \in 1 .. Len(statuses) : statuses'[i] = statuses[i]
            /\ statuses'[Len(statuses) + 1] = status
        BY <4>1, <4>2, StatusSent
      <4>4. QED
        BY <4>3 DEF status
    <3>3. Unreporting = {} /\ Counting = {}
      BY <2>1 DEF Unreporting, Unreported, Counting
    <3>4. Cardinality(Unreporting) = 0 /\ Cardinality(Counting) = 0
      BY <3>3, CountNone
    <3>5. Len(reported) = gamesCount /\ results["WIN"] + results["LOSE"] = gamesCount
      <4>1. Len(reported) \in Nat
        BY DEF IInv, TypeOK
      <4>2. ~abort
        BY <2>4 DEF SendsFinal
      <4>3. QED
        BY <4>1, <4>2, <3>4, <1>1, <1>4 DEF IInv, BegunAreReported
    <3>6. \A i \in 1 .. Len(statuses) :
            ~statuses'[i].finished /\ statuses'[i].results["WIN"] + statuses'[i].results["LOSE"] = i
      BY <3>2, <2>1, <1>2, <1>3
    <3>7. ASSUME NEW i \in DOMAIN statuses', i \notin 1 .. Len(statuses)
          PROVE  /\ i = Len(statuses') /\ statuses'[i].finished
                 /\ statuses'[i].results["WIN"] + statuses'[i].results["LOSE"] = gamesCount
      <4>1. i = Len(statuses) + 1
        BY <3>7, <3>2, <1>4
      <4>2. QED
        BY <4>1, <3>1, <3>2, <3>5
    <3>8. FinalIsComplete'
      <4>1. caller' = "idle"
        BY <2>1, <2>4, <1>11 DEF SendsFinal
      <4>2. QED
        BY <4>1, <3>5, <3>6, <3>7, <2>1 DEF FinalIsComplete
    <3>9. QED
      BY <3>8, <2>2
  <2>5. QED
    BY <2>3, <2>4
<1>7. CASE DestructorAborts
  <2>1. /\ owner = "ran" /\ owner' = "wait" /\ abort' = TRUE
        /\ UNCHANGED <<pc, statuses, gamesCount, reported, caller>>
    BY <1>7 DEF DestructorAborts
  <2>2. QED
    BY <2>1, <1>2, <1>3 DEF StatusesKept, FinalIsComplete
<1>8. ASSUME Finish("wait", "gone")
      PROVE  StatusesKept' /\ FinalIsComplete'
  <2>1. /\ owner = "wait" /\ owner' = "gone" /\ UNCHANGED <<pc, gamesCount, reported, caller>> /\ abort' = abort
        /\ statuses' = statuses \o IF SendsFinal THEN <<TournamentInfo(TRUE, results)>> ELSE <<>>
    BY <1>8 DEF Finish, abortVars
  <2>2. abort /\ ~SendsFinal
    BY <2>1, <1>2 DEF SendsFinal
  <2>3. statuses' = statuses
    BY <2>1, <2>2, <1>1
  <2>4. abort'
    BY <2>1, <2>2, Zenon
  <2>5. QED
    BY <2>1, <2>3, <2>4, <1>2, <1>3 DEF StatusesKept, FinalIsComplete
<1>9. CASE CallAbort \/ CallStop \/ Gone \/ UNCHANGED vars
  <2>1. UNCHANGED <<owner, pc, statuses, results, gamesCount, reported>>
    BY <1>9 DEF CallAbort, BeginAbort, AbortGame, EndAbort, CallStop, Gone, vars, gameVars
  <2>2. abort' \/ abort' = abort
    BY <1>9 DEF CallAbort, BeginAbort, AbortGame, EndAbort, CallStop, Gone, vars, abortVars
  <2>3. abort => abort'
    BY <2>2, Zenon
  <2>4. \A i \in DOMAIN statuses : statuses[i].finished => caller' = caller
    <3>1. owner = "run" \/ caller' = caller \/ caller # "idle"
      BY <1>9 DEF CallAbort, BeginAbort, AbortGame, EndAbort, CallStop, Gone, vars
    <3>2. QED
      BY <3>1, <1>2, <1>3
  <2>5. QED
    BY <2>1, <2>3, <2>4, <1>2, <1>3 DEF StatusesKept, FinalIsComplete
<1>10. QED
  BY <1>5, <1>6, <1>7, <1>8, <1>9 DEF Next, OwnerStep
-----------------------------------------------------------------------------
LEMMA NextIInv == IInv /\ [Next]_vars => IInv'
  BY TypeStep, MutexStep, AbortedSoFarStep, NumbersStep, GamesStep, ResultsStep, StatusesStep DEF IInv

LEMMA IInvInvariant == Spec => []IInv
  BY InitIInv, NextIInv, PTL DEF Spec

\* For any finite set of threads and any limit the variables keep their types, and
\* no more games are begun than there should be.
THEOREM TypeCorrect == Spec => []TypeOK
<1>1. IInv => TypeOK
  BY DEF IInv
<1>2. QED
  BY <1>1, IInvInvariant, PTL

\* No two games have a number, and no game is reported twice.
THEOREM NumbersAreUniqueHolds == Spec => []NumbersAreUnique
<1>1. IInv => NumbersAreUnique
  BY DEF IInv
<1>2. QED
  BY <1>1, IInvInvariant, PTL

\* The results are those of the games reported, but for those on the way.
THEOREM ResultsAddUpHolds == Spec => []ResultsAddUp
<1>1. IInv => ResultsAddUp
  BY DEF IInv
<1>2. QED
  BY <1>1, IInvInvariant, PTL

\* The last status comes last, is complete, and comes only if nobody called Abort or
\* Stop: SelfPlayTournament::Wait.
THEOREM FinalIsCompleteHolds == Spec => []FinalIsComplete
<1>1. IInv => FinalIsComplete
  BY DEF IInv
<1>2. QED
  BY <1>1, IInvInvariant, PTL

\* No aborted game has a search that goes on.
THEOREM AbortedGameDoesNotSearchHolds == Spec => []AbortedGameDoesNotSearch
<1>1. IInv => AbortedGameDoesNotSearch
  BY DEF IInv
<1>2. QED
  BY <1>1, IInvInvariant, PTL

\* Abort reaches every game but those whose thread had a number and had not listed
\* the game.
THEOREM AbortedOrEscapedHolds == Spec => []AbortedOrEscaped
<1>1. IInv => AbortedOrEscaped
  BY DEF IInv, MutexHeld, AbortedSoFar, AbortedOrEscaped
<1>2. QED
  BY <1>1, IInvInvariant, PTL
=============================================================================
