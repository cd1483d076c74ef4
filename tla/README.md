# p0 in TLA+

p0 is a Sokoban engine that learns by playing itself: a Monte-Carlo tree
search with several threads, a self-play tournament that runs many games, and
a small command loop in the manner of UCI. This directory models it in TLA+,
checks the models with TLC and proves the results that hold for every size of
the system with TLAPS. `PROJECT.json` says which lines of the source each
definition stands for. Paths below are those of the repository.

## 1. The system

| component | state it keeps | operations | with whom it interacts |
|---|---|---|---|
| Sokoban rules (`soko/board.cc`, `bitboard.h`) | walls, targets, boxes, the pusher: four bitsets of 400 squares | `SetFromFen`, `GenerateLegalMoves`, `ApplyMove`, `IsEnd`, `IsStuck` | called by the history and the search |
| Position history (`soko/position.cc`) | boards played, each with a repetition count | `Reset`, `Append`, `Trim`, `ComputeGameResult` | one in the tree; a copy in every worker, cut and regrown for each expansion |
| Tree of nodes (`mcts/node.cc`, `node.h`) | nodes owned by `child_` and `sibling_`, first node, head, history | `ResetToPosition`, `MakeMove`, `TrimTreeAtHead`, `DeallocateTree`, `GetOrSpawnNode`, `CreateEdges` | game and engine move along it, a search grows it, subtrees go to the collector |
| Node garbage collector (`mcts/node.cc`) | a queue of subtrees, a stop flag, a thread | `AddToGcQueue`, the thread's loop, the destructor | destroys nodes with no mutex held |
| Search tree (`mcts/search.cc`, `SearchWorker`) | visits, visits in flight and values of the nodes; a minibatch per worker | gather, expand, evaluate, back up | workers share the tree under `nodes_mutex_`, and expand outside it |
| Search control (`mcts/search.cc`, `Search`) | `stop_`, `bestmove_is_sent_`, `final_bestmove_`, `threads_`, three mutexes | start, watchdog, `Stop`, `Abort`, `Wait`, `GetBestMove`, destructor | watchdog, workers, owner, callers of `Abort`; calls back with the move |
| Self-play tournament (`selfplay/tournament.cc`) | number of games, list of games, results, `abort_` | constructor, worker loop, `PlayOneGame`, `Abort`, `Stop`, `Wait`, destructor | threads that play; callbacks to the loop |
| Self-play game (`selfplay/game.cc`) | tree, search, `abort_`, result | `Play`, `Abort`, `GetMoves` | asks the history for its result and the search for a value and a move |
| Options (`utils/optionsparser.cc`, `optionsdict.h`, `commandline.cc`) | flags with ranges, the values set, the defaults | `ProcessAllFlags`, `Get`, `Set` | tournament, search parameters and network factory declare options and read them once |
| Self-play loop (`selfplay/loop.cc`) | none in use | `SendGameInfo`, `SendTournament` | writes what the tournament reports |
| UCI engine (`engine.cc`, `soko/uciloop.cc`) | tree, network, one search | `go`, `quit`, errors, the destructor | reads lines; the watchdog of its search writes as well |
| Locks (`utils/mutex.h`) | | | wrap the standard ones |
| Network (`neural/`) | none | hashes as values | called by the workers |
| Encoder, training records, utilities | | | conversions, input and output |

### What is hard about it

* **Interleaving.** A worker makes the edges of a node with no lock held; what
  makes this sound is the virtual loss: a node without visits that is in
  flight turns every other worker away. Results are fetched outside the lock
  and backed up later. The collector's thread destroys nodes while the game
  goes on.
* **Order.** The best move is announced by the watchdog, the tree goes on
  changing until the join, and the game then asks for the move.
* **Races to end a search.** Deadline, `Stop`, `Abort` and the destructor use
  the same two flags. Games are listed, aborted, reported and erased in
  critical sections of their own.
* **Two judges.** The search and the game have rules of their own about a
  repeated board, and a game can be decided by the value of a search that was
  stopped at any visit.
* **Liveness.** The join waits for every thread; `GatherMinibatch` looks at
  `stop_` only between visits; the watchdog spins on two mutexes; a game has no
  limit on moves.
* **Accounting.** Unsigned counters are taken back in two places; visits of
  children must add up to those of the parent; results to the games reported.
* **Failure.** A search stopped early has no best move, and no training
  record. Numbers that do not fit an `int` end the program.
* **Bit boards.** Nothing but the walls keeps look-ups inside 400 bits.

Nothing is stored that the program reads again, and no messages are exchanged,
so crash recovery and unreliable delivery do not arise.

### What makes each part correct

* Rules: the board stays one the bitsets can hold, boxes are kept, a move that
  is listed can be made, there is always a move, a stuck box stays.
* History: counts are the numbers of occurrences, in both histories; a worker's
  history continues the game's.
* Game: only legal moves of an undecided game are made, a result has a reason in
  the position, a game ends.
* Options: a setting is what the last flag for it says, within its range; the
  first bad argument ends the program, nothing else but a missing movetime does,
  and no tournament starts past either.
* Nodes: each has one owner; lists of children are sorted by edge; the moves
  read off the nodes are the moves played; to the outside there is only a tree
  of moves.
* Search tree: visits in flight are those the workers hold; the expanding
  worker is alone; visits add up; values add up, and are not out of date when
  they are backed up; a stop ends all.
* Search control: one announcement, of the move that is played; none after an
  abort; nobody left after the join; the search ends.
* Tournament: numbers are given once; results add up; the last status is
  complete and is not sent after an abort; aborted games do not search; everything
  is joined.
* Engine: one search at a time and never without its tree; answers in order;
  the input is read on.

## 2. Modules

| module | what it is | composes / implements |
|---|---|---|
| `SokoBoard` | boards, moves, end and stuck check as operators | |
| `SokoMoves` | any sequence of legal moves from a level | `SokoBoard` |
| `SokoGame` | the history of a game and of a search worker | `SokoBoard` |
| `SelfPlay` | whole games, each move with the search that decides it | `SokoGame`, whose histories it plays |
| `Options` | a command line, the parser, the tournament's constructor | |
| `SearchTree` | the tree as the workers change it | its MC module gets the tree from `SokoGame` |
| `Search` | threads, flags and mutexes of a search | implements `BestMovePromise` |
| `BestMovePromise` | abstract: one answer or an abort, and the move asked for | used by `Tournament` and `Engine` as what a search is |
| `NodeTree` | nodes in memory and the collector | implements `PathTree` |
| `PathTree` | abstract: a tree of moves and the game's line in it | |
| `Tournament` | threads, games, abort, reports | searches as in `BestMovePromise` |
| `Engine` | command loop and `EngineController` | searches as in `BestMovePromise` |
| `MC*` | values of the constants for TLC, no more | |
| `*Proofs` | theorems of the module they extend | |

### How state and actions correspond

**SokoBoard, SokoMoves.** A board is the set of boxes and the square of the
pusher; walls and targets never change and are constants. Squares are the
numbers `row * 20 + col`. `LegalMove` is the test `GenerateLegalMoves` makes in
each direction, `ApplyMove` the update. `InCorner` and `PairedAlongWall` are
the two tables of checks in `IsStuck`. `LevelAssumption` says what a level of
the program is: closed by walls within the bitset. `SetFromFen` is not modelled: the
level it reads is given by the constants.

**SokoGame.** `played` is `NodeTree::history_`, `probe` the `history_` of a
worker. `ComputeLastMoveRepetitions` keeps the code's short cut (the nearest
equal board and its count). `Verdict` is how `ExtendNode` judges a position (lost
at the first repetition), `ComputeGameResult` how the game does (at the second).

**SelfPlay.** One action per visit of the search and one per decision of
`Play`. The search is what the decision reads of it: the root (`new`, `terminal`
or with edges), visits and averages of its children. Which child is visited and
what its average comes to is open, so that every way a selection could go is
covered; a child with a verdict has the value of the verdict. `MaybeTriggerStop`
may come at any time, before the first visit as well. `Judge`, `PlayBestMove` and
`Terminate` are the three ways out of a search: a value of exactly 1.0 or -1.0
decides the game, otherwise the announced move is made, and there are two ways
for the program to end (the findings on `training_data` and `played_move`).

**Options.** An argument is what the parser tells apart: its form, the flag, a
context, and a text that is a number (in tenths) or a word. `SetOrThrow` is what
the four types of options do with a value; an exception leaves `main`, for nothing
catches it. `OptionTable` is what `PopulateOptions` declares.

**SearchTree.** The tree the search can reach is a constant (`Node`, `Path`,
`Kids`, `Outcome`), the counters are variables. A step is a stretch of code under
one lock or outside any: `PickCollision` and `PickVisit` are
`PickNodeToExtend` with what `GatherMinibatch` does with its result,
`ExtendNode` is the expansion without a lock, `GatherOn` the loop condition,
`Evaluate` the network and the fetching of results, `DoBackupUpdate` the backup of
the whole minibatch under the lock. The running average `q_` is kept as an exact
sum, `total`: the average times the visits, or times one before the first visit,
when `q_` may already be the verdict of `MakeTerminal` (`Weight`, `GetQ`); the first
visit does not count what was there before (`Earned`). As in the code a ticket that
asked nothing of the network gets `GetQ()` of its node in `Evaluate`, outside the
lock, and `DoBackupUpdate` reads it of a terminal node once more, inside (`Worth`).
That float arithmetic rounds is left out. Selection is by
value alone: `p_` is an integer type in the code, so that every prior is 0 and
`U` with it. `FireStop` may come at any time.

**Search.** `pc` says where each thread is between two operations on a lock or
an atomic. The tree is reduced to what the decision reads: the root's edges
(`"partial"` while `EdgeList` has assigned the pointer and not the size), its
visits, and its children's. The watchdog takes `nodes_mutex_` and
`counters_mutex_` in two steps. The owner is the game: it starts, joins, asks and
destroys. One more thread may call `Stop` or `Abort` at any time.

**NodeTree, PathTree.** `heap` maps the addresses in use to nodes; a new node
takes any free address, used before or not. `Spawned` is `GetOrSpawnNode` with
the position `Actualize` has walked to. `Owned` is what a `unique_ptr` destroys:
the least set with the node that neither `child_` nor `sibling_` leaves. `TrimTreeAtHead` and
`ResetToPosition` are whole: queue, new node, siblings put back, moves replayed.
The collector looks at its flag, takes and destroys in separate steps. The refinement
reads the moves off the nodes as `SelfPlayGame::GetMoves` does.

**Tournament.** One action for each critical section or stretch without a lock
of `Worker`, `PlayOneGame` and `Play`. A game's mutex is held for one step at most, the
tournament's only by `Abort`, which walks the list in `AbortGame` steps.
`reported` and `statuses` are the lines `SelfPlayLoop` writes. How a position is
judged is open here; `SelfPlay` has it. It is assumed that a search has gone beyond its first
visit when training is on: see the finding on `training_data`.

**Engine.** `Effect` is `ParseCommand`, `GetNumeric` and `DispatchCommand`: a line
is ignored, refused with an error, starts a search, ends the loop or ends the
program (`std::out_of_range` is not an `Exception` of the program's). `Go` is cut
where the old search can act: the new one is made, the old one is aborted and
joined by the assignment, the new threads are started.

## 3. Runs

| run | distinct states | instance | what it shows |
|---|---|---|---|
| `soko_moves` | 146 | a closed room with a pillar, two boxes | whatever is played, boxes are kept, look-ups stay in range, a move remains, stuck boxes stay |
| `soko_game` | 262 | a square to walk round in, one box, probes of depth 3 | counts agree with occurrences in both histories, search paths never repeat a board |
| `self_play` | 45,315 | a room of two rows with one box, 4 visits of the root per search, training or not | every result has a reason, no board is there for the third time, only legal moves of undecided games are made, games end |
| `options` | 71,656 | all command lines of at most 3 out of 29 arguments | every setting is the last flag's or the default, within its range; the first bad argument or a missing movetime, and nothing else, keeps a tournament from starting |
| `search_tree` | 25,300 | the real tree of that level, 2 workers, minibatches of 2, 4 visits | accounting, lock-free expansion, visits and values survive all interleavings; a stop ends the workers |
| `search` | 124,576 | 2 workers, watchdog, owner, caller | announcement, abort, join and destruction in all interleavings; the promise is kept |
| `node_tree` | 102,638 | 4 addresses, 3 moves per position, games of 2 moves | one owner each, sorted lists, and the refinement of `PathTree` |
| `tournament` | 430,362 | 2 threads, 3 games of one move at most, one call of `Abort` or `Stop` | numbers, results, reports, aborts and the end; no last status after an abort |
| `engine` | 31,135 | 5 lines of 26 kinds, 3 searches | no two searches at once, answers in order, no command blocks |

Three runs end in a violation; each is a disagreement between the code and a
text of the repository:

* `played_move`: with a deadline that is over at once the watchdog announces
  the default move `up` before the root has edges, the worker then makes them, and
  `MakeMove` runs into `assert(!edges_)` of `CreateSingleChildNode`.
* `end_position`: the board of the test `IsEndBoard`, one move from its end, is
  one `IsStuck` gives up, because of boxes that stand in corners, on their targets. The level the
  program ships has two such targets (`CornerTargetsCannotBeFilled` is the
  theorem): no game on it is won.
* `training_data`: a search stopped within its first iteration leaves a tree
  for which `GetV4TrainingData` throws "Search generated invalid data!", out of the
  game's thread.

### Bounds, and why they are enough

Every bound is a constant that says so. Two workers give every race between a
worker and another one; minibatches of two make a worker hold two tickets, so
that it collides with itself as well as with the other; four visits of the root
reach nodes of depth three and terminal nodes visited again. In `Search`
two visits give the children a best and a tie. In `NodeTree` four addresses are
all in use and all used again; three moves let a child come before, between
and after others; two subtrees can wait for the collector. In `Tournament` three
games for two threads let one thread play twice and both be ahead. In `Engine`
three searches let a `go` come before, while and after the search before
answers, and one more follow. `SokoGame` and `SelfPlay` need no bound on the length of a game: repetitions end it.
In the room of `SelfPlay` the pusher can walk round, bring the box home and push
it into a corner, so that every kind of verdict is met, by the game and by the
search; four visits let a child without visits be announced and overtaken before
the join. Its averages are 1.0, -1.0 and one between. Three arguments let a flag
be given twice, with something between that may or may not be its value.

`node_tree` uses symmetry over the addresses, which is sound for its invariants
and for the step-wise refinement: addresses are compared and nothing else, and
no liveness is checked with it.

### Fairness

* `SearchTree`: weak fairness per worker; the operating system runs it, and a
  step is never disabled by another worker for good.
* `Search`, `Tournament`: strong fairness for steps that take a mutex: a thread
  that waits for a mutex that is free again and again gets it. `std::mutex`
  does not promise this in its standard, schedulers give it in practice; the
  watchdog of the code, which takes two mutexes against busy workers, needs it.
  Weak fairness for the deadline, which passes. No caller is forced to abort.
* `Engine`: weak fairness for the main thread's steps other than reading, and for
  the searches; that they end is `SearchEnds` of `Search`. Input may stop.
* `SelfPlay`: some thread of the game runs (weak fairness of the whole step
  relation). That is enough for `PlayEnds` because the deadline is enabled
  until it has come and visits are bounded.
* `SokoMoves`, `SokoGame`, `NodeTree`, `Options`: none, only safety is checked.

## 4. Theorems

| module | proved for every ... | results |
|---|---|---|
| `SokoMovesProofs` | closed level | `TypeCorrect`, `NoSquareOutOfRangeHolds`, `BoardConsistentHolds`, `NeverBlockedHolds`, `StuckBoxesStayHolds`, `CornerTargetsCannotBeFilled` |
| `GameProofs` (of `SokoGame`) | closed level and depth | `TypeCorrect`, `RepetitionsCountHolds`, `ProbeContinuesGameHolds`, `SearchPathsDoNotRepeatHolds`, `GameFollowsTheRules`, `GamesKeepTheRules` |
| `GameProofs` (of `SelfPlay`) | closed level, set of averages and estimates, number of visits | `PlayIsAGame`, `NoBoardThreeTimesHolds`, `PlaysByTheRulesHolds`, `ResultsAreExplainedHolds` |
| `SearchTreeProofs` | tree, set of workers, size of minibatch | `TypeCorrect`, `InFlightAccountedHolds`, `ExtendsAloneHolds`, `NothingLeftBehind`, `VisitsAddUpHolds`, `ValuesAddUpHolds` |
| `SearchProofs` | finite set of workers, set of edges | `TypeCorrect`, `AnnouncedOnceHolds`, `PlaysWhatWasAnnouncedHolds`, `JoinedAloneHolds`, `SilentAfterAbortHolds`, `RefinesPromise` |
| `NodeTreeProofs` | finite set of addresses, lists of moves, length of games and of the queue | `TypeCorrect`, `OneOwnerHolds`, `SiblingsOrderedHolds`, `MovesAreHistoryHolds`, `NodesAreAPathTree` |
| `TournamentProofs` | finite set of threads, number of games | `TypeCorrect`, `NumbersAreUniqueHolds`, `ResultsAddUpHolds`, `FinalIsCompleteHolds`, `AbortedGameDoesNotSearchHolds`, `AbortedOrEscapedHolds` |
| `EngineProofs` | number of lines and searches | `TypeCorrect`, `OneSearchAtATimeHolds`, `AnswersInOrderHolds` |
| `OptionsProofs` | set of arguments, length of the command line | `OptionsTypeCorrect`, `SettingsFollowTheFlags`, `FlagsDecideHolds` |

Each goes by an inductive invariant `IInv` of named parts, with one step per
action.

* **Moves.** The pusher and the boxes stand on floor (`OnFloor`), and floor has
  only floor and walls around it; a step or a push looks at most two squares
  away, and the second one only past a box, which stands on floor. A stuck box
  has a wall or another stuck box at one end of each axis; neither moves first.
* **Game.** Each count is the number of earlier equal boards: the nearest equal
  board has the count of all but itself. The probe begins with the game and its
  part beyond the head has no repetition, for a position with one is terminal and
  is not expanded further. `SokoGame` implements `SokoMoves` with the last board of
  the game for the board: the game and its workers make legal moves only, and the
  probe leaves the game's board alone. So what is proved of any sequence of legal
  moves is proved of games (`GamesKeepTheRules`).
* **Self-play.** A move is made only from a head the search has given edges,
  which the search does not do for a repeated board: all boards before the last
  one are new (`FreshSoFar`), so that the last one has been there once at most.
  With that each move is one of `SokoGame`, whose theorems then hold of games. For
  the results: a child with visits has its verdict's value (`ChildrenAreValued`), the
  comparison of children is a total order, so that the best one exists and has the
  most visits (`BestChild`), and a root valued by its own estimate has visited
  none of them.
* **Search tree.** `InFlightAccounted` alone is not inductive: that a counter never
  goes below zero needs that what is released was held, and that held sets are
  finite (`FinitelyHeld`). `ExtendsAlone` needs that a node without visits has one
  first visit in all minibatches (`OneFirstVisit`), that the expanding worker is
  at its last ticket (`ExtendsLast`), and that what was backed up, what is above a
  ticket and what is held has been resolved (`VisitedIsResolved`,
  `AboveIsExpanded`, `HeldIsResolved`). The lock is what makes
  a descent one step; the virtual loss is what the proof uses beyond that.
  `VisitsAddUp` goes by a second invariant on top of the first
  (`AddUpInv`). A node that was expanded has been visited (`ExpandedIsVisited`), and so
  is all that is above a ticket (`AboveIsVisited`), but a worker that holds the first
  visit of a node to be expanded holds no other visit of it (`OneVisitOfItsOwn`,
  `Exclusive`). So a minibatch that is backed up either holds one visit of a node, its
  first (`FirstVisitAlone`), or each of its visits is below exactly one child,
  because a path is one line (`LaterVisitsBelow`): the visits of the children
  grow by as much as those of the node. Sums are those of the community module
  `Functions`, which are defined by recursion on sets; that the recursion defines
  them is proved first (`SumsExist`, `SumStep`), and then that a sum over a union
  of disjoint parts is the sum of the parts' sums (`SumOfParts`).
  `ValuesAddUp` goes by a third (`WorthInv`): a node a ticket asks the network about
  has edges and any other is terminal (`QueriedIsExpanded`), the average of a
  terminal node is its verdict whatever is backed up (`TerminalKept`,
  `BackupTerminal`), so that what was fetched without the lock is what is read in it
  (`FetchedIsCurrent`); and a backup adds the same to a node with edges as to its
  children together, but for the first visit, which adds one answer of the network
  (`EarnedAddUp`, by `FirstGain` and `LaterGain`).
* **Search.** Who holds which mutex follows from where threads are
  (`MutexesHeld`); the flag goes up with the answer or with an abort
  (`SentKept`); the owner's move is read when it is settled (`GotKept`);
  `threads_` holds those that were started and not joined (`ThreadsKept`). Then
  every step is a step of the promise or stutters.
* **Nodes.** The heap is a forest with a root per owner outside it (`Forest`): no two
  pointers are to one node, none to a root, every other node has one, and no set
  of nodes is held by itself (`NoCycle`), which is what lets a list of children end
  within the number of nodes (`ChildListIs`) and a destructor leave nothing
  (`IInvGone`). A new node keeps all this wherever it is hung in (`Hang`), a release
  takes a root with its closure, trimming makes a root of the child; and the head
  stays in what the first node owns, so that no trimming can give away a node of
  the collector's. For the order, pointers say what lists do (`SiblingOrder`): a
  sibling has the same parent and a higher edge. What `Actualize` passes is a
  beginning of the list (`PassedIsPrefix`), so that a new node comes between a
  lower and a higher edge (`SpawnInOrder`); after trimming no node that is left can
  have the head as parent, for such nodes would hold each other (`TrimInOrder`).
  The played moves are a line of nodes from the first node to the head, none twice
  (`HasLine`, `LineIsInjective`): nodes and edges that were made are not changed
  (`KeptNodes`), a move makes the line longer (`MoveOnLine`), trimming empties its
  last node only, and reading it from its end gives the history (`PathOfLine`).
  For the refinement of `PathTree` every node of the tree has one such line
  (`EveryNodeHasOneLine`) and no two nodes have the same (`WaysDiffer`): children are
  found by their edge (`NodeOfIs`), and lists of edges have no move twice. So the
  nodes stand for a tree of moves (`TreeOf`, `NodesReadAs`), and the rest says what a
  change of the nodes is in it: new edges are those of one line of moves
  (`EdgesInTree`), a node hung in anywhere in a list is one line more (`HungInTree`,
  `SpawnedInTree`), trimming takes what goes on from the head and nothing else
  (`TrimmedTree`), a reset leaves the line of its moves (`LineTreeGrows`,
  `ReplayedIsForest`), and a release takes nothing (`ReleasedTree`). It needs that
  there is a head where there is a tree (`Headed`): the node that was made or passed
  is the one the head is then moved to.
* **Tournament.** Numbers below the count are given (`NumbersBelowCount`); where a
  thread is says what its game is and whether it is listed (`GamesAtPlace`,
  `BegunAreReported`); games that are reported and not counted are those of threads
  on their way to the mutex, one each; `Abort` holds the mutex while it goes
  through the list (`MutexHeld`), and what it has passed is aborted
  (`AbortedSoFar`). The statuses keep the results of their time and the last is sent
  when the threads are gone (`StatusesKept`); nobody who called has left the flag
  down (`MutexHeld`).
* **Engine.** Where the main thread is says what is between two searches
  (`Handover`); a search that has answered is not later than the one in
  `search_` (`Latest`).

* **Options.** The parser never stands on the value of a short flag
  (`NextIsAFlag`): which arguments are values is a recursion along the command line,
  and its solution is that every other argument of a run of short ones is one
  (`OddIs`, `IsValueIs`). What is read is in the range of its option
  (`ReadInRange`), a short flag that is the last argument has nothing to read
  (`ReadNothing`), and names and letters of the table differ (`NamesDiffer`), so
  that an argument changes one setting. An argument that sets one is not in `Faulty`
  and one that ends the program is (`FaultKeeps`, `UnknownKeeps`), so that the end
  of the command line is reached only without a fault; the constructor then reads
  what the last flag of movetime said, or the default -1 (`TimeIsSet`).

### Checked and not proved

Liveness (`PlayEnds`, `StopEndsWorkers`, `SearchEnds`, the liveness part of
`KeepsPromise`, `TournamentEnds`, `EngineGoesOn`): the provers have no rule for
fairness. Every other property of the passing runs is stated by a theorem.

## 5. Not modelled

* `SetFromFen`'s reading, `DebugString`, texts of moves: conversions. The level
  they make is the assumption on the constants.
* Encoder, the files of training records, the network's hashing: data that no
  step of the program reads back; `SearchTree` lets the network return any of
  a few values.
* The configuration file. `OptionsParser` announces "an optional configuration
  file" (`utils/optionsparser.h:95`); nothing calls `ConfigFile::Init`, so there are
  never any flags in it. Contexts, UCI names of options and the text of nested
  dictionaries (`utils/optionsdict.cc`) have no caller either, and the help is
  wording.
* `RpSharedMutex`: the one of the engine is taken by the main thread only, and
  only for reading (twice, in `SetupPosition` and `UpdateFromUciOptions`), so
  that it never waits.
* The rounding of floats: values are integers, so that an average which rounds to
  1.0 or -1.0 is one of the values `SelfPlay` lets an average have.
* The order in which the mutexes of games and searches are taken: each is part of
  one step of `Tournament`. Only the tournament's own mutex is waited for there.
* That the watchdog gets its turn against the workers: it is assumed (see Fairness).
* Data races on plain flags (`abort_` of a game, `edges_` read by the watchdog)
  are modelled as reads that see the value before or after; `Search` splits the
  write of `edges_` in two.
* `current_position_`, `SelfPlayLoop::tournament_`: never set.

Seen, and not stated as a violation: a second `go` gives up the first without a
best move; `uci` is in `kKnownCommands` and is answered by `Unknown command: uci`;
the child whose value decides a game may be another than the move announced and
made; a game with a number that is not listed yet when `Abort` comes is played to
its end (`AbortedOrEscaped` excepts it); a head that repeats a board is a loss to the search and recorded as a win by the
game, since `GetBestEval` negates the root (`ResultsAreExplained` lists it among the
reasons; `NoBoardThreeTimes` shows that the game's own rule never applies).

## 6. Plan

Done: moves and rules, history, search tree, search control and its promise,
nodes and collector, tournament, engine, game with search, options, in this order;
the proofs named above.

What is left:

1. `Tournament` with the failing training record, and the end of the process in it.
2. The encoder: which of the last eight positions a plane shows.
