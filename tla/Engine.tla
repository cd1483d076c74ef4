-------------------------------- MODULE Engine -------------------------------
(***************************************************************************)
(* The program in its uci mode: UciLoop reads commands line by line,       *)
(* EngineController keeps one tree, one network and one search.            *)
(*                                                                         *)
(* A search is what BestMovePromise says of it: it answers once, unless it *)
(* is aborted before, and its threads end after either (SearchEnds and     *)
(* SilentAfterAbort of Search).  Searches are numbered in the order in     *)
(* which they are made.                                                    *)
(***************************************************************************)
EXTENDS Integers, Sequences

CONSTANTS
    Values,   \* what follows a command in the lines read
    MaxGoes,  \* bound: searches made
    MaxLines  \* bound: lines read before the end of the input

ASSUME EngineAssumption ==
    /\ Values \subseteq {"nothing", "stray", "unreadable", "huge", "number"}
    /\ MaxGoes \in Nat /\ MaxLines \in Nat

VARIABLES
    line,     \* the line read last
    lines,    \* how many were read
    main,     \* where the main thread is; "over" after main, "crashed" after terminate
    made,     \* the searches made so far
    search,   \* the search in search_; 0 for nullptr
    phase,    \* for each search: "made", "searching", "answered" or "aborted"
    running,  \* the searches with threads that are not joined
    tree,     \* whether tree_ is set
    network,  \* whether network_ is set
    out       \* the responses written, an error or the best move of a search

loopVars == <<line, lines>>
searchVars == <<made, search, phase, running>>
ownVars == <<tree, network>>
vars == <<loopVars, main, searchVars, ownVars, out>>

Search == 1 .. MaxGoes
Error == <<"error", 0>>
BestMove(k) == <<"bestmove", k>>
Response == {Error} \cup {BestMove(k) : k \in Search}
-----------------------------------------------------------------------------
(***************************************************************************)
(* Lines and what is made of them.                                         *)
(***************************************************************************)
KnownCommands == {"uci", "position", "go", "quit"}

Commands == KnownCommands \cup {"stop"}

Blank == [command |-> "", value |-> "nothing"]

Line == {Blank} \cup [command : Commands, value : Values]

\* ParseCommand throws: the command is unknown, or a token is no key of it.
Unparsed(l) ==
    \/ l.command \notin KnownCommands
    \/ l.value = "stray"
    \/ l.value # "nothing" /\ l.command \notin {"position", "go"}

\* GetNumeric, for the key of the command: its value, or one of two exceptions.
GetNumeric(l) ==
    CASE l.value \in {"nothing", "unreadable"} -> "Exception"
      [] l.value = "huge" -> "out_of_range"
      [] OTHER -> "value"

\* DispatchCommand, and where RunLoop goes then.
Effect(l) ==
    CASE l = Blank -> "reads"
      [] l # Blank /\ Unparsed(l) -> "replies"
      [] l # Blank /\ ~Unparsed(l) /\ l.command = "quit" -> "leaves"
      [] l # Blank /\ ~Unparsed(l) /\ l.command = "uci" -> "replies"
      [] OTHER -> CASE GetNumeric(l) = "Exception" -> "replies"
                    [] GetNumeric(l) = "out_of_range" -> "crashed"
                    [] OTHER -> IF l.command = "go" THEN "goes" ELSE "reads"

Read ==
    /\ main = "reads" /\ lines < MaxLines
    /\ lines' = lines + 1
    /\ line' \in Line
    /\ Effect(line') = "goes" => made < MaxGoes
    /\ main' = Effect(line')
    /\ UNCHANGED <<searchVars, ownVars, out>>

EndOfInput ==
    /\ main = "reads"
    /\ main' = "leaves"
    /\ UNCHANGED <<loopVars, searchVars, ownVars, out>>

\* RunLoop catches an Exception and sends what it says.
ReplyError ==
    /\ main = "replies"
    /\ out' = Append(out, Error)
    /\ main' = "reads"
    /\ UNCHANGED <<loopVars, searchVars, ownVars>>
-----------------------------------------------------------------------------
(***************************************************************************)
(* EngineController::Go.                                                   *)
(***************************************************************************)

\* Mutant: the network is not loaded.
Mut_SetupPosition ==
    /\ main = "goes" /\ ~tree
    /\ tree' = TRUE /\ UNCHANGED network
    /\ UNCHANGED <<loopVars, main, searchVars, out>>

\* SetupPosition, when there is no tree yet and so no search to reset:
\* current_position_ is never set.
SetupPosition ==
    /\ main = "goes" /\ ~tree
    /\ tree' = TRUE /\ network' = TRUE
    /\ UNCHANGED <<loopVars, main, searchVars, out>>

\* Mutant: the old search is put aside, not destroyed.
Mut_MakeSearch ==
    /\ main = "goes" /\ tree
    /\ made' = made + 1
    /\ phase' = [phase EXCEPT ![made'] = "made"]
    /\ main' = "starts"
    /\ UNCHANGED <<loopVars, search, running, ownVars, out>>

\* The new Search is there before search_ lets go of the old one.
MakeSearch ==
    /\ main = "goes" /\ tree
    /\ made' = made + 1
    /\ phase' = [phase EXCEPT ![made'] = "made"]
    /\ main' = IF search = 0 THEN "starts" ELSE "aborts"
    /\ UNCHANGED <<loopVars, search, running, ownVars, out>>

\* ~Search of the one in search_: Abort, then Wait.
AbortSearch ==
    /\ main \in {"aborts", "leaves"} /\ search # 0
    /\ phase' = [phase EXCEPT ![search] = IF @ = "searching" THEN "aborted" ELSE @]
    /\ main' = IF main = "aborts" THEN "joins" ELSE "joinsLast"
    /\ UNCHANGED <<loopVars, made, search, running, ownVars, out>>

\* Search::Wait returns.
JoinSearch ==
    /\ main \in {"joins", "joinsLast"} /\ search \notin running
    /\ search' = 0
    /\ main' = IF main = "joins" THEN "starts" ELSE "leaves"
    /\ UNCHANGED <<loopVars, made, phase, running, ownVars, out>>

StartThreads ==
    /\ main = "starts"
    /\ search' = made
    /\ phase' = [phase EXCEPT ![made] = "searching"]
    /\ running' = running \cup {made}
    /\ main' = "reads"
    /\ UNCHANGED <<loopVars, made, ownVars, out>>

\* Mutant: the destructor does not reset search_ first.
Mut_DestroyEngine ==
    /\ main = "leaves"
    /\ tree' = FALSE /\ network' = FALSE
    /\ main' = "over"
    /\ UNCHANGED <<loopVars, searchVars, out>>

\* ~EngineController, once it has reset search_: network_, then tree_.
DestroyEngine ==
    /\ main = "leaves" /\ search = 0
    /\ tree' = FALSE /\ network' = FALSE
    /\ main' = "over"
    /\ UNCHANGED <<loopVars, searchVars, out>>
-----------------------------------------------------------------------------
(***************************************************************************)
(* The searches.  Nothing moves after terminate.                           *)
(***************************************************************************)

\* The callback of the search, SendBestMove.
Answer(k) ==
    /\ main # "crashed" /\ k \in running /\ phase[k] = "searching"
    /\ phase' = [phase EXCEPT ![k] = "answered"]
    /\ out' = Append(out, BestMove(k))
    /\ UNCHANGED <<loopVars, main, made, search, running, ownVars>>

\* Mutant: threads end when they have answered only.
Mut_MayEnd(k) == phase[k] = "answered"

MayEnd(k) == phase[k] \in {"answered", "aborted"}

ThreadsEnd(k) ==
    /\ main # "crashed" /\ k \in running /\ MayEnd(k)
    /\ running' = running \ {k}
    /\ UNCHANGED <<loopVars, main, made, search, phase, ownVars, out>>

Over == main \in {"over", "crashed"} /\ UNCHANGED vars
-----------------------------------------------------------------------------
Init ==
    /\ line = Blank /\ lines = 0 /\ main = "reads"
    /\ made = 0 /\ search = 0 /\ phase = [k \in Search |-> "made"] /\ running = {}
    /\ tree = FALSE /\ network = FALSE
    /\ out = <<>>

MainStep ==
    \/ ReplyError
    \/ SetupPosition \/ MakeSearch \/ AbortSearch \/ JoinSearch \/ StartThreads
    \/ DestroyEngine

Next ==
    \/ Read \/ EndOfInput
    \/ MainStep
    \/ \E k \in Search : Answer(k) \/ ThreadsEnd(k)
    \/ Over

\* Input may stop coming.  Everything else goes on: the main thread waits for
\* threads only, and deadlines pass.
Spec ==
    /\ Init /\ [][Next]_vars
    /\ WF_vars(MainStep)
    /\ \A k \in Search : WF_vars(Answer(k) \/ ThreadsEnd(k))
-----------------------------------------------------------------------------
\* Searches beyond those made are untouched, and a search is in search_ unless
\* the main thread is between two.
TypeOK ==
    /\ line \in Line /\ lines \in 0 .. MaxLines
    /\ main \in {"reads", "replies", "goes", "aborts", "joins", "starts",
                 "leaves", "joinsLast", "over", "crashed"}
    /\ made \in 0 .. MaxGoes /\ search \in 0 .. made
    /\ phase \in [Search -> {"made", "searching", "answered", "aborted"}]
    /\ running \subseteq 1 .. made
    /\ tree \in BOOLEAN /\ network \in BOOLEAN /\ (tree <=> network)
    /\ out \in Seq(Response)

\* Threads run for one search only, the one that search_ can still abort and
\* join, and not without the tree and the network they have pointers to: not
\* while a second go replaces it, nor when the engine is destroyed.
OneSearchAtATime ==
    \A k \in running : k = search /\ tree /\ network

\* A best move is sent once for a search and never after one for a later go,
\* whichever go came while the search before was still running.
AnswersInOrder ==
    \A i, j \in DOMAIN out :
        i < j /\ out[i][1] = "bestmove" /\ out[j][1] = "bestmove" => out[i][2] < out[j][2]

\* No command blocks the main thread for ever, and a search that was started is
\* answered or given up, and its threads end, unless the program crashes.
EngineGoesOn ==
    /\ main \notin {"reads", "over", "crashed"} ~> main \in {"reads", "over", "crashed"}
    /\ \A k \in Search : k \in running ~> k \notin running \/ main = "crashed"
=============================================================================
