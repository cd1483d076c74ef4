-------------------------------- MODULE Search -------------------------------
(***************************************************************************)
(* The threads of one search, mcts/search.cc: the watchdog that ends it    *)
(* and announces the move, the workers, the thread that owns the Search    *)
(* (it starts it, joins it, asks for the move and destroys it) and one     *)
(* more that may call Stop or Abort.                                       *)
(*                                                                         *)
(* The tree is SearchTree's; what is left of it here is what the decision  *)
(* reads: the edges of the root, which a worker makes without a lock, and  *)
(* the visits of its children.  An iteration of a worker is one descent.   *)
(***************************************************************************)
EXTENDS Integers, Sequences, FiniteSets

CONSTANTS
    Worker,       \* the threads that run SearchWorker::RunBlocking
    Edges,        \* the moves the root gets edges for; none when ExtendNode
                  \* makes the root terminal
    DefaultMove,  \* Move(): what an EdgeAndNode without an edge has as its move
    Watchdog, Owner, Caller,  \* the other threads
    Nobody,       \* the holder of a free mutex, and no move yet
    MaxVisits     \* bound: workers begin no iteration beyond these visits

ASSUME SearchAssumption ==
    /\ IsFiniteSet(Worker) /\ Worker # {}
    /\ Watchdog # Owner /\ Owner # Caller /\ Caller # Watchdog
    /\ Worker \cap {Watchdog, Owner, Caller} = {}
    /\ "root" \notin Edges
    /\ Nobody \notin Worker \cup {Watchdog, Owner, Caller} \cup Edges \cup {DefaultMove}
    /\ MaxVisits \in Nat

VARIABLES
    stop,       \* stop_
    sent,       \* bestmove_is_sent_
    final,      \* final_bestmove_, as its GetMove()
    announced,  \* the calls of best_move_callback_
    got,        \* what GetBestMove returned to the owner
    overdue,    \* GetTimeToDeadline() <= 0
    nodes,      \* who holds nodes_mutex_
    counters,   \* who holds counters_mutex_
    threads,    \* threads_
    rootEdges,  \* edges_ of the root: "none", "partial" or "set"
    rootN,      \* n_ of the root
    rootFlying, \* n_in_flight_ of the root while it has no visits
    kidN,       \* n_ of the root's children
    leaf,       \* the node a worker picked
    pc          \* where each thread is

treeVars == <<rootEdges, rootN, rootFlying, kidN, leaf>>
lockVars == <<nodes, counters>>
answerVars == <<stop, sent, final, announced, got>>
vars == <<answerVars, overdue, lockVars, threads, treeVars, pc>>

Thread == Worker \cup {Watchdog, Owner, Caller}
Root == "root"

Goto(t, where) == pc' = [pc EXCEPT ![t] = where]

\* std::unique_lock: wait for a mutex that is free, or leave it.
Acquire(mutex, t) == mutex = Nobody /\ mutex' = t
-----------------------------------------------------------------------------
(***************************************************************************)
(* The workers.                                                            *)
(***************************************************************************)
Lock(w, from, to) ==
    /\ pc[w] = from
    /\ Acquire(nodes, w)
    /\ Goto(w, to)
    /\ UNCHANGED <<answerVars, overdue, counters, threads, treeVars>>

\* Mutant: TryStartScoreUpdate lets a second worker through.
Mut_Collides == FALSE

\* TryStartScoreUpdate at the root.
Collides == rootN = 0 /\ rootFlying > 0

\* PickNodeToExtend, ending at the root or below one of its edges.
Pick(w) ==
    /\ pc[w] = "picking"
    /\ nodes' = Nobody
    /\ IF Collides
         THEN leaf' = [leaf EXCEPT ![w] = Nobody] /\ Goto(w, "picked") /\ UNCHANGED rootFlying
         ELSE IF rootN = 0
           THEN /\ leaf' = [leaf EXCEPT ![w] = Root]
                /\ rootFlying' = rootFlying + 1
                /\ Goto(w, "extend")
           ELSE /\ \E x \in IF Edges = {} THEN {Root} ELSE Edges : leaf' = [leaf EXCEPT ![w] = x]
                /\ Goto(w, "picked")
                /\ UNCHANGED rootFlying
    /\ UNCHANGED <<answerVars, overdue, counters, threads, rootEdges, rootN, kidN>>

\* CreateEdges without a lock: EdgeList assigns the pointer, then the size.
ExtendRoot(w) ==
    /\ pc[w] = "extend"
    /\ rootEdges' = IF Edges = {} THEN "none"
                    ELSE IF rootEdges = "none" THEN "partial" ELSE "set"
    /\ Goto(w, IF rootEdges' = "partial" THEN "extend" ELSE "picked")
    /\ UNCHANGED <<answerVars, overdue, lockVars, threads, rootN, rootFlying, kidN, leaf>>

\* DoBackupUpdate.
Backup(w) ==
    /\ pc[w] = "backing"
    /\ nodes' = Nobody
    /\ rootN' = IF leaf[w] = Nobody THEN rootN ELSE rootN + 1
    /\ rootFlying' = IF leaf[w] = Root THEN 0 ELSE rootFlying
    /\ kidN' = [k \in Edges |-> kidN[k] + IF leaf[w] = k THEN 1 ELSE 0]
    /\ Goto(w, "loop")
    /\ UNCHANGED <<answerVars, overdue, counters, threads, rootEdges, leaf>>

\* IsSearchActive, asked after the iteration.
Loop(w) ==
    /\ pc[w] = "loop"
    /\ IF stop THEN Goto(w, "done") ELSE rootN < MaxVisits /\ Goto(w, "iterate")
    /\ UNCHANGED <<answerVars, overdue, lockVars, threads, treeVars>>

WorkerStep(w) ==
    \/ Lock(w, "iterate", "picking")
    \/ Pick(w)
    \/ ExtendRoot(w)
    \/ Lock(w, "picked", "backing")
    \/ Backup(w)
    \/ Loop(w)
-----------------------------------------------------------------------------
(***************************************************************************)
(* The decision.                                                           *)
(***************************************************************************)

\* GetBestChildNoTemperature(root)->GetMove(): one with the most visits.  The
\* values, which decide between equals, are left open.
Best ==
    IF rootEdges = "set"
      THEN {k \in Edges : \A j \in Edges : kidN[j] <= kidN[k]}
      ELSE {DefaultMove}

\* Mutant: the move is looked up again whenever it is asked for.
Mut_EnsureBestMoveKnown ==
    IF rootEdges = "none" THEN UNCHANGED final ELSE final' \in Best

EnsureBestMoveKnown ==
    IF sent \/ rootEdges = "none" THEN UNCHANGED final ELSE final' \in Best

WatchdogLocksNodes ==
    /\ pc[Watchdog] = "watch"
    /\ Acquire(nodes, Watchdog)
    /\ Goto(Watchdog, "watchCounters")
    /\ UNCHANGED <<answerVars, overdue, counters, threads, treeVars>>

WatchdogLocksCounters ==
    /\ pc[Watchdog] = "watchCounters"
    /\ Acquire(counters, Watchdog)
    /\ Goto(Watchdog, "decide")
    /\ UNCHANGED <<answerVars, overdue, nodes, threads, treeVars>>

\* MaybeTriggerStop, with both mutexes held, and left.
MaybeTriggerStop ==
    /\ pc[Watchdog] = "decide"
    /\ stop' = (stop \/ (~sent /\ overdue))
    /\ IF ~sent /\ stop'
         THEN /\ EnsureBestMoveKnown
              /\ announced' = Append(announced, final')
              /\ sent' = TRUE
         ELSE UNCHANGED <<final, announced, sent>>
    /\ nodes' = Nobody /\ counters' = Nobody
    /\ Goto(Watchdog, "look")
    /\ UNCHANGED <<got, overdue, threads, treeVars>>

\* Mutant: the watchdog leaves when the search was stopped.
Mut_WatchdogLooks ==
    /\ pc[Watchdog] = "look"
    /\ counters = Nobody
    /\ Goto(Watchdog, IF stop THEN "done" ELSE "watch")
    /\ UNCHANGED <<answerVars, overdue, lockVars, threads, treeVars>>

\* The loop of WatchdogThread: it holds counters_mutex_ for one look at the flag.
WatchdogLooks ==
    /\ pc[Watchdog] = "look"
    /\ counters = Nobody
    /\ Goto(Watchdog, IF sent THEN "done" ELSE "watch")
    /\ UNCHANGED <<answerVars, overdue, lockVars, threads, treeVars>>

WatchdogStep ==
    WatchdogLocksNodes \/ WatchdogLocksCounters \/ MaybeTriggerStop \/ WatchdogLooks
-----------------------------------------------------------------------------
(***************************************************************************)
(* The owner: StartThreads; then either Wait, which is RunBlocking, and    *)
(* GetBestMove, or at any time the destructor.                             *)
(***************************************************************************)

Unstarted == {w \in Worker : pc[w] = "new"}

\* The next thread runs at once; the first one is the watchdog.
StartThread ==
    /\ pc[Owner] = "start"
    /\ IF threads = <<>>
         THEN threads' = <<Watchdog>> /\ pc' = [pc EXCEPT ![Watchdog] = "watch"]
         ELSE \E w \in Unstarted :
                threads' = Append(threads, w) /\ pc' = [pc EXCEPT ![w] = "iterate"]
    /\ UNCHANGED <<answerVars, overdue, lockVars, treeVars>>

\* All threads are started.
RunBlockingOrLeave ==
    /\ pc[Owner] = "start"
    /\ threads # <<>> /\ Unstarted = {}
    /\ Goto(Owner, "wait") \/ (pc[Caller] \notin {"stop", "abort"} /\ Goto(Owner, "destroy"))
    /\ UNCHANGED <<answerVars, overdue, lockVars, threads, treeVars>>

\* Mutant: the workers are not told.
Mut_NoStop == IF ~stop \/ ~sent THEN sent' = TRUE /\ UNCHANGED stop ELSE UNCHANGED <<sent, stop>>

\* Abort, with counters_mutex_ free.
AbortBody ==
    IF ~stop \/ ~sent THEN sent' = TRUE /\ stop' = TRUE ELSE UNCHANGED <<sent, stop>>

\* Mutant: the owner joins the watchdog only.
Mut_MayJoin(t) == pc[Watchdog] = "done"

MayJoin(t) == pc[t] = "done"

\* Wait joins the threads from the last one to the watchdog.
Wait(from, to) ==
    /\ pc[Owner] = from
    /\ IF threads = <<>>
         THEN Goto(Owner, to) /\ UNCHANGED threads
         ELSE /\ MayJoin(threads[Len(threads)])
              /\ threads' = SubSeq(threads, 1, Len(threads) - 1)
              /\ UNCHANGED pc
    /\ UNCHANGED <<answerVars, overdue, lockVars, treeVars>>

\* GetBestMove, both mutexes free.
GetBestMove ==
    /\ pc[Owner] = "joined"
    /\ nodes = Nobody /\ counters = Nobody
    /\ EnsureBestMoveKnown
    /\ got' = final'
    /\ Goto(Owner, "played")
    /\ UNCHANGED <<stop, sent, announced, overdue, lockVars, threads, treeVars>>

\* The owner is done with the search, before it asked for the move when its game
\* was aborted.  Nobody else is inside the search: the tournament calls Abort and
\* destroys games under one mutex.
Leave ==
    /\ pc[Owner] \in {"joined", "played"}
    /\ pc[Caller] \notin {"stop", "abort"}
    /\ Goto(Owner, "destroy")
    /\ UNCHANGED <<answerVars, overdue, lockVars, threads, treeVars>>

\* The destructor begins with Abort and goes on with Wait.
Destroy ==
    /\ pc[Owner] = "destroy"
    /\ counters = Nobody
    /\ AbortBody
    /\ Goto(Owner, "destroyWait")
    /\ UNCHANGED <<final, announced, got, overdue, lockVars, threads, treeVars>>

OwnerStep ==
    \/ StartThread
    \/ RunBlockingOrLeave
    \/ Wait("wait", "joined")
    \/ GetBestMove
    \/ Leave
    \/ Destroy
    \/ Wait("destroyWait", "gone")
-----------------------------------------------------------------------------
(***************************************************************************)
(* The caller of Stop or Abort, once.                                      *)
(***************************************************************************)
Call ==
    /\ pc[Caller] = "new"
    /\ pc[Owner] \notin {"destroy", "destroyWait", "gone"}
    /\ Goto(Caller, "stop") \/ Goto(Caller, "abort")
    /\ UNCHANGED <<answerVars, overdue, lockVars, threads, treeVars>>

Stop ==
    /\ pc[Caller] = "stop"
    /\ counters = Nobody
    /\ stop' = TRUE
    /\ Goto(Caller, "stopped")
    /\ UNCHANGED <<sent, final, announced, got, overdue, lockVars, threads, treeVars>>

Abort ==
    /\ pc[Caller] = "abort"
    /\ counters = Nobody
    /\ AbortBody
    /\ Goto(Caller, "aborted")
    /\ UNCHANGED <<final, announced, got, overdue, lockVars, threads, treeVars>>

\* steady_clock passes search_deadline.
DeadlinePasses ==
    /\ ~overdue
    /\ overdue' = TRUE
    /\ UNCHANGED <<answerVars, lockVars, threads, treeVars, pc>>
-----------------------------------------------------------------------------
Init ==
    /\ stop = FALSE /\ sent = FALSE
    /\ final = DefaultMove
    /\ announced = <<>>
    /\ got = Nobody
    /\ overdue \in BOOLEAN
    /\ nodes = Nobody /\ counters = Nobody
    /\ threads = <<>>
    /\ rootEdges = "none" /\ rootN = 0 /\ rootFlying = 0
    /\ kidN = [k \in Edges |-> 0]
    /\ leaf = [w \in Worker |-> Nobody]
    /\ pc = [t \in Thread |-> IF t = Owner THEN "start" ELSE "new"]

Gone == pc[Owner] = "gone" /\ UNCHANGED vars

Next ==
    \/ WatchdogStep
    \/ OwnerStep
    \/ Call \/ Stop \/ Abort
    \/ DeadlinePasses
    \/ Gone
    \/ \E w \in Worker : WorkerStep(w)

\* Time passes, every thread runs and none waits for ever for a mutex that is
\* free again and again.
Fairness ==
    /\ WF_vars(DeadlinePasses)
    /\ SF_vars(WatchdogStep)
    /\ SF_vars(OwnerStep)
    /\ SF_vars(Stop \/ Abort)
    /\ \A w \in Worker : SF_vars(WorkerStep(w))

Spec == Init /\ [][Next]_vars /\ Fairness
-----------------------------------------------------------------------------
Location ==
    {"new", "start", "wait", "joined", "played", "destroy", "destroyWait", "gone", "stop",
     "abort", "stopped", "aborted", "watch", "watchCounters", "decide", "look", "done",
     "iterate", "picking", "extend", "picked", "backing", "loop"}

\* The variables have their types; the root has one first visit at a time.
TypeOK ==
    /\ stop \in BOOLEAN /\ sent \in BOOLEAN /\ overdue \in BOOLEAN
    /\ final \in Edges \cup {DefaultMove}
    /\ announced \in Seq(Edges \cup {DefaultMove})
    /\ got \in Edges \cup {DefaultMove, Nobody}
    /\ nodes \in Thread \cup {Nobody} /\ counters \in Thread \cup {Nobody}
    /\ threads \in Seq(Worker \cup {Watchdog})
    /\ rootEdges \in {"none", "partial", "set"}
    /\ rootN \in Nat /\ rootFlying \in 0 .. 1
    /\ kidN \in [Edges -> Nat]
    /\ leaf \in [Worker -> Edges \cup {Root, Nobody}]
    /\ pc \in [Thread -> Location]

\* The callback is called once at most, and the flag is up from then on.
AnnouncedOnce == Len(announced) <= 1 /\ (announced # <<>> => sent /\ stop)

\* The move a game plays is the one that was announced, although the workers go
\* on changing the tree between the announcement and the join.  Only a search
\* that was aborted has a move and did not announce it.
PlaysWhatWasAnnounced ==
    got # Nobody =>
        announced = <<got>> \/ (announced = <<>> /\ pc[Caller] = "aborted")

\* Whoever returns from Abort hears of no move any more, be it a caller or the
\* destructor: not even of one the watchdog was about to announce.
Silenced == pc[Caller] = "aborted" \/ pc[Owner] \in {"destroyWait", "gone"}

SilentAfterAbort == [][Silenced => UNCHANGED announced]_vars

\* When Wait returns the tree belongs to the owner: no thread of the search is
\* left to lock or to change it.
JoinedAlone ==
    pc[Owner] \in {"joined", "played", "gone"} =>
        /\ \A t \in Worker \cup {Watchdog} : pc[t] = "done"
        /\ nodes = Nobody /\ counters = Nobody

\* Every search ends and can be destroyed: the watchdog gets its turn among the
\* workers, and whoever ends the search, the join comes to an end.
SearchEnds == <>(pc[Owner] = "gone")

\* The assert of Node::CreateSingleChildNode, which NodeTree::MakeMove calls with
\* a move the head has no edge for: the head has no edges.
PlayedMoveHasAnEdge ==
    pc[Owner] = "played" => got \in Edges \/ rootEdges = "none"

(***************************************************************************)
(* The promise.                                                            *)
(***************************************************************************)
Promise == INSTANCE BestMovePromise WITH
    Move <- Edges \cup {DefaultMove},
    Nothing <- Nobody,
    phase <- IF announced # <<>> THEN "answered" ELSE IF sent THEN "aborted" ELSE "searching",
    answer <- IF announced # <<>> THEN announced[1] ELSE Nobody,
    asked <- got

\* The search keeps its promise: one answer or an abort, always one of the two,
\* and the move asked for is the answer.
KeepsPromise == Promise!Spec
=============================================================================
