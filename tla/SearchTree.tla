------------------------------ MODULE SearchTree -----------------------------
(***************************************************************************)
(* The tree of mcts/node.cc grown by the workers of mcts/search.cc.        *)
(*                                                                         *)
(* A worker fills a minibatch under nodes_mutex_, one descent at a time,   *)
(* but expands a node, asks the network and reads the results without any  *)
(* lock; only the backup of the whole minibatch takes the mutex again.     *)
(* What keeps two workers off one node in between is the virtual loss,     *)
(* n_in_flight_: a node without visits that is in flight is a collision.   *)
(*                                                                         *)
(* The running average q_ is a float in the code.  Here q_ * max(n_, 1) is *)
(* kept (total), which FinalizeScoreUpdate changes by whole numbers: it    *)
(* adds the value to what the visits have brought so far, and at the first *)
(* one forgets the q_ there was.  The U term of the selection is zero:     *)
(* Edge stores the prior of a move, at most 1, in the 16-bit integer p_,   *)
(* which truncates the fractions the network returns to 0.                 *)
(***************************************************************************)
EXTENDS Integers, Sequences, FiniteSets, Functions

CONSTANTS
    Worker,          \* the search threads, watchdog excepted
    Node,            \* the nodes the tree can get: the positions below the head
    Root,            \* root_node_
    Path,            \* Path[x]: the nodes from the root down to x, x included
    Kids,            \* Kids[x]: the nodes below x in the order of its edges
    Outcome,         \* Outcome[x]: the verdict of ExtendNode on the position of x
    Unit,            \* the value of a won position, in units of Q
    Values,          \* the values the network can return
    Fpu,             \* kFpuValue, what a move not visited yet is worth
    MiniBatchSize,   \* kMiniBatchSize
    CollisionLimit,  \* collision_events_left as GatherMinibatch begins (10)
    MaxVisits        \* bound: no new iteration once the root has as many visits

ASSUME TreeAssumption ==
    /\ Root \in Node
    /\ Path \in [Node -> SUBSET Node]
    /\ Path[Root] = {Root}
    /\ \A x \in Node : Root \in Path[x] /\ x \in Path[x]
    /\ \A x, y \in Node : y \in Path[x] => Path[y] \subseteq Path[x]
    /\ \A x \in Node : \A y, z \in Path[x] : y \in Path[z] \/ z \in Path[y]
    /\ Kids \in [Node -> Seq(Node)]
    /\ \A x \in Node : \A i \in DOMAIN Kids[x] :
          /\ Kids[x][i] \notin Path[x]
          /\ Path[Kids[x][i]] = Path[x] \cup {Kids[x][i]}
    /\ Outcome \in [Node -> {"WIN", "LOSE", "UNDECIDED"}]

ASSUME SearchAssumption ==
    /\ Unit \in Nat \ {0}
    /\ Values \subseteq -Unit .. Unit
    /\ MiniBatchSize \in Nat \ {0}
    /\ CollisionLimit \in Nat \ {0}

VARIABLES
    n,         \* n_: the visits of a node that were backed up
    nInFlight, \* n_in_flight_: the visits of it that were not
    total,     \* q_, times the visits it is the average of (or times 1)
    expanded,  \* HasChildren(): the node has its edges
    terminal,  \* is_terminal_
    batch,     \* minibatch_ of each worker
    pc,        \* where each worker is
    stop       \* stop_

vars == <<n, nInFlight, total, expanded, terminal, batch, pc, stop>>

\* NodeToProcess, without what the depth is recorded for.
Ticket == [node : Node, collision : BOOLEAN, queried : BOOLEAN, v : Int]

Visit(x) == [node |-> x, collision |-> FALSE, queried |-> FALSE, v |-> 0]
Collision(x) == [node |-> x, collision |-> TRUE, queried |-> FALSE, v |-> 0]

\* The q_ MakeTerminal gives a node.
TerminalValue(x) == IF Outcome[x] = "WIN" THEN Unit ELSE -Unit

Weight(x) == IF n[x] > 0 THEN n[x] ELSE 1

\* Node::GetQ.
GetQ(x) == total[x] \div Weight(x)

\* What the visits of a node have brought: nothing before the first, whatever q_ is.
Earned == [x \in Node |-> IF n[x] > 0 THEN total[x] ELSE 0]
-----------------------------------------------------------------------------
(***************************************************************************)
(* PickNodeToExtend: from the root always on to the best child, the first  *)
(* of the best, until a node is a collision or a leaf.                     *)
(***************************************************************************)

\* EdgeAndNode::GetQ with the first play urgency, as a fraction.
Score(x) == IF n[x] > 0 THEN <<total[x], n[x]>> ELSE <<Fpu, 1>>

Better(p, q) == p[1] * q[2] > q[1] * p[2]

BestKid(x, y) ==
    \E i \in DOMAIN Kids[x] :
        /\ y = Kids[x][i]
        /\ \A j \in DOMAIN Kids[x] : ~Better(Score(Kids[x][j]), Score(y))
        /\ \A j \in 1 .. i - 1 : Better(Score(y), Score(Kids[x][j]))

\* Mutant: TryStartScoreUpdate never refuses.
Mut_Collides(x) == FALSE

\* TryStartScoreUpdate refuses the node.
Collides(x) == n[x] = 0 /\ nInFlight[x] > 0

IsLeaf(x) == terminal[x] \/ ~expanded[x]

\* The node the descent stops at (a set of one): it passed through all above.
Picked ==
    {x \in Node :
        /\ Collides(x) \/ IsLeaf(x)
        /\ \A a \in Path[x] \ {x} :
              ~Collides(a) /\ ~IsLeaf(a) /\ \E b \in Path[x] : BestKid(a, b)}

\* The nodes whose n_in_flight_ a ticket has raised: the descent counts every
\* node it passes, and gives up on the last one when that is a collision.
Passes(t) == IF t.collision THEN Path[t.node] \ {t.node} ELSE Path[t.node]

(***************************************************************************)
(* The workers' minibatches, as a set of tickets: pairs of the worker and  *)
(* an index into its minibatch.                                            *)
(***************************************************************************)
Outstanding == UNION {{w} \X DOMAIN batch[w] : w \in Worker}

TicketAt(t) == batch[t[1]][t[2]]

Through(x) == {t \in Outstanding : x \in Passes(TicketAt(t))}

Collisions(s) == {i \in DOMAIN s : s[i].collision}
Visits(s) == {i \in DOMAIN s : ~s[i].collision}
-----------------------------------------------------------------------------
(***************************************************************************)
(* GatherMinibatch.  The descent and its counting are one critical section *)
(* of nodes_mutex_.                                                        *)
(***************************************************************************)
Put(w, t) ==
    /\ batch' = [batch EXCEPT ![w] = Append(@, t)]
    /\ nInFlight' = [x \in Node |-> nInFlight[x] + IF x \in Passes(t) THEN 1 ELSE 0]
    /\ UNCHANGED <<n, total, expanded, terminal, stop>>

\* A collision is kept in the minibatch; the tenth one ends it.
PickCollision(w) ==
    /\ pc[w] = "gather"
    /\ \E x \in Picked : Collides(x) /\ Put(w, Collision(x))
    /\ pc' = [pc EXCEPT ![w] =
                IF Cardinality(Collisions(batch[w])) + 1 >= CollisionLimit
                  THEN "evaluate" ELSE "gather"]

\* A node is visited; unless it is terminal the worker goes on to expand it.
PickVisit(w) ==
    /\ pc[w] = "gather"
    /\ \E x \in Picked :
          /\ ~Collides(x)
          /\ Put(w, Visit(x))
          /\ pc' = [pc EXCEPT ![w] = IF terminal[x] THEN "full" ELSE "extend"]

\* ExtendNode and AddNodeToComputation, with no lock held.
ExtendNode(w) ==
    LET i == Len(batch[w])
        x == batch[w][i].node
    IN  /\ pc[w] = "extend"
        /\ IF Outcome[x] = "UNDECIDED"
             THEN /\ expanded' = [expanded EXCEPT ![x] = TRUE]
                  /\ batch' = [batch EXCEPT ![w][i].queried = TRUE]
                  /\ UNCHANGED <<terminal, total>>
             ELSE /\ terminal' = [terminal EXCEPT ![x] = TRUE]
                  /\ total' = [total EXCEPT ![x] = TerminalValue(x) * Weight(x)]
                  /\ UNCHANGED <<expanded, batch>>
        /\ pc' = [pc EXCEPT ![w] = "full"]
        /\ UNCHANGED <<n, nInFlight, stop>>

\* After a visit the worker looks at stop_ and at the size of the minibatch.
GatherOn(w) ==
    /\ pc[w] = "full"
    /\ pc' = [pc EXCEPT ![w] =
                IF stop \/ Cardinality(Visits(batch[w])) >= MiniBatchSize
                  THEN "evaluate" ELSE "gather"]
    /\ UNCHANGED <<n, nInFlight, total, expanded, terminal, batch, stop>>

(***************************************************************************)
(* RunNNComputation and FetchMinibatchResults, with no lock held: each     *)
(* expanded node gets the value the network answers, any other ticket the  *)
(* q_ its node has at the time.                                            *)
(***************************************************************************)
Evaluate(w) ==
    /\ pc[w] = "evaluate"
    /\ \E answer \in [{i \in DOMAIN batch[w] : batch[w][i].queried} -> Values] :
          batch' = [batch EXCEPT ![w] =
              [i \in DOMAIN batch[w] |->
                  [batch[w][i] EXCEPT !.v =
                      IF batch[w][i].queried THEN answer[i] ELSE GetQ(batch[w][i].node)]]]
    /\ pc' = [pc EXCEPT ![w] = "backup"]
    /\ UNCHANGED <<n, nInFlight, total, expanded, terminal, stop>>

(***************************************************************************)
(* DoBackupUpdate: FinalizeScoreUpdate on the path of every visit and      *)
(* CancelScoreUpdate above every collision, in one critical section.  The  *)
(* minibatch is cleared as the next iteration begins, and not looked at    *)
(* before.                                                                 *)
(***************************************************************************)
Held(w, x) == {t \in Through(x) : t[1] = w}

\* Mutant: a collision is backed up like a visit.
Mut_VisitsHeld(w, x) == Held(w, x)

VisitsHeld(w, x) == {t \in Held(w, x) : ~TicketAt(t).collision}

\* Mutant: a collision is not cancelled.
Mut_NotCancelled(w, x) == VisitsHeld(w, x)

\* Mutant: a collision is cancelled on the node it gave up on, too.
Mut_CancelledBelow(w, x) ==
    {t \in {w} \X DOMAIN batch[w] : x \in Path[TicketAt(t).node]}

\* What a backup takes off the n_in_flight_ of a node.
Released(w, x) == Held(w, x)

\* Mutant: the value changes its sign on the way up, as in a game of two.
Mut_Worth(t) ==
    LET x == TicketAt(t).node
    IN  IF terminal[x] THEN -GetQ(x) ELSE TicketAt(t).v

\* The value a visit adds on its way up: at a terminal node q_ is read once more,
\* in the lock now.  (Nodes above the last one have edges and no verdict.  The
\* visits of a minibatch to one terminal node find the same q_ there: the average
\* of a value with itself is that value.)
Worth(t) ==
    LET x == TicketAt(t).node
    IN  IF terminal[x] THEN GetQ(x) ELSE TicketAt(t).v

DoBackupUpdate(w) ==
    /\ pc[w] = "backup"
    /\ n' = [x \in Node |-> n[x] + Cardinality(VisitsHeld(w, x))]
    /\ nInFlight' = [x \in Node |-> nInFlight[x] - Cardinality(Released(w, x))]
    /\ total' = [x \in Node |->
                   IF VisitsHeld(w, x) = {} THEN total[x]
                   ELSE Earned[x] + SumFunction([t \in VisitsHeld(w, x) |-> Worth(t)])]
    /\ batch' = [batch EXCEPT ![w] = <<>>]
    /\ pc' = [pc EXCEPT ![w] = "loop"]
    /\ UNCHANGED <<expanded, terminal, stop>>

\* Mutant: stop_ is left to the watchdog.
Mut_NextIteration(w) ==
    /\ pc[w] = "loop"
    /\ n[Root] < MaxVisits
    /\ pc' = [pc EXCEPT ![w] = "gather"]
    /\ UNCHANGED <<n, nInFlight, total, expanded, terminal, batch, stop>>

\* The do-while of SearchWorker::RunBlocking.
NextIteration(w) ==
    /\ pc[w] = "loop"
    /\ IF stop THEN pc' = [pc EXCEPT ![w] = "done"]
               ELSE /\ n[Root] < MaxVisits
                    /\ pc' = [pc EXCEPT ![w] = "gather"]
    /\ UNCHANGED <<n, nInFlight, total, expanded, terminal, batch, stop>>
-----------------------------------------------------------------------------
\* A fresh head, as NodeTree::TrimTreeAtHead leaves it, and the workers started.
Init ==
    /\ n = [x \in Node |-> 0]
    /\ nInFlight = [x \in Node |-> 0]
    /\ total = [x \in Node |-> 0]
    /\ expanded = [x \in Node |-> FALSE]
    /\ terminal = [x \in Node |-> FALSE]
    /\ batch = [w \in Worker |-> <<>>]
    /\ pc = [w \in Worker |-> "gather"]
    /\ stop = FALSE

\* FireStopInternal, by the watchdog or by a caller of Stop or Abort.
FireStop ==
    /\ ~stop
    /\ stop' = TRUE
    /\ UNCHANGED <<n, nInFlight, total, expanded, terminal, batch, pc>>

Step(w) ==
    \/ PickCollision(w)
    \/ PickVisit(w)
    \/ ExtendNode(w)
    \/ GatherOn(w)
    \/ Evaluate(w)
    \/ DoBackupUpdate(w)
    \/ NextIteration(w)

\* What the game records of its head after a search: the visits of each edge and
\* the number they are divided by.  Without visits below it throws instead.
GetV4TrainingData(x) ==
    IF n[x] <= 1 THEN {}
    ELSE {[probabilities |-> [i \in DOMAIN Kids[x] |-> n[Kids[x][i]]], of |-> n[x] - 1]}

AllDone == \A w \in Worker : pc[w] = "done"

\* The threads were joined; nothing happens any more.
Joined == AllDone /\ UNCHANGED vars

Next == FireStop \/ Joined \/ \E w \in Worker : Step(w)

\* The operating system runs every thread.  (Every step of a worker changes pc
\* or batch.)
Spec == Init /\ [][Next]_vars /\ \A w \in Worker : WF_<<pc, batch>>(Step(w))
-----------------------------------------------------------------------------
\* Counters, flags and minibatches have their types; in particular no counter
\* is ever taken below zero, where the unsigned n_in_flight_ would wrap.
TypeOK ==
    /\ n \in [Node -> Nat]
    /\ nInFlight \in [Node -> Nat]
    /\ total \in [Node -> Int]
    /\ expanded \in [Node -> BOOLEAN]
    /\ terminal \in [Node -> BOOLEAN]
    /\ batch \in [Worker -> Seq(Ticket)]
    /\ pc \in [Worker -> {"gather", "extend", "full", "evaluate", "backup", "loop", "done"}]
    /\ stop \in BOOLEAN

\* The virtual loss of a node is what the minibatches hold through it: whatever
\* the workers interleave, FinalizeScoreUpdate and CancelScoreUpdate take back
\* exactly what TryStartScoreUpdate added.  When the threads are joined the tree
\* has nothing in flight and the next search can use it.
InFlightAccounted == \A x \in Node : nInFlight[x] = Cardinality(Through(x))

\* The asserts of Node::CreateEdges never fail, and nobody else is at a node
\* while a worker changes it without a lock: a worker at ExtendNode has the only
\* visit of a node that has no edges, is not terminal and was never backed up.
ExtendsAlone ==
    \A w \in Worker : pc[w] = "extend" =>
        LET x == batch[w][Len(batch[w])].node
        IN  /\ ~expanded[x] /\ ~terminal[x] /\ n[x] = 0
            /\ \A t \in Outstanding :
                  ~TicketAt(t).collision /\ TicketAt(t).node = x => t = <<w, Len(batch[w])>>

KidSet(x) == {Kids[x][i] : i \in DOMAIN Kids[x]}

\* A node has one visit of its own and the rest are those of its children, so
\* the probabilities of GetV4TrainingData, child visits over n - 1, add up to 1.
\* A node that was not expanded has none.
VisitsAddUp ==
    \A x \in Node :
        /\ expanded[x] /\ n[x] > 0 => n[x] = 1 + SumFunctionOnSet(n, KidSet(x))
        /\ n[x] > 0 => expanded[x] # terminal[x]
        /\ n[x] = 0 => \A y \in KidSet(x) : n[y] = 0

\* No value is lost, counted twice or out of date.  What the visits of a node with
\* edges have brought is what those of its children have, and one answer of the
\* network, its own; so the average of the root, which is recorded for training
\* and decides games, is that of the positions evaluated below it.  The average of a
\* terminal node stays what its verdict is worth, although every visit puts it in
\* once more.  And what a worker fetched without the lock is still what the node is
\* worth when it comes to the backup, whoever was there in between.
ValuesAddUp ==
    /\ \A x \in Node : expanded[x] /\ n[x] > 0 =>
          Earned[x] - SumFunctionOnSet(Earned, KidSet(x)) \in Values
    /\ \A x \in Node : terminal[x] => total[x] = TerminalValue(x) * Weight(x)
    /\ \A w \in Worker : pc[w] = "backup" =>
          \A i \in Visits(batch[w]) : Worth(<<w, i>>) = batch[w][i].v

\* Every joined search has a training record: the assertion of GetV4TrainingData,
\* "Search generated invalid data!".  One that was stopped within the first
\* iteration has none.
TrainingDataIsValid == AllDone => GetV4TrainingData(Root) # {}

\* A stopped search can be joined: no worker is kept in its loops, neither by
\* collisions nor by the minibatch it fills.
StopEndsWorkers == stop ~> AllDone
=============================================================================
