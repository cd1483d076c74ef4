------------------------------ MODULE NodeTree -------------------------------
(***************************************************************************)
(* The nodes of mcts/node.h and mcts/node.cc as they lie in memory: each   *)
(* is owned by the child_ of its parent, by the sibling_ of the node       *)
(* before it, by gamebegin_node_, or by the garbage collector, whose       *)
(* thread destroys subtrees it was given while the tree goes on.           *)
(*                                                                         *)
(* All that changes the tree happens in steps that have it to themselves:  *)
(* GetOrSpawnNode under nodes_mutex_, CreateEdges at a node of the         *)
(* worker's own (SearchTree), and the rest when no search runs.            *)
(***************************************************************************)
EXTENDS Integers, Sequences, FiniteSets, SequencesExt

CONSTANTS
    Node,      \* the addresses a node can have
    Null,      \* nullptr
    Openings,  \* the lists of moves ResetToPosition is called with
    MoveLists, \* the lists of legal moves CreateEdges is called with
    MaxGame,   \* bound: moves of a game
    MaxQueue   \* bound: subtrees waiting for the collector

Move == UNION {Range(list) : list \in MoveLists \cup Openings}

ASSUME NodeTreeAssumption ==
    /\ IsFiniteSet(Node) /\ Null \notin Node
    /\ MaxGame \in Nat /\ MaxQueue \in Nat
    /\ MoveLists \cup Openings \subseteq Seq(Move)
    /\ \A list \in MoveLists : IsInjective(list)

VARIABLES
    heap,    \* the nodes that are allocated
    begin,   \* gamebegin_node_
    head,    \* current_head_
    moves,   \* history_, as the moves appended to it since it was reset
    queue,   \* subtrees_to_gc_
    dying,   \* node_to_gc
    gcStop,  \* stop_ of the collector
    gc       \* where the collector's thread is; "gone" after the destructor

vars == <<heap, begin, head, moves, queue, dying, gcStop, gc>>
gcVars == <<dying, gcStop, gc>>
treeVars == <<heap, begin, head, moves>>

Live == DOMAIN heap

NewNode(parent, index, sibling) ==
    [parent |-> parent, index |-> index, child |-> Null, sibling |-> sibling, edges |-> <<>>]

\* The heap h with the node x made, or made anew, with the record r.
Alloc(h, x, r) == [y \in DOMAIN h \cup {x} |-> IF y = x THEN r ELSE h[y]]

\* The addresses make_unique may return: one that is free, and may have been used.
Free == Node \ Live

(***************************************************************************)
(* Lists of children.                                                      *)
(***************************************************************************)

\* The children of x in the order of the list, which is followed from child_ on.
Followed(h, x, list) ==
    LET next == IF list = <<>> THEN h[x].child ELSE h[list[Len(list)]].sibling
    IN  IF next = Null THEN list ELSE Append(list, next)

ChildList(h, x) ==
    LET list[k \in 0 .. Cardinality(DOMAIN h)] ==
          IF k = 0 THEN <<>> ELSE Followed(h, x, list[k - 1])
    IN  list[Cardinality(DOMAIN h)]

\* What the unique_ptr at x owns: the node, the rest of its list and all below, the
\* least set of nodes with x that no pointer leaves.
Closed(h, S) == \A y \in S : {h[y].child, h[y].sibling} \subseteq S \cup {Null}

Owned(h, x) ==
    {y \in DOMAIN h : x # Null /\ \A S \in SUBSET DOMAIN h : x \in S /\ Closed(h, S) => y \in S}

\* Edge_Iterator::Actualize: how many nodes of the list it passes on its way to
\* the edge i.
Passed(h, list, i) ==
    Cardinality({k \in DOMAIN list : \A j \in 1 .. k : h[list[j]].index < i})

\* The node of the edge i of x, or Null.
NodeOf(h, x, i) ==
    LET list == ChildList(h, x)
        k == Passed(h, list, i) + 1
    IN  IF k \in DOMAIN list /\ h[list[k]].index = i THEN list[k] ELSE Null

\* Mutant: the new node comes first in the list.
Mut_Spawned(h, x, i, y) ==
    [Alloc(h, y, NewNode(x, i, h[x].child)) EXCEPT ![x].child = y]

\* Edge_Iterator::GetOrSpawnNode, when it has to spawn: the node y for the edge
\* i of x is hung in where Actualize stopped.
Spawned(h, x, i, y) ==
    LET list == ChildList(h, x)
        k == Passed(h, list, i)
        rest == IF k = Len(list) THEN Null ELSE list[k + 1]
        grown == Alloc(h, y, NewNode(x, i, rest))
    IN  IF k = 0 THEN [grown EXCEPT ![x].child = y]
                 ELSE [grown EXCEPT ![list[k]].sibling = y]

GetOrSpawnNode(h, x, i, y) ==
    IF NodeOf(h, x, i) # Null THEN h ELSE Spawned(h, x, i, y)

\* Node::CreateSingleChildNode.
CreateSingleChildNode(h, x, m, y) ==
    [Alloc(h, y, NewNode(x, 0, Null)) EXCEPT ![x].edges = <<m>>, ![x].child = y]
-----------------------------------------------------------------------------
(***************************************************************************)
(* NodeTree.                                                               *)
(***************************************************************************)

\* The heap and the head after the move m, with a node made at y if there was none.
Played(t, m, y) ==
    LET x == t.head
        is == {i \in 0 .. Len(t.heap[x].edges) - 1 : t.heap[x].edges[i + 1] = m}
        i == IF is = {} THEN 0 ELSE CHOOSE i \in is : TRUE
        h == IF is = {} THEN CreateSingleChildNode(t.heap, x, m, y)
                        ELSE GetOrSpawnNode(t.heap, x, i, y)
    IN  [heap |-> h, head |-> NodeOf(h, x, i)]

\* A move the head has an edge for, or the first one of a head without edges:
\* the asserts of CreateSingleChildNode.
MakeMove(m) ==
    /\ head # Null /\ Len(moves) < MaxGame
    /\ heap[head].edges = <<>> \/ m \in Range(heap[head].edges)
    /\ \E y \in Free : LET t == Played([heap |-> heap, head |-> head], m, y)
                       IN  heap' = t.heap /\ head' = t.head
    /\ moves' = Append(moves, m)
    /\ UNCHANGED <<begin, queue, gcVars>>

\* NodeGarbageCollector::AddToGcQueue.
AddToGcQueue(x) ==
    /\ x # Null => Len(queue) < MaxQueue
    /\ queue' = IF x = Null THEN queue ELSE Append(queue, x)

\* Mutant: the head is made anew as the first child of its parent.
Mut_Renewed(x) == NewNode(x.parent, 0, x.sibling)

\* Mutant: the siblings stay in the temporary.
Mut_SiblingsLost(x) == NewNode(x.parent, x.index, Null)

\* Mutant: the edges are cleared, the children are kept.
Mut_KeepsChild(x) == [x EXCEPT !.edges = <<>>]

\* The head as TrimTreeAtHead leaves it: a new node between its old siblings.
Renewed(x) == NewNode(x.parent, x.index, x.sibling)

TrimTreeAtHead ==
    /\ head # Null
    /\ AddToGcQueue(heap[head].child)
    /\ heap' = [heap EXCEPT ![head] = Renewed(@)]
    /\ UNCHANGED <<begin, head, moves, gcVars>>

\* Mutant: current_head_ is left where it was.
Mut_DeallocateTree ==
    /\ ~gcStop
    /\ AddToGcQueue(begin)
    /\ begin' = Null /\ moves' = <<>>
    /\ UNCHANGED <<heap, head, gcVars>>

DeallocateTree ==
    /\ ~gcStop
    /\ AddToGcQueue(begin)
    /\ begin' = Null /\ head' = Null /\ moves' = <<>>
    /\ UNCHANGED <<heap, gcVars>>

\* A new first node at x, and the moves ms made one after the other, with nodes at a.
Replayed(h, x, ms, a) ==
    LET t[k \in 0 .. Len(ms)] ==
          IF k = 0 THEN [heap |-> Alloc(h, x, NewNode(Null, 0, Null)), head |-> x]
          ELSE Played(t[k - 1], ms[k], a[k])
    IN  t[Len(ms)]

ResetToPosition(ms) ==
    /\ ~gcStop
    /\ AddToGcQueue(begin)
    /\ \E x \in Free, a \in [DOMAIN ms -> Free] :
          LET t == Replayed(heap, x, ms, a)
          IN  /\ IsInjective(a) /\ x \notin Range(a)
              /\ heap' = t.heap /\ head' = t.head /\ begin' = x
    /\ moves' = ms
    /\ UNCHANGED gcVars

(***************************************************************************)
(* What a search does with the tree below the head.                        *)
(***************************************************************************)
InSearch == {head} \cup Owned(heap, heap[head].child)

CreateEdges(x, list) ==
    /\ heap[x].edges = <<>>
    /\ heap' = [heap EXCEPT ![x].edges = list]
    /\ UNCHANGED <<begin, head, moves, queue, gcVars>>

Visit(x, i) ==
    /\ i \in 0 .. Len(heap[x].edges) - 1
    /\ \E y \in Free : heap' = GetOrSpawnNode(heap, x, i, y)
    /\ UNCHANGED <<begin, head, moves, queue, gcVars>>

(***************************************************************************)
(* The thread of the collector.  It destroys what it took with no mutex    *)
(* held.                                                                   *)
(***************************************************************************)

\* The loops of Worker and GarbageCollect: stop_ is looked at with no mutex held.
LookAtStop ==
    /\ gc = "loops"
    /\ gc' = IF gcStop THEN "over" ELSE "takes"
    /\ UNCHANGED <<treeVars, queue, dying, gcStop>>

TakeSubtree ==
    /\ gc = "takes"
    /\ IF queue = <<>>
         THEN gc' = "loops" /\ UNCHANGED <<queue, dying>>
         ELSE gc' = "destroys" /\ dying' = Last(queue) /\ queue' = Front(queue)
    /\ UNCHANGED <<treeVars, gcStop>>

Release ==
    /\ gc = "destroys"
    /\ heap' = [x \in Live \ Owned(heap, dying) |-> heap[x]]
    /\ dying' = Null
    /\ gc' = "loops"
    /\ UNCHANGED <<begin, head, moves, queue, gcStop>>

\* The destructor of the collector, after main: stop_, the join, and what is in
\* the queue still.
StopCollector ==
    /\ ~gcStop /\ begin = Null
    /\ gcStop' = TRUE
    /\ UNCHANGED <<treeVars, queue, dying, gc>>

CollectorGone ==
    /\ gc = "over"
    /\ heap' = [x \in Live \ UNION {Owned(heap, queue[i]) : i \in DOMAIN queue} |-> heap[x]]
    /\ queue' = <<>>
    /\ gc' = "gone"
    /\ UNCHANGED <<begin, head, moves, dying, gcStop>>

Gone == gc = "gone" /\ UNCHANGED vars
-----------------------------------------------------------------------------
Init ==
    /\ heap = <<>> /\ begin = Null /\ head = Null /\ moves = <<>>
    /\ queue = <<>> /\ dying = Null /\ gcStop = FALSE /\ gc = "loops"

Next ==
    \/ \E ms \in Openings : ResetToPosition(ms)
    \/ head # Null /\ \E x \in InSearch :
         \/ \E list \in MoveLists : CreateEdges(x, list)
         \/ \E i \in 0 .. Len(heap[x].edges) - 1 : Visit(x, i)
    \/ \E list \in MoveLists : \E i \in DOMAIN list : MakeMove(list[i])
    \/ TrimTreeAtHead
    \/ DeallocateTree
    \/ LookAtStop \/ TakeSubtree \/ Release \/ StopCollector \/ CollectorGone
    \/ Gone

Spec == Init /\ [][Next]_vars
-----------------------------------------------------------------------------
\* Pointers are to nodes that exist; what is left when the collector is gone is
\* nothing.
TypeOK ==
    /\ \A x \in Live :
          /\ x \in Node
          /\ heap[x].child \in Live \cup {Null} /\ heap[x].sibling \in Live \cup {Null}
          /\ heap[x].index \in Nat /\ IsInjective(heap[x].edges)
    /\ begin \in Live \cup {Null} /\ head \in Live \cup {Null}
    /\ queue \in Seq(Live) /\ dying \in Live \cup {Null}
    /\ gcStop \in BOOLEAN
    /\ gc \in {"loops", "takes", "destroys", "over", "gone"}
    /\ gc = "gone" => Live = {}

\* The owners of a node.
Owners(x) ==
    {<<"child", y>> : y \in {z \in Live : heap[z].child = x}}
    \cup {<<"sibling", y>> : y \in {z \in Live : heap[z].sibling = x}}
    \cup {<<"queue", i>> : i \in {j \in DOMAIN queue : queue[j] = x}}
    \cup {o \in {<<"begin", begin>>, <<"dying", dying>>} : o[2] = x}

\* Every node has one owner: the tree and the collector share none, whatever the
\* collector's thread destroys meanwhile, and none is lost.
OneOwner == \A x \in Live : Cardinality(Owners(x)) = 1

\* The nodes of the tree.
InTree == IF begin = Null THEN {} ELSE Owned(heap, begin)

\* The asserts of GetEdgeToNode, and what Actualize needs: children are those of
\* their parent, have an edge and are in the order of their edges.
SiblingsOrdered ==
    \A x \in InTree : LET list == ChildList(heap, x) IN
        \A i \in DOMAIN list :
            /\ heap[list[i]].parent = x
            /\ heap[list[i]].index < Len(heap[x].edges)
            /\ i > 1 => heap[list[i - 1]].index < heap[list[i]].index

(***************************************************************************)
(* The tree of moves the nodes stand for.                                  *)
(***************************************************************************)

\* A node and the moves below it, one step further up.
OneUp(at) ==
    LET y == at[1]
        p == heap[y].parent
    IN  IF y = begin THEN at ELSE <<p, <<heap[p].edges[heap[y].index + 1]>> \o at[2]>>

\* SelfPlayGame::GetMoves, for the node x.
PathTo(x) ==
    LET up[k \in 0 .. Cardinality(Live)] == IF k = 0 THEN <<x, <<>>>> ELSE OneUp(up[k - 1])
    IN  up[Cardinality(Live)][2]

MoveTree ==
    [p \in {PathTo(x) : x \in InTree} |-> heap[CHOOSE x \in InTree : PathTo(x) = p].edges]

GameMoves == IF head = Null THEN <<>> ELSE PathTo(head)

Paths == INSTANCE PathTree WITH tree <- MoveTree, played <- GameMoves

\* The moves read off the nodes are those of the history, which is how the
\* search finds its way from the root to a node and a game its moves.
MovesAreHistory == head # Null => PathTo(head) = moves

\* The nodes are a tree of moves: nodes are made where their moves say, Trim
\* forgets what is below the head and nothing else, and the collector cannot be
\* noticed.
IsPathTree == Paths!Spec
=============================================================================
