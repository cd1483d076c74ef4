------------------------------ MODULE PathTree -------------------------------
(***************************************************************************)
(* What NodeTree stands for: the moves of a game, and a tree that has for  *)
(* each line of moves the search or the game has been at the list of the   *)
(* moves that go on from there (empty while nobody has made it).  Nodes,   *)
(* owners and the order in which nodes were made cannot be seen.           *)
(***************************************************************************)
EXTENDS Sequences, Functions

CONSTANTS
    Openings,  \* the lists of moves a game can be set up with
    MoveLists, \* the lists of legal moves a position can have
    MaxGame    \* bound: moves of a game

VARIABLES
    tree,   \* for each line of moves known, the list of the moves from there
    played  \* the moves of the game

vars == <<tree, played>>

Moves(p) == {tree[p][i] : i \in DOMAIN tree[p]}

Grown(t, p) == [q \in DOMAIN t \cup {p} |-> IF q \in DOMAIN t THEN t[q] ELSE <<>>]

Below(p) == {q \in DOMAIN tree : Len(p) < Len(q) /\ SubSeq(q, 1, Len(p)) = p}

Known == DOMAIN tree # {}
-----------------------------------------------------------------------------
Init == tree = <<>> /\ played = <<>>

\* A game set up with the moves ms: nothing is known but its own line.
ResetToPosition(ms) ==
    /\ tree' = [p \in {SubSeq(ms, 1, k) : k \in 0 .. Len(ms)} |->
                  IF p = ms THEN <<>> ELSE <<ms[Len(p) + 1]>>]
    /\ played' = ms

CreateEdges(p, list) ==
    /\ p \in {played} \cup Below(played) /\ tree[p] = <<>>
    /\ tree' = [tree EXCEPT ![p] = list]
    /\ UNCHANGED played

Visit(p, m) ==
    /\ p \in {played} \cup Below(played) /\ m \in Moves(p)
    /\ tree' = Grown(tree, Append(p, m))
    /\ UNCHANGED played

MakeMove(m) ==
    /\ Known /\ Len(played) < MaxGame
    /\ tree[played] = <<>> \/ m \in Moves(played)
    /\ played' = Append(played, m)
    /\ tree' = Grown(IF tree[played] = <<>> THEN [tree EXCEPT ![played] = <<m>>] ELSE tree, played')

\* All that is known beyond the game is forgotten, and nothing else.
TrimTreeAtHead ==
    /\ Known
    /\ tree' = [p \in DOMAIN tree \ Below(played) |-> IF p = played THEN <<>> ELSE tree[p]]
    /\ UNCHANGED played

DeallocateTree == tree' = <<>> /\ played' = <<>>

Next ==
    \/ \E ms \in Openings : ResetToPosition(ms)
    \/ \E p \in DOMAIN tree, list \in MoveLists : CreateEdges(p, list)
    \/ \E p \in DOMAIN tree : \E m \in Moves(p) : Visit(p, m)
    \/ \E list \in MoveLists : \E i \in DOMAIN list : MakeMove(list[i])
    \/ TrimTreeAtHead
    \/ DeallocateTree

Spec == Init /\ [][Next]_vars
=============================================================================
