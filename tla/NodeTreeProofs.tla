---------------------------- MODULE NodeTreeProofs ---------------------------
(***************************************************************************)
(* Every node has one owner, children are in order, the moves played can   *)
(* be read off the nodes, and the nodes implement PathTree, for any set of *)
(* addresses, any lists of moves and games of any length.                  *)
(***************************************************************************)
EXTENDS NodeTree, FiniteSetTheorems, FunctionTheorems, SequenceTheorems, WellFoundedInduction,
        TLAPS

NodeRecord ==
    [parent : Node \cup {Null}, index : Nat, child : Node \cup {Null}, sibling : Node \cup {Null},
     edges : Seq(Move)]

\* Pointers are to nodes that exist, and a node without edges has no child.
Heap(h) ==
    /\ DOMAIN h \subseteq Node /\ h \in [DOMAIN h -> NodeRecord]
    /\ \A x \in DOMAIN h :
          /\ h[x].child \in DOMAIN h \cup {Null} /\ h[x].sibling \in DOMAIN h \cup {Null}
          /\ IsInjective(h[x].edges)
          /\ h[x].edges = <<>> => h[x].child = Null

\* No two pointers are to the same node, and none is to a root.
OnePointer(h, R) ==
    \A x, y \in DOMAIN h :
        /\ h[x].child = h[y].child /\ x # y => h[x].child = Null
        /\ h[x].sibling = h[y].sibling /\ x # y => h[x].sibling = Null
        /\ h[x].child = h[y].sibling => h[x].child = Null
        /\ h[x].child \notin R /\ h[x].sibling \notin R

\* Every node that is no root has a pointer to it.
Held(h, R) == \A x \in DOMAIN h \ R : \E y \in DOMAIN h : x \in {h[y].child, h[y].sibling}

\* No set of nodes is held by itself.
NoCycle(h) ==
    \A S \in SUBSET DOMAIN h :
        S # {} => \E x \in S : \A y \in S : x \notin {h[y].child, h[y].sibling}

Forest(h, R) == R \subseteq DOMAIN h /\ OnePointer(h, R) /\ Held(h, R) /\ NoCycle(h)

-----------------------------------------------------------------------------
(***************************************************************************)
(* What a pointer owns.                                                    *)
(***************************************************************************)
LEMMA OwnedBy ==
  ASSUME NEW h, Heap(h), NEW x \in DOMAIN h
  PROVE  /\ x \in Owned(h, x) /\ Owned(h, x) \subseteq DOMAIN h
         /\ Closed(h, Owned(h, x))
         /\ \A y \in Owned(h, x) \ {x} : \E z \in Owned(h, x) : y \in {h[z].child, h[z].sibling}
         /\ \A S \in SUBSET DOMAIN h : x \in S /\ Closed(h, S) => Owned(h, x) \subseteq S
<1>0. x # Null
  BY NodeTreeAssumption DEF Heap
<1>1. x \in Owned(h, x) /\ Owned(h, x) \subseteq DOMAIN h
  BY <1>0 DEF Owned
<1>2. \A S \in SUBSET DOMAIN h : x \in S /\ Closed(h, S) => Owned(h, x) \subseteq S
  BY DEF Owned
<1>3. Closed(h, Owned(h, x))
  <2>1. SUFFICES ASSUME NEW y \in Owned(h, x), NEW c \in {h[y].child, h[y].sibling}, c # Null
                 PROVE  c \in Owned(h, x)
    BY DEF Closed
  <2>2. c \in DOMAIN h
    BY <1>1, <2>1 DEF Heap
  <2>3. ASSUME NEW S \in SUBSET DOMAIN h, x \in S, Closed(h, S)
        PROVE  c \in S
    BY <1>2, <2>1, <2>3 DEF Closed
  <2>4. QED
    BY <1>0, <2>2, <2>3 DEF Owned
<1>4. ASSUME NEW y \in Owned(h, x) \ {x}, \A z \in Owned(h, x) : y \notin {h[z].child, h[z].sibling}
      PROVE  FALSE
  <2>1. Closed(h, Owned(h, x) \ {y})
    BY <1>3, <1>4 DEF Closed
  <2>2. x \in Owned(h, x) \ {y}
    BY <1>1, <1>4
  <2>3. QED
    BY <1>1, <1>2, <1>4, <2>1, <2>2
<1>5. QED
  BY <1>1, <1>2, <1>3, <1>4

\* The heap without the nodes of O.
Without(h, O) == [x \in DOMAIN h \ O |-> h[x]]

\* When a root is destroyed with all it owns, nothing else points to what is gone.
LEMMA ReleaseRoot ==
  ASSUME NEW h, Heap(h), NEW R, Forest(h, R), NEW r \in R
  PROVE  LET g == Without(h, Owned(h, r))
         IN  /\ Heap(g) /\ Forest(g, R \ {r})
             /\ \A b \in R \ {r} : Owned(h, b) \subseteq Owned(g, b)
<1> DEFINE O == Owned(h, r)
           g == Without(h, O)
<1>0. r \in DOMAIN h
  BY DEF Forest
<1>1. /\ r \in O /\ O \subseteq DOMAIN h /\ Closed(h, O)
      /\ \A y \in O \ {r} : \E z \in O : y \in {h[z].child, h[z].sibling}
  BY <1>0, OwnedBy
<1> HIDE DEF O
<1>2. DOMAIN g = DOMAIN h \ O /\ \A x \in DOMAIN g : g[x] = h[x]
  BY DEF Without
<1>3. \A y \in DOMAIN g : h[y].child \notin O /\ h[y].sibling \notin O
  <2>1. SUFFICES ASSUME NEW y \in DOMAIN g, NEW c \in {h[y].child, h[y].sibling}, c \in O
                 PROVE  FALSE
    OBVIOUS
  <2>2. c # r
    BY <1>2, <2>1 DEF Forest, OnePointer
  <2>3. PICK z \in O : c \in {h[z].child, h[z].sibling}
    BY <1>1, <2>1, <2>2
  <2>4. z # y /\ z \in DOMAIN h /\ y \in DOMAIN h /\ c # Null
    BY <1>1, <1>2, <2>1, NodeTreeAssumption DEF Heap
  <2>5. QED
    BY <2>1, <2>3, <2>4 DEF Forest, OnePointer
<1>4. Heap(g)
  BY <1>2, <1>3 DEF Heap, Without
<1>5. (R \ {r}) \cap O = {}
  <2>1. SUFFICES ASSUME NEW b \in R \ {r}, b \in O PROVE FALSE
    OBVIOUS
  <2>2. PICK z \in O : b \in {h[z].child, h[z].sibling}
    BY <1>1, <2>1
  <2>3. QED
    BY <1>1, <2>2 DEF Forest, OnePointer
<1>6. R \ {r} \subseteq DOMAIN g
  BY <1>2, <1>5 DEF Forest
<1>7. OnePointer(g, R \ {r})
  BY <1>2 DEF Forest, OnePointer
<1>8. Held(g, R \ {r})
  <2>1. SUFFICES ASSUME NEW x \in DOMAIN g, x \notin R \ {r}
                 PROVE  \E y \in DOMAIN g : x \in {g[y].child, g[y].sibling}
    BY DEF Held
  <2>2. x \in DOMAIN h \ R
    BY <1>1, <1>2, <2>1
  <2>3. PICK y \in DOMAIN h : x \in {h[y].child, h[y].sibling}
    BY <2>2 DEF Forest, Held
  <2>4. x # Null
    BY <2>2, NodeTreeAssumption DEF Heap
  <2>5. y \notin O
    BY <1>1, <1>2, <2>1, <2>3, <2>4 DEF Closed
  <2>6. QED
    BY <1>2, <2>3, <2>5
<1>9. NoCycle(g)
  <2>1. ASSUME NEW S \in SUBSET DOMAIN g, S # {}
        PROVE  \E x \in S : \A y \in S : x \notin {g[y].child, g[y].sibling}
    <3>1. PICK x \in S : \A y \in S : x \notin {h[y].child, h[y].sibling}
      BY <1>2, <2>1 DEF Forest, NoCycle
    <3>2. QED
      BY <1>2, <3>1
  <2>2. QED
    BY <2>1 DEF NoCycle
<1>10. ASSUME NEW b \in R \ {r}
       PROVE  Owned(h, b) \subseteq Owned(g, b)
  <2>1. b \in DOMAIN h \ O /\ b \in DOMAIN g /\ b # Null
    BY <1>2, <1>6, NodeTreeAssumption DEF Heap
  <2>2. Closed(h, DOMAIN h \ O)
    BY <1>2, <1>3 DEF Closed, Heap
  <2>3. Owned(h, b) \subseteq DOMAIN g
    BY <2>1, <2>2, <1>2, OwnedBy
  <2>4. ASSUME NEW S \in SUBSET DOMAIN g, b \in S, Closed(g, S)
        PROVE  Owned(h, b) \subseteq S
    <3>1. S \in SUBSET DOMAIN h /\ Closed(h, S)
      BY <1>2, <2>4 DEF Closed
    <3>2. QED
      BY <2>1, <2>4, <3>1, OwnedBy
  <2>5. QED
    BY <2>1, <2>3, <2>4 DEF Owned
<1>11. QED
  BY <1>4, <1>6, <1>7, <1>8, <1>9, <1>10 DEF Forest, O
-----------------------------------------------------------------------------
(***************************************************************************)
(* What the operations of the tree do to a forest.                         *)
(***************************************************************************)

\* What is owned stays owned while no pointer is lost, but for those a new node y
\* takes over.
Keeps(h, g, R) == \A b \in R : Owned(h, b) \subseteq Owned(g, b)

LEMMA KeepsOwned ==
  ASSUME NEW h, Heap(h), NEW g, Heap(g), DOMAIN h \subseteq DOMAIN g,
         NEW b \in DOMAIN h,
         \A S \in SUBSET DOMAIN g : b \in S /\ Closed(g, S) => Closed(h, S \cap DOMAIN h)
  PROVE  Owned(h, b) \subseteq Owned(g, b)
<1>1. b # Null
  BY NodeTreeAssumption DEF Heap
<1>2. ASSUME NEW S \in SUBSET DOMAIN g, b \in S, Closed(g, S)
      PROVE  Owned(h, b) \subseteq S
  BY <1>2, OwnedBy
<1>3. QED
  BY <1>1, <1>2, OwnedBy DEF Owned

LEMMA NewNodeIs ==
  ASSUME NEW p \in Node \cup {Null}, NEW i \in Nat, NEW s \in Node \cup {Null}
  PROVE  /\ NewNode(p, i, s) \in NodeRecord
         /\ NewNode(p, i, s).parent = p /\ NewNode(p, i, s).index = i
         /\ NewNode(p, i, s).child = Null /\ NewNode(p, i, s).sibling = s
         /\ NewNode(p, i, s).edges = <<>>
<1> DEFINE e == <<>>
<1>1. e \in Seq(Move)
  OBVIOUS
<1>2. NewNode(p, i, s) = [parent |-> p, index |-> i, child |-> Null, sibling |-> s, edges |-> e]
  BY DEF NewNode
<1> HIDE DEF e
<1>3. NewNode(p, i, s) \in NodeRecord
  BY <1>1, <1>2 DEF NodeRecord
<1>4. QED
  BY <1>3 DEF NewNode

\* A new first node is a root.
LEMMA NewRoot ==
  ASSUME NEW h, Heap(h), NEW R, Forest(h, R), NEW x \in Node \ DOMAIN h
  PROVE  LET g == Alloc(h, x, NewNode(Null, 0, Null))
         IN  /\ Heap(g) /\ Forest(g, R \cup {x})
             /\ DOMAIN g = DOMAIN h \cup {x} /\ g[x].edges = <<>>
<1> DEFINE g == Alloc(h, x, NewNode(Null, 0, Null))
<1>1. /\ DOMAIN g = DOMAIN h \cup {x} /\ \A y \in DOMAIN h : g[y] = h[y]
      /\ g[x] = NewNode(Null, 0, Null)
  BY DEF Alloc
<1>2. g[x] \in NodeRecord /\ g[x].child = Null /\ g[x].sibling = Null /\ g[x].edges = <<>>
  BY <1>1, NewNodeIs
<1>3. Heap(g)
  <2>1. g \in [DOMAIN g -> NodeRecord]
    BY <1>1, <1>2 DEF Heap, Alloc
  <2>2. QED
    BY <1>1, <1>2, <2>1 DEF Heap, IsInjective
<1>4. x # Null /\ \A y \in DOMAIN h : h[y].child # x /\ h[y].sibling # x
  BY NodeTreeAssumption DEF Heap
<1>5. OnePointer(g, R \cup {x})
  <2>1. R \subseteq DOMAIN h /\ Null \notin DOMAIN h
    BY NodeTreeAssumption DEF Forest, Heap
  <2>2. QED
    BY <1>1, <1>2, <1>4, <2>1 DEF Forest, OnePointer
<1>6. Held(g, R \cup {x})
  BY <1>1 DEF Forest, Held
<1>7. NoCycle(g)
  <2>1. ASSUME NEW S \in SUBSET DOMAIN g, S # {}
        PROVE  \E v \in S : \A y \in S : v \notin {g[y].child, g[y].sibling}
    <3>1. CASE x \in S
      BY <1>1, <1>2, <1>4, <3>1
    <3>2. CASE x \notin S
      BY <1>1, <2>1, <3>2 DEF Forest, NoCycle
    <3>3. QED
      BY <3>1, <3>2
  <2>2. QED
    BY <2>1 DEF NoCycle
<1>8. QED
  BY <1>1, <1>2, <1>3, <1>5, <1>6, <1>7 DEF Forest

\* Edges are pointed to by nobody.
LEMMA NewEdges ==
  ASSUME NEW h, Heap(h), NEW R, Forest(h, R), NEW x \in DOMAIN h,
         NEW list \in Seq(Move), IsInjective(list), h[x].edges = <<>>
  PROVE  LET g == [h EXCEPT ![x].edges = list]
         IN  Heap(g) /\ Forest(g, R) /\ DOMAIN g = DOMAIN h /\ g[x].edges = list
             /\ Keeps(h, g, R)
<1> DEFINE g == [h EXCEPT ![x].edges = list]
<1>1. h[x] \in NodeRecord
  BY DEF Heap
<1>2. /\ DOMAIN g = DOMAIN h
      /\ \A y \in DOMAIN h : g[y].child = h[y].child /\ g[y].sibling = h[y].sibling
      /\ \A y \in DOMAIN h \ {x} : g[y] = h[y]
      /\ g[x] = [h[x] EXCEPT !.edges = list]
  BY <1>1 DEF Heap, NodeRecord
<1>3. g[x] \in NodeRecord /\ g[x].edges = list
  BY <1>1, <1>2 DEF NodeRecord
<1> HIDE DEF g
<1>4. Heap(g)
  <2>1. g \in [DOMAIN g -> NodeRecord]
    BY <1>2, <1>3 DEF Heap, g
  <2>2. \A y \in DOMAIN g : /\ IsInjective(g[y].edges)
                            /\ g[y].edges = <<>> => g[y].child = Null
    BY <1>2, <1>3 DEF Heap
  <2>3. QED
    BY <1>2, <2>1, <2>2 DEF Heap
<1>5. Forest(g, R)
  <2>1. OnePointer(g, R)
    BY <1>2 DEF Forest, OnePointer
  <2>2. Held(g, R)
    BY <1>2 DEF Forest, Held
  <2>3. NoCycle(g)
    <3>1. ASSUME NEW S \in SUBSET DOMAIN g, S # {}
          PROVE  \E v \in S : \A y \in S : v \notin {g[y].child, g[y].sibling}
      <4>1. PICK v \in S : \A y \in S : v \notin {h[y].child, h[y].sibling}
        BY <1>2, <3>1 DEF Forest, NoCycle
      <4>2. QED
        BY <1>2, <4>1
    <3>2. QED
      BY <3>1 DEF NoCycle
  <2>4. QED
    BY <1>2, <2>1, <2>2, <2>3 DEF Forest
<1>6. Keeps(h, g, R)
  <2>1. \A S \in SUBSET DOMAIN g : Closed(g, S) => Closed(h, S \cap DOMAIN h)
    BY <1>2 DEF Closed
  <2>2. QED
    BY <1>2, <1>4, <2>1, KeepsOwned DEF Keeps, Forest
<1>7. QED
  BY <1>2, <1>3, <1>4, <1>5, <1>6 DEF g

\* Trim makes the children of x a tree of their own.
LEMMA Trim ==
  ASSUME NEW h, Heap(h), NEW R, Forest(h, R), NEW x \in DOMAIN h
  PROVE  LET g == [h EXCEPT ![x] = Renewed(@)]
             c == h[x].child
         IN  /\ Heap(g) /\ Forest(g, R \cup ({c} \ {Null})) /\ DOMAIN g = DOMAIN h
             /\ c \notin R
             /\ \A b \in R : x \in Owned(h, b) => x \in Owned(g, b)
<1> DEFINE g == [h EXCEPT ![x] = Renewed(@)]
           c == h[x].child
           Q == R \cup ({c} \ {Null})
<1>1. h[x] \in NodeRecord
  BY DEF Heap
<1>2. /\ g[x] \in NodeRecord /\ g[x].child = Null /\ g[x].sibling = h[x].sibling
      /\ g[x].edges = <<>>
  <2>1. g[x] = NewNode(h[x].parent, h[x].index, h[x].sibling)
    BY DEF Renewed, Heap
  <2>2. QED
    BY <1>1, <2>1, NewNodeIs DEF NodeRecord
<1>3. DOMAIN g = DOMAIN h /\ \A y \in DOMAIN h \ {x} : g[y] = h[y]
  BY DEF Heap
<1>4. Null \notin DOMAIN h
  BY NodeTreeAssumption DEF Heap
<1>5. Heap(g)
  <2>1. g \in [DOMAIN g -> NodeRecord]
    BY <1>2, <1>3 DEF Heap
  <2> HIDE DEF g
  <2>2. \A y \in DOMAIN g : /\ IsInjective(g[y].edges)
                            /\ g[y].edges = <<>> => g[y].child = Null
    BY <1>2, <1>3 DEF Heap, IsInjective
  <2>3. \A y \in DOMAIN g : /\ g[y].child \in DOMAIN g \cup {Null}
                            /\ g[y].sibling \in DOMAIN g \cup {Null}
    BY <1>2, <1>3 DEF Heap
  <2>4. QED
    BY <1>3, <2>1, <2>2, <2>3 DEF Heap
<1> HIDE DEF g
<1>6. Q \subseteq DOMAIN g
  BY <1>3 DEF Forest, Heap
<1>7. OnePointer(g, Q)
  BY <1>2, <1>3, <1>4 DEF Forest, OnePointer
<1>8. Held(g, Q)
  <2>1. SUFFICES ASSUME NEW v \in DOMAIN g \ Q
                 PROVE  \E y \in DOMAIN g : v \in {g[y].child, g[y].sibling}
    BY DEF Held
  <2>2. PICK y \in DOMAIN h : v \in {h[y].child, h[y].sibling}
    BY <1>3, <2>1 DEF Forest, Held
  <2>3. v # c
    BY <1>3, <1>4, <2>1
  <2>4. QED
    BY <1>2, <1>3, <2>2, <2>3
<1>9. NoCycle(g)
  <2>1. ASSUME NEW S \in SUBSET DOMAIN g, S # {}
        PROVE  \E v \in S : \A y \in S : v \notin {g[y].child, g[y].sibling}
    <3>1. PICK v \in S : \A y \in S : v \notin {h[y].child, h[y].sibling}
      BY <1>3, <2>1 DEF Forest, NoCycle
    <3>2. v # Null
      BY <1>3, <1>4, <2>1
    <3>3. QED
      BY <1>2, <1>3, <3>1, <3>2
  <2>2. QED
    BY <2>1 DEF NoCycle
<1>10. c \notin R
  BY DEF Forest, OnePointer
<1>11. ASSUME NEW b \in R, x \in Owned(h, b)
       PROVE  x \in Owned(g, b)
  <2>1. b \in DOMAIN h /\ b # Null
    BY <1>4 DEF Forest
  <2>2. ASSUME NEW S \in SUBSET DOMAIN g, b \in S, Closed(g, S), x \notin S
        PROVE  FALSE
    <3>1. Closed(h, S)
      BY <1>3, <2>2 DEF Closed
    <3>2. QED
      BY <1>3, <1>11, <2>1, <2>2, <3>1, OwnedBy
  <2>3. QED
    BY <1>3, <2>1, <2>2 DEF Owned
<1>12. QED
  BY <1>3, <1>5, <1>6, <1>7, <1>8, <1>9, <1>10, <1>11 DEF Forest, g

\* A node y is hung in before the child of z, or behind z in the list z is in.
HungIn(h, z, y, g) ==
    /\ DOMAIN g = DOMAIN h \cup {y} /\ g[y].child = Null
    /\ \A w \in DOMAIN h \ {z} : g[w].child = h[w].child /\ g[w].sibling = h[w].sibling
    /\ \/ g[z].child = y /\ g[z].sibling = h[z].sibling /\ g[y].sibling = h[z].child
       \/ g[z].child = h[z].child /\ g[z].sibling = y /\ g[y].sibling = h[z].sibling

LEMMA Hang ==
  ASSUME NEW h, Heap(h), NEW R, Forest(h, R), NEW z \in DOMAIN h, NEW y \in Node \ DOMAIN h,
         NEW g, Heap(g), HungIn(h, z, y, g)
  PROVE  Forest(g, R) /\ Keeps(h, g, R)
<1>1. y # Null /\ Null \notin DOMAIN h /\ y # z
  BY NodeTreeAssumption DEF Heap
<1>2. \A w \in DOMAIN h : h[w].child # y /\ h[w].sibling # y
  BY <1>1 DEF Heap
<1>3. R \subseteq DOMAIN g
  BY DEF Forest, HungIn
<1>4. OnePointer(g, R)
  <2>1. R \subseteq DOMAIN h
    BY DEF Forest
  <2>2. OnePointer(h, R)
    BY DEF Forest
  <2>3. QED
    BY <1>1, <1>2, <2>1, <2>2 DEF OnePointer, HungIn
<1>5. Held(g, R)
  <2>1. SUFFICES ASSUME NEW v \in DOMAIN g \ R
                 PROVE  \E w \in DOMAIN g : v \in {g[w].child, g[w].sibling}
    BY DEF Held
  <2>2. CASE v = y
    BY <2>2 DEF HungIn
  <2>3. CASE v # y
    <3>1. PICK w \in DOMAIN h : v \in {h[w].child, h[w].sibling}
      BY <2>1, <2>3 DEF HungIn, Forest, Held
    <3>2. QED
      BY <3>1 DEF HungIn
  <2>4. QED
    BY <2>2, <2>3
<1>6. NoCycle(g)
  <2>1. ASSUME NEW S \in SUBSET DOMAIN g, S # {},
               \A v \in S : \E w \in S : v \in {g[w].child, g[w].sibling}
        PROVE  FALSE
    <3> DEFINE T == S \ {y}
    <3>1. T \in SUBSET DOMAIN h
      BY <2>1 DEF HungIn
    <3>2. T # {}
      <4>1. g[y].child # y /\ g[y].sibling # y
        BY <1>1, <1>2 DEF HungIn
      <4>2. S # {y}
        BY <2>1, <4>1
      <4>3. QED
        BY <2>1, <4>2
    <3>3. PICK v \in T : \A w \in T : v \notin {h[w].child, h[w].sibling}
      BY <3>1, <3>2 DEF Forest, NoCycle
    <3>4. PICK w \in S : v \in {g[w].child, g[w].sibling}
      BY <2>1
    <3>5. v # y /\ v # Null
      BY <1>1, <3>1
    <3>6. CASE w # y
      BY <3>3, <3>4, <3>5, <3>6, <3>1 DEF HungIn
    <3>7. CASE w = y
      <4>1. y \in S /\ v = g[y].sibling
        BY <3>4, <3>5, <3>7 DEF HungIn
      <4>2. v \in {h[z].child, h[z].sibling}
        BY <4>1 DEF HungIn
      <4>3. z \in S
        <5>1. PICK u \in S : y \in {g[u].child, g[u].sibling}
          BY <2>1, <4>1
        <5>2. u # y
          BY <1>1, <3>1, <4>1, <5>1 DEF HungIn
        <5>3. QED
          BY <1>2, <3>1, <5>1, <5>2 DEF HungIn
      <4>4. QED
        BY <1>1, <3>3, <4>2, <4>3
    <3>8. QED
      BY <3>6, <3>7
  <2>2. QED
    BY <2>1 DEF NoCycle
<1>7. Keeps(h, g, R)
  <2>1. ASSUME NEW S \in SUBSET DOMAIN g, Closed(g, S)
        PROVE  Closed(h, S \cap DOMAIN h)
    <3>1. SUFFICES ASSUME NEW w \in S \cap DOMAIN h, NEW c \in {h[w].child, h[w].sibling},
                          c # Null
                   PROVE  c \in S \cap DOMAIN h
      BY DEF Closed
    <3>2. c \in DOMAIN h
      BY <3>1 DEF Heap
    <3>3. \/ c \in {g[w].child, g[w].sibling}
          \/ c = g[y].sibling /\ y \in {g[w].child, g[w].sibling}
      BY <3>1 DEF HungIn
    <3>4. QED
      BY <1>1, <2>1, <3>1, <3>2, <3>3 DEF Closed
  <2>2. QED
    BY <2>1, KeepsOwned DEF Keeps, Forest, HungIn
<1>8. QED
  BY <1>3, <1>4, <1>5, <1>6, <1>7 DEF Forest
-----------------------------------------------------------------------------
(***************************************************************************)
(* The list of a node's children.                                          *)
(***************************************************************************)

\* Induction up to n.
LEMMA UpTo ==
  ASSUME NEW n \in Nat, NEW S \in SUBSET (0 .. n), 0 \in S,
         \A k \in S : k < n => k + 1 \in S
  PROVE  S = 0 .. n
<1> DEFINE below(k) == 0 .. k
           T == {below(k) : k \in (0 .. n) \ S}
           R == StrictSubsetOrdering(0 .. n)
<1>1. SUFFICES ASSUME (0 .. n) \ S # {} PROVE FALSE
  OBVIOUS
<1>2. IsFiniteSet(0 .. n)
  BY FS_Interval, 0 \in Int, n \in Int, Zenon
<1>3. IsWellFoundedOn(R, SUBSET (0 .. n))
  BY <1>2, FS_FiniteSubsetsOfFinite, FS_StrictSubsetOrderingWellFounded
<1>4. T \subseteq SUBSET (0 .. n) /\ T # {}
  <2>1. \A k \in 0 .. n : below(k) \subseteq 0 .. n
    OBVIOUS
  <2>2. T # {}
    BY <1>1
  <2>3. QED
    BY <2>1, <2>2
<1>5. PICK x \in T : \A y \in T : ~(<<y, x>> \in R)
  BY <1>3, <1>4, WFMin
<1>6. PICK k \in (0 .. n) \ S : x = below(k)
  OBVIOUS
<1>7. k - 1 \in 0 .. n /\ k - 1 \notin S
  BY <1>6
<1>8. below(k - 1) \subseteq below(k) /\ below(k - 1) # below(k)
  <2>1. k \in below(k) /\ k \notin below(k - 1)
    BY <1>6
  <2>2. below(k - 1) \subseteq below(k)
    BY <1>6
  <2>3. QED
    BY <2>1, <2>2
<1>9. <<below(k - 1), x>> \in R
  BY <1>4, <1>6, <1>7, <1>8 DEF StrictSubsetOrdering
<1>10. QED
  BY <1>5, <1>7, <1>9

\* The list from the child of x on, as far as it goes.
IsList(h, x, l) ==
    /\ l \in Seq(DOMAIN h)
    /\ l # <<>> => l[1] = h[x].child
    /\ \A i \in 1 .. Len(l) - 1 : l[i + 1] = h[l[i]].sibling

\* Nothing follows.
IsWhole(h, x, l) == IF l = <<>> THEN h[x].child = Null ELSE h[l[Len(l)]].sibling = Null

LEMMA FollowedIsList ==
  ASSUME NEW h, Heap(h), NEW x \in DOMAIN h, NEW l, IsList(h, x, l)
  PROVE  /\ IsList(h, x, Followed(h, x, l))
         /\ IF IsWhole(h, x, l) THEN Followed(h, x, l) = l
                                ELSE Len(Followed(h, x, l)) = Len(l) + 1
<1>1. l \in Seq(DOMAIN h) /\ Len(l) \in Nat
  BY DEF IsList
<1>2. CASE l = <<>>
  <2>1. Followed(h, x, l) = IF h[x].child = Null THEN l ELSE Append(l, h[x].child)
    BY <1>2 DEF Followed
  <2>2. CASE h[x].child = Null
    BY <1>2, <2>1, <2>2 DEF IsWhole
  <2>3. CASE h[x].child # Null
    <3>1. h[x].child \in DOMAIN h
      BY <2>3 DEF Heap
    <3>2. /\ Append(l, h[x].child) \in Seq(DOMAIN h) /\ Len(Append(l, h[x].child)) = 1
          /\ Append(l, h[x].child)[1] = h[x].child
      BY <1>2, <3>1
    <3> DEFINE a == Append(l, h[x].child)
    <3>3. Followed(h, x, l) = a /\ ~IsWhole(h, x, l) /\ Len(l) = 0
      BY <1>2, <2>1, <2>3 DEF IsWhole
    <3>4. IsList(h, x, a)
      BY <3>2 DEF IsList
    <3>5. QED
      BY <3>2, <3>3, <3>4
  <2>4. QED
    BY <2>2, <2>3
<1>3. CASE l # <<>>
  <2> DEFINE s == h[l[Len(l)]].sibling
  <2>1. Len(l) \in 1 .. Len(l) /\ l[Len(l)] \in DOMAIN h
    BY <1>1, <1>3, EmptySeq
  <2>2. Followed(h, x, l) = IF s = Null THEN l ELSE Append(l, s)
    BY <1>3 DEF Followed
  <2>3. CASE s = Null
    BY <1>3, <2>2, <2>3 DEF IsWhole
  <2>4. CASE s # Null
    <3>1. s \in DOMAIN h
      BY <2>1, <2>4 DEF Heap
    <3> DEFINE a == Append(l, s)
    <3> HIDE DEF s
    <3>2. /\ a \in Seq(DOMAIN h) /\ Len(a) = Len(l) + 1 /\ a[Len(l) + 1] = s
          /\ \A i \in 1 .. Len(l) : a[i] = l[i]
      BY <1>1, <3>1
    <3>3. a # <<>>
      BY <1>1, <3>2
    <3> HIDE DEF a
    <3>4. \A i \in 1 .. Len(a) - 1 : a[i + 1] = h[a[i]].sibling
      <4>1. TAKE i \in 1 .. Len(a) - 1
      <4>2. CASE i = Len(l)
        BY <1>1, <2>1, <3>2, <4>2 DEF s
      <4>3. CASE i # Len(l)
        BY <1>1, <3>2, <4>3 DEF IsList
      <4>4. QED
        BY <4>2, <4>3
    <3>5. a[1] = h[x].child
      BY <1>1, <1>3, <2>1, <3>2 DEF IsList
    <3>6. IsList(h, x, a)
      BY <3>2, <3>4, <3>5 DEF IsList
    <3>7. QED
      BY <1>3, <2>2, <2>4, <3>2, <3>6 DEF IsWhole, a, s
  <2>5. QED
    BY <2>3, <2>4
<1>4. QED
  BY <1>2, <1>3

\* No node is in the list twice.
LEMMA ListIsInjective ==
  ASSUME NEW h, Heap(h), NoCycle(h), NEW x \in DOMAIN h, NEW l, IsList(h, x, l)
  PROVE  \A i, j \in 1 .. Len(l) : l[i] = l[j] => i = j
<1>1. l \in Seq(DOMAIN h) /\ Len(l) \in Nat
  BY DEF IsList
<1>2. SUFFICES ASSUME NEW i \in 1 .. Len(l), NEW j \in 1 .. Len(l), l[i] = l[j], i < j
               PROVE  FALSE
  OBVIOUS
<1> DEFINE S == {l[k] : k \in i .. j}
<1>3. S \in SUBSET DOMAIN h /\ S # {}
  BY <1>1, <1>2
<1>4. PICK v \in S : \A w \in S : v \notin {h[w].child, h[w].sibling}
  BY <1>3 DEF NoCycle
<1>5. PICK k \in i + 1 .. j : v = l[k]
  <2>1. PICK m \in i .. j : v = l[m]
    OBVIOUS
  <2>2. CASE m = i
    BY <1>2, <2>1, <2>2
  <2>3. CASE m # i
    BY <1>2, <2>1, <2>3
  <2>4. QED
    BY <2>2, <2>3
<1>6. k - 1 \in i .. j /\ k - 1 \in 1 .. Len(l) - 1
  BY <1>1, <1>2, <1>5
<1>7. v = h[l[k - 1]].sibling
  <2>1. l[(k - 1) + 1] = h[l[k - 1]].sibling
    BY <1>6 DEF IsList
  <2>2. QED
    BY <1>5, <2>1
<1>8. QED
  BY <1>4, <1>6, <1>7

\* ChildList is the whole list.
LEMMA ChildListIs ==
  ASSUME NEW h, Heap(h), NoCycle(h), NEW x \in DOMAIN h
  PROVE  IsList(h, x, ChildList(h, x)) /\ IsWhole(h, x, ChildList(h, x))
<1> DEFINE n == Cardinality(DOMAIN h)
           body(f, k) == IF k = 0 THEN <<>> ELSE Followed(h, x, f[k - 1])
           Lists(f, m) == f = [k \in 0 .. m |-> body(f, k)]
           list == CHOOSE f : Lists(f, n)
<1>1. IsFiniteSet(DOMAIN h) /\ n \in Nat
  BY NodeTreeAssumption, FS_Subset, FS_CardinalityType DEF Heap
<1>2. ChildList(h, x) = list[n]
  BY DEF ChildList
<1> HIDE DEF n
<1>3. \E f : Lists(f, n)
  <2> DEFINE S == {m \in 0 .. n : \E f : Lists(f, m)}
  <2>1. 0 \in S
    <3>1. Lists([k \in 0 .. 0 |-> <<>>], 0)
      OBVIOUS
    <3> HIDE DEF Lists
    <3>2. QED
      BY <1>1, <3>1
  <2>2. ASSUME NEW m \in S, m < n PROVE m + 1 \in S
    <3>0. m \in 0 .. n /\ \E f : Lists(f, m)
      <4> HIDE DEF Lists
      <4>1. QED
        BY <2>2
    <3>1. PICK f : Lists(f, m)
      BY <3>0
    <3> DEFINE g == [k \in 0 .. m + 1 |-> IF k = m + 1 THEN Followed(h, x, f[m]) ELSE f[k]]
    <3>2. \A k \in 0 .. m : g[k] = f[k]
      BY <1>1, <3>0
    <3>3. \A k \in 0 .. m + 1 : g[k] = body(g, k)
      <4>1. TAKE k \in 0 .. m + 1
      <4>2. CASE k = m + 1
        <5>1. g[k] = Followed(h, x, f[m]) /\ g[m] = f[m] /\ k # 0 /\ k - 1 = m
          BY <1>1, <3>0, <3>2, <4>2
        <5>2. QED
          BY <5>1
      <4>3. CASE k # m + 1
        <5>1. k \in 0 .. m /\ g[k] = f[k] /\ (k # 0 => g[k - 1] = f[k - 1])
          BY <1>1, <3>0, <4>3
        <5>2. QED
          BY <3>1, <5>1
      <4>4. QED
        BY <4>2, <4>3
    <3>4. Lists(g, m + 1)
      BY <3>3
    <3> HIDE DEF Lists
    <3>5. QED
      BY <1>1, <2>2, <3>0, <3>4
  <2> HIDE DEF Lists
  <2>3. S = 0 .. n
    <3>1. \A m \in S : m < n => m + 1 \in S
      BY <2>2
    <3>2. S \in SUBSET (0 .. n)
      OBVIOUS
    <3> HIDE DEF S
    <3>3. QED
      BY <1>1, <2>1, <3>1, <3>2, UpTo
  <2>4. QED
    BY <1>1, <2>3
<1>4. Lists(list, n)
  BY <1>3
<1> HIDE DEF list
<1>5. /\ list[0] = <<>>
      /\ \A k \in 0 .. n : k < n => list[k + 1] = Followed(h, x, list[k])
  BY <1>1, <1>4
<1> DEFINE Reached(k) == /\ IsList(h, x, list[k])
                         /\ IsWhole(h, x, list[k]) \/ Len(list[k]) = k
           S == {k \in 0 .. n : Reached(k)}
<1>6. 0 \in S
  <2> DEFINE e == <<>>
  <2>1. e \in Seq(DOMAIN h) /\ Len(e) = 0 /\ list[0] = e
    BY <1>5
  <2>2. IsList(h, x, list[0]) /\ Len(list[0]) = 0
    BY <2>1 DEF IsList
  <2>3. QED
    BY <1>1, <2>2
<1>7. \A k \in S : k < n => k + 1 \in S
  <2>1. SUFFICES ASSUME NEW k \in 0 .. n, Reached(k), k < n PROVE Reached(k + 1)
    BY <1>1
  <2>2. QED
    BY <1>5, <2>1, FollowedIsList
<1>8. Reached(n)
  <2>1. S \in SUBSET (0 .. n)
    OBVIOUS
  <2> HIDE DEF S
  <2>2. S = 0 .. n
    BY <1>1, <1>6, <1>7, <2>1, UpTo
  <2>3. n \in S
    BY <1>1, <2>2
  <2>4. QED
    BY <2>3 DEF S
<1>9. ASSUME ~IsWhole(h, x, list[n]) PROVE FALSE
  <2> DEFINE l == list[n]
  <2>1. Len(l) = n /\ l \in Seq(DOMAIN h) /\ IsList(h, x, l)
    BY <1>8, <1>9 DEF IsList
  <2>2. \A i, j \in 1 .. n : l[i] = l[j] => i = j
    BY <2>1, ListIsInjective
  <2> HIDE DEF l
  <2>3. l \in [1 .. n -> DOMAIN h]
    BY <2>1
  <2>4. {l[i] : i \in 1 .. n} = DOMAIN h
    <3> DEFINE V == {l[i] : i \in 1 .. n}
    <3>1. ExistsBijection(1 .. n, V)
      <4>1. l \in [1 .. n -> V] /\ \A v \in V : \E i \in 1 .. n : l[i] = v
        BY <2>3
      <4>2. QED
        BY <2>2, <4>1, Fun_IsBij DEF ExistsBijection
    <3>2. IsFiniteSet(1 .. n) /\ Cardinality(1 .. n) = n
      BY <1>1, FS_Interval
    <3>3. Cardinality(V) = n
      BY <3>1, <3>2, FS_Bijection
    <3>4. V \subseteq DOMAIN h
      BY <2>3
    <3> HIDE DEF V
    <3>5. V = DOMAIN h
      BY <1>1, <3>3, <3>4, FS_Subset DEF n
    <3>6. QED
      BY <3>5 DEF V
  <2>5. PICK v \in DOMAIN h : \A w \in DOMAIN h : v \notin {h[w].child, h[w].sibling}
    BY DEF NoCycle
  <2>6. PICK i \in 1 .. n : v = l[i]
    BY <2>4
  <2>7. CASE i = 1
    BY <1>1, <2>1, <2>5, <2>6, <2>7, EmptySeq DEF IsList
  <2>8. CASE i # 1
    <3>1. i - 1 \in 1 .. Len(l) - 1 /\ l[i - 1] \in DOMAIN h
      BY <1>1, <2>1, <2>3, <2>6, <2>8
    <3>2. l[(i - 1) + 1] = h[l[i - 1]].sibling
      BY <2>1, <3>1 DEF IsList
    <3>3. QED
      BY <2>5, <2>6, <3>1, <3>2
  <2>9. QED
    BY <2>7, <2>8
<1>10. QED
  BY <1>2, <1>8, <1>9

\* The list lies in what the owner of x owns.
LEMMA ListIsOwned ==
  ASSUME NEW h, Heap(h), NEW b \in DOMAIN h, NEW x \in Owned(h, b), NEW l, IsList(h, x, l)
  PROVE  \A i \in 1 .. Len(l) : l[i] \in Owned(h, b)
<1>1. /\ l \in Seq(DOMAIN h) /\ Len(l) \in Nat /\ x \in DOMAIN h
      /\ Null \notin DOMAIN h /\ Closed(h, Owned(h, b))
  BY OwnedBy, NodeTreeAssumption DEF IsList, Heap
<1> DEFINE S == {i \in 0 .. Len(l) : i > 0 => l[i] \in Owned(h, b)}
<1>2. 0 \in S
  BY <1>1
<1>3. ASSUME NEW i \in S, i < Len(l) PROVE i + 1 \in S
  <2>1. i + 1 \in 1 .. Len(l) /\ l[i + 1] \in DOMAIN h
    BY <1>1, <1>3
  <2>2. CASE i = 0
    BY <1>1, <2>1, <2>2, EmptySeq DEF IsList, Closed
  <2>3. CASE i # 0
    <3>1. l[i + 1] = h[l[i]].sibling /\ l[i] \in Owned(h, b)
      BY <1>1, <1>3, <2>3 DEF IsList
    <3>2. QED
      BY <1>1, <2>1, <3>1 DEF Closed
  <2>4. QED
    BY <2>2, <2>3
<1>4. S = 0 .. Len(l)
  <2>1. S \in SUBSET (0 .. Len(l)) /\ \A i \in S : i < Len(l) => i + 1 \in S
    BY <1>3
  <2> HIDE DEF S
  <2>2. QED
    BY <1>1, <1>2, <2>1, UpTo
<1>5. QED
  BY <1>1, <1>4

LEMMA PassedInList ==
  ASSUME NEW h, NEW V, NEW l \in Seq(V), NEW i
  PROVE  Passed(h, l, i) \in 0 .. Len(l)
<1> DEFINE S == {k \in DOMAIN l : \A j \in 1 .. k : h[l[j]].index < i}
<1>1. Len(l) \in Nat /\ DOMAIN l = 1 .. Len(l)
  OBVIOUS
<1>2. IsFiniteSet(1 .. Len(l)) /\ Cardinality(1 .. Len(l)) = Len(l)
  BY <1>1, FS_Interval
<1>3. S \in SUBSET (1 .. Len(l))
  BY <1>1
<1> HIDE DEF S
<1>4. Cardinality(S) \in Nat /\ Cardinality(S) <= Len(l)
  BY <1>2, <1>3, FS_Subset, FS_CardinalityType
<1>5. QED
  BY <1>1, <1>4 DEF Passed, S

\* Those it passes are the first ones of the list.
LEMMA PassedIsPrefix ==
  ASSUME NEW h, NEW V, NEW l \in Seq(V), NEW i
  PROVE  /\ \A j \in 1 .. Passed(h, l, i) : h[l[j]].index < i
         /\ Passed(h, l, i) + 1 \in DOMAIN l => ~(h[l[Passed(h, l, i) + 1]].index < i)
<1> DEFINE n == Len(l)
           S == {k \in DOMAIN l : \A j \in 1 .. k : h[l[j]].index < i}
           Q == {k \in 0 .. n : 1 .. k \subseteq S \/ \E p \in 0 .. k : S = 1 .. p}
<1>1. n \in Nat /\ DOMAIN l = 1 .. n
  OBVIOUS
<1>2. S \subseteq 1 .. n /\ \A k \in S : \A j \in 1 .. k : j \in S
  BY <1>1
<1>3. 0 \in Q
  BY <1>1
<1>4. ASSUME NEW k \in Q, k < n PROVE k + 1 \in Q
  <2>1. k \in 0 .. n /\ k + 1 \in 0 .. n
    BY <1>1, <1>4
  <2> HIDE DEF S
  <2>2. CASE \E p \in 0 .. k : S = 1 .. p
    BY <2>1, <2>2
  <2>3. CASE 1 .. k \subseteq S /\ k + 1 \in S
    BY <2>1, <2>3
  <2>4. CASE 1 .. k \subseteq S /\ k + 1 \notin S
    <3>1. ASSUME NEW j \in S PROVE j \in 1 .. k
      BY <1>2, <2>1, <2>4, <3>1
    <3>2. S = 1 .. k
      BY <2>4, <3>1
    <3>3. QED
      BY <2>1, <3>2
  <2>5. QED
    BY <2>2, <2>3, <2>4
<1>5. \E p \in 0 .. n : S = 1 .. p
  <2>1. Q \in SUBSET (0 .. n) /\ \A k \in Q : k < n => k + 1 \in Q
    BY <1>4
  <2> HIDE DEF Q
  <2>2. n \in Q
    BY <1>1, <1>3, <2>1, UpTo
  <2>3. 1 .. n \subseteq S \/ \E p \in 0 .. n : S = 1 .. p
    BY <2>2 DEF Q
  <2> HIDE DEF S, n
  <2>4. CASE 1 .. n \subseteq S
    <3>1. n \in 0 .. n
      BY <1>1
    <3>2. S \subseteq 1 .. n
      BY <1>2
    <3>3. S = 1 .. n
      BY <2>4, <3>2
    <3>4. QED
      BY <3>1, <3>3
  <2>5. QED
    BY <2>3, <2>4
<1>6. PICK p \in 0 .. n : S = 1 .. p
  BY <1>5
<1>7. Passed(h, l, i) = p
  <2>1. Cardinality(1 .. p) = p
    BY <1>1, <1>6, FS_Interval
  <2>2. QED
    BY <1>6, <2>1 DEF Passed
<1>8. \A j \in 1 .. p : h[l[j]].index < i
  <2>1. p = 0 \/ p \in S
    BY <1>1, <1>6
  <2>2. QED
    BY <1>1, <2>1
<1>9. p + 1 \in DOMAIN l => ~(h[l[p + 1]].index < i)
  <2>1. p + 1 \notin S
    BY <1>1, <1>6
  <2>2. ASSUME p + 1 \in DOMAIN l, h[l[p + 1]].index < i PROVE p + 1 \in S
    <3>1. \A j \in 1 .. p + 1 : j \in 1 .. p \/ j = p + 1
      BY <1>1
    <3>2. QED
      BY <1>8, <2>2, <3>1
  <2>3. QED
    BY <2>1, <2>2
<1>10. QED
  BY <1>7, <1>8, <1>9

\* Actualize finds a node of the list, which its owner owns, or none.
LEMMA NodeOfOwned ==
  ASSUME NEW h, Heap(h), NoCycle(h), NEW b \in DOMAIN h, NEW x \in Owned(h, b), NEW i
  PROVE  NodeOf(h, x, i) \in Owned(h, b) \cup {Null}
<1> DEFINE l == ChildList(h, x)
           k == Passed(h, l, i) + 1
<1>1. x \in DOMAIN h
  BY OwnedBy
<1>2. IsList(h, x, l) /\ l \in Seq(DOMAIN h)
  BY <1>1, ChildListIs DEF IsList
<1> HIDE DEF l
<1>3. \A j \in DOMAIN l : l[j] \in Owned(h, b)
  BY <1>2, ListIsOwned
<1>4. NodeOf(h, x, i) = IF k \in DOMAIN l /\ h[l[k]].index = i THEN l[k] ELSE Null
  BY DEF NodeOf, l
<1>5. QED
  BY <1>3, <1>4

\* The node y for the edge i of x, hung in behind the first k of the list l.
SpawnedAt(h, x, i, y, l, k, g) ==
    /\ HungIn(h, IF k = 0 THEN x ELSE l[k], y, g)
    /\ k = 0 <=> g[IF k = 0 THEN x ELSE l[k]].child = y
    /\ \A w \in DOMAIN h : /\ g[w].parent = h[w].parent /\ g[w].index = h[w].index
                           /\ g[w].edges = h[w].edges
    /\ g[y].parent = x /\ g[y].index = i /\ g[y].edges = <<>>
    /\ g[y].sibling = IF k = Len(l) THEN Null ELSE l[k + 1]

\* The new node for an edge is hung in where Actualize stopped.
LEMMA SpawnedIsHungIn ==
  ASSUME NEW h, Heap(h), NoCycle(h), NEW x \in DOMAIN h, h[x].edges # <<>>, NEW i \in Nat,
         NEW y \in Node \ DOMAIN h
  PROVE  LET g == Spawned(h, x, i, y)
         IN  /\ Heap(g) /\ \E z \in DOMAIN h : HungIn(h, z, y, g)
             /\ SpawnedAt(h, x, i, y, ChildList(h, x), Passed(h, ChildList(h, x), i), g)
<1> DEFINE l == ChildList(h, x)
           k == Passed(h, l, i)
           rest == IF k = Len(l) THEN Null ELSE l[k + 1]
           grown == Alloc(h, y, NewNode(x, i, rest))
           g == Spawned(h, x, i, y)
           z == IF k = 0 THEN x ELSE l[k]
<1>1. IsList(h, x, l) /\ IsWhole(h, x, l) /\ l \in Seq(DOMAIN h) /\ Len(l) \in Nat
  BY ChildListIs DEF IsList
<1>2. k \in 0 .. Len(l)
  BY <1>1, PassedInList
<1>3. g = IF k = 0 THEN [grown EXCEPT ![x].child = y] ELSE [grown EXCEPT ![l[k]].sibling = y]
  BY DEF Spawned
<1> HIDE DEF l, k, g
<1>4. z \in DOMAIN h /\ rest \in DOMAIN h \cup {Null}
  BY <1>1, <1>2
<1>5. rest = IF k = 0 THEN h[x].child ELSE h[z].sibling
  <2>1. CASE k = 0 /\ Len(l) = 0
    BY <1>1, <2>1, EmptySeq DEF IsWhole
  <2>2. CASE k = 0 /\ Len(l) # 0
    BY <1>1, <2>2, EmptySeq DEF IsList
  <2>3. CASE k # 0 /\ k = Len(l)
    BY <1>1, <1>2, <2>3, EmptySeq DEF IsWhole
  <2>4. CASE k # 0 /\ k # Len(l)
    <3>1. k \in 1 .. Len(l) - 1
      BY <1>1, <1>2, <2>4
    <3>2. QED
      BY <2>4, <3>1, <1>1 DEF IsList
  <2>5. QED
    BY <2>1, <2>2, <2>3, <2>4
<1> DEFINE new == NewNode(x, i, rest)
<1>6. /\ new \in NodeRecord /\ new.child = Null /\ new.sibling = rest /\ new.edges = <<>>
  BY <1>4, NewNodeIs DEF Heap
<1>7. /\ DOMAIN grown = DOMAIN h \cup {y} /\ grown[y] = new
      /\ \A w \in DOMAIN h : grown[w] = h[w]
  BY DEF Alloc
<1> HIDE DEF rest, new, grown
<1>8. z # y /\ y # Null /\ Null \notin DOMAIN h /\ h[z] \in NodeRecord
  BY <1>4, NodeTreeAssumption DEF Heap
<1>9. /\ DOMAIN g = DOMAIN h \cup {y} /\ g[y] = new
      /\ \A w \in DOMAIN h \ {z} : g[w] = h[w]
      /\ g[z] = IF k = 0 THEN [h[z] EXCEPT !.child = y] ELSE [h[z] EXCEPT !.sibling = y]
  BY <1>3, <1>4, <1>7, <1>8
<1>10. /\ g[z] \in NodeRecord /\ g[z].edges = h[z].edges
       /\ g[z].child = IF k = 0 THEN y ELSE h[z].child
       /\ g[z].sibling = IF k = 0 THEN h[z].sibling ELSE y
  BY <1>8, <1>9 DEF NodeRecord
<1>11. HungIn(h, z, y, g)
  BY <1>4, <1>5, <1>6, <1>8, <1>9, <1>10 DEF HungIn
<1>12. \A w \in DOMAIN h : /\ g[w].parent = h[w].parent /\ g[w].index = h[w].index
                           /\ g[w].edges = h[w].edges
  BY <1>8, <1>9 DEF NodeRecord
<1>13. Heap(g)
  <2>1. \A w \in DOMAIN g : g[w] \in NodeRecord
    BY <1>6, <1>9, <1>10 DEF Heap
  <2>2. g = [w \in DOMAIN g |-> g[w]]
    BY <1>3, <1>7 DEF grown, Alloc
  <2>3. g \in [DOMAIN g -> NodeRecord]
    BY <2>1, <2>2
  <2>4. \A w \in DOMAIN g : /\ g[w].child \in DOMAIN g \cup {Null}
                            /\ g[w].sibling \in DOMAIN g \cup {Null}
    <3>1. \A w \in DOMAIN h : /\ h[w].child \in DOMAIN h \cup {Null}
                              /\ h[w].sibling \in DOMAIN h \cup {Null}
      BY DEF Heap
    <3>2. QED
      BY <1>4, <1>6, <1>9, <1>10, <3>1
  <2>5. \A w \in DOMAIN g : IsInjective(g[w].edges)
    BY <1>6, <1>9, <1>12 DEF Heap, IsInjective
  <2>6. \A w \in DOMAIN g : g[w].edges = <<>> => g[w].child = Null
    <3>1. \A w \in DOMAIN h : h[w].edges = <<>> => h[w].child = Null
      BY DEF Heap
    <3>2. h[z].edges # <<>> \/ k # 0
      BY DEF z
    <3>3. QED
      BY <1>6, <1>9, <1>10, <1>12, <3>1, <3>2
  <2>7. QED
    BY <1>9, <2>3, <2>4, <2>5, <2>6 DEF Heap
<1>14. SpawnedAt(h, x, i, y, l, k, g)
  <2>1. h[z].child # y
    BY <1>4, <1>8 DEF Heap
  <2>2. k = 0 <=> g[z].child = y
    BY <1>10, <2>1
  <2>3. g[y].sibling = rest /\ g[y].parent = x /\ g[y].index = i /\ g[y].edges = <<>>
    BY <1>4, <1>6, <1>9, NewNodeIs DEF new, Heap
  <2>4. QED
    BY <1>11, <1>12, <2>2, <2>3 DEF SpawnedAt, rest
<1>15. QED
  BY <1>4, <1>11, <1>13, <1>14 DEF g, k, l

LEMMA Spawn ==
  ASSUME NEW h, Heap(h), NEW R, Forest(h, R), NEW x \in DOMAIN h, h[x].edges # <<>>,
         NEW i \in Nat, NEW y \in Node \ DOMAIN h
  PROVE  LET g == GetOrSpawnNode(h, x, i, y)
         IN  Heap(g) /\ Forest(g, R) /\ Keeps(h, g, R)
<1>1. CASE NodeOf(h, x, i) # Null
  BY <1>1 DEF GetOrSpawnNode, Keeps
<1>2. CASE NodeOf(h, x, i) = Null
  <2>1. GetOrSpawnNode(h, x, i, y) = Spawned(h, x, i, y)
    BY <1>2 DEF GetOrSpawnNode
  <2>2. NoCycle(h)
    BY DEF Forest
  <2>3. QED
    BY <2>1, <2>2, SpawnedIsHungIn, Hang
<1>3. QED
  BY <1>1, <1>2

-----------------------------------------------------------------------------
(***************************************************************************)
(* The order of siblings.                                                  *)
(***************************************************************************)

\* Below b nodes have an edge of their parent, children are those of their parent, and
\* each sibling comes before the next.
SiblingOrder(h, b) ==
    /\ h[b].sibling = Null
    /\ \A x \in Owned(h, b) \ {b} :
          h[x].parent \in Owned(h, b) /\ h[x].index < Len(h[h[x].parent].edges)
    /\ \A x \in Owned(h, b) : h[x].child # Null => h[h[x].child].parent = x
    /\ \A x \in Owned(h, b) : h[x].sibling # Null =>
          h[h[x].sibling].parent = h[x].parent /\ h[x].index < h[h[x].sibling].index

LEMMA ListIsOrdered ==
  ASSUME NEW h, Heap(h), NEW R, Forest(h, R), NEW b \in R, SiblingOrder(h, b),
         NEW x \in Owned(h, b), NEW l, IsList(h, x, l)
  PROVE  \A i \in 1 .. Len(l) :
            /\ l[i] \in Owned(h, b) \ {b} /\ h[l[i]].parent = x
            /\ h[l[i]].index < Len(h[x].edges)
            /\ i > 1 => h[l[i - 1]].index < h[l[i]].index
<1>1. /\ l \in Seq(DOMAIN h) /\ Len(l) \in Nat /\ b \in DOMAIN h /\ x \in DOMAIN h
      /\ Null \notin DOMAIN h
  BY OwnedBy, NodeTreeAssumption DEF IsList, Forest, Heap
<1>2. \A i \in 1 .. Len(l) : l[i] \in Owned(h, b) /\ l[i] \in DOMAIN h
  BY <1>1, ListIsOwned
<1>3. Len(l) > 0 => l[1] = h[x].child
  BY <1>1, EmptySeq DEF IsList
<1>4. \A i \in 1 .. Len(l) - 1 : l[i + 1] = h[l[i]].sibling
  BY DEF IsList
<1>5. \A i \in 1 .. Len(l) : l[i] # b
  <2>1. TAKE i \in 1 .. Len(l)
  <2>2. CASE i = 1
    BY <1>1, <1>3, <2>2 DEF Forest, OnePointer
  <2>3. CASE i # 1
    <3>1. i - 1 \in 1 .. Len(l) - 1 /\ (i - 1) + 1 = i /\ i - 1 \in 1 .. Len(l)
      BY <1>1, <2>3
    <3>2. l[i] = h[l[i - 1]].sibling /\ l[i - 1] \in DOMAIN h
      BY <1>2, <1>4, <3>1
    <3>3. QED
      BY <3>2 DEF Forest, OnePointer
  <2>4. QED
    BY <2>2, <2>3
<1> DEFINE S == {i \in 0 .. Len(l) : i > 0 => h[l[i]].parent = x}
<1>6. ASSUME NEW i \in S, i < Len(l) PROVE i + 1 \in S
  <2>1. i + 1 \in 1 .. Len(l) /\ l[i + 1] # Null
    BY <1>1, <1>2, <1>6
  <2>2. CASE i = 0
    BY <1>3, <2>1, <2>2 DEF SiblingOrder
  <2>3. CASE i # 0
    <3>1. i \in 1 .. Len(l) - 1 /\ i \in 1 .. Len(l) /\ h[l[i]].parent = x
      BY <1>1, <1>6, <2>3
    <3>2. l[i + 1] = h[l[i]].sibling /\ l[i] \in Owned(h, b)
      BY <1>2, <1>4, <3>1
    <3>3. h[l[i + 1]].parent = x
      BY <2>1, <3>1, <3>2 DEF SiblingOrder
    <3>4. QED
      BY <2>1, <3>3
  <2>4. QED
    BY <2>2, <2>3
<1>7. \A i \in 1 .. Len(l) : h[l[i]].parent = x
  <2>1. S \in SUBSET (0 .. Len(l)) /\ 0 \in S /\ \A i \in S : i < Len(l) => i + 1 \in S
    BY <1>1, <1>6
  <2> HIDE DEF S
  <2>2. S = 0 .. Len(l)
    BY <1>1, <2>1, UpTo
  <2>3. \A i \in 1 .. Len(l) : i \in S
    BY <1>1, <2>2
  <2>4. QED
    BY <2>3 DEF S
<1>8. \A i \in 1 .. Len(l) : h[l[i]].index < Len(h[x].edges)
  BY <1>2, <1>5, <1>7 DEF SiblingOrder
<1>9. \A i \in 1 .. Len(l) : i > 1 => h[l[i - 1]].index < h[l[i]].index
  <2>1. TAKE i \in 1 .. Len(l)
  <2>2. HAVE i > 1
  <2>3. i - 1 \in 1 .. Len(l) - 1 /\ (i - 1) + 1 = i /\ i - 1 \in 1 .. Len(l)
    BY <1>1, <2>2
  <2>4. l[i] = h[l[i - 1]].sibling /\ l[i - 1] \in Owned(h, b) /\ l[i] # Null
    BY <1>1, <1>2, <1>4, <2>3
  <2>5. QED
    BY <2>4 DEF SiblingOrder
<1>10. QED
  BY <1>2, <1>5, <1>7, <1>8, <1>9

\* What b owns as before, with the same pointers, and as many edges or more, is in the
\* order it was in.
LEMMA SameOrder ==
  ASSUME NEW h, Heap(h), NEW g, Heap(g), NEW b \in DOMAIN h, SiblingOrder(h, b),
         Owned(g, b) = Owned(h, b), Owned(h, b) \subseteq DOMAIN g,
         \A x \in Owned(h, b) :
            /\ g[x].parent = h[x].parent /\ g[x].index = h[x].index
            /\ g[x].child = h[x].child /\ g[x].sibling = h[x].sibling
            /\ Len(h[x].edges) <= Len(g[x].edges)
  PROVE  SiblingOrder(g, b)
<1> DEFINE O == Owned(h, b)
<1>1. \A x \in O : h[x].child \in O \cup {Null} /\ h[x].sibling \in O \cup {Null}
  BY OwnedBy DEF Closed
<1>2. ASSUME NEW x \in O \ {b}
      PROVE  g[x].parent \in O /\ g[x].index < Len(g[g[x].parent].edges)
  <2> DEFINE p == h[x].parent
  <2>1. p \in O /\ h[x].index < Len(h[p].edges)
    BY <1>2 DEF SiblingOrder
  <2>2. Len(h[p].edges) \in Nat /\ Len(g[p].edges) \in Nat /\ h[x].index \in Nat
    BY <1>2, <2>1, OwnedBy DEF Heap, NodeRecord
  <2>3. Len(h[p].edges) <= Len(g[p].edges) /\ g[x].parent = p /\ g[x].index = h[x].index
    BY <1>2, <2>1
  <2> HIDE DEF p, O
  <2>4. QED
    BY <2>1, <2>2, <2>3
<1>3. \A x \in O : g[x].child # Null => g[g[x].child].parent = x
  BY <1>1 DEF SiblingOrder
<1>4. \A x \in O : g[x].sibling # Null =>
          g[g[x].sibling].parent = g[x].parent /\ g[x].index < g[g[x].sibling].index
  BY <1>1 DEF SiblingOrder
<1>5. g[b].sibling = Null
  BY OwnedBy DEF SiblingOrder
<1>6. QED
  BY <1>2, <1>3, <1>4, <1>5 DEF SiblingOrder

LEMMA EdgesInOrder ==
  ASSUME NEW h, Heap(h), NEW R, Forest(h, R), NEW b \in R, SiblingOrder(h, b),
         NEW x \in DOMAIN h, NEW list \in Seq(Move), IsInjective(list), h[x].edges = <<>>
  PROVE  SiblingOrder([h EXCEPT ![x].edges = list], b)
<1> DEFINE g == [h EXCEPT ![x].edges = list]
<1>1. Heap(g) /\ DOMAIN g = DOMAIN h /\ g[x].edges = list /\ Keeps(h, g, R)
  BY NewEdges
<1>2. h[x] \in NodeRecord /\ b \in DOMAIN h
  BY DEF Heap, Forest
<1>3. /\ \A w \in DOMAIN h : /\ g[w].parent = h[w].parent /\ g[w].index = h[w].index
                            /\ g[w].child = h[w].child /\ g[w].sibling = h[w].sibling
      /\ \A w \in DOMAIN h \ {x} : g[w] = h[w]
  BY <1>2 DEF Heap, NodeRecord
<1> HIDE DEF g
<1>4. Owned(g, b) = Owned(h, b)
  BY <1>1, <1>3 DEF Owned, Closed
<1>5. \A w \in DOMAIN h : Len(h[w].edges) <= Len(g[w].edges)
  <2>1. \A w \in DOMAIN h : Len(h[w].edges) \in Nat
    BY DEF Heap, NodeRecord
  <2>2. Len(h[x].edges) = 0 /\ Len(g[x].edges) \in Nat
    BY <1>1
  <2>3. QED
    BY <1>3, <2>1, <2>2
<1>6. Owned(h, b) \subseteq DOMAIN h
  BY <1>2, OwnedBy
<1>7. QED
  BY <1>1, <1>2, <1>3, <1>4, <1>5, <1>6, SameOrder DEF g

\* The node y for the edge i of x, at its place in the list: as the first child, or behind
\* a child that comes before it, and before one that comes after it.
HungFor(h, x, i, z, y, g) ==
    /\ HungIn(h, z, y, g)
    /\ \A w \in DOMAIN h : /\ g[w].parent = h[w].parent /\ g[w].index = h[w].index
                           /\ g[w].edges = h[w].edges
    /\ g[y].parent = x /\ g[y].index = i /\ g[y].edges = <<>>
    /\ IF g[z].child = y THEN z = x ELSE h[z].parent = x /\ h[z].index < i
    /\ g[y].sibling # Null => h[g[y].sibling].parent = x /\ i < h[g[y].sibling].index

LEMMA HungInOrder ==
  ASSUME NEW h, Heap(h), NEW R, Forest(h, R), NEW b \in R, SiblingOrder(h, b),
         NEW x \in Owned(h, b), NEW i \in Nat, i < Len(h[x].edges),
         NEW z \in Owned(h, b), NEW y \in Node \ DOMAIN h,
         NEW g, Heap(g), HungFor(h, x, i, z, y, g), g[z].child = y \/ z # b
  PROVE  SiblingOrder(g, b)
<1> DEFINE O == Owned(h, b)
           P == Owned(g, b)
<1>1. /\ b \in DOMAIN h /\ b \in O /\ O \subseteq DOMAIN h /\ Closed(h, O)
      /\ x \in DOMAIN h /\ z \in DOMAIN h
  BY OwnedBy DEF Forest
<1>2. HungIn(h, z, y, g) /\ y # Null /\ Null \notin DOMAIN h /\ y # b /\ y # z
  BY <1>1, NodeTreeAssumption DEF HungFor, Heap
<1>3. O \subseteq P
  BY <1>1, <1>2, Hang DEF Keeps
<1>4. P \subseteq O \cup {y}
  <2>1. O \cup {y} \in SUBSET DOMAIN g /\ b \in O \cup {y} /\ b \in DOMAIN g
    BY <1>1, <1>2 DEF HungIn
  <2>2. Closed(g, O \cup {y})
    BY <1>1, <1>2 DEF Closed, HungIn
  <2>3. QED
    BY <2>1, <2>2, OwnedBy
<1>5. \A w \in DOMAIN h : /\ g[w].parent = h[w].parent /\ g[w].index = h[w].index
                          /\ g[w].edges = h[w].edges
  BY DEF HungFor
<1>6. \A w \in O : h[w].child \in O \cup {Null} /\ h[w].sibling \in O \cup {Null}
  BY <1>1 DEF Closed
<1>7. g[y].parent = x /\ g[y].index = i /\ g[y].child = Null
  BY DEF HungFor, HungIn
<1>8. g[y].sibling \in O \cup {Null} /\ h[z].child # y /\ h[z].sibling # y
  BY <1>1, <1>2, <1>6 DEF HungIn, Heap
<1>9. \A w \in O \ {z} : g[w].child = h[w].child /\ g[w].sibling = h[w].sibling
  BY <1>1, <1>2 DEF HungIn
<1> HIDE DEF O, P
<1>10. g[b].sibling = Null
  <2>1. h[b].sibling = Null
    BY DEF SiblingOrder
  <2>2. CASE b = z
    BY <1>2, <1>8, <2>1, <2>2 DEF HungIn
  <2>3. CASE b # z
    BY <1>1, <1>9, <2>1, <2>3
  <2>4. QED
    BY <2>2, <2>3
<1>11. ASSUME NEW w \in P \ {b}
       PROVE  g[w].parent \in P /\ g[w].index < Len(g[g[w].parent].edges)
  <2>1. CASE w = y
    BY <1>1, <1>3, <1>5, <1>7, <2>1 DEF O
  <2>2. CASE w # y
    <3>1. w \in O \ {b}
      BY <1>4, <1>11, <2>2
    <3>2. h[w].parent \in O /\ h[w].index < Len(h[h[w].parent].edges)
      BY <3>1 DEF SiblingOrder, O
    <3>3. QED
      BY <1>1, <1>3, <1>5, <3>1, <3>2
  <2>3. QED
    BY <2>1, <2>2
<1>12. ASSUME NEW w \in P, g[w].child # Null
       PROVE  g[g[w].child].parent = w
  <2>1. w \in O
    BY <1>4, <1>7, <1>12
  <2>2. h[w].child # Null => h[w].child \in O /\ h[h[w].child].parent = w
    BY <1>6, <2>1 DEF SiblingOrder, O
  <2>3. CASE g[w].child = h[w].child
    BY <1>1, <1>5, <1>12, <2>2, <2>3
  <2>4. CASE g[w].child # h[w].child
    <3>1. w = z /\ g[z].child = y
      BY <1>2, <1>9, <2>1, <2>4 DEF HungIn
    <3>2. QED
      BY <1>7, <3>1 DEF HungFor
  <2>5. QED
    BY <2>3, <2>4
<1>13. ASSUME NEW w \in P, g[w].sibling # Null
       PROVE  g[g[w].sibling].parent = g[w].parent /\ g[w].index < g[g[w].sibling].index
  <2>1. CASE w = y
    BY <1>1, <1>5, <1>7, <1>8, <1>13, <2>1 DEF HungFor
  <2>2. CASE w # y
    <3>1. w \in O
      BY <1>4, <1>13, <2>2
    <3>2. h[w].sibling # Null => /\ h[w].sibling \in O
                                 /\ h[h[w].sibling].parent = h[w].parent
                                 /\ h[w].index < h[h[w].sibling].index
      BY <1>6, <3>1 DEF SiblingOrder, O
    <3>3. CASE g[w].sibling = h[w].sibling
      BY <1>1, <1>5, <1>13, <3>1, <3>2, <3>3
    <3>4. CASE g[w].sibling # h[w].sibling
      <4>1. w = z /\ g[z].sibling = y /\ g[z].child = h[z].child
        BY <1>2, <1>9, <3>1, <3>4 DEF HungIn
      <4>2. h[z].parent = x /\ h[z].index < i
        BY <1>8, <4>1 DEF HungFor
      <4>3. QED
        BY <1>1, <1>5, <1>7, <4>1, <4>2
    <3>5. QED
      BY <3>3, <3>4
  <2>3. QED
    BY <2>1, <2>2
<1>14. QED
  BY <1>10, <1>11, <1>12, <1>13 DEF SiblingOrder, P

\* Where GetOrSpawnNode hangs in the node it makes for the edge i of x.
LEMMA SpawnedFor ==
  ASSUME NEW h, Heap(h), NEW R, Forest(h, R), NEW b \in R, SiblingOrder(h, b),
         NEW x \in Owned(h, b), NEW i \in Nat, h[x].edges # <<>>,
         NEW y \in Node \ DOMAIN h, NodeOf(h, x, i) = Null
  PROVE  LET g == Spawned(h, x, i, y)
         IN  /\ GetOrSpawnNode(h, x, i, y) = g /\ Heap(g)
             /\ \E z \in Owned(h, b) : HungFor(h, x, i, z, y, g) /\ (g[z].child = y \/ z # b)
<1> DEFINE l == ChildList(h, x)
           k == Passed(h, l, i)
           g == Spawned(h, x, i, y)
           z == IF k = 0 THEN x ELSE l[k]
<1>1. GetOrSpawnNode(h, x, i, y) = g
  BY DEF GetOrSpawnNode
<1>2. x \in DOMAIN h /\ NoCycle(h)
  BY OwnedBy DEF Forest
<1>3. Heap(g) /\ SpawnedAt(h, x, i, y, l, k, g)
  BY <1>2, SpawnedIsHungIn
<1>4. IsList(h, x, l) /\ l \in Seq(DOMAIN h) /\ Len(l) \in Nat
  BY <1>2, ChildListIs DEF IsList
<1>5. k \in 0 .. Len(l)
  BY <1>4, PassedInList
<1>6. /\ \A j \in 1 .. k : h[l[j]].index < i
      /\ k + 1 \in DOMAIN l => ~(h[l[k + 1]].index < i)
  BY <1>4, PassedIsPrefix
<1>7. ~(k + 1 \in DOMAIN l /\ h[l[k + 1]].index = i)
  <2>1. NodeOf(h, x, i) = IF k + 1 \in DOMAIN l /\ h[l[k + 1]].index = i THEN l[k + 1] ELSE Null
    BY DEF NodeOf
  <2>2. Null \notin DOMAIN h
    BY NodeTreeAssumption DEF Heap
  <2> HIDE DEF k, l
  <2>3. QED
    BY <1>4, <2>1, <2>2
<1> HIDE DEF l, k, g
<1>8. \A j \in 1 .. Len(l) : l[j] \in Owned(h, b) \ {b} /\ h[l[j]].parent = x
  BY <1>4, ListIsOrdered
<1>9. z \in Owned(h, b) /\ (k # 0 => z # b /\ h[z].parent = x /\ h[z].index < i)
  BY <1>4, <1>5, <1>6, <1>8
<1>10. HungIn(h, z, y, g) /\ (k = 0 <=> g[z].child = y) /\ g[y].parent = x /\ g[y].index = i
  BY <1>3 DEF SpawnedAt
<1>11. ASSUME g[y].sibling # Null
       PROVE  h[g[y].sibling].parent = x /\ i < h[g[y].sibling].index
  <2>1. g[y].sibling = l[k + 1] /\ k # Len(l)
    BY <1>3, <1>11 DEF SpawnedAt
  <2>2. k + 1 \in DOMAIN l /\ k + 1 \in 1 .. Len(l) /\ l[k + 1] \in DOMAIN h
    BY <1>4, <1>5, <2>1
  <2>3. h[l[k + 1]].index \in Nat
    BY <2>2 DEF Heap, NodeRecord
  <2>4. QED
    BY <1>6, <1>7, <1>8, <2>1, <2>2, <2>3
<1>12. HungFor(h, x, i, z, y, g)
  BY <1>3, <1>9, <1>10, <1>11 DEF HungFor, SpawnedAt
<1>13. g[z].child = y \/ z # b
  BY <1>9, <1>10
<1>14. QED
  BY <1>1, <1>3, <1>9, <1>12, <1>13 DEF g

LEMMA SpawnInOrder ==
  ASSUME NEW h, Heap(h), NEW R, Forest(h, R), NEW b \in R, SiblingOrder(h, b),
         NEW x \in Owned(h, b), NEW i \in Nat, i < Len(h[x].edges), h[x].edges # <<>>,
         NEW y \in Node \ DOMAIN h
  PROVE  SiblingOrder(GetOrSpawnNode(h, x, i, y), b)
<1>1. CASE NodeOf(h, x, i) # Null
  BY <1>1 DEF GetOrSpawnNode
<1>2. CASE NodeOf(h, x, i) = Null
  BY <1>2, SpawnedFor, HungInOrder
<1>3. QED
  BY <1>1, <1>2

\* The node y of the only edge of x is the one that is new.
IsOnlyChild(h, x, y, g) ==
    DOMAIN g = DOMAIN h \cup {y} /\ g[y].edges = <<>> /\ NodeOf(g, x, 0) = y

LEMMA SingleChild ==
  ASSUME NEW h, Heap(h), NEW R, Forest(h, R), NEW x \in DOMAIN h, h[x].edges = <<>>,
         NEW m \in Move, NEW y \in Node \ DOMAIN h
  PROVE  LET g == CreateSingleChildNode(h, x, m, y)
         IN  /\ Heap(g) /\ Forest(g, R) /\ Keeps(h, g, R) /\ IsOnlyChild(h, x, y, g)
             /\ HungFor([h EXCEPT ![x].edges = <<m>>], x, 0, x, y, g)
<1> DEFINE new == NewNode(x, 0, Null)
           grown == Alloc(h, y, new)
           g == CreateSingleChildNode(h, x, m, y)
           one == <<m>>
<1>1. /\ new \in NodeRecord /\ new.child = Null /\ new.sibling = Null /\ new.edges = <<>>
      /\ new.index = 0
  <2>1. x \in Node \cup {Null} /\ Null \in Node \cup {Null} /\ 0 \in Nat
    BY DEF Heap
  <2>2. new \in NodeRecord
    BY <2>1, NewNodeIs
  <2>3. new.child = Null /\ new.sibling = Null /\ new.edges = <<>>
    BY <2>1, NewNodeIs
  <2>4. new.index = 0
    BY <2>1, NewNodeIs
  <2>5. QED
    BY <2>2, <2>3, <2>4
<1>2. /\ DOMAIN grown = DOMAIN h \cup {y} /\ grown[y] = new
      /\ \A w \in DOMAIN h : grown[w] = h[w]
  BY DEF Alloc
<1>3. g = [grown EXCEPT ![x].edges = one, ![x].child = y]
  BY DEF CreateSingleChildNode
<1>4. one \in Seq(Move) /\ one # <<>> /\ IsInjective(one)
  BY DEF IsInjective
<1> HIDE DEF new, grown, one, g
<1>5. x # y /\ y # Null /\ Null \notin DOMAIN h /\ h[x] \in NodeRecord /\ h[x].child = Null
  BY NodeTreeAssumption DEF Heap
<1>6. /\ DOMAIN g = DOMAIN h \cup {y} /\ g[y] = new
      /\ \A w \in DOMAIN h \ {x} : g[w] = h[w]
      /\ g[x] = [h[x] EXCEPT !.edges = one, !.child = y]
  BY <1>2, <1>3, <1>5
<1>7. /\ g[x] \in NodeRecord /\ g[x].edges = one /\ g[x].child = y
      /\ g[x].sibling = h[x].sibling
  BY <1>4, <1>5, <1>6 DEF NodeRecord
<1>8. HungIn(h, x, y, g)
  BY <1>1, <1>5, <1>6, <1>7 DEF HungIn
<1>9. Heap(g)
  <2>1. \A w \in DOMAIN g : g[w] \in NodeRecord
    BY <1>1, <1>6, <1>7 DEF Heap
  <2>2. g = [w \in DOMAIN g |-> g[w]]
    BY <1>2, <1>3 DEF grown, Alloc
  <2>3. g \in [DOMAIN g -> NodeRecord]
    BY <2>1, <2>2
  <2>4. \A w \in DOMAIN g : /\ g[w].child \in DOMAIN g \cup {Null}
                            /\ g[w].sibling \in DOMAIN g \cup {Null}
    BY <1>1, <1>6, <1>7 DEF Heap
  <2>5. \A w \in DOMAIN g : IsInjective(g[w].edges)
    <3>1. IsInjective(new.edges)
      BY <1>1 DEF IsInjective
    <3>2. QED
      BY <1>4, <1>6, <1>7, <3>1 DEF Heap
  <2>6. \A w \in DOMAIN g : g[w].edges = <<>> => g[w].child = Null
    <3>1. \A w \in DOMAIN h \ {x} : g[w] = h[w] /\ (h[w].edges = <<>> => h[w].child = Null)
      BY <1>6 DEF Heap
    <3>2. g[x].edges # <<>> /\ g[y].child = Null
      BY <1>1, <1>4, <1>6, <1>7
    <3>3. QED
      BY <1>6, <3>1, <3>2, Zenon
  <2>7. QED
    BY <1>6, <2>3, <2>4, <2>5, <2>6 DEF Heap
<1>10. Forest(g, R) /\ Keeps(h, g, R)
  BY <1>8, <1>9, Hang
<1>11. NodeOf(g, x, 0) = y
  <2> DEFINE l == ChildList(g, x)
             k == Passed(g, l, 0)
  <2>1. IsList(g, x, l) /\ IsWhole(g, x, l) /\ l \in Seq(DOMAIN g)
    <3>1. x \in DOMAIN g /\ NoCycle(g)
      BY <1>6, <1>10 DEF Forest
    <3>2. IsList(g, x, l) /\ IsWhole(g, x, l)
      BY <1>9, <3>1, ChildListIs
    <3>3. QED
      BY <3>2 DEF IsList
  <2>2. NodeOf(g, x, 0) = IF k + 1 \in DOMAIN l /\ g[l[k + 1]].index = 0 THEN l[k + 1] ELSE Null
    BY DEF NodeOf
  <2>3. k = Cardinality({n \in DOMAIN l : \A j \in 1 .. n : g[l[j]].index < 0})
    BY DEF Passed
  <2> HIDE DEF l, k
  <2>4. l # <<>> /\ Len(l) \in Nat /\ DOMAIN l = 1 .. Len(l)
    BY <1>5, <1>7, <2>1 DEF IsWhole
  <2>5. 1 \in DOMAIN l /\ l[1] = y
    BY <1>7, <2>1, <2>4, EmptySeq DEF IsList
  <2>6. g[y].index = 0
    BY <1>1, <1>6
  <2>7. {n \in DOMAIN l : \A j \in 1 .. n : g[l[j]].index < 0} = {}
    <3>1. \A n \in DOMAIN l : 1 \in 1 .. n
      BY <2>4
    <3>2. ~(g[l[1]].index < 0)
      BY <2>5, <2>6
    <3>3. QED
      BY <3>1, <3>2
  <2>8. k = 0
    BY <2>3, <2>7, FS_EmptySet
  <2>9. QED
    BY <2>2, <2>5, <2>6, <2>8
<1>12. HungFor([h EXCEPT ![x].edges = one], x, 0, x, y, g)
  <2> DEFINE k == [h EXCEPT ![x].edges = one]
  <2>1. /\ DOMAIN k = DOMAIN h /\ \A w \in DOMAIN h \ {x} : k[w] = h[w]
        /\ k[x] = [h[x] EXCEPT !.edges = one]
    BY DEF Heap
  <2> HIDE DEF k
  <2>2. /\ k[x].child = h[x].child /\ k[x].sibling = h[x].sibling /\ k[x].edges = one
        /\ k[x].parent = h[x].parent /\ k[x].index = h[x].index
    BY <1>5, <2>1 DEF NodeRecord
  <2>3. g[x].parent = h[x].parent /\ g[x].index = h[x].index
    BY <1>5, <1>6 DEF NodeRecord
  <2>4. g[y].parent = x /\ g[y].index = 0 /\ g[y].sibling = Null
    BY <1>6, <1>1 DEF new, NewNode
  <2> DEFINE e == <<>>
  <2>7. g[y].edges = e
    BY <1>1, <1>6
  <2>5. HungIn(k, x, y, g)
    BY <1>8, <2>1, <2>2 DEF HungIn
  <2> HIDE DEF e
  <2>8. HungFor(k, x, 0, x, y, g)
    <3>1. \A w \in DOMAIN k : /\ g[w].parent = k[w].parent /\ g[w].index = k[w].index
                              /\ g[w].edges = k[w].edges
      BY <1>6, <1>7, <2>1, <2>2, <2>3
    <3>2. g[y].edges = <<>>
      BY <2>7 DEF e
    <3>3. g[x].child = y
      BY <1>7
    <3>4. QED
      BY <2>4, <2>5, <3>1, <3>2, <3>3 DEF HungFor
  <2>6. QED
    BY <2>8 DEF k
<1>13. QED
  BY <1>1, <1>6, <1>9, <1>10, <1>11, <1>12 DEF g, IsOnlyChild, one

LEMMA SingleChildInOrder ==
  ASSUME NEW h, Heap(h), NEW R, Forest(h, R), NEW b \in R, SiblingOrder(h, b),
         NEW x \in Owned(h, b), h[x].edges = <<>>, NEW m \in Move, NEW y \in Node \ DOMAIN h
  PROVE  SiblingOrder(CreateSingleChildNode(h, x, m, y), b)
<1> DEFINE one == <<m>>
           k == [h EXCEPT ![x].edges = one]
           g == CreateSingleChildNode(h, x, m, y)
<1>1. one \in Seq(Move) /\ IsInjective(one) /\ Len(one) = 1
  BY DEF IsInjective
<1>2. b \in DOMAIN h /\ x \in DOMAIN h
  BY OwnedBy DEF Forest
<1>3. Heap(g) /\ HungFor(k, x, 0, x, y, g) /\ IsOnlyChild(h, x, y, g)
  BY <1>2, SingleChild
<1> HIDE DEF one, g
<1>4. /\ Heap(k) /\ Forest(k, R) /\ DOMAIN k = DOMAIN h /\ k[x].edges = one
      /\ Keeps(h, k, R)
  BY <1>1, <1>2, NewEdges
<1>5. SiblingOrder(k, b)
  BY <1>1, <1>2, EdgesInOrder
<1> HIDE DEF k
<1>6. x \in Owned(k, b) /\ 0 \in Nat /\ 0 < Len(k[x].edges) /\ y \in Node \ DOMAIN k
  <2>1. x \in Owned(k, b)
    BY <1>4 DEF Keeps
  <2>2. Len(k[x].edges) = 1
    BY <1>1, <1>4
  <2>3. QED
    BY <1>4, <2>1, <2>2
<1>7. g[x].child = y
  <2>1. k[x].index \in Nat
    BY <1>2, <1>4 DEF Heap, NodeRecord
  <2>2. ASSUME g[x].child # y PROVE FALSE
    BY <1>3, <2>1, <2>2 DEF HungFor
  <2>3. QED
    BY <2>2
<1>8. QED
  BY <1>3, <1>4, <1>5, <1>6, <1>7, HungInOrder DEF g

\* MakeMove at a node the tree owns leads to a node the tree owns, or to none.
LEMMA MoveOfForest ==
  ASSUME NEW h, Heap(h), NEW R, Forest(h, R), NEW b \in R, NEW x \in Owned(h, b),
         NEW m \in Move, h[x].edges = <<>> \/ m \in Range(h[x].edges),
         NEW y \in Node \ DOMAIN h
  PROVE  LET t == Played([heap |-> h, head |-> x], m, y)
         IN  /\ Heap(t.heap) /\ Forest(t.heap, R)
             /\ t.head \in Owned(t.heap, b) \cup {Null}
             /\ h[x].edges = <<>> => /\ t.head = y /\ t.heap[y].edges = <<>>
                                     /\ DOMAIN t.heap = DOMAIN h \cup {y}
<1> DEFINE is == {i \in 0 .. Len(h[x].edges) - 1 : h[x].edges[i + 1] = m}
           i == IF is = {} THEN 0 ELSE CHOOSE i \in is : TRUE
           g == IF is = {} THEN CreateSingleChildNode(h, x, m, y) ELSE GetOrSpawnNode(h, x, i, y)
           t == Played([heap |-> h, head |-> x], m, y)
<1>1. t = [heap |-> g, head |-> NodeOf(g, x, i)]
  BY DEF Played
<1>2. b \in DOMAIN h /\ x \in DOMAIN h /\ h[x].edges \in Seq(Move) /\ Len(h[x].edges) \in Nat
  BY OwnedBy DEF Forest, Heap, NodeRecord
<1>3. is \subseteq Nat /\ (h[x].edges = <<>> <=> is = {})
  <2>1. is \subseteq Nat /\ (h[x].edges = <<>> => is = {})
    BY <1>2
  <2>2. ASSUME m \in Range(h[x].edges) PROVE is # {}
    <3>1. PICK j \in 1 .. Len(h[x].edges) : h[x].edges[j] = m
      BY <1>2, <2>2 DEF Range
    <3>2. j - 1 \in is
      BY <1>2, <3>1
    <3>3. QED
      BY <3>2
  <2>3. QED
    BY <2>1, <2>2
<1>4. is # {} => i \in Nat
  BY <1>3
<1> HIDE DEF is, i, t
<1>5. Heap(g) /\ Forest(g, R) /\ Keeps(h, g, R)
  <2>1. CASE is = {}
    BY <1>2, <1>3, <2>1, SingleChild
  <2>2. CASE is # {}
    BY <1>2, <1>3, <1>4, <2>2, Spawn
  <2>3. QED
    BY <2>1, <2>2
<1>6. b \in DOMAIN g /\ x \in Owned(g, b)
  BY <1>5 DEF Forest, Keeps
<1>7. NodeOf(g, x, i) \in Owned(g, b) \cup {Null}
  BY <1>5, <1>6, NodeOfOwned DEF Forest
<1>8. ASSUME h[x].edges = <<>>
      PROVE  NodeOf(g, x, i) = y /\ g[y].edges = <<>> /\ DOMAIN g = DOMAIN h \cup {y}
  <2>1. g = CreateSingleChildNode(h, x, m, y) /\ i = 0
    BY <1>3, <1>8 DEF i
  <2>2. IsOnlyChild(h, x, y, CreateSingleChildNode(h, x, m, y))
    BY <1>2, <1>8, SingleChild
  <2> HIDE DEF g
  <2>3. QED
    BY <2>1, <2>2 DEF IsOnlyChild
<1> HIDE DEF g
<1>9. t.heap = g /\ t.head = NodeOf(g, x, i)
  BY <1>1
<1>10. QED
  BY <1>5, <1>7, <1>8, <1>9 DEF t

LEMMA MoveInOrder ==
  ASSUME NEW h, Heap(h), NEW R, Forest(h, R), NEW b \in R, SiblingOrder(h, b),
         NEW x \in Owned(h, b), NEW m \in Move, h[x].edges = <<>> \/ m \in Range(h[x].edges),
         NEW y \in Node \ DOMAIN h
  PROVE  SiblingOrder(Played([heap |-> h, head |-> x], m, y).heap, b)
<1> DEFINE is == {i \in 0 .. Len(h[x].edges) - 1 : h[x].edges[i + 1] = m}
           i == IF is = {} THEN 0 ELSE CHOOSE i \in is : TRUE
           g == IF is = {} THEN CreateSingleChildNode(h, x, m, y) ELSE GetOrSpawnNode(h, x, i, y)
<1>1. Played([heap |-> h, head |-> x], m, y).heap = g
  BY DEF Played
<1>2. h[x].edges \in Seq(Move) /\ Len(h[x].edges) \in Nat
  BY OwnedBy DEF Forest, Heap, NodeRecord
<1>3. CASE is = {}
  <2>1. m \notin Range(h[x].edges)
    <3>1. ASSUME NEW j \in 1 .. Len(h[x].edges), h[x].edges[j] = m PROVE j - 1 \in is
      BY <1>2, <3>1
    <3>2. QED
      BY <1>2, <1>3, <3>1 DEF Range
  <2>2. SiblingOrder(CreateSingleChildNode(h, x, m, y), b)
    BY <2>1, SingleChildInOrder
  <2>3. QED
    BY <1>1, <1>3, <2>2
<1>4. CASE is # {}
  <2>1. i \in is /\ g = GetOrSpawnNode(h, x, i, y)
    BY <1>4
  <2>2. i \in Nat /\ i < Len(h[x].edges)
    BY <1>2, <2>1
  <2> HIDE DEF is, i
  <2>3. h[x].edges # <<>>
    BY <1>2, <2>2
  <2>4. SiblingOrder(GetOrSpawnNode(h, x, i, y), b)
    BY <2>2, <2>3, SpawnInOrder
  <2>5. QED
    BY <1>1, <2>1, <2>4
<1>5. QED
  BY <1>3, <1>4

LEMMA TrimInOrder ==
  ASSUME NEW h, Heap(h), NEW R, Forest(h, R), NEW b \in R, SiblingOrder(h, b), NEW x \in DOMAIN h
  PROVE  SiblingOrder([h EXCEPT ![x] = Renewed(@)], b)
<1> DEFINE g == [h EXCEPT ![x] = Renewed(@)]
           O == Owned(h, b)
           P == Owned(g, b)
<1>1. Heap(g) /\ DOMAIN g = DOMAIN h /\ NoCycle(g)
  BY Trim DEF Forest
<1>2. /\ g[x].parent = h[x].parent /\ g[x].index = h[x].index
      /\ g[x].child = Null /\ g[x].sibling = h[x].sibling
  BY DEF Renewed, NewNode, Heap
<1>3. \A w \in DOMAIN h \ {x} : g[w] = h[w]
  BY DEF Heap
<1>4. b \in DOMAIN h /\ Null \notin DOMAIN h
  BY NodeTreeAssumption DEF Forest, Heap
<1>5. \A w \in O : h[w].child \in O \cup {Null} /\ h[w].sibling \in O \cup {Null}
  BY <1>4, OwnedBy DEF Closed
<1>6. b \in O /\ O \subseteq DOMAIN h
  BY <1>4, OwnedBy
<1> HIDE DEF g
<1>7. /\ b \in P /\ P \subseteq DOMAIN h
      /\ \A w \in P \ {b} : \E u \in P : w \in {g[u].child, g[u].sibling}
      /\ \A w \in P : g[w].child \in P \cup {Null} /\ g[w].sibling \in P \cup {Null}
  BY <1>1, <1>4, OwnedBy DEF Closed
<1>8. P \subseteq O
  <2>1. Closed(g, O)
    BY <1>2, <1>3, <1>5, <1>6 DEF Closed
  <2>2. QED
    BY <1>1, <1>4, <1>6, <2>1, OwnedBy
<1> HIDE DEF O, P
<1> DEFINE Bad == {w \in P \ {b} : h[w].parent \notin P \ {x}}
<1>9. Bad = {}
  <2>1. SUFFICES ASSUME Bad # {} PROVE FALSE
    OBVIOUS
  <2>2. PICK w \in Bad : \A u \in Bad : w \notin {g[u].child, g[u].sibling}
    BY <1>1, <1>7, <2>1 DEF NoCycle
  <2>3. PICK u \in P : w \in {g[u].child, g[u].sibling}
    BY <1>7
  <2>4. w \in DOMAIN h /\ w # Null /\ u \in O
    BY <1>4, <1>7, <1>8
  <2>5. CASE w = g[u].child
    <3>1. u # x /\ w = h[u].child
      BY <1>2, <1>3, <1>7, <2>4, <2>5
    <3>2. h[w].parent = u
      BY <2>4, <3>1 DEF SiblingOrder, O
    <3>3. QED
      BY <3>1, <3>2
  <2>6. CASE w = g[u].sibling
    <3>1. w = h[u].sibling
      BY <1>2, <1>3, <1>7, <2>6
    <3>2. h[w].parent = h[u].parent /\ u # b
      BY <2>4, <3>1 DEF SiblingOrder, O
    <3>3. QED
      BY <2>2, <2>6, <3>2
  <2>7. QED
    BY <2>3, <2>5, <2>6
<1>10. ASSUME NEW w \in P \ {b}
       PROVE  g[w].parent \in P /\ g[w].index < Len(g[g[w].parent].edges)
  <2>1. h[w].parent \in P \ {x}
    BY <1>9
  <2>2. h[w].index < Len(h[h[w].parent].edges)
    BY <1>8 DEF SiblingOrder, O
  <2>3. g[w].parent = h[w].parent /\ g[w].index = h[w].index /\ g[h[w].parent] = h[h[w].parent]
    BY <1>2, <1>3, <1>7, <2>1
  <2>4. QED
    BY <2>1, <2>2, <2>3
<1>11. \A w \in P : g[w].child # Null => g[g[w].child].parent = w
  BY <1>2, <1>3, <1>7, <1>8 DEF SiblingOrder, O
<1>12. ASSUME NEW w \in P, g[w].sibling # Null
       PROVE  g[g[w].sibling].parent = g[w].parent /\ g[w].index < g[g[w].sibling].index
  <2>1. \A v \in P : /\ g[v].parent = h[v].parent /\ g[v].index = h[v].index
                     /\ g[v].sibling = h[v].sibling
    BY <1>2, <1>3, <1>7
  <2>2. g[w].sibling \in P
    BY <1>7, <1>12
  <2>3. QED
    BY <1>8, <1>12, <2>1, <2>2 DEF SiblingOrder, O
<1>13. g[b].sibling = Null
  BY <1>2, <1>3, <1>4 DEF SiblingOrder
<1>14. QED
  BY <1>10, <1>11, <1>12, <1>13 DEF SiblingOrder, P, g

LEMMA ReleaseInOrder ==
  ASSUME NEW h, Heap(h), NEW R, Forest(h, R), NEW r \in R, NEW b \in R \ {r}, SiblingOrder(h, b)
  PROVE  SiblingOrder(Without(h, Owned(h, r)), b)
<1> DEFINE g == Without(h, Owned(h, r))
<1>1. Heap(g) /\ b \in DOMAIN g /\ Owned(h, b) \subseteq Owned(g, b)
  BY ReleaseRoot DEF Forest
<1>2. b \in DOMAIN h /\ \A w \in DOMAIN g : w \in DOMAIN h /\ g[w] = h[w]
  BY DEF Without, Forest
<1> HIDE DEF g
<1>3. Owned(h, b) \subseteq DOMAIN g
  BY <1>1, OwnedBy
<1>4. Owned(g, b) \subseteq Owned(h, b)
  <2>1. Closed(g, Owned(h, b)) /\ b \in Owned(h, b)
    BY <1>2, <1>3, OwnedBy DEF Closed
  <2>2. QED
    BY <1>1, <1>3, <2>1, OwnedBy
<1>5. Owned(g, b) = Owned(h, b)
  BY <1>1, <1>4
<1>6. \A w \in Owned(h, b) : g[w] = h[w] /\ Len(h[w].edges) <= Len(g[w].edges)
  <2>1. \A w \in Owned(h, b) : g[w] = h[w] /\ h[w].edges \in Seq(Move)
    BY <1>2, <1>3 DEF Heap, NodeRecord
  <2>2. QED
    BY <2>1
<1>7. QED
  BY <1>1, <1>2, <1>3, <1>5, <1>6, SameOrder DEF g
-----------------------------------------------------------------------------
(***************************************************************************)
(* The played line.                                                        *)
(***************************************************************************)

\* The nodes from b down to v: each is the one of the move that led to it.
IsLine(h, b, v, ms, s) ==
    /\ s \in [0 .. Len(ms) -> Owned(h, b)] /\ s[0] = b /\ s[Len(ms)] = v
    /\ \A k \in 1 .. Len(ms) : /\ h[s[k]].parent = s[k - 1]
                               /\ h[s[k]].index + 1 \in DOMAIN h[s[k - 1]].edges
                               /\ h[s[k - 1]].edges[h[s[k]].index + 1] = ms[k]

HasLine(h, b, v, ms) == h[b].parent = Null /\ ms \in Seq(Move) /\ \E s : IsLine(h, b, v, ms, s)

\* The line goes through no node twice.
LEMMA LineIsInjective ==
  ASSUME NEW h, Heap(h), NEW b \in DOMAIN h, h[b].parent = Null, NEW ms \in Seq(Move), NEW v,
         NEW s, IsLine(h, b, v, ms, s)
  PROVE  \A i, j \in 0 .. Len(ms) : s[i] = s[j] => i = j
<1> DEFINE n == Len(ms)
<1>1. n \in Nat /\ \A k \in 0 .. n : s[k] \in DOMAIN h
  BY OwnedBy DEF IsLine
<1>2. \A k \in 1 .. n : h[s[k]].parent = s[k - 1]
  BY DEF IsLine
<1>3. s[0] = b /\ Null \notin DOMAIN h
  BY NodeTreeAssumption DEF IsLine, Heap
<1> HIDE DEF n
<1>4. SUFFICES ASSUME NEW i \in 0 .. n, NEW j \in 0 .. n, s[i] = s[j], i < j
               PROVE  FALSE
  BY <1>1 DEF n
<1> DEFINE T == {k \in 0 .. i : s[i - k] = s[j - k]}
<1>5. ASSUME NEW k \in T, k < i PROVE k + 1 \in T
  <2>1. i - k \in 1 .. n /\ j - k \in 1 .. n /\ k + 1 \in 0 .. i
    BY <1>1, <1>4, <1>5
  <2>2. s[(i - k) - 1] = s[(j - k) - 1]
    BY <1>2, <1>5, <2>1
  <2>3. (i - k) - 1 = i - (k + 1) /\ (j - k) - 1 = j - (k + 1)
    BY <1>1, <1>4, <1>5
  <2>4. QED
    BY <2>1, <2>2, <2>3
<1>6. T = 0 .. i
  <2>1. T \in SUBSET (0 .. i) /\ 0 \in T /\ \A k \in T : k < i => k + 1 \in T
    BY <1>1, <1>4, <1>5
  <2> HIDE DEF T
  <2>2. QED
    BY <1>1, <2>1, UpTo
<1>7. s[i - i] = s[j - i]
  <2>1. i \in T
    <3> HIDE DEF T
    <3>1. i \in 0 .. i
      BY <1>1, <1>4
    <3>2. QED
      BY <1>6, <3>1
  <2>2. QED
    BY <2>1
<1>8. j - i \in 1 .. n /\ i - i = 0 /\ (j - i) - 1 \in 0 .. n
  BY <1>1, <1>4
<1>9. h[b].parent = s[(j - i) - 1]
  BY <1>2, <1>3, <1>7, <1>8
<1>10. QED
  BY <1>1, <1>3, <1>8, <1>9

\* Nodes stay what they are, and so do edges that were made.
KeptNodes(h, g) ==
    \A w \in DOMAIN h : /\ g[w].parent = h[w].parent /\ g[w].index = h[w].index
                        /\ h[w].edges # <<>> => g[w].edges = h[w].edges

\* A line stays, if its last node does.
LEMMA LineKept ==
  ASSUME NEW h, Heap(h), NEW b \in DOMAIN h, NEW v, NEW ms, HasLine(h, b, v, ms),
         NEW g, Heap(g), b \in DOMAIN g, SiblingOrder(g, b), v \in Owned(g, b),
         \A w \in Owned(h, b) : g[w].parent = h[w].parent /\ g[w].index = h[w].index,
         \A w \in Owned(h, b) \ {v} : h[w].edges # <<>> => g[w].edges = h[w].edges
  PROVE  HasLine(g, b, v, ms)
<1> DEFINE n == Len(ms)
           P == Owned(g, b)
<1>1. ms \in Seq(Move) /\ h[b].parent = Null
  BY DEF HasLine
<1>2. PICK s : IsLine(h, b, v, ms, s)
  BY DEF HasLine
<1>3. n \in Nat /\ s \in [0 .. n -> Owned(h, b)] /\ s[0] = b /\ s[n] = v
  BY <1>1, <1>2 DEF IsLine
<1>4. \A k \in 1 .. n : /\ h[s[k]].parent = s[k - 1]
                        /\ h[s[k]].index + 1 \in DOMAIN h[s[k - 1]].edges
                        /\ h[s[k - 1]].edges[h[s[k]].index + 1] = ms[k]
  BY <1>2 DEF IsLine
<1>5. \A i, j \in 0 .. n : s[i] = s[j] => i = j
  BY <1>1, <1>2, LineIsInjective
<1> HIDE DEF n, P
<1> DEFINE T == {k \in 0 .. n : s[n - k] \in P}
<1>6. ASSUME NEW k \in T, k < n PROVE k + 1 \in T
  <2>1. n - k \in 1 .. n /\ k + 1 \in 0 .. n /\ (n - k) - 1 = n - (k + 1) /\ 0 \in 0 .. n
    BY <1>3, <1>6
  <2>2. s[n - k] \in P \ {b}
    BY <1>3, <1>5, <1>6, <2>1
  <2>3. g[s[n - k]].parent = s[(n - k) - 1]
    BY <1>3, <1>4, <2>1
  <2>4. s[n - (k + 1)] \in P
    BY <2>1, <2>2, <2>3 DEF SiblingOrder, P
  <2>5. QED
    BY <2>1, <2>4
<1>7. T = 0 .. n
  <2>1. T \in SUBSET (0 .. n) /\ 0 \in T /\ \A k \in T : k < n => k + 1 \in T
    BY <1>3, <1>6 DEF P
  <2> HIDE DEF T
  <2>2. QED
    BY <1>3, <2>1, UpTo
<1>8. \A k \in 0 .. n : s[k] \in P
  <2>1. TAKE k \in 0 .. n
  <2>2. n - k \in 0 .. n /\ n - (n - k) = k
    BY <1>3
  <2>3. n - k \in T
    <3> HIDE DEF T
    <3>1. QED
      BY <1>7, <2>2
  <2>4. QED
    BY <2>2, <2>3
<1>9. s \in [0 .. n -> P]
  BY <1>3, <1>8
<1>10. ASSUME NEW k \in 1 .. n
       PROVE  /\ g[s[k]].parent = s[k - 1]
              /\ g[s[k]].index + 1 \in DOMAIN g[s[k - 1]].edges
              /\ g[s[k - 1]].edges[g[s[k]].index + 1] = ms[k]
  <2>1. k \in 0 .. n /\ k - 1 \in 0 .. n /\ n \in 0 .. n /\ k - 1 # n
    BY <1>3
  <2>2. s[k] \in Owned(h, b) /\ s[k - 1] \in Owned(h, b) \ {v}
    BY <1>3, <1>5, <2>1
  <2>3. h[s[k - 1]].edges # <<>>
    BY <1>4
  <2>4. g[s[k - 1]].edges = h[s[k - 1]].edges
    BY <2>2, <2>3
  <2>5. QED
    BY <1>4, <2>2, <2>4
<1>11. IsLine(g, b, v, ms, s)
  BY <1>3, <1>9, <1>10 DEF IsLine, n, P
<1>12. g[b].parent = Null
  BY <1>1, OwnedBy
<1>13. QED
  BY <1>1, <1>11, <1>12 DEF HasLine

\* A line grows by the node of a move.
LEMMA LineGrows ==
  ASSUME NEW h, NEW b, NEW x, NEW ms, HasLine(h, b, x, ms), NEW y \in Owned(h, b), NEW m \in Move,
         h[y].parent = x, h[y].index + 1 \in DOMAIN h[x].edges, h[x].edges[h[y].index + 1] = m
  PROVE  HasLine(h, b, y, Append(ms, m))
<1> DEFINE n == Len(ms)
           more == Append(ms, m)
<1>1. ms \in Seq(Move) /\ n \in Nat /\ h[b].parent = Null
  BY DEF HasLine
<1>2. PICK s : IsLine(h, b, x, ms, s)
  BY DEF HasLine
<1> DEFINE r == [k \in 0 .. n + 1 |-> IF k = n + 1 THEN y ELSE s[k]]
<1>3. /\ more \in Seq(Move) /\ Len(more) = n + 1 /\ more[n + 1] = m
      /\ \A k \in 1 .. n : more[k] = ms[k]
  BY <1>1
<1>4. /\ s \in [0 .. n -> Owned(h, b)] /\ s[0] = b /\ s[n] = x
      /\ \A k \in 1 .. n : /\ h[s[k]].parent = s[k - 1]
                           /\ h[s[k]].index + 1 \in DOMAIN h[s[k - 1]].edges
                           /\ h[s[k - 1]].edges[h[s[k]].index + 1] = ms[k]
  BY <1>2 DEF IsLine
<1> HIDE DEF n, more
<1>5. r \in [0 .. n + 1 -> Owned(h, b)] /\ r[n + 1] = y /\ \A k \in 0 .. n : r[k] = s[k]
  BY <1>1, <1>4
<1>6. r[0] = b
  BY <1>1, <1>4, <1>5
<1> HIDE DEF r
<1>7. ASSUME NEW k \in 1 .. n + 1
      PROVE  /\ h[r[k]].parent = r[k - 1]
             /\ h[r[k]].index + 1 \in DOMAIN h[r[k - 1]].edges
             /\ h[r[k - 1]].edges[h[r[k]].index + 1] = more[k]
  <2>1. CASE k = n + 1
    <3>1. k - 1 = n /\ n \in 0 .. n
      BY <1>1, <2>1
    <3>2. r[k] = y /\ r[k - 1] = x /\ more[k] = m
      BY <1>3, <1>4, <1>5, <2>1, <3>1
    <3>3. QED
      BY <3>2
  <2>2. CASE k # n + 1
    <3>1. k \in 1 .. n /\ k \in 0 .. n /\ k - 1 \in 0 .. n
      BY <1>1, <2>2
    <3>2. r[k] = s[k] /\ r[k - 1] = s[k - 1] /\ more[k] = ms[k]
      BY <1>3, <1>5, <3>1
    <3>3. QED
      BY <1>4, <3>1, <3>2
  <2>3. QED
    BY <2>1, <2>2
<1>8. IsLine(h, b, y, more, r)
  BY <1>3, <1>5, <1>6, <1>7 DEF IsLine
<1>9. QED
  BY <1>1, <1>3, <1>8 DEF HasLine, more

\* So does the search when it needs the node of an edge.
LEMMA SpawnKeeps ==
  ASSUME NEW h, Heap(h), NoCycle(h), NEW x \in DOMAIN h, h[x].edges # <<>>, NEW i \in Nat,
         NEW y \in Node \ DOMAIN h
  PROVE  KeptNodes(h, GetOrSpawnNode(h, x, i, y))
<1>1. CASE NodeOf(h, x, i) # Null
  BY <1>1 DEF GetOrSpawnNode, KeptNodes
<1>2. CASE NodeOf(h, x, i) = Null
  <2> DEFINE g == Spawned(h, x, i, y)
             l == ChildList(h, x)
  <2>1. GetOrSpawnNode(h, x, i, y) = g
    BY <1>2 DEF GetOrSpawnNode
  <2>2. SpawnedAt(h, x, i, y, l, Passed(h, l, i), g)
    BY SpawnedIsHungIn
  <2> HIDE DEF g, l
  <2>3. QED
    BY <2>1, <2>2 DEF SpawnedAt, KeptNodes
<1>3. QED
  BY <1>1, <1>2

\* A move makes nodes and edges, and changes none.
LEMMA MoveKeeps ==
  ASSUME NEW h, Heap(h), NEW R, Forest(h, R), NEW x \in DOMAIN h, NEW m \in Move,
         h[x].edges = <<>> \/ m \in Range(h[x].edges), NEW y \in Node \ DOMAIN h
  PROVE  LET t == Played([heap |-> h, head |-> x], m, y)
         IN  Keeps(h, t.heap, R) /\ KeptNodes(h, t.heap)
<1> DEFINE is == {i \in 0 .. Len(h[x].edges) - 1 : h[x].edges[i + 1] = m}
           i == IF is = {} THEN 0 ELSE CHOOSE i \in is : TRUE
           g == IF is = {} THEN CreateSingleChildNode(h, x, m, y) ELSE GetOrSpawnNode(h, x, i, y)
<1>1. Played([heap |-> h, head |-> x], m, y).heap = g
  BY DEF Played
<1>2. h[x].edges \in Seq(Move) /\ Len(h[x].edges) \in Nat /\ NoCycle(h)
  BY DEF Forest, Heap, NodeRecord
<1>3. CASE is = {}
  <2> DEFINE one == <<m>>
             k == [h EXCEPT ![x].edges = one]
             s == CreateSingleChildNode(h, x, m, y)
  <2>1. h[x].edges = <<>>
    <3>1. SUFFICES ASSUME m \in Range(h[x].edges) PROVE FALSE
      OBVIOUS
    <3>2. PICK j \in 1 .. Len(h[x].edges) : h[x].edges[j] = m
      BY <1>2, <3>1 DEF Range
    <3>3. j - 1 \in is
      BY <1>2, <3>2
    <3>4. QED
      BY <1>3, <3>3
  <2>2. Keeps(h, s, R) /\ HungFor(k, x, 0, x, y, s)
    BY <2>1, SingleChild
  <2> HIDE DEF s, one
  <2>3. /\ DOMAIN k = DOMAIN h /\ \A w \in DOMAIN h \ {x} : k[w] = h[w]
        /\ k[x].parent = h[x].parent /\ k[x].index = h[x].index
    BY DEF Heap, NodeRecord
  <2> HIDE DEF k
  <2>4. KeptNodes(h, s)
    BY <2>1, <2>2, <2>3 DEF HungFor, KeptNodes
  <2>5. QED
    BY <1>1, <1>3, <2>2, <2>4 DEF s
<1>4. CASE is # {}
  <2>1. i \in is /\ g = GetOrSpawnNode(h, x, i, y)
    BY <1>4
  <2>2. i \in Nat /\ i < Len(h[x].edges)
    BY <1>2, <2>1
  <2> HIDE DEF is, i
  <2>3. h[x].edges # <<>>
    BY <1>2, <2>2
  <2>4. Keeps(h, g, R)
    BY <2>1, <2>2, <2>3, Spawn
  <2>5. KeptNodes(h, g)
    BY <1>2, <2>1, <2>2, <2>3, SpawnKeeps
  <2>6. QED
    BY <1>1, <2>4, <2>5
<1>5. QED
  BY <1>3, <1>4

\* The new head is the node of the move.
LEMMA MovedTo ==
  ASSUME NEW h, Heap(h), NEW R, Forest(h, R), NEW b \in R, SiblingOrder(h, b),
         NEW x \in Owned(h, b), NEW m \in Move, h[x].edges = <<>> \/ m \in Range(h[x].edges),
         NEW y \in Node \ DOMAIN h
  PROVE  LET t == Played([heap |-> h, head |-> x], m, y)
             v == t.head
         IN  v # Null => /\ t.heap[v].parent = x
                         /\ t.heap[v].index + 1 \in DOMAIN t.heap[x].edges
                         /\ t.heap[x].edges[t.heap[v].index + 1] = m
<1> DEFINE is == {i \in 0 .. Len(h[x].edges) - 1 : h[x].edges[i + 1] = m}
           i == IF is = {} THEN 0 ELSE CHOOSE i \in is : TRUE
           g == IF is = {} THEN CreateSingleChildNode(h, x, m, y) ELSE GetOrSpawnNode(h, x, i, y)
           t == Played([heap |-> h, head |-> x], m, y)
           l == ChildList(g, x)
           k == Passed(g, l, i) + 1
<1>1. t.heap = g /\ t.head = NodeOf(g, x, i)
  BY DEF Played
<1>2. /\ b \in DOMAIN h /\ x \in DOMAIN h
      /\ h[x].edges \in Seq(Move) /\ Len(h[x].edges) \in Nat
  BY OwnedBy DEF Forest, Heap, NodeRecord
<1>3. Heap(g) /\ Forest(g, R) /\ SiblingOrder(g, b) /\ Keeps(h, g, R) /\ KeptNodes(h, g)
  BY <1>1, <1>2, MoveOfForest, MoveInOrder, MoveKeeps
<1>4. NodeOf(g, x, i) = IF k \in DOMAIN l /\ g[l[k]].index = i THEN l[k] ELSE Null
  BY DEF NodeOf
<1>5. g[x].edges[i + 1] = m
  <2>1. CASE is = {}
    <3> DEFINE one == <<m>>
               e == [h EXCEPT ![x].edges = one]
               s == CreateSingleChildNode(h, x, m, y)
    <3>1. h[x].edges = <<>>
      <4>1. SUFFICES ASSUME m \in Range(h[x].edges) PROVE FALSE
        OBVIOUS
      <4>2. PICK j \in 1 .. Len(h[x].edges) : h[x].edges[j] = m
        BY <1>2, <4>1 DEF Range
      <4>3. j - 1 \in is
        BY <1>2, <4>2
      <4>4. QED
        BY <2>1, <4>3
    <3>2. HungFor(e, x, 0, x, y, s)
      BY <1>2, <3>1, SingleChild
    <3>3. one[1] = m /\ g = s /\ i = 0
      BY <2>1
    <3> HIDE DEF s, one, is, i, g
    <3>4. x \in DOMAIN e /\ e[x].edges = one
      BY <1>2 DEF Heap, NodeRecord
    <3> HIDE DEF e
    <3>5. g[x].edges = one
      BY <3>2, <3>3, <3>4 DEF HungFor
    <3>6. QED
      BY <3>3, <3>5
  <2>2. CASE is # {}
    <3>1. i \in is
      BY <2>2
    <3>2. h[x].edges[i + 1] = m /\ i \in 0 .. Len(h[x].edges) - 1
      BY <3>1
    <3> HIDE DEF g, is, i
    <3>3. h[x].edges # <<>>
      BY <1>2, <3>2
    <3>4. QED
      BY <1>2, <1>3, <3>2, <3>3 DEF KeptNodes
  <2>3. QED
    BY <2>1, <2>2
<1> HIDE DEF is, i, g, t
<1>6. x \in Owned(g, b) /\ x \in DOMAIN g /\ g[x].edges \in Seq(Move)
  <2>1. x \in Owned(g, b) /\ b \in DOMAIN g
    BY <1>3 DEF Keeps, Forest
  <2>2. x \in DOMAIN g
    BY <1>3, <2>1, OwnedBy
  <2>3. QED
    BY <1>3, <2>1, <2>2 DEF Heap, NodeRecord
<1>7. IsList(g, x, l) /\ l \in Seq(DOMAIN g)
  BY <1>3, <1>6, ChildListIs DEF IsList, Forest
<1> HIDE DEF l, k
<1>8. \A j \in 1 .. Len(l) : g[l[j]].parent = x /\ g[l[j]].index < Len(g[x].edges)
  BY <1>3, <1>6, <1>7, ListIsOrdered
<1>9. ASSUME NodeOf(g, x, i) # Null
      PROVE  LET v == NodeOf(g, x, i) IN
               /\ g[v].parent = x /\ g[v].index + 1 \in DOMAIN g[x].edges
               /\ g[x].edges[g[v].index + 1] = m
  <2>1. k \in 1 .. Len(l) /\ g[l[k]].index = i /\ NodeOf(g, x, i) = l[k]
    BY <1>4, <1>7, <1>9
  <2>2. g[l[k]].parent = x /\ i < Len(g[x].edges) /\ l[k] \in DOMAIN g
    BY <1>7, <1>8, <2>1
  <2>3. i \in Nat
    BY <1>3, <2>1, <2>2 DEF Heap, NodeRecord
  <2>4. i + 1 \in DOMAIN g[x].edges
    BY <1>6, <2>2, <2>3
  <2>5. QED
    BY <1>5, <2>1, <2>2, <2>4
<1>10. QED
  BY <1>1, <1>9 DEF t

\* A move makes the line longer by itself.
LEMMA MoveOnLine ==
  ASSUME NEW h, Heap(h), NEW R, Forest(h, R), NEW b \in R, SiblingOrder(h, b),
         NEW x \in Owned(h, b), NEW m \in Move, h[x].edges = <<>> \/ m \in Range(h[x].edges),
         NEW y \in Node \ DOMAIN h, NEW ms, HasLine(h, b, x, ms)
  PROVE  LET t == Played([heap |-> h, head |-> x], m, y)
         IN  t.head # Null => HasLine(t.heap, b, t.head, Append(ms, m))
<1> DEFINE t == Played([heap |-> h, head |-> x], m, y)
           g == t.heap
           v == t.head
<1>1. b \in DOMAIN h /\ x \in DOMAIN h /\ Owned(h, b) \subseteq DOMAIN h
  BY OwnedBy DEF Forest
<1>2. /\ Heap(g) /\ Forest(g, R) /\ SiblingOrder(g, b) /\ v \in Owned(g, b) \cup {Null}
      /\ Keeps(h, g, R) /\ KeptNodes(h, g)
  BY <1>1, MoveOfForest, MoveInOrder, MoveKeeps
<1>3. v # Null => /\ g[v].parent = x /\ g[v].index + 1 \in DOMAIN g[x].edges
                  /\ g[x].edges[g[v].index + 1] = m
  BY MovedTo
<1> HIDE DEF t, g, v
<1>4. b \in DOMAIN g /\ x \in Owned(g, b)
  BY <1>2 DEF Forest, Keeps
<1>5. HasLine(g, b, x, ms)
  BY <1>1, <1>2, <1>4, LineKept DEF KeptNodes
<1>6. v # Null => HasLine(g, b, v, Append(ms, m))
  BY <1>2, <1>3, <1>5, LineGrows
<1>7. QED
  BY <1>6 DEF g, v, t

-----------------------------------------------------------------------------
(***************************************************************************)
(* Reading the moves off the nodes.                                        *)
(***************************************************************************)
LEMMA FirstAndRest ==
  ASSUME NEW V, NEW m \in V, NEW r \in Seq(V), NEW q \in Seq(V), Len(q) = Len(r) + 1,
         q[1] = m, \A i \in 1 .. Len(r) : q[i + 1] = r[i]
  PROVE  <<m>> \o r = q
<1> DEFINE one == <<m>>
           c == one \o r
<1>1. one \in Seq(V) /\ Len(one) = 1 /\ one[1] = m
  OBVIOUS
<1> HIDE DEF one
<1>2. /\ c \in Seq(V) /\ Len(c) = 1 + Len(r)
      /\ \A i \in 1 .. 1 + Len(r) : c[i] = IF i <= 1 THEN one[i] ELSE r[i - 1]
  <2>1. /\ c \in Seq(V) /\ Len(c) = Len(one) + Len(r)
        /\ \A i \in 1 .. Len(one) + Len(r) :
              c[i] = IF i <= Len(one) THEN one[i] ELSE r[i - Len(one)]
    BY <1>1, ConcatProperties
  <2>2. QED
    BY <1>1, <2>1
<1> HIDE DEF c
<1>3. Len(r) \in Nat
  OBVIOUS
<1>4. ASSUME NEW i \in 1 .. Len(c) PROVE c[i] = q[i]
  <2>1. CASE i = 1
    BY <1>1, <1>2, <1>3, <2>1
  <2>2. CASE i # 1
    <3>1. i - 1 \in 1 .. Len(r) /\ (i - 1) + 1 = i /\ ~(i <= 1) /\ i \in 1 .. 1 + Len(r)
      BY <1>2, <1>3, <2>2
    <3>2. c[i] = r[i - 1] /\ q[(i - 1) + 1] = r[i - 1]
      BY <1>2, <3>1
    <3>3. QED
      BY <3>1, <3>2
  <2>3. QED
    BY <2>1, <2>2
<1>5. c = q
  BY <1>2, <1>3, <1>4, SeqEqual
<1>6. QED
  BY <1>5 DEF c, one

\* GetMoves goes up the line and stops at gamebegin_node_.
LEMMA PathOfLine ==
  ASSUME Heap(heap), begin \in Live, NEW v, NEW ms, HasLine(heap, begin, v, ms)
  PROVE  PathTo(v) = ms
<1> DEFINE n == Len(ms)
           top == Cardinality(Live)
           at == <<v, <<>>>>
           body(f, k) == IF k = 0 THEN at ELSE OneUp(f[k - 1])
           Ups(f, m) == f = [k \in 0 .. m |-> body(f, k)]
           up == CHOOSE f : Ups(f, top)
<1>1. ms \in Seq(Move) /\ n \in Nat /\ heap[begin].parent = Null
  BY DEF HasLine
<1>2. PICK s : IsLine(heap, begin, v, ms, s)
  BY DEF HasLine
<1>3. \A i, j \in 0 .. n : s[i] = s[j] => i = j
  BY <1>1, <1>2, LineIsInjective DEF Live
<1>4. s \in [0 .. n -> Live] /\ s[0] = begin /\ s[n] = v
  BY <1>2, OwnedBy DEF IsLine, Live
<1>5. \A k \in 1 .. n : /\ heap[s[k]].parent = s[k - 1]
                        /\ heap[s[k - 1]].edges[heap[s[k]].index + 1] = ms[k]
  BY <1>2 DEF IsLine
<1>6. IsFiniteSet(Live) /\ top \in Nat
  BY NodeTreeAssumption, FS_Subset, FS_CardinalityType DEF Heap, Live
<1>7. PathTo(v) = up[top][2]
  BY DEF PathTo
<1> HIDE DEF n, top
<1>8. n <= top
  <2>1. IsFiniteSet(0 .. n) /\ Cardinality(0 .. n) = n + 1
    BY <1>1, FS_Interval
  <2>2. s \in Injection(0 .. n, Live)
    BY <1>3, <1>4, Fun_IsInj
  <2>3. Cardinality(0 .. n) <= Cardinality(Live)
    BY <1>6, <2>1, <2>2, FS_Injection DEF ExistsInjection
  <2>4. QED
    BY <1>1, <1>6, <2>1, <2>3 DEF top
<1> HIDE DEF at
<1>9. \E f : Ups(f, top)
  <2> DEFINE S == {m \in 0 .. top : \E f : Ups(f, m)}
  <2>1. 0 \in S
    <3>1. Ups([k \in 0 .. 0 |-> at], 0)
      OBVIOUS
    <3> HIDE DEF Ups
    <3>2. QED
      BY <1>6, <3>1
  <2>2. ASSUME NEW m \in S, m < top PROVE m + 1 \in S
    <3>0. m \in 0 .. top /\ \E f : Ups(f, m)
      <4> HIDE DEF Ups
      <4>1. QED
        BY <2>2
    <3>1. PICK f : Ups(f, m)
      BY <3>0
    <3> DEFINE g == [k \in 0 .. m + 1 |-> IF k = m + 1 THEN OneUp(f[m]) ELSE f[k]]
    <3>2. \A k \in 0 .. m : g[k] = f[k]
      BY <1>6, <3>0
    <3>3. \A k \in 0 .. m + 1 : g[k] = body(g, k)
      <4>1. TAKE k \in 0 .. m + 1
      <4>2. CASE k = m + 1
        <5>1. g[k] = OneUp(f[m]) /\ g[m] = f[m] /\ k # 0 /\ k - 1 = m
          BY <1>6, <3>0, <3>2, <4>2
        <5>2. QED
          BY <5>1
      <4>3. CASE k # m + 1
        <5>1. k \in 0 .. m /\ g[k] = f[k] /\ (k # 0 => g[k - 1] = f[k - 1])
          BY <1>6, <3>0, <4>3
        <5>2. QED
          BY <3>1, <5>1
      <4>4. QED
        BY <4>2, <4>3
    <3>4. Ups(g, m + 1)
      BY <3>3
    <3> HIDE DEF Ups
    <3>5. QED
      BY <1>6, <2>2, <3>0, <3>4
  <2> HIDE DEF Ups
  <2>3. S = 0 .. top
    <3>1. \A m \in S : m < top => m + 1 \in S
      BY <2>2
    <3>2. S \in SUBSET (0 .. top)
      OBVIOUS
    <3> HIDE DEF S
    <3>3. QED
      BY <1>6, <2>1, <3>1, <3>2, UpTo
  <2>4. QED
    BY <1>6, <2>3
<1>10. Ups(up, top)
  BY <1>9
<1> HIDE DEF up
<1>11. /\ up[0] = at
       /\ \A k \in 0 .. top : k < top => up[k + 1] = OneUp(up[k])
  BY <1>6, <1>10
<1> DEFINE rest(j) == [i \in 1 .. n - j |-> ms[j + i]]
           AtNode(k, j) == up[k] = <<s[j], rest(j)>>
           S == {k \in 0 .. top : AtNode(k, IF k < n THEN n - k ELSE 0)}
<1>12. \A j \in 0 .. n : rest(j) \in Seq(Move) /\ Len(rest(j)) = n - j
  <2>1. TAKE j \in 0 .. n
  <2>2. n - j \in Nat /\ \A i \in 1 .. n - j : j + i \in 1 .. n
    BY <1>1
  <2>3. rest(j) \in [1 .. n - j -> Move]
    BY <1>1, <2>2 DEF n
  <2> HIDE DEF rest
  <2>4. QED
    BY <2>2, <2>3
<1>13. rest(0) = ms
  <2>1. rest(0) = [i \in 1 .. n |-> ms[i]]
    BY <1>1
  <2>2. QED
    BY <1>1, <2>1 DEF n
<1>14. ASSUME NEW j \in 1 .. n PROVE OneUp(<<s[j], rest(j)>>) = <<s[j - 1], rest(j - 1)>>
  <2>1. j \in 0 .. n /\ j - 1 \in 0 .. n /\ 0 \in 0 .. n /\ j # 0 /\ ms[j] \in Move
    BY <1>1 DEF n
  <2>2. s[j] # begin
    BY <1>3, <1>4, <2>1
  <2>3. <<ms[j]>> \o rest(j) = rest(j - 1)
    <3>1. /\ rest(j) \in Seq(Move) /\ rest(j - 1) \in Seq(Move)
          /\ Len(rest(j)) = n - j /\ Len(rest(j - 1)) = n - (j - 1)
      BY <1>12, <2>1
    <3>2. rest(j - 1)[1] = ms[j]
      BY <1>1, <2>1
    <3>3. \A i \in 1 .. Len(rest(j)) : rest(j - 1)[i + 1] = rest(j)[i]
      <4>1. TAKE i \in 1 .. Len(rest(j))
      <4>2. i \in 1 .. n - j /\ i + 1 \in 1 .. n - (j - 1) /\ (j - 1) + (i + 1) = j + i
        BY <1>1, <2>1, <3>1
      <4>3. QED
        BY <4>2
    <3>4. Len(rest(j - 1)) = Len(rest(j)) + 1
      BY <1>1, <2>1, <3>1
    <3> HIDE DEF rest
    <3>5. QED
      BY <2>1, <3>1, <3>2, <3>3, <3>4, FirstAndRest
  <2> DEFINE r == rest(j)
             q == rest(j - 1)
  <2>4. OneUp(<<s[j], r>>) = <<s[j - 1], <<ms[j]>> \o r>>
    <3> HIDE DEF r
    <3>1. heap[s[j]].parent = s[j - 1] /\ heap[s[j - 1]].edges[heap[s[j]].index + 1] = ms[j]
      BY <1>5
    <3>2. OneUp(<<s[j], r>>) = <<heap[s[j]].parent,
             <<heap[heap[s[j]].parent].edges[heap[s[j]].index + 1]>> \o r>>
      BY <2>2 DEF OneUp
    <3>3. QED
      BY <3>1, <3>2
  <2>5. QED
    BY <2>3, <2>4
<1>15. OneUp(<<s[0], rest(0)>>) = <<s[0], rest(0)>>
  BY <1>4 DEF OneUp
<1>16. 0 \in S
  <2> DEFINE e == <<>>
  <2>1. rest(n) = e
    <3>1. rest(n) \in Seq(Move) /\ Len(rest(n)) = 0
      BY <1>1, <1>12
    <3> HIDE DEF rest
    <3>2. QED
      BY <3>1, EmptySeq
  <2> HIDE DEF rest
  <2>2. up[0] = <<s[n], rest(n)>>
    BY <1>4, <1>11, <2>1 DEF at
  <2>3. (IF 0 < n THEN n - 0 ELSE 0) = n
    BY <1>1
  <2>4. QED
    BY <1>6, <2>2, <2>3
<1> HIDE DEF rest
<1>17. ASSUME NEW k \in S, k < top PROVE k + 1 \in S
  <2>1. k \in 0 .. top /\ AtNode(k, IF k < n THEN n - k ELSE 0) /\ k + 1 \in 0 .. top
    BY <1>6, <1>17
  <2>2. up[k + 1] = OneUp(up[k])
    BY <1>11, <1>17, <2>1
  <2>3. CASE k < n
    <3>1. n - k \in 1 .. n /\ (n - k) - 1 = IF k + 1 < n THEN n - (k + 1) ELSE 0
      BY <1>1, <1>6, <2>1, <2>3
    <3>2. up[k] = <<s[n - k], rest(n - k)>>
      BY <2>1, <2>3
    <3>3. AtNode(k + 1, (n - k) - 1)
      BY <1>14, <2>2, <3>1, <3>2
    <3>4. QED
      BY <2>1, <3>1, <3>3
  <2>4. CASE ~(k < n)
    <3>1. ~(k + 1 < n)
      BY <1>1, <1>6, <2>1, <2>4
    <3>2. up[k] = <<s[0], rest(0)>>
      BY <2>1, <2>4
    <3>3. AtNode(k + 1, 0)
      BY <1>15, <2>2, <3>2
    <3>4. QED
      BY <2>1, <3>1, <3>3
  <2>5. QED
    BY <2>3, <2>4
<1>18. top \in S
  <2>1. S \in SUBSET (0 .. top) /\ \A k \in S : k < top => k + 1 \in S
    BY <1>17
  <2> HIDE DEF S
  <2>2. S = 0 .. top
    BY <1>6, <1>16, <2>1, UpTo
  <2>3. QED
    BY <1>6, <2>2
<1>19. AtNode(top, 0)
  <2>1. AtNode(top, IF top < n THEN n - top ELSE 0)
    BY <1>18
  <2>2. ~(top < n)
    BY <1>1, <1>6, <1>8
  <2>3. QED
    BY <2>1, <2>2
<1>20. QED
  BY <1>7, <1>13, <1>19

-----------------------------------------------------------------------------
(***************************************************************************)
(* The moves to the nodes of the tree.                                     *)
(***************************************************************************)

\* The tree of the root b.
TreeAt(h, R, b) ==
    Heap(h) /\ Forest(h, R) /\ b \in R /\ SiblingOrder(h, b) /\ h[b].parent = Null

\* The move from the parent of x to x.
Step(h, x) == h[h[x].parent].edges[h[x].index + 1]

LEMMA NoMoves ==
  ASSUME NEW h, NEW b, b \in Owned(h, b), h[b].parent = Null
  PROVE  HasLine(h, b, b, <<>>)
<1> DEFINE e == <<>>
           s == [k \in 0 .. 0 |-> b]
<1>1. e \in Seq(Move) /\ Len(e) = 0
  OBVIOUS
<1> HIDE DEF e
<1>2. s \in [0 .. 0 -> Owned(h, b)] /\ s[0] = b
  OBVIOUS
<1> HIDE DEF s
<1>3. IsLine(h, b, b, e, s)
  BY <1>1, <1>2 DEF IsLine
<1>4. QED
  BY <1>1, <1>3 DEF HasLine, e

\* What is said of the first node, of the child of each node it is said of, and of the
\* next sibling, is said of all.
LEMMA DownTheTree ==
  ASSUME NEW h, NEW R, NEW b, TreeAt(h, R, b), NEW S \in SUBSET Owned(h, b), b \in S,
         \A x \in S : h[x].child # Null => h[x].child \in S,
         \A x \in S \ {b} : h[x].sibling # Null => h[x].sibling \in S
  PROVE  S = Owned(h, b)
<1>1. b \in DOMAIN h /\ Heap(h) /\ h[b].sibling = Null
  BY DEF TreeAt, Forest, SiblingOrder
<1>2. S \in SUBSET DOMAIN h
  BY <1>1, OwnedBy
<1>3. Closed(h, S)
  BY <1>1 DEF Closed
<1>4. QED
  BY <1>1, <1>2, <1>3, OwnedBy

LEMMA InTheTree ==
  ASSUME NEW h, NEW R, NEW b, TreeAt(h, R, b)
  PROVE  /\ b \in Owned(h, b) /\ Owned(h, b) \subseteq DOMAIN h /\ Null \notin DOMAIN h
         /\ \A x \in Owned(h, b) :
               /\ h[x].child # Null => /\ h[x].child \in Owned(h, b) \ {b}
                                       /\ h[h[x].child].parent = x
               /\ h[x].sibling # Null => /\ h[x].sibling \in Owned(h, b) \ {b} /\ x # b
                                         /\ h[h[x].sibling].parent = h[x].parent
         /\ \A x \in Owned(h, b) \ {b} :
               /\ h[x].parent \in Owned(h, b)
               /\ h[x].index + 1 \in DOMAIN h[h[x].parent].edges
               /\ Step(h, x) \in Move
<1>1. b \in DOMAIN h /\ Heap(h) /\ h[b].sibling = Null /\ b \in R /\ OnePointer(h, R)
  BY DEF TreeAt, Forest, SiblingOrder
<1>2. b \in Owned(h, b) /\ Owned(h, b) \subseteq DOMAIN h /\ Null \notin DOMAIN h
      /\ Closed(h, Owned(h, b))
  BY <1>1, OwnedBy, NodeTreeAssumption DEF Heap
<1>3. ASSUME NEW x \in Owned(h, b)
      PROVE  /\ h[x].child # Null => h[x].child \in Owned(h, b) \ {b} /\ h[h[x].child].parent = x
             /\ h[x].sibling # Null => /\ h[x].sibling \in Owned(h, b) \ {b} /\ x # b
                                       /\ h[h[x].sibling].parent = h[x].parent
  <2>1. x \in DOMAIN h /\ h[x].child # b /\ h[x].sibling # b
    BY <1>1, <1>2 DEF OnePointer
  <2>2. QED
    BY <1>1, <1>2, <2>1 DEF Closed, TreeAt, SiblingOrder
<1>4. ASSUME NEW x \in Owned(h, b) \ {b}
      PROVE  /\ h[x].parent \in Owned(h, b)
             /\ h[x].index + 1 \in DOMAIN h[h[x].parent].edges
             /\ Step(h, x) \in Move
  <2>1. h[x].parent \in Owned(h, b) /\ h[x].index < Len(h[h[x].parent].edges)
    BY DEF TreeAt, SiblingOrder
  <2>2. h[h[x].parent].edges \in Seq(Move) /\ h[x].index \in Nat
    BY <1>1, <1>2, <2>1 DEF Heap, NodeRecord
  <2>3. h[x].index + 1 \in DOMAIN h[h[x].parent].edges
    BY <2>1, <2>2
  <2>4. QED
    BY <2>1, <2>2, <2>3 DEF Step
<1>5. QED
  BY <1>2, <1>3, <1>4

\* The first node of a line is reached without a move, and another one by a move
\* from its parent.
LEMMA LineToFirst ==
  ASSUME NEW h, NEW R, NEW b, TreeAt(h, R, b), NEW x, NEW ms, HasLine(h, b, x, ms)
  PROVE  /\ ms \in Seq(Move) /\ x \in Owned(h, b)
         /\ x = b <=> Len(ms) = 0
<1>1. ms \in Seq(Move) /\ Len(ms) \in Nat /\ h[b].parent = Null
  BY DEF HasLine
<1>2. PICK s : IsLine(h, b, x, ms, s)
  BY DEF HasLine
<1>3. s \in [0 .. Len(ms) -> Owned(h, b)] /\ s[0] = b /\ s[Len(ms)] = x
  BY <1>2 DEF IsLine
<1>4. \A i, j \in 0 .. Len(ms) : s[i] = s[j] => i = j
  BY <1>1, <1>2, LineIsInjective DEF TreeAt, Forest
<1>5. 0 \in 0 .. Len(ms) /\ Len(ms) \in 0 .. Len(ms)
  BY <1>1
<1>6. QED
  BY <1>1, <1>3, <1>4, <1>5

LEMMA LineBack ==
  ASSUME NEW h, NEW R, NEW b, TreeAt(h, R, b), NEW x, x # b, NEW ms, HasLine(h, b, x, ms)
  PROVE  \E ns : HasLine(h, b, h[x].parent, ns) /\ ms = Append(ns, Step(h, x))
<1> DEFINE n == Len(ms)
<1>1. ms \in Seq(Move) /\ n \in Nat \ {0} /\ h[b].parent = Null
  <2>1. ms \in Seq(Move) /\ Len(ms) # 0
    BY LineToFirst
  <2>2. QED
    BY <2>1 DEF TreeAt
<1>2. PICK s : IsLine(h, b, x, ms, s)
  BY DEF HasLine
<1> DEFINE ns == [i \in 1 .. n - 1 |-> ms[i]]
           r == [k \in 0 .. n - 1 |-> s[k]]
<1>3. ns \in Seq(Move) /\ Len(ns) = n - 1 /\ \A k \in 1 .. n - 1 : ns[k] = ms[k]
  <2>1. ns \in [1 .. n - 1 -> Move] /\ n - 1 \in Nat
    BY <1>1
  <2>2. QED
    BY <2>1
<1>4. /\ s \in [0 .. n -> Owned(h, b)] /\ s[0] = b /\ s[n] = x
      /\ \A k \in 1 .. n : /\ h[s[k]].parent = s[k - 1]
                           /\ h[s[k]].index + 1 \in DOMAIN h[s[k - 1]].edges
                           /\ h[s[k - 1]].edges[h[s[k]].index + 1] = ms[k]
  BY <1>2 DEF IsLine
<1>5. n \in 1 .. n /\ h[x].parent = s[n - 1] /\ Step(h, x) = ms[n]
  BY <1>1, <1>4 DEF Step
<1>6. ms = Append(ns, ms[n])
  <2>1. Append(ns, ms[n]) \in Seq(Move) /\ Len(Append(ns, ms[n])) = n
    BY <1>1, <1>3
  <2>2. \A k \in 1 .. n : Append(ns, ms[n])[k] = ms[k]
    BY <1>1, <1>3
  <2> DEFINE a == Append(ns, ms[n])
  <2> HIDE DEF ns, a
  <2>3. QED
    BY <1>1, <2>1, <2>2 DEF n
<1> HIDE DEF ns
<1>7. IsLine(h, b, h[x].parent, ns, r)
  <2>1. r \in [0 .. n - 1 -> Owned(h, b)] /\ \A k \in 0 .. n - 1 : r[k] = s[k]
    BY <1>1, <1>4
  <2> HIDE DEF r
  <2>2. r[0] = b /\ r[n - 1] = h[x].parent
    BY <1>1, <1>4, <1>5, <2>1
  <2>3. ASSUME NEW k \in 1 .. n - 1
        PROVE  /\ h[r[k]].parent = r[k - 1]
               /\ h[r[k]].index + 1 \in DOMAIN h[r[k - 1]].edges
               /\ h[r[k - 1]].edges[h[r[k]].index + 1] = ns[k]
    <3>1. k \in 1 .. n /\ k \in 0 .. n - 1 /\ k - 1 \in 0 .. n - 1
      BY <1>1
    <3>2. r[k] = s[k] /\ r[k - 1] = s[k - 1] /\ ns[k] = ms[k]
      BY <1>3, <2>1, <3>1
    <3>3. QED
      BY <1>4, <3>1, <3>2
  <2> HIDE DEF n
  <2>4. QED
    BY <1>3, <2>1, <2>2, <2>3 DEF IsLine
<1>8. HasLine(h, b, h[x].parent, ns)
  BY <1>1, <1>3, <1>7 DEF HasLine
<1>9. QED
  BY <1>5, <1>6, <1>8

\* Lists that end in the same and go on from the same are the same.
LEMMA AppendDiffers ==
  ASSUME NEW V, NEW r \in Seq(V), NEW q \in Seq(V), NEW e \in V, NEW f \in V,
         Append(r, e) = Append(q, f)
  PROVE  r = q /\ e = f
<1>1. Len(r) = Len(q)
  <2>1. Len(Append(r, e)) = Len(r) + 1 /\ Len(Append(q, f)) = Len(q) + 1
    OBVIOUS
  <2>2. QED
    BY <2>1
<1>2. Append(r, e)[Len(r) + 1] = e /\ Append(q, f)[Len(q) + 1] = f
  OBVIOUS
<1>3. \A i \in 1 .. Len(r) : Append(r, e)[i] = r[i] /\ Append(q, f)[i] = q[i]
  BY <1>1
<1>4. \A i \in 1 .. Len(r) : r[i] = q[i]
  BY <1>3
<1>5. QED
  BY <1>1, <1>2, <1>4

\* The line to a node goes through its parent, and is made longer by its move.
LEMMA LineOfNode ==
  ASSUME NEW h, NEW R, NEW b, TreeAt(h, R, b), NEW x \in Owned(h, b) \ {b}, NEW ms
  PROVE  HasLine(h, b, x, ms) <=>
            \E ns : HasLine(h, b, h[x].parent, ns) /\ ms = Append(ns, Step(h, x))
<1>1. ASSUME NEW ns, HasLine(h, b, h[x].parent, ns) PROVE HasLine(h, b, x, Append(ns, Step(h, x)))
  <2>1. h[x].index + 1 \in DOMAIN h[h[x].parent].edges /\ Step(h, x) \in Move
    BY InTheTree
  <2>2. QED
    BY <1>1, <2>1, LineGrows DEF Step
<1>2. ASSUME HasLine(h, b, x, ms)
      PROVE  \E ns : HasLine(h, b, h[x].parent, ns) /\ ms = Append(ns, Step(h, x))
  <2>1. x # b
    OBVIOUS
  <2>2. QED
    BY <1>2, <2>1, LineBack
<1>3. QED
  BY <1>1, <1>2

OneLine(h, b, x) ==
    /\ \E ms : HasLine(h, b, x, ms)
    /\ \A ms, ns : HasLine(h, b, x, ms) /\ HasLine(h, b, x, ns) => ms = ns

\* The moves from the first node to x.
WayTo(h, b, x) == CHOOSE ms : HasLine(h, b, x, ms)

LEMMA EveryNodeHasOneLine ==
  ASSUME NEW h, NEW R, NEW b, TreeAt(h, R, b)
  PROVE  \A x \in Owned(h, b) : OneLine(h, b, x)
<1> DEFINE O == Owned(h, b)
           S == {x \in O : OneLine(h, b, x)}
<1>1. b \in S
  <2>1. b \in O
    BY InTheTree
  <2>2. HasLine(h, b, b, <<>>)
    BY <2>1, NoMoves DEF TreeAt
  <2>3. ASSUME NEW ms, HasLine(h, b, b, ms) PROVE ms = <<>>
    <3>1. ms \in Seq(Move) /\ Len(ms) = 0
      BY <2>3, LineToFirst
    <3>2. QED
      BY <3>1, EmptySeq
  <2>4. QED
    BY <2>1, <2>2, <2>3 DEF OneLine
\* A node has one line if its parent has.
<1>2. ASSUME NEW x \in O \ {b}, OneLine(h, b, h[x].parent) PROVE OneLine(h, b, x)
  <2>1. \A ms : HasLine(h, b, x, ms) <=>
            \E ns : HasLine(h, b, h[x].parent, ns) /\ ms = Append(ns, Step(h, x))
    BY LineOfNode
  <2>2. \E ms : HasLine(h, b, x, ms)
    BY <1>2, <2>1 DEF OneLine
  <2>3. ASSUME NEW ms, NEW ns, HasLine(h, b, x, ms), HasLine(h, b, x, ns) PROVE ms = ns
    <3>1. PICK p : HasLine(h, b, h[x].parent, p) /\ ms = Append(p, Step(h, x))
      BY <2>1, <2>3
    <3>2. PICK q : HasLine(h, b, h[x].parent, q) /\ ns = Append(q, Step(h, x))
      BY <2>1, <2>3
    <3>3. QED
      BY <1>2, <3>1, <3>2 DEF OneLine
  <2>4. QED
    BY <2>2, <2>3 DEF OneLine
\* And the parent has one if the node has.
<1>3. ASSUME NEW x \in O \ {b}, OneLine(h, b, x) PROVE OneLine(h, b, h[x].parent)
  <2>1. \A ms : HasLine(h, b, x, ms) <=>
            \E ns : HasLine(h, b, h[x].parent, ns) /\ ms = Append(ns, Step(h, x))
    BY LineOfNode
  <2>2. Step(h, x) \in Move
    BY InTheTree
  <2>3. \A ms : HasLine(h, b, h[x].parent, ms) => ms \in Seq(Move)
    BY DEF HasLine
  <2>4. \E ms : HasLine(h, b, h[x].parent, ms)
    BY <1>3, <2>1 DEF OneLine
  <2>5. ASSUME NEW p, NEW q, HasLine(h, b, h[x].parent, p), HasLine(h, b, h[x].parent, q)
        PROVE  p = q
    <3>1. HasLine(h, b, x, Append(p, Step(h, x))) /\ HasLine(h, b, x, Append(q, Step(h, x)))
      BY <2>1, <2>5
    <3>2. Append(p, Step(h, x)) = Append(q, Step(h, x))
      BY <1>3, <3>1 DEF OneLine
    <3>3. QED
      BY <2>2, <2>3, <2>5, <3>2, AppendDiffers
  <2>6. QED
    BY <2>4, <2>5 DEF OneLine
<1>4. \A x \in S : h[x].child # Null => h[x].child \in S
  <2>1. TAKE x \in S
  <2>2. HAVE h[x].child # Null
  <2>3. h[x].child \in O \ {b} /\ h[h[x].child].parent = x
    BY <2>2, InTheTree
  <2>4. QED
    BY <1>2, <2>3
<1>5. \A x \in S \ {b} : h[x].sibling # Null => h[x].sibling \in S
  <2>1. TAKE x \in S \ {b}
  <2>2. HAVE h[x].sibling # Null
  <2>3. h[x].sibling \in O \ {b} /\ h[h[x].sibling].parent = h[x].parent
    BY <2>2, InTheTree
  <2>4. OneLine(h, b, h[x].parent)
    BY <1>3
  <2>5. QED
    BY <1>2, <2>3, <2>4
<1>6. S = O
  <2>1. S \in SUBSET O
    OBVIOUS
  <2> HIDE DEF S
  <2>2. QED
    BY <1>1, <1>4, <1>5, <2>1, DownTheTree
<1>7. QED
  BY <1>6

LEMMA TheWay ==
  ASSUME NEW h, NEW R, NEW b, TreeAt(h, R, b)
  PROVE  /\ \A x \in Owned(h, b) : /\ HasLine(h, b, x, WayTo(h, b, x))
                                   /\ WayTo(h, b, x) \in Seq(Move)
         /\ \A x, ms : HasLine(h, b, x, ms) => x \in Owned(h, b) /\ ms = WayTo(h, b, x)
         /\ WayTo(h, b, b) = <<>>
         /\ \A x \in Owned(h, b) \ {b} :
               WayTo(h, b, x) = Append(WayTo(h, b, h[x].parent), Step(h, x))
<1>1. \A x \in Owned(h, b) : OneLine(h, b, x)
  BY EveryNodeHasOneLine
<1>2. ASSUME NEW x \in Owned(h, b)
      PROVE  HasLine(h, b, x, WayTo(h, b, x)) /\ WayTo(h, b, x) \in Seq(Move)
  <2>1. HasLine(h, b, x, WayTo(h, b, x))
    BY <1>1 DEF OneLine, WayTo
  <2>2. QED
    BY <2>1 DEF HasLine
<1>3. ASSUME NEW x, NEW ms, HasLine(h, b, x, ms) PROVE x \in Owned(h, b) /\ ms = WayTo(h, b, x)
  <2>1. x \in Owned(h, b)
    BY <1>3, LineToFirst
  <2>2. QED
    BY <1>1, <1>2, <1>3, <2>1 DEF OneLine
<1>4. WayTo(h, b, b) = <<>>
  <2>1. b \in Owned(h, b)
    BY InTheTree
  <2>2. HasLine(h, b, b, <<>>)
    BY <2>1, NoMoves DEF TreeAt
  <2>3. QED
    BY <1>3, <2>2
<1>5. ASSUME NEW x \in Owned(h, b) \ {b}
      PROVE  WayTo(h, b, x) = Append(WayTo(h, b, h[x].parent), Step(h, x))
  <2>1. HasLine(h, b, h[x].parent, WayTo(h, b, h[x].parent))
    BY <1>2, InTheTree
  <2>2. HasLine(h, b, x, Append(WayTo(h, b, h[x].parent), Step(h, x)))
    BY <2>1, LineOfNode
  <2>3. QED
    BY <1>3, <2>2
<1>6. QED
  BY <1>2, <1>3, <1>4, <1>5
-----------------------------------------------------------------------------
(***************************************************************************)
(* Children are found, and different lines lead to different nodes.        *)
(***************************************************************************)
\* A node is in the list of its parent, which is the one NodeOf looks through.
LEMMA ChildrenAreListed ==
  ASSUME NEW h, NEW R, NEW b, TreeAt(h, R, b)
  PROVE  \A x \in Owned(h, b) \ {b} : x \in Range(ChildList(h, h[x].parent))
<1> DEFINE O == Owned(h, b)
           Listed(x) == x \in Range(ChildList(h, h[x].parent))
           S == {x \in O : x # b => Listed(x)}
<1>1. Heap(h) /\ NoCycle(h) /\ O \subseteq DOMAIN h
  BY InTheTree DEF TreeAt, Forest
<1>2. ASSUME NEW x \in DOMAIN h
      PROVE  LET l == ChildList(h, x)
             IN  /\ l \in Seq(DOMAIN h) /\ Len(l) \in Nat /\ DOMAIN l = 1 .. Len(l)
                 /\ l # <<>> => Len(l) \in 1 .. Len(l) /\ l[1] = h[x].child
                 /\ \A i \in 1 .. Len(l) - 1 : l[i + 1] = h[l[i]].sibling
                 /\ l = <<>> => h[x].child = Null
                 /\ l # <<>> => h[l[Len(l)]].sibling = Null
  <2> DEFINE l == ChildList(h, x)
  <2>1. IsList(h, x, l) /\ IsWhole(h, x, l)
    BY <1>1, ChildListIs
  <2> HIDE DEF l
  <2>2. l \in Seq(DOMAIN h) /\ Len(l) \in Nat
    BY <2>1 DEF IsList
  <2>3. DOMAIN l = 1 .. Len(l) /\ (l # <<>> => Len(l) \in 1 .. Len(l))
    BY <2>2
  <2>4. QED
    BY <2>1, <2>2, <2>3 DEF IsList, IsWhole, l
<1>3. ASSUME NEW x \in DOMAIN h, h[x].child # Null PROVE h[x].child \in Range(ChildList(h, x))
  <2> DEFINE l == ChildList(h, x)
  <2>1. l # <<>>
    BY <1>2, <1>3
  <2>2. 1 \in DOMAIN l /\ l[1] = h[x].child
    BY <1>2, <2>1
  <2>3. QED
    BY <2>2 DEF Range
<1>4. ASSUME NEW x \in DOMAIN h, NEW y \in Range(ChildList(h, x)), h[y].sibling # Null
      PROVE  h[y].sibling \in Range(ChildList(h, x))
  <2> DEFINE l == ChildList(h, x)
  <2>1. PICK i \in DOMAIN l : l[i] = y
    BY DEF Range
  <2>2. i \in 1 .. Len(l) /\ Len(l) \in Nat /\ l # <<>>
    BY <1>2, <2>1
  <2>3. i # Len(l)
    BY <1>2, <1>4, <2>1, <2>2
  <2>4. i \in 1 .. Len(l) - 1 /\ i + 1 \in DOMAIN l
    BY <1>2, <2>2, <2>3
  <2>5. l[i + 1] = h[y].sibling
    BY <1>2, <2>1, <2>4
  <2>6. QED
    BY <2>4, <2>5 DEF Range
<1>5. b \in S
  BY InTheTree
<1>6. \A x \in S : h[x].child # Null => h[x].child \in S
  <2>1. TAKE x \in S
  <2>2. HAVE h[x].child # Null
  <2>3. h[x].child \in O \ {b} /\ h[h[x].child].parent = x
    BY <2>2, InTheTree
  <2>4. Listed(h[x].child)
    BY <1>1, <1>3, <2>2, <2>3
  <2>5. QED
    BY <2>3, <2>4
<1>7. \A x \in S \ {b} : h[x].sibling # Null => h[x].sibling \in S
  <2>1. TAKE x \in S \ {b}
  <2>2. HAVE h[x].sibling # Null
  <2>3. h[x].sibling \in O \ {b} /\ h[h[x].sibling].parent = h[x].parent
    BY <2>2, InTheTree
  <2>4. h[x].parent \in DOMAIN h /\ Listed(x)
    BY <1>1, InTheTree
  <2>5. Listed(h[x].sibling)
    BY <1>4, <2>2, <2>3, <2>4
  <2>6. QED
    BY <2>3, <2>5
<1>8. S = O
  <2>1. S \in SUBSET O
    OBVIOUS
  <2> HIDE DEF S
  <2>2. QED
    BY <1>5, <1>6, <1>7, <2>1, DownTheTree
<1>9. QED
  BY <1>8

\* Where the child for an edge is in the list.
LEMMA ChildAt ==
  ASSUME NEW h, NEW R, NEW b, TreeAt(h, R, b), NEW x \in Owned(h, b)
  PROVE  LET l == ChildList(h, x)
         IN  /\ l \in Seq(Owned(h, b) \ {b}) /\ \A k \in DOMAIN l : h[l[k]].parent = x
             /\ \A j, k \in 1 .. Len(l) : j < k => h[l[j]].index < h[l[k]].index
<1> DEFINE l == ChildList(h, x)
           n == Len(l)
           at(k) == h[l[k]].index
<1>1. IsList(h, x, l)
  BY InTheTree, ChildListIs DEF TreeAt, Forest
<1>2. \A i \in 1 .. n : l[i] \in Owned(h, b) \ {b} /\ h[l[i]].parent = x
  BY <1>1, ListIsOrdered DEF TreeAt
<1>3. \A i \in 1 .. n : i > 1 => at(i - 1) < at(i)
  BY <1>1, ListIsOrdered DEF TreeAt
<1>4. l \in Seq(DOMAIN h)
  BY <1>1 DEF IsList
<1> HIDE DEF l
<1>5. n \in Nat /\ l \in [1 .. n -> Owned(h, b) \ {b}] /\ DOMAIN l = 1 .. n
  <2>1. n \in Nat /\ l \in [1 .. n -> DOMAIN h]
    BY <1>4
  <2> HIDE DEF n
  <2>2. QED
    BY <1>2, <2>1
<1>6. \A k \in 1 .. n : at(k) \in Nat
  BY <1>5, InTheTree DEF TreeAt, Heap, NodeRecord
<1>7. ASSUME NEW j \in 1 .. n, NEW k \in 1 .. n, j < k PROVE at(j) < at(k)
  <2> HIDE DEF n, at
  <2> DEFINE T == {d \in 0 .. k - j - 1 : at(j) < at(j + 1 + d)}
  <2>1. 0 \in T
    <3>1. j + 1 \in 1 .. n /\ j + 1 > 1 /\ (j + 1) - 1 = j /\ j + 1 + 0 = j + 1
      BY <1>5, <1>7
    <3>2. at(j) < at(j + 1)
      BY <1>3, <3>1
    <3>3. 0 \in 0 .. k - j - 1
      BY <1>5, <1>7
    <3>4. QED
      BY <3>1, <3>2, <3>3
  <2>2. ASSUME NEW d \in T, d < k - j - 1 PROVE d + 1 \in T
    <3>1. /\ j + 1 + d \in 1 .. n /\ j + 1 + (d + 1) \in 1 .. n /\ d + 1 \in 0 .. k - j - 1
          /\ (j + 1 + (d + 1)) - 1 = j + 1 + d /\ j + 1 + (d + 1) > 1
      BY <1>5, <1>7, <2>2
    <3>2. at(j + 1 + d) < at(j + 1 + (d + 1))
      BY <1>3, <3>1
    <3>3. at(j) < at(j + 1 + d)
      BY <2>2
    <3>4. at(j) \in Nat /\ at(j + 1 + d) \in Nat /\ at(j + 1 + (d + 1)) \in Nat
      BY <1>6, <3>1
    <3>5. at(j) < at(j + 1 + (d + 1))
      BY <3>2, <3>3, <3>4
    <3>6. QED
      BY <3>1, <3>5
  <2>3. k - j - 1 \in Nat /\ k - j - 1 \in 0 .. k - j - 1 /\ j + 1 + (k - j - 1) = k
    BY <1>5, <1>7
  <2>4. T \in SUBSET (0 .. k - j - 1) /\ \A d \in T : d < k - j - 1 => d + 1 \in T
    BY <2>2
  <2>5. k - j - 1 \in T
    <3> HIDE DEF T
    <3>1. T = 0 .. k - j - 1
      BY <2>1, <2>3, <2>4, UpTo
    <3>2. QED
      BY <2>3, <3>1
  <2>6. QED
    BY <2>3, <2>5
<1>8. l \in Seq(Owned(h, b) \ {b})
  <2> DEFINE V == Owned(h, b) \ {b}
  <2> HIDE DEF n, V
  <2>1. l \in [1 .. n -> V] /\ n \in Nat
    BY <1>5 DEF V
  <2>2. l \in Seq(V)
    BY <2>1
  <2>3. QED
    BY <2>2 DEF V
<1>9. \A k \in DOMAIN l : h[l[k]].parent = x
  <2> HIDE DEF n
  <2>1. QED
    BY <1>2, <1>5
<1>10. QED
  BY <1>7, <1>8, <1>9 DEF l

\* NodeOf finds every node of the tree by its parent and its index.
LEMMA NodeOfIs ==
  ASSUME NEW h, NEW R, NEW b, TreeAt(h, R, b), NEW y \in Owned(h, b) \ {b}
  PROVE  NodeOf(h, h[y].parent, h[y].index) = y
<1> DEFINE x == h[y].parent
           i == h[y].index
           l == ChildList(h, x)
           p == Passed(h, l, i)
<1>1. x \in Owned(h, b)
  BY InTheTree
<1>2. /\ l \in Seq(Owned(h, b) \ {b})
      /\ \A j, k \in 1 .. Len(l) : j < k => h[l[j]].index < h[l[k]].index
  BY <1>1, ChildAt
<1>3. PICK k \in DOMAIN l : l[k] = y
  BY ChildrenAreListed DEF Range
<1>4. p \in 0 .. Len(l) /\ (\A j \in 1 .. p : h[l[j]].index < i)
      /\ (p + 1 \in DOMAIN l => ~(h[l[p + 1]].index < i))
  BY <1>2, PassedInList, PassedIsPrefix
<1>5. i \in Nat
  BY InTheTree DEF TreeAt, Heap, NodeRecord
<1> HIDE DEF x, i, l, p
<1>6. Len(l) \in Nat /\ DOMAIN l = 1 .. Len(l) /\ h[l[k]].index = i
  BY <1>2, <1>3 DEF i
<1>7. ~(k <= p)
  <2>1. SUFFICES ASSUME k <= p PROVE FALSE
    OBVIOUS
  <2>2. k \in 1 .. p
    BY <1>3, <1>4, <1>6, <2>1
  <2>3. i < i
    BY <1>4, <1>6, <2>2
  <2>4. QED
    BY <1>5, <2>3
<1>8. ~(p + 1 < k)
  <2>1. SUFFICES ASSUME p + 1 < k PROVE FALSE
    OBVIOUS
  <2>2. p + 1 \in 1 .. Len(l) /\ k \in 1 .. Len(l)
    BY <1>3, <1>4, <1>6, <2>1
  <2>3. h[l[p + 1]].index < i
    BY <1>2, <1>6, <2>1, <2>2
  <2>4. QED
    BY <1>4, <1>6, <2>2, <2>3
<1>9. p + 1 = k
  BY <1>3, <1>4, <1>6, <1>7, <1>8
<1>10. QED
  BY <1>3, <1>6, <1>9 DEF NodeOf, l, p, x, i

LEMMA ChildrenDiffer ==
  ASSUME NEW h, NEW R, NEW b, TreeAt(h, R, b)
  PROVE  \A x, y \in Owned(h, b) \ {b} :
            h[x].parent = h[y].parent /\ Step(h, x) = Step(h, y) => x = y
<1>1. SUFFICES ASSUME NEW x \in Owned(h, b) \ {b}, NEW y \in Owned(h, b) \ {b},
                      h[x].parent = h[y].parent, Step(h, x) = Step(h, y)
               PROVE  x = y
  OBVIOUS
<1> DEFINE e == h[h[x].parent].edges
<1>2. h[x].index + 1 \in DOMAIN e /\ h[y].index + 1 \in DOMAIN e /\ IsInjective(e)
  BY <1>1, InTheTree DEF TreeAt, Heap
<1>3. h[x].index \in Nat /\ h[y].index \in Nat
  BY InTheTree DEF TreeAt, Heap, NodeRecord
<1>4. h[x].index + 1 = h[y].index + 1
  BY <1>1, <1>2 DEF Step, IsInjective
<1>5. h[x].index = h[y].index
  BY <1>3, <1>4
<1>6. NodeOf(h, h[x].parent, h[x].index) = x /\ NodeOf(h, h[y].parent, h[y].index) = y
  BY NodeOfIs
<1>7. QED
  BY <1>1, <1>5, <1>6

\* No two nodes are reached by the same moves.
LEMMA WaysDiffer ==
  ASSUME NEW h, NEW R, NEW b, TreeAt(h, R, b)
  PROVE  \A x, y \in Owned(h, b) : WayTo(h, b, x) = WayTo(h, b, y) => x = y
<1> DEFINE O == Owned(h, b)
           way(x) == WayTo(h, b, x)
           Alone(x) == \A y \in O : way(x) = way(y) => x = y
           S == {x \in O : Alone(x) /\ (x # b => Alone(h[x].parent))}
<1>1. /\ \A x \in O : way(x) \in Seq(Move)
      /\ way(b) = <<>>
      /\ \A x \in O \ {b} : way(x) = Append(way(h[x].parent), Step(h, x))
  BY TheWay
<1>2. \A x \in O \ {b} : h[x].parent \in O /\ Step(h, x) \in Move
  BY InTheTree
<1>3. \A x \in O \ {b} : way(x) # <<>>
  <2>1. TAKE x \in O \ {b}
  <2>2. PICK r \in Seq(Move) : way(x) = Append(r, Step(h, x))
    BY <1>1, <1>2
  <2>3. Step(h, x) \in Move
    BY <1>2
  <2> HIDE DEF way
  <2>4. QED
    BY <2>2, <2>3
<1> HIDE DEF way
<1>4. b \in S
  <2>1. b \in O
    BY InTheTree
  <2>2. QED
    BY <1>1, <1>3, <2>1
<1>5. ASSUME NEW x \in O \ {b}, Alone(h[x].parent) PROVE Alone(x)
  <2>1. SUFFICES ASSUME NEW y \in O, way(x) = way(y) PROVE x = y
    OBVIOUS
  <2>2. y \in O \ {b}
    BY <1>1, <1>3, <2>1
  <2>3. /\ way(h[x].parent) \in Seq(Move) /\ Step(h, x) \in Move /\ h[x].parent \in O
        /\ way(h[y].parent) \in Seq(Move) /\ Step(h, y) \in Move /\ h[y].parent \in O
    BY <1>1, <1>2, <2>2
  <2>4. Append(way(h[x].parent), Step(h, x)) = Append(way(h[y].parent), Step(h, y))
    BY <1>1, <2>1, <2>2
  <2>5. way(h[x].parent) = way(h[y].parent) /\ Step(h, x) = Step(h, y)
    BY <2>3, <2>4, AppendDiffers
  <2>6. h[x].parent = h[y].parent
    BY <1>5, <2>3, <2>5
  <2>7. QED
    BY <2>2, <2>5, <2>6, ChildrenDiffer
<1>6. \A x \in S : h[x].child # Null => h[x].child \in S
  <2>1. TAKE x \in S
  <2>2. HAVE h[x].child # Null
  <2>3. h[x].child \in O \ {b} /\ h[h[x].child].parent = x /\ Alone(x)
    BY <2>2, InTheTree
  <2> HIDE DEF Alone
  <2>4. QED
    BY <1>5, <2>3
<1>7. \A x \in S \ {b} : h[x].sibling # Null => h[x].sibling \in S
  <2>1. TAKE x \in S \ {b}
  <2>2. HAVE h[x].sibling # Null
  <2>3. h[x].sibling \in O \ {b} /\ h[h[x].sibling].parent = h[x].parent /\ Alone(h[x].parent)
    BY <2>2, InTheTree
  <2> HIDE DEF Alone
  <2>4. QED
    BY <1>5, <2>3
<1>8. S = O
  <2>1. S \in SUBSET O
    OBVIOUS
  <2> HIDE DEF S
  <2>2. QED
    BY <1>4, <1>6, <1>7, <2>1, DownTheTree
<1>9. QED
  BY <1>8 DEF way

-----------------------------------------------------------------------------
(***************************************************************************)
(* The tree of moves.                                                      *)
(***************************************************************************)

\* The moves that lead to the nodes of b, and the edges found there.
Ways(h, b) == {WayTo(h, b, x) : x \in Owned(h, b)}

TreeOf(h, b) ==
    [p \in Ways(h, b) |-> h[CHOOSE x \in Owned(h, b) : WayTo(h, b, x) = p].edges]

LEMMA TreeOfIs ==
  ASSUME NEW h, NEW R, NEW b, TreeAt(h, R, b)
  PROVE  /\ DOMAIN TreeOf(h, b) = Ways(h, b)
         /\ \A x \in Owned(h, b) : /\ WayTo(h, b, x) \in Ways(h, b)
                                   /\ TreeOf(h, b)[WayTo(h, b, x)] = h[x].edges
         /\ \A p \in Ways(h, b) : \E x \in Owned(h, b) : p = WayTo(h, b, x)
<1>1. \A x, y \in Owned(h, b) : WayTo(h, b, x) = WayTo(h, b, y) => x = y
  BY WaysDiffer
<1>2. ASSUME NEW x \in Owned(h, b)
      PROVE  (CHOOSE y \in Owned(h, b) : WayTo(h, b, y) = WayTo(h, b, x)) = x
  BY <1>1
<1>3. ASSUME NEW x \in Owned(h, b)
      PROVE  WayTo(h, b, x) \in Ways(h, b) /\ TreeOf(h, b)[WayTo(h, b, x)] = h[x].edges
  BY <1>2 DEF TreeOf, Ways
<1>4. QED
  BY <1>3 DEF TreeOf, Ways

\* The tree of moves is what has the edges of each node at its way.
LEMMA TreeIs ==
  ASSUME NEW h, NEW R, NEW b, TreeAt(h, R, b), NEW t, t = [p \in DOMAIN t |-> t[p]],
         DOMAIN t = Ways(h, b), \A x \in Owned(h, b) : t[WayTo(h, b, x)] = h[x].edges
  PROVE  TreeOf(h, b) = t
<1> DEFINE u == TreeOf(h, b)
<1>1. u = [p \in DOMAIN u |-> u[p]]
  BY DEF TreeOf
<1>2. DOMAIN u = DOMAIN t
  BY TreeOfIs
<1>3. ASSUME NEW p \in DOMAIN t PROVE u[p] = t[p]
  <2>1. PICK x \in Owned(h, b) : p = WayTo(h, b, x)
    BY TreeOfIs
  <2>2. QED
    BY <2>1, TreeOfIs
<1> HIDE DEF u
<1>4. u = t
  BY <1>1, <1>2, <1>3
<1>5. QED
  BY <1>4 DEF u

\* The way to a node stays, if its parent and its move do.
LEMMA WaysKept ==
  ASSUME NEW h, NEW R, NEW b, TreeAt(h, R, b), NEW g, NEW Q, TreeAt(g, Q, b),
         \A x \in (Owned(h, b) \cap Owned(g, b)) \ {b} :
            g[x].parent = h[x].parent /\ Step(g, x) = Step(h, x)
  PROVE  \A x \in Owned(h, b) \cap Owned(g, b) : WayTo(g, b, x) = WayTo(h, b, x)
<1> DEFINE P == Owned(g, b)
           Kept(x) == x \in Owned(h, b) => WayTo(g, b, x) = WayTo(h, b, x)
           S == {x \in P : Kept(x) /\ (x # b => Kept(g[x].parent))}
<1>1. b \in S
  <2>1. b \in P
    BY InTheTree
  <2>2. WayTo(g, b, b) = WayTo(h, b, b)
    BY TheWay
  <2>3. QED
    BY <2>1, <2>2
<1>2. ASSUME NEW x \in P \ {b}, Kept(g[x].parent) PROVE Kept(x)
  <2>1. SUFFICES ASSUME x \in Owned(h, b) PROVE WayTo(g, b, x) = WayTo(h, b, x)
    OBVIOUS
  <2>2. g[x].parent = h[x].parent /\ Step(g, x) = Step(h, x)
    BY <2>1
  <2>3. h[x].parent \in Owned(h, b)
    BY <2>1, InTheTree
  <2>4. WayTo(g, b, x) = Append(WayTo(g, b, g[x].parent), Step(g, x))
    BY TheWay
  <2>5. WayTo(h, b, x) = Append(WayTo(h, b, h[x].parent), Step(h, x))
    BY <2>1, TheWay
  <2>6. QED
    BY <1>2, <2>2, <2>3, <2>4, <2>5
<1> HIDE DEF Kept
<1>3. \A x \in S : g[x].child # Null => g[x].child \in S
  <2>1. TAKE x \in S
  <2>2. HAVE g[x].child # Null
  <2>3. g[x].child \in P \ {b} /\ g[g[x].child].parent = x
    BY <2>2, InTheTree
  <2>4. QED
    BY <1>2, <2>3
<1>4. \A x \in S \ {b} : g[x].sibling # Null => g[x].sibling \in S
  <2>1. TAKE x \in S \ {b}
  <2>2. HAVE g[x].sibling # Null
  <2>3. g[x].sibling \in P \ {b} /\ g[g[x].sibling].parent = g[x].parent
    BY <2>2, InTheTree
  <2>4. QED
    BY <1>2, <2>3
<1>5. S = P
  <2>1. S \in SUBSET P
    OBVIOUS
  <2> HIDE DEF S
  <2>2. QED
    BY <1>1, <1>3, <1>4, <2>1, DownTheTree
<1>6. QED
  BY <1>5 DEF Kept

-----------------------------------------------------------------------------
(***************************************************************************)
(* What goes on from a node.                                               *)
(***************************************************************************)

\* The moves q go on from the moves p.
GoesOn(p, q) == Len(p) < Len(q) /\ SubSeq(q, 1, Len(p)) = p

\* What goes on from p by one move more.
LEMMA GoesOnByOne ==
  ASSUME NEW V, NEW p \in Seq(V), NEW r \in Seq(V), NEW e \in V
  PROVE  GoesOn(p, Append(r, e)) <=> r = p \/ GoesOn(p, r)
<1> DEFINE q == Append(r, e)
           n == Len(p)
<1>1. q \in Seq(V) /\ Len(q) = Len(r) + 1 /\ \A k \in 1 .. Len(r) : q[k] = r[k]
  OBVIOUS
<1>2. n \in Nat /\ Len(r) \in Nat
  OBVIOUS
<1> HIDE DEF q
<1>3. ASSUME n <= Len(r) PROVE SubSeq(q, 1, n) = SubSeq(r, 1, n)
  <2>1. \A k \in 1 .. n : q[k] = r[k]
    BY <1>1, <1>2, <1>3
  <2>2. SubSeq(q, 1, n) = [k \in 1 .. n |-> q[k]] /\ SubSeq(r, 1, n) = [k \in 1 .. n |-> r[k]]
    BY <1>1, <1>2, <1>3, SubSeqProperties
  <2> HIDE DEF n
  <2>3. QED
    BY <2>1, <2>2
<1>4. ASSUME n = Len(r) PROVE SubSeq(r, 1, n) = r
  BY <1>2, <1>4
<1>5. CASE n < Len(r)
  <2>1. r # p /\ n < Len(q) /\ SubSeq(q, 1, n) = SubSeq(r, 1, n)
    BY <1>1, <1>2, <1>3, <1>5
  <2>2. QED
    BY <1>5, <2>1 DEF GoesOn, q
<1>6. CASE n = Len(r)
  <2>1. n < Len(q) /\ SubSeq(q, 1, n) = r
    BY <1>1, <1>2, <1>3, <1>4, <1>6
  <2>2. QED
    BY <1>2, <1>6, <2>1 DEF GoesOn, q
<1>7. CASE Len(r) < n
  <2>1. r # p /\ ~(n < Len(q)) /\ ~(n < Len(r))
    BY <1>1, <1>2, <1>7
  <2>2. QED
    BY <2>1 DEF GoesOn, q
<1>8. QED
  BY <1>2, <1>5, <1>6, <1>7

\* A node is below x if its parent is x or below x, and the root is below none.
LEMMA WayGoesOn ==
  ASSUME NEW h, NEW R, NEW b, TreeAt(h, R, b), NEW x \in Owned(h, b)
  PROVE  /\ ~GoesOn(WayTo(h, b, x), WayTo(h, b, b))
         /\ ~GoesOn(WayTo(h, b, x), WayTo(h, b, x))
         /\ \A z \in Owned(h, b) \ {b} :
               GoesOn(WayTo(h, b, x), WayTo(h, b, z)) <=>
                  \/ h[z].parent = x
                  \/ GoesOn(WayTo(h, b, x), WayTo(h, b, h[z].parent))
<1> DEFINE way(z) == WayTo(h, b, z)
<1>1. \A z \in Owned(h, b) : way(z) \in Seq(Move)
  BY TheWay
<1>2. ~GoesOn(way(x), way(x))
  <2>1. Len(way(x)) \in Nat
    BY <1>1
  <2>2. QED
    BY <2>1 DEF GoesOn
<1>3. ~GoesOn(way(x), way(b))
  <2> DEFINE e == <<>>
  <2>1. way(b) = e /\ Len(e) = 0
    BY TheWay
  <2>2. Len(way(x)) \in Nat
    BY <1>1
  <2> HIDE DEF way, e
  <2>3. QED
    BY <2>1, <2>2 DEF GoesOn
<1>4. ASSUME NEW z \in Owned(h, b) \ {b}
      PROVE  GoesOn(way(x), way(z)) <=> h[z].parent = x \/ GoesOn(way(x), way(h[z].parent))
  <2>1. way(z) = Append(way(h[z].parent), Step(h, z))
    BY TheWay
  <2>2. h[z].parent \in Owned(h, b) /\ Step(h, z) \in Move
    BY InTheTree
  <2>3. way(h[z].parent) \in Seq(Move) /\ way(x) \in Seq(Move)
    BY <1>1, <2>2
  <2>4. GoesOn(way(x), way(z)) <=> way(h[z].parent) = way(x) \/ GoesOn(way(x), way(h[z].parent))
    BY <2>1, <2>2, <2>3, GoesOnByOne
  <2>5. QED
    BY <2>2, <2>4, WaysDiffer
<1>5. QED
  BY <1>2, <1>3, <1>4

\* What a search can reach from x.
LEMMA SearchGoesOn ==
  ASSUME NEW h, NEW R, NEW b, TreeAt(h, R, b), NEW x \in Owned(h, b)
  PROVE  \A z \in Owned(h, h[x].child) :
            z \in Owned(h, b) /\ GoesOn(WayTo(h, b, x), WayTo(h, b, z))
<1> DEFINE c == h[x].child
           O == Owned(h, b)
           S == {z \in O : GoesOn(WayTo(h, b, x), WayTo(h, b, z))}
<1>1. CASE c = Null
  BY <1>1 DEF Owned
<1>2. CASE c # Null
  <2>1. c \in O \ {b} /\ h[c].parent = x /\ O \subseteq DOMAIN h
    BY <1>2, InTheTree
  <2>2. c \in S
    BY <2>1, WayGoesOn
  <2>3. \A z \in S : z # b
    BY WayGoesOn
  <2>4. ASSUME NEW z \in S, h[z].child # Null PROVE h[z].child \in S
    <3>1. h[z].child \in O \ {b} /\ h[h[z].child].parent = z
      BY <2>4, InTheTree
    <3>2. QED
      BY <3>1, WayGoesOn
  <2>5. ASSUME NEW z \in S, h[z].sibling # Null PROVE h[z].sibling \in S
    <3>1. h[z].sibling \in O \ {b} /\ h[h[z].sibling].parent = h[z].parent
      BY <2>5, InTheTree
    <3>2. h[z].parent = x \/ GoesOn(WayTo(h, b, x), WayTo(h, b, h[z].parent))
      BY <2>3, WayGoesOn
    <3>3. QED
      BY <3>1, <3>2, WayGoesOn
  <2>6. Closed(h, S) /\ S \in SUBSET DOMAIN h
    BY <2>1, <2>4, <2>5 DEF Closed
  <2>7. c \in DOMAIN h /\ Heap(h)
    BY <2>1 DEF TreeAt
  <2> HIDE DEF S
  <2>8. Owned(h, c) \subseteq S
    BY <2>2, <2>6, <2>7, OwnedBy
  <2>9. QED
    BY <2>8 DEF S
<1>3. QED
  BY <1>1, <1>2

-----------------------------------------------------------------------------
(***************************************************************************)
(* What a change of the nodes is in the tree of moves.                     *)
(***************************************************************************)
LEMMA SameTree ==
  ASSUME NEW h, NEW R, NEW b, TreeAt(h, R, b), NEW g, NEW Q, TreeAt(g, Q, b),
         Owned(g, b) = Owned(h, b),
         \A w \in Owned(h, b) : /\ g[w].parent = h[w].parent /\ g[w].index = h[w].index
                                /\ g[w].edges = h[w].edges
  PROVE  /\ TreeOf(g, b) = TreeOf(h, b)
         /\ \A w \in Owned(h, b) : WayTo(g, b, w) = WayTo(h, b, w)
<1>1. \A w \in Owned(h, b) \ {b} : g[w].parent = h[w].parent /\ Step(g, w) = Step(h, w)
  BY InTheTree DEF Step
<1>2. \A w \in Owned(h, b) : WayTo(g, b, w) = WayTo(h, b, w)
  BY <1>1, WaysKept
<1>3. Ways(g, b) = Ways(h, b)
  BY <1>2 DEF Ways
<1>4. TreeOf(h, b) = [p \in DOMAIN TreeOf(h, b) |-> TreeOf(h, b)[p]]
  BY DEF TreeOf
<1>5. \A w \in Owned(g, b) : TreeOf(h, b)[WayTo(g, b, w)] = g[w].edges
  BY <1>2, TreeOfIs
<1>6. DOMAIN TreeOf(h, b) = Ways(g, b)
  BY <1>3, TreeOfIs
<1>7. TreeOf(g, b) = TreeOf(h, b)
  BY <1>4, <1>5, <1>6, TreeIs
<1>8. QED
  BY <1>2, <1>7

\* CreateEdges at a node that has none.
LEMMA EdgesInTree ==
  ASSUME NEW h, NEW R, NEW b, TreeAt(h, R, b), NEW x \in Owned(h, b), h[x].edges = <<>>,
         NEW list \in Seq(Move), IsInjective(list)
  PROVE  LET g == [h EXCEPT ![x].edges = list]
         IN  /\ TreeAt(g, R, b) /\ Owned(g, b) = Owned(h, b)
             /\ TreeOf(g, b) = [TreeOf(h, b) EXCEPT ![WayTo(h, b, x)] = list]
             /\ \A w \in Owned(h, b) : WayTo(g, b, w) = WayTo(h, b, w)
<1> DEFINE g == [h EXCEPT ![x].edges = list]
           O == Owned(h, b)
           t == [TreeOf(h, b) EXCEPT ![WayTo(h, b, x)] = list]
<1>1. x \in DOMAIN h /\ O \subseteq DOMAIN h /\ b \in O /\ Heap(h) /\ Forest(h, R) /\ b \in R
  BY InTheTree DEF TreeAt
<1>2. /\ DOMAIN g = DOMAIN h
      /\ \A w \in DOMAIN h : /\ g[w].parent = h[w].parent /\ g[w].index = h[w].index
                             /\ g[w].child = h[w].child /\ g[w].sibling = h[w].sibling
                             /\ g[w].edges = IF w = x THEN list ELSE h[w].edges
  <2>1. /\ \A w \in DOMAIN h \ {x} : g[w] = h[w]
        /\ g[x] = [h[x] EXCEPT !.edges = list] /\ h[x] \in NodeRecord
    BY <1>1 DEF Heap
  <2>2. /\ g[x].parent = h[x].parent /\ g[x].index = h[x].index
        /\ g[x].child = h[x].child /\ g[x].sibling = h[x].sibling /\ g[x].edges = list
    BY <2>1 DEF NodeRecord
  <2>3. DOMAIN g = DOMAIN h
    OBVIOUS
  <2> HIDE DEF g
  <2>4. QED
    BY <2>1, <2>2, <2>3
<1>3. Heap(g) /\ Forest(g, R) /\ Keeps(h, g, R)
  BY <1>1, NewEdges
<1>4. TreeAt(g, R, b)
  <2>1. SiblingOrder(g, b)
    BY <1>1, EdgesInOrder DEF TreeAt
  <2> HIDE DEF g
  <2>2. g[b].parent = Null
    BY <1>1, <1>2 DEF TreeAt
  <2>3. QED
    BY <1>1, <1>3, <2>1, <2>2 DEF TreeAt
<1> HIDE DEF g
<1>5. Owned(g, b) = O
  <2>1. Closed(h, O)
    BY <1>1, OwnedBy
  <2>2. Closed(g, O) /\ O \in SUBSET DOMAIN g
    BY <1>1, <1>2, <2>1 DEF Closed
  <2>3. b \in DOMAIN g
    BY <1>1, <1>2
  <2>4. Owned(g, b) \subseteq O
    BY <1>1, <1>3, <2>2, <2>3, OwnedBy
  <2>5. QED
    BY <1>1, <1>3, <2>4 DEF Keeps
<1>6. \A w \in O : WayTo(g, b, w) = WayTo(h, b, w)
  <2>1. ASSUME NEW w \in O \ {b} PROVE g[w].parent = h[w].parent /\ Step(g, w) = Step(h, w)
    <3>1. h[w].parent \in O /\ h[w].index + 1 \in DOMAIN h[h[w].parent].edges
      BY InTheTree
    <3>2. h[w].parent # x
      BY <3>1
    <3>3. QED
      BY <1>1, <1>2, <3>1, <3>2 DEF Step
  <2>2. QED
    BY <1>4, <1>5, <2>1, WaysKept
<1>7. TreeOf(g, b) = t
  <2>1. DOMAIN t = Ways(g, b)
    <3>1. Ways(g, b) = Ways(h, b)
      BY <1>5, <1>6 DEF Ways
    <3>2. DOMAIN t = DOMAIN TreeOf(h, b)
      OBVIOUS
    <3>3. QED
      BY <3>1, <3>2, TreeOfIs
  <2>2. t = [p \in DOMAIN t |-> t[p]]
    OBVIOUS
  <2>3. ASSUME NEW w \in Owned(g, b) PROVE t[WayTo(g, b, w)] = g[w].edges
    <3>1. WayTo(g, b, w) = WayTo(h, b, w) /\ w \in O
      BY <1>5, <1>6
    <3>2. w # x => WayTo(h, b, w) # WayTo(h, b, x)
      BY <3>1, WaysDiffer
    <3>3. /\ WayTo(h, b, w) \in DOMAIN TreeOf(h, b)
          /\ TreeOf(h, b)[WayTo(h, b, w)] = h[w].edges
      BY <3>1, TreeOfIs
    <3>4. QED
      BY <1>1, <1>2, <3>1, <3>2, <3>3
  <2> HIDE DEF t
  <2>4. QED
    BY <1>4, <2>1, <2>2, <2>3, TreeIs
<1>8. QED
  BY <1>4, <1>5, <1>6, <1>7 DEF g

\* A new node y for the edge i of x.
LEMMA HungInTree ==
  ASSUME NEW h, NEW R, NEW b, TreeAt(h, R, b), NEW x \in Owned(h, b), NEW i \in Nat,
         i + 1 \in DOMAIN h[x].edges, NEW z \in Owned(h, b), NEW y \in Node \ DOMAIN h,
         NEW g, TreeAt(g, R, b), HungFor(h, x, i, z, y, g)
  PROVE  /\ y \in Owned(g, b) \ {b} /\ g[y].parent = x /\ g[y].index = i
         /\ WayTo(g, b, y) = Append(WayTo(h, b, x), h[x].edges[i + 1])
         /\ TreeOf(g, b) =
               Paths!Grown(TreeOf(h, b), Append(WayTo(h, b, x), h[x].edges[i + 1]))
<1> DEFINE O == Owned(h, b)
           p == Append(WayTo(h, b, x), h[x].edges[i + 1])
           t == Paths!Grown(TreeOf(h, b), p)
<1>1. /\ O \subseteq DOMAIN h /\ b \in O /\ Heap(h) /\ Forest(h, R) /\ b \in R /\ Heap(g)
      /\ y \notin O /\ y # z
  BY InTheTree DEF TreeAt
<1>2. /\ HungIn(h, z, y, g)
      /\ \A w \in DOMAIN h : /\ g[w].parent = h[w].parent /\ g[w].index = h[w].index
                             /\ g[w].edges = h[w].edges
      /\ g[y].parent = x /\ g[y].index = i /\ g[y].edges = <<>>
  BY DEF HungFor
<1>3. Owned(g, b) = O \cup {y}
  <2>1. O \subseteq Owned(g, b)
    BY <1>1, <1>2, Hang DEF Keeps
  <2>2. Closed(h, O) /\ b \in DOMAIN g /\ DOMAIN g = DOMAIN h \cup {y}
    BY <1>1, <1>2, OwnedBy DEF HungIn
  <2>3. y \in Owned(g, b)
    <3>1. Closed(g, Owned(g, b)) /\ z \in Owned(g, b)
      BY <1>1, <2>1, <2>2, OwnedBy
    <3>2. y \in {g[z].child, g[z].sibling} /\ y # Null
      BY <1>2, NodeTreeAssumption DEF HungIn
    <3>3. QED
      BY <3>1, <3>2 DEF Closed
  <2>4. Closed(g, O \cup {y})
    <3>1. ASSUME NEW w \in O \ {z} PROVE {g[w].child, g[w].sibling} \subseteq O \cup {Null}
      BY <1>1, <1>2, <2>2 DEF HungIn, Closed
    <3>2. {g[z].child, g[z].sibling, g[y].child, g[y].sibling} \subseteq O \cup {y, Null}
      BY <1>1, <1>2, <2>2 DEF HungIn, Closed
    <3>3. QED
      BY <3>1, <3>2 DEF Closed
  <2>5. O \cup {y} \in SUBSET DOMAIN g
    BY <1>1, <2>2
  <2> HIDE DEF O
  <2>6. Owned(g, b) \subseteq O \cup {y}
    BY <1>1, <2>2, <2>4, <2>5, OwnedBy
  <2>7. QED
    BY <2>1, <2>3, <2>6
<1>4. \A w \in O : WayTo(g, b, w) = WayTo(h, b, w)
  <2>1. ASSUME NEW w \in O \ {b} PROVE g[w].parent = h[w].parent /\ Step(g, w) = Step(h, w)
    <3>1. h[w].parent \in O
      BY InTheTree
    <3>2. QED
      BY <1>1, <1>2, <3>1 DEF Step
  <2>2. QED
    BY <1>3, <2>1, WaysKept
<1>5. y \in Owned(g, b) \ {b}
  BY <1>1, <1>3
<1>6. WayTo(g, b, y) = p
  <2>1. WayTo(g, b, y) = Append(WayTo(g, b, x), Step(g, y))
    BY <1>2, <1>5, TheWay
  <2>2. Step(g, y) = h[x].edges[i + 1]
    BY <1>1, <1>2 DEF Step
  <2>3. QED
    BY <1>4, <2>1, <2>2
<1>7. p \notin Ways(h, b)
  <2>1. SUFFICES ASSUME NEW w \in O, p = WayTo(h, b, w) PROVE FALSE
    BY DEF Ways
  <2>2. WayTo(g, b, w) = WayTo(g, b, y) /\ w \in Owned(g, b) /\ w # y
    BY <1>1, <1>3, <1>4, <1>6, <2>1
  <2>3. QED
    BY <1>5, <2>2, WaysDiffer
<1> HIDE DEF p
<1>8. Ways(g, b) = Ways(h, b) \cup {p}
  BY <1>3, <1>4, <1>6 DEF Ways
<1>9. TreeOf(g, b) = t
  <2>1. DOMAIN t = Ways(g, b)
    BY <1>8, TreeOfIs DEF Paths!Grown
  <2>2. t = [q \in DOMAIN t |-> t[q]]
    BY DEF Paths!Grown
  <2>3. t[p] = <<>>
    BY <1>7, TreeOfIs DEF Paths!Grown
  <2>4. ASSUME NEW w \in O PROVE t[WayTo(g, b, w)] = g[w].edges
    <3>1. WayTo(g, b, w) = WayTo(h, b, w) /\ g[w].edges = h[w].edges
      BY <1>1, <1>2, <1>4
    <3>2. /\ WayTo(h, b, w) \in DOMAIN TreeOf(h, b)
          /\ TreeOf(h, b)[WayTo(h, b, w)] = h[w].edges
      BY TreeOfIs
    <3>3. t[WayTo(h, b, w)] = TreeOf(h, b)[WayTo(h, b, w)]
      BY <3>2 DEF Paths!Grown
    <3>4. QED
      BY <3>1, <3>2, <3>3
  <2> HIDE DEF t
  <2>5. \A w \in Owned(g, b) : t[WayTo(g, b, w)] = g[w].edges
    BY <1>2, <1>3, <1>6, <2>3, <2>4
  <2>6. QED
    BY <2>1, <2>2, <2>5, TreeIs
<1>10. QED
  BY <1>2, <1>5, <1>6, <1>9 DEF p

\* The node GetOrSpawnNode finds or makes.
LEMMA SpawnedInTree ==
  ASSUME NEW h, NEW R, NEW b, TreeAt(h, R, b), NEW x \in Owned(h, b), NEW i \in Nat,
         i + 1 \in DOMAIN h[x].edges, NEW y \in Node \ DOMAIN h
  PROVE  LET g == GetOrSpawnNode(h, x, i, y)
             p == Append(WayTo(h, b, x), h[x].edges[i + 1])
         IN  /\ TreeAt(g, R, b)
             /\ NodeOf(g, x, i) \in Owned(g, b) /\ WayTo(g, b, NodeOf(g, x, i)) = p
             /\ TreeOf(g, b) = Paths!Grown(TreeOf(h, b), p)
<1> DEFINE g == GetOrSpawnNode(h, x, i, y)
           p == Append(WayTo(h, b, x), h[x].edges[i + 1])
           l == ChildList(h, x)
           k == Passed(h, l, i) + 1
<1>1. /\ x \in DOMAIN h /\ Heap(h) /\ Forest(h, R) /\ b \in R /\ SiblingOrder(h, b)
      /\ h[b].parent = Null /\ b \in DOMAIN h
  BY InTheTree DEF TreeAt
<1>2. h[x].edges # <<>> /\ i < Len(h[x].edges)
  <2>1. h[x].edges \in Seq(Move) /\ Len(h[x].edges) \in Nat
    BY <1>1 DEF Heap, NodeRecord
  <2>2. QED
    BY <2>1
<1>3. CASE NodeOf(h, x, i) # Null
  <2>1. g = h
    BY <1>3 DEF GetOrSpawnNode
  <2>2. NodeOf(h, x, i) = l[k] /\ k \in DOMAIN l /\ h[l[k]].index = i
    BY <1>3 DEF NodeOf
  <2> DEFINE v == l[k]
  <2>3. l \in Seq(Owned(h, b) \ {b}) /\ \A j \in DOMAIN l : h[l[j]].parent = x
    BY ChildAt
  <2> HIDE DEF l, k
  <2>4. v \in Owned(h, b) \ {b} /\ h[v].parent = x
    BY <2>2, <2>3
  <2>5. Step(h, v) = h[x].edges[i + 1]
    BY <2>2, <2>4 DEF Step
  <2>6. WayTo(h, b, v) = p
    BY <2>4, <2>5, TheWay
  <2>7. p \in DOMAIN TreeOf(h, b)
    <3>1. WayTo(h, b, v) \in DOMAIN TreeOf(h, b)
      BY <2>4, TreeOfIs
    <3>2. QED
      BY <2>6, <3>1
  <2> HIDE DEF p
  <2>8. Paths!Grown(TreeOf(h, b), p) = TreeOf(h, b)
    <3>1. DOMAIN TreeOf(h, b) \cup {p} = DOMAIN TreeOf(h, b)
      BY <2>7
    <3>2. TreeOf(h, b) = [q \in DOMAIN TreeOf(h, b) |-> TreeOf(h, b)[q]]
      BY DEF TreeOf
    <3>3. QED
      BY <3>1, <3>2 DEF Paths!Grown
  <2>9. QED
    BY <2>1, <2>2, <2>4, <2>6, <2>8 DEF p
<1>4. CASE NodeOf(h, x, i) = Null
  <2>1. /\ g = Spawned(h, x, i, y) /\ Heap(g)
        /\ \E z \in Owned(h, b) : HungFor(h, x, i, z, y, g) /\ (g[z].child = y \/ z # b)
    BY <1>1, <1>2, <1>4, SpawnedFor
  <2>2. PICK z \in Owned(h, b) : HungFor(h, x, i, z, y, g)
    BY <2>1
  <2>3. TreeAt(g, R, b)
    <3>1. Forest(g, R)
      BY <1>1, <1>2, Spawn
    <3>2. SiblingOrder(g, b)
      BY <1>1, <1>2, SpawnInOrder
    <3>3. g[b].parent = Null
      BY <1>1, <2>2 DEF HungFor
    <3>4. QED
      BY <1>1, <2>1, <3>1, <3>2, <3>3 DEF TreeAt
  <2> HIDE DEF g
  <2>4. /\ y \in Owned(g, b) \ {b} /\ g[y].parent = x /\ g[y].index = i
        /\ WayTo(g, b, y) = p /\ TreeOf(g, b) = Paths!Grown(TreeOf(h, b), p)
    BY <2>2, <2>3, HungInTree
  <2>5. NodeOf(g, x, i) = y
    BY <2>3, <2>4, NodeOfIs
  <2>6. QED
    BY <2>3, <2>4, <2>5 DEF g
<1>5. QED
  BY <1>3, <1>4

\* The tree after the move m.
Led(t, p, m) ==
    Paths!Grown(IF t[p] = <<>> THEN [t EXCEPT ![p] = <<m>>] ELSE t, Append(p, m))

\* A move made at x.
LEMMA MovedInTree ==
  ASSUME NEW h, NEW R, NEW b, TreeAt(h, R, b), NEW x \in Owned(h, b), NEW m \in Move,
         h[x].edges = <<>> \/ m \in Range(h[x].edges), NEW y \in Node \ DOMAIN h
  PROVE  LET t == Played([heap |-> h, head |-> x], m, y)
         IN  /\ TreeAt(t.heap, R, b) /\ t.head \in Owned(t.heap, b)
             /\ WayTo(t.heap, b, t.head) = Append(WayTo(h, b, x), m)
             /\ TreeOf(t.heap, b) = Led(TreeOf(h, b), WayTo(h, b, x), m)
<1> DEFINE is == {i \in 0 .. Len(h[x].edges) - 1 : h[x].edges[i + 1] = m}
           i == IF is = {} THEN 0 ELSE CHOOSE i \in is : TRUE
           g == IF is = {} THEN CreateSingleChildNode(h, x, m, y) ELSE GetOrSpawnNode(h, x, i, y)
           t == Played([heap |-> h, head |-> x], m, y)
           p == WayTo(h, b, x)
           one == <<m>>
<1>1. t.heap = g /\ t.head = NodeOf(g, x, i)
  BY DEF Played
<1>2. /\ x \in DOMAIN h /\ Heap(h) /\ Forest(h, R) /\ b \in R /\ SiblingOrder(h, b)
      /\ h[b].parent = Null /\ b \in DOMAIN h
  BY InTheTree DEF TreeAt
<1>3. h[x].edges \in Seq(Move) /\ Len(h[x].edges) \in Nat
  BY <1>2 DEF Heap, NodeRecord
<1>4. TreeOf(h, b)[p] = h[x].edges
  BY TreeOfIs
<1>5. CASE is # {}
  <2>1. i \in is
    BY <1>5
  <2>2. i \in 0 .. Len(h[x].edges) - 1 /\ h[x].edges[i + 1] = m /\ g = GetOrSpawnNode(h, x, i, y)
    BY <1>5, <2>1
  <2> HIDE DEF is, i, g
  <2>3. i \in Nat /\ i + 1 \in DOMAIN h[x].edges /\ h[x].edges # <<>>
    BY <1>3, <2>2
  <2>4. /\ TreeAt(g, R, b) /\ NodeOf(g, x, i) \in Owned(g, b)
        /\ WayTo(g, b, NodeOf(g, x, i)) = Append(p, m)
        /\ TreeOf(g, b) = Paths!Grown(TreeOf(h, b), Append(p, m))
    <3> DEFINE s == GetOrSpawnNode(h, x, i, y)
               q == Append(WayTo(h, b, x), h[x].edges[i + 1])
    <3>1. /\ TreeAt(s, R, b) /\ NodeOf(s, x, i) \in Owned(s, b)
          /\ WayTo(s, b, NodeOf(s, x, i)) = q /\ TreeOf(s, b) = Paths!Grown(TreeOf(h, b), q)
      BY <2>3, SpawnedInTree
    <3>2. g = s /\ q = Append(p, m)
      BY <2>2
    <3> HIDE DEF s, q, p
    <3>3. QED
      BY <3>1, <3>2
  <2>5. Led(TreeOf(h, b), p, m) = Paths!Grown(TreeOf(h, b), Append(p, m))
    BY <1>4, <2>3 DEF Led
  <2> HIDE DEF t, p
  <2>6. QED
    BY <1>1, <2>4, <2>5 DEF t, p
<1>6. CASE is = {}
  <2> DEFINE e == [h EXCEPT ![x].edges = one]
  <2>1. h[x].edges = <<>>
    <3>1. SUFFICES ASSUME m \in Range(h[x].edges) PROVE FALSE
      OBVIOUS
    <3>2. PICK j \in 1 .. Len(h[x].edges) : h[x].edges[j] = m
      BY <1>3, <3>1 DEF Range
    <3>3. j - 1 \in is
      BY <1>3, <3>2
    <3>4. QED
      BY <1>6, <3>3
  <2>2. g = CreateSingleChildNode(h, x, m, y) /\ i = 0
    BY <1>6
  <2>3. one \in Seq(Move) /\ IsInjective(one) /\ DOMAIN one = {1} /\ one[1] = m
    BY DEF IsInjective
  <2> HIDE DEF is, i, g
  <2>4. Heap(g) /\ Forest(g, R) /\ HungFor(e, x, 0, x, y, g) /\ DOMAIN e = DOMAIN h
    BY <1>2, <2>1, <2>2, SingleChild DEF one
  <2>5. e[x].edges = one
    BY <1>2 DEF Heap, NodeRecord
  <2> HIDE DEF one
  <2>6. /\ TreeAt(e, R, b) /\ Owned(e, b) = Owned(h, b)
        /\ TreeOf(e, b) = [TreeOf(h, b) EXCEPT ![p] = one] /\ WayTo(e, b, x) = p
    BY <2>1, <2>3, EdgesInTree
  <2> HIDE DEF e, p
  <2>7. TreeAt(g, R, b)
    <3>1. SiblingOrder(g, b)
      BY <1>2, <2>1, <2>2, SingleChildInOrder
    <3>2. g[b].parent = Null
      BY <1>2, <2>4, <2>6 DEF HungFor, TreeAt
    <3>3. QED
      BY <1>2, <2>4, <3>1, <3>2 DEF TreeAt
  <2>8. /\ y \in Owned(g, b) \ {b} /\ g[y].parent = x /\ g[y].index = 0
        /\ WayTo(g, b, y) = Append(p, m)
        /\ TreeOf(g, b) = Paths!Grown(TreeOf(e, b), Append(p, m))
    <3> DEFINE j == 0
               q == Append(WayTo(e, b, x), e[x].edges[j + 1])
    <3>1. j \in Nat /\ j + 1 \in DOMAIN e[x].edges /\ e[x].edges[j + 1] = m
      BY <2>3, <2>5
    <3>2. x \in Owned(e, b) /\ y \in Node \ DOMAIN e /\ HungFor(e, x, j, x, y, g)
      BY <2>4, <2>6
    <3>3. q = Append(p, m)
      BY <2>6, <3>1
    <3> HIDE DEF j, q
    <3>6. TreeAt(e, R, b)
      BY <2>6
    <3>4. /\ y \in Owned(g, b) \ {b} /\ g[y].parent = x /\ g[y].index = j
          /\ WayTo(g, b, y) = q /\ TreeOf(g, b) = Paths!Grown(TreeOf(e, b), q)
      BY <2>7, <3>1, <3>2, <3>6, HungInTree DEF q
    <3>5. QED
      BY <3>3, <3>4 DEF j
  <2>9. NodeOf(g, x, i) = y
    BY <2>2, <2>7, <2>8, NodeOfIs
  <2>10. TreeOf(g, b) = Led(TreeOf(h, b), p, m)
    BY <1>4, <2>1, <2>6, <2>8 DEF Led, one
  <2> HIDE DEF t
  <2>11. QED
    BY <1>1, <2>7, <2>8, <2>9, <2>10 DEF t, p
<1>7. QED
  BY <1>5, <1>6

\* Trim forgets what goes on from x.
LEMMA TrimmedTree ==
  ASSUME NEW h, NEW R, NEW b, TreeAt(h, R, b), NEW x \in Owned(h, b)
  PROVE  LET g == [h EXCEPT ![x] = Renewed(@)]
             p == WayTo(h, b, x)
         IN  /\ \A Q : Forest(g, Q) /\ b \in Q => TreeAt(g, Q, b)
             /\ WayTo(g, b, x) = p
             /\ TreeOf(g, b) =
                   [q \in {r \in Ways(h, b) : ~GoesOn(p, r)} |->
                      IF q = p THEN <<>> ELSE TreeOf(h, b)[q]]
<1> DEFINE c == h[x].child
           g == [h EXCEPT ![x] = Renewed(@)]
           p == WayTo(h, b, x)
           O == Owned(h, b)
           Stays(z) == z \in O /\ ~GoesOn(p, WayTo(h, b, z))
           K == {z \in O : Stays(z)}
           e == <<>>
           t == [q \in {r \in Ways(h, b) : ~GoesOn(p, r)} |->
                   IF q = p THEN e ELSE TreeOf(h, b)[q]]
<1>1. /\ x \in DOMAIN h /\ Heap(h) /\ Forest(h, R) /\ b \in R /\ SiblingOrder(h, b)
      /\ h[b].parent = Null /\ b \in O /\ O \subseteq DOMAIN h /\ Null \notin DOMAIN h
  BY InTheTree DEF TreeAt
<1>2. /\ DOMAIN g = DOMAIN h /\ \A w \in DOMAIN h \ {x} : g[w] = h[w]
      /\ g[x].parent = h[x].parent /\ g[x].index = h[x].index /\ g[x].child = Null
      /\ g[x].sibling = h[x].sibling /\ g[x].edges = e
  BY <1>1 DEF Renewed, NewNode, Heap
<1> HIDE DEF e
<1>3. Heap(g) /\ Forest(g, R \cup ({c} \ {Null})) /\ x \in Owned(g, b) /\ SiblingOrder(g, b)
  BY <1>1, Trim, TrimInOrder
<1> HIDE DEF g
<1>4. \A Q : Forest(g, Q) /\ b \in Q => TreeAt(g, Q, b)
  <2>1. g[b].parent = Null
    BY <1>1, <1>2
  <2>2. QED
    BY <1>3, <2>1 DEF TreeAt
<1>5. TreeAt(g, R \cup ({c} \ {Null}), b)
  BY <1>1, <1>3, <1>4
<1>6. b \in K /\ x \in K
  BY <1>1, WayGoesOn
\* What stays is owned by b.
<1>7. \A z \in O \ {b} : Stays(z) <=> h[z].parent # x /\ Stays(h[z].parent)
  BY InTheTree, WayGoesOn
<1>8. Owned(g, b) \subseteq K
  <2>1. ASSUME NEW z \in K, g[z].child # Null PROVE g[z].child \in K
    <3>1. z # x /\ g[z].child = h[z].child
      BY <1>1, <1>2, <2>1
    <3>2. h[z].child \in O \ {b} /\ h[h[z].child].parent = z
      BY <2>1, <3>1, InTheTree
    <3>3. QED
      BY <1>7, <3>1, <3>2
  <2>2. ASSUME NEW z \in K, g[z].sibling # Null PROVE g[z].sibling \in K
    <3>1. g[z].sibling = h[z].sibling
      BY <1>1, <1>2
    <3>2. /\ h[z].sibling \in O \ {b} /\ h[h[z].sibling].parent = h[z].parent
          /\ z \in O \ {b}
      BY <2>2, <3>1, InTheTree
    <3>3. QED
      BY <1>7, <3>1, <3>2
  <2> HIDE DEF K
  <2>3. Closed(g, K)
    BY <2>1, <2>2 DEF Closed
  <2>4. K \in SUBSET DOMAIN g /\ b \in DOMAIN g
    BY <1>1, <1>2 DEF K
  <2>5. QED
    BY <1>3, <1>6, <2>3, <2>4, OwnedBy
\* What does not stay is below x.
<1>9. K \subseteq Owned(g, b)
  <2> DEFINE S == {z \in O : Stays(z) => z \in Owned(g, b)}
  <2>1. b \in Owned(g, b) /\ Closed(g, Owned(g, b))
    BY <1>1, <1>2, <1>3, OwnedBy
  <2>2. b \in S
    BY <1>1, <2>1
  <2>3. \A z \in S : h[z].child # Null => h[z].child \in S
    <3>1. TAKE z \in S
    <3>2. HAVE h[z].child # Null
    <3>3. h[z].child \in O \ {b} /\ h[h[z].child].parent = z
      BY <3>2, InTheTree
    <3>4. ASSUME Stays(h[z].child) PROVE h[z].child \in Owned(g, b)
      <4>1. z # x /\ Stays(z)
        BY <1>7, <3>3, <3>4
      <4>2. z \in Owned(g, b) /\ g[z].child = h[z].child
        BY <1>1, <1>2, <4>1
      <4>3. QED
        BY <2>1, <3>2, <4>2 DEF Closed
    <3>5. QED
      BY <3>3, <3>4
  <2>4. \A z \in S \ {b} : h[z].sibling # Null => h[z].sibling \in S
    <3>1. TAKE z \in S \ {b}
    <3>2. HAVE h[z].sibling # Null
    <3>3. h[z].sibling \in O \ {b} /\ h[h[z].sibling].parent = h[z].parent
      BY <3>2, InTheTree
    <3>4. ASSUME Stays(h[z].sibling) PROVE h[z].sibling \in Owned(g, b)
      <4>1. Stays(z)
        BY <1>7, <3>3, <3>4
      <4>2. z \in Owned(g, b) /\ g[z].sibling = h[z].sibling
        BY <1>1, <1>2, <4>1
      <4>3. QED
        BY <2>1, <3>2, <4>2 DEF Closed
    <3>5. QED
      BY <3>3, <3>4
  <2>5. S = O
    <3>1. S \in SUBSET O
      OBVIOUS
    <3> HIDE DEF S
    <3>2. QED
      BY <2>2, <2>3, <2>4, <3>1, DownTheTree
  <2>6. QED
    BY <2>5
<1>10. Owned(g, b) = K
  BY <1>8, <1>9
<1>11. \A w \in K : WayTo(g, b, w) = WayTo(h, b, w)
  <2>1. ASSUME NEW w \in K \ {b} PROVE g[w].parent = h[w].parent /\ Step(g, w) = Step(h, w)
    <3>1. g[w].parent = h[w].parent /\ g[w].index = h[w].index /\ w \in O
      BY <1>1, <1>2
    <3>2. h[w].parent \in O /\ h[w].parent # x
      BY <1>7, <3>1, InTheTree
    <3>3. QED
      BY <1>1, <1>2, <3>1, <3>2 DEF Step
  <2>2. QED
    BY <1>5, <1>10, <2>1, WaysKept
<1>12. TreeOf(g, b) = t
  <2>1. Ways(g, b) = {r \in Ways(h, b) : ~GoesOn(p, r)}
    <3> HIDE DEF p
    <3>1. QED
      BY <1>10, <1>11 DEF Ways
  <2>2. DOMAIN t = Ways(g, b) /\ t = [q \in DOMAIN t |-> t[q]]
    BY <2>1
  <2>3. ASSUME NEW w \in Owned(g, b) PROVE t[WayTo(g, b, w)] = g[w].edges
    <3>1. WayTo(g, b, w) = WayTo(h, b, w) /\ w \in O
      BY <1>10, <1>11, <2>3
    <3>2. WayTo(h, b, w) \in {r \in Ways(h, b) : ~GoesOn(p, r)}
      BY <1>5, <2>1, <3>1, TreeOfIs
    <3>3. t[WayTo(h, b, w)] = IF WayTo(h, b, w) = p THEN e ELSE TreeOf(h, b)[WayTo(h, b, w)]
      BY <3>2
    <3>4. TreeOf(h, b)[WayTo(h, b, w)] = h[w].edges
      BY <3>1, TreeOfIs
    <3>5. WayTo(h, b, w) = p <=> w = x
      BY <3>1, WaysDiffer
    <3> HIDE DEF t, p
    <3>6. QED
      BY <1>1, <1>2, <3>1, <3>3, <3>4, <3>5
  <2> HIDE DEF t
  <2>4. QED
    BY <1>5, <2>2, <2>3, TreeIs
<1>13. QED
  BY <1>4, <1>6, <1>11, <1>12 DEF g, e

\* The collector's thread cannot be noticed.
LEMMA ReleasedTree ==
  ASSUME NEW h, NEW R, NEW b, TreeAt(h, R, b), NEW r \in R \ {b}
  PROVE  LET g == Without(h, Owned(h, r))
         IN  /\ TreeAt(g, R \ {r}, b) /\ TreeOf(g, b) = TreeOf(h, b)
<1> DEFINE g == Without(h, Owned(h, r))
           O == Owned(h, b)
<1>1. /\ Heap(h) /\ Forest(h, R) /\ b \in R /\ SiblingOrder(h, b)
      /\ h[b].parent = Null /\ b \in O /\ O \subseteq DOMAIN h
  BY InTheTree DEF TreeAt
<1>2. Heap(g) /\ Forest(g, R \ {r}) /\ O \subseteq Owned(g, b) /\ SiblingOrder(g, b)
  BY <1>1, ReleaseRoot, ReleaseInOrder
<1>3. b \in DOMAIN g /\ O \subseteq DOMAIN g /\ b \in R \ {r}
  <2>1. b \in DOMAIN g
    BY <1>1, <1>2 DEF Forest
  <2> HIDE DEF g, O
  <2>2. QED
    BY <1>1, <1>2, <2>1, OwnedBy
<1>4. \A w \in O : g[w] = h[w]
  BY <1>3 DEF Without
<1> HIDE DEF g
<1>5. Owned(g, b) = O
  <2>1. Closed(h, O)
    BY <1>1, OwnedBy
  <2>2. Closed(g, O)
    BY <1>4, <2>1 DEF Closed
  <2>3. QED
    BY <1>1, <1>2, <1>3, <2>2, OwnedBy
<1>6. TreeAt(g, R \ {r}, b)
  BY <1>1, <1>2, <1>3, <1>4 DEF TreeAt
<1>7. QED
  BY <1>4, <1>5, <1>6, SameTree DEF g

\* What is known of a game that has just been set up: its own line.
LineTree(ms) ==
    [p \in {SubSeq(ms, 1, k) : k \in 0 .. Len(ms)} |->
       IF p = ms THEN <<>> ELSE <<ms[Len(p) + 1]>>]

\* The first moves of a list.
LEMMA FirstMoves ==
  ASSUME NEW V, NEW q \in Seq(V), NEW k \in 0 .. Len(q)
  PROVE  /\ SubSeq(q, 1, k) \in Seq(V) /\ Len(SubSeq(q, 1, k)) = k
         /\ SubSeq(q, 1, k) = q <=> k = Len(q)
         /\ \A m \in V : SubSeq(Append(q, m), 1, k) = SubSeq(q, 1, k)
<1> DEFINE r == SubSeq(q, 1, k)
<1>1. Len(q) \in Nat /\ k \in Nat /\ k <= Len(q)
  OBVIOUS
<1>2. r \in Seq(V) /\ Len(r) = k /\ r = [i \in 1 .. k |-> q[i]]
  BY <1>1, SubSeqProperties
<1>3. r = q <=> k = Len(q)
  <2>1. k = Len(q) => r = q
    BY <1>1
  <2> HIDE DEF r
  <2>2. QED
    BY <1>2, <2>1
<1>4. ASSUME NEW m \in V PROVE SubSeq(Append(q, m), 1, k) = r
  <2> DEFINE a == Append(q, m)
  <2>1. a \in Seq(V) /\ Len(a) = Len(q) + 1 /\ \A i \in 1 .. Len(q) : a[i] = q[i]
    OBVIOUS
  <2> HIDE DEF a
  <2>2. SubSeq(a, 1, k) = [i \in 1 .. k |-> a[i]]
    BY <1>1, <2>1, SubSeqProperties
  <2>3. \A i \in 1 .. k : a[i] = q[i]
    BY <1>1, <2>1
  <2> HIDE DEF r
  <2>4. QED
    BY <1>2, <2>2, <2>3 DEF a
<1>5. QED
  BY <1>2, <1>3, <1>4

\* A move makes the line longer.
LEMMA LineTreeGrows ==
  ASSUME NEW q \in Seq(Move), NEW m \in Move
  PROVE  Led(LineTree(q), q, m) = LineTree(Append(q, m))
<1> DEFINE n == Len(q)
           a == Append(q, m)
           Firsts == {SubSeq(q, 1, k) : k \in 0 .. n}
           one == <<m>>
           e == <<>>
           t == LineTree(q)
           u == [t EXCEPT ![q] = one]
           v == Paths!Grown(u, a)
           w == LineTree(a)
<1>1. n \in Nat /\ n \in 0 .. n /\ a \in Seq(Move) /\ Len(a) = n + 1 /\ a[n + 1] = m
      /\ \A i \in 1 .. n : a[i] = q[i]
  OBVIOUS
<1>2. \A k \in 0 .. n : /\ Len(SubSeq(q, 1, k)) = k /\ (SubSeq(q, 1, k) = q <=> k = n)
                        /\ SubSeq(a, 1, k) = SubSeq(q, 1, k)
  BY FirstMoves
<1>3. SubSeq(a, 1, n + 1) = a
  BY <1>1
<1>4. q \in Firsts /\ DOMAIN t = Firsts /\ t[q] = e
  <2>1. SubSeq(q, 1, n) = q
    BY <1>1, <1>2
  <2>2. q \in Firsts
    BY <1>1, <2>1
  <2>3. QED
    BY <2>2 DEF LineTree
<1>5. Led(t, q, m) = v
  BY <1>4 DEF Led
<1>6. a \notin Firsts
  <2> HIDE DEF a
  <2>1. QED
    BY <1>1, <1>2
<1> HIDE DEF a
<1>7. {SubSeq(a, 1, k) : k \in 0 .. Len(a)} = Firsts \cup {a}
  <2>1. 0 .. Len(a) = (0 .. n) \cup {n + 1}
    BY <1>1
  <2>2. {SubSeq(a, 1, k) : k \in 0 .. n} = Firsts
    BY <1>2
  <2> HIDE DEF n, Firsts
  <2>3. QED
    BY <1>3, <2>1, <2>2
<1>8. /\ DOMAIN w = Firsts \cup {a}
      /\ \A p \in Firsts \cup {a} : w[p] = IF p = a THEN e ELSE <<a[Len(p) + 1]>>
  BY <1>7 DEF LineTree
<1>9. /\ DOMAIN v = Firsts \cup {a}
      /\ \A p \in Firsts \cup {a} : v[p] = IF p \in Firsts THEN u[p] ELSE e
  BY <1>4 DEF Paths!Grown
<1>10. \A p \in Firsts : u[p] = IF p = q THEN one ELSE <<q[Len(p) + 1]>>
  BY <1>4 DEF LineTree
<1>11. ASSUME NEW p \in Firsts \cup {a} PROVE v[p] = w[p]
  <2>1. CASE p = a
    BY <1>6, <1>8, <1>9, <2>1
  <2>2. CASE p = q
    <3>1. p \in Firsts /\ p # a
      BY <1>4, <1>6, <2>2
    <3>2. w[p] = <<a[n + 1]>> /\ v[p] = one
      BY <1>8, <1>9, <1>10, <2>2, <3>1
    <3>3. QED
      BY <1>1, <3>2
  <2>3. CASE p # a /\ p # q
    <3>1. p \in Firsts
      BY <2>3
    <3>2. PICK k \in 0 .. n : p = SubSeq(q, 1, k)
      BY <3>1
    <3>3. Len(p) = k /\ k + 1 \in 1 .. n
      BY <1>1, <1>2, <2>3, <3>2
    <3>4. a[Len(p) + 1] = q[Len(p) + 1]
      BY <1>1, <3>3
    <3>5. w[p] = <<a[Len(p) + 1]>> /\ v[p] = <<q[Len(p) + 1]>>
      BY <1>8, <1>9, <1>10, <2>3, <3>1
    <3>6. QED
      BY <3>4, <3>5
  <2>4. QED
    BY <2>1, <2>2, <2>3
<1>12. v = [p \in DOMAIN v |-> v[p]] /\ w = [p \in DOMAIN w |-> w[p]]
  BY DEF Paths!Grown, LineTree
<1> HIDE DEF v, w, Firsts
<1>13. v = w
  BY <1>8, <1>9, <1>11, <1>12
<1>14. QED
  BY <1>5, <1>13 DEF w, a, t

\* A first node by itself.
LEMMA FirstTree ==
  ASSUME NEW h, NEW R, NEW b, TreeAt(h, R, b), Owned(h, b) = {b}, h[b].edges = <<>>,
         NEW q \in Seq(Move), Len(q) = 0
  PROVE  TreeOf(h, b) = LineTree(q)
<1> DEFINE t == LineTree(q)
           e == <<>>
<1>1. q = e /\ WayTo(h, b, b) = q
  BY EmptySeq, TheWay
<1>2. Ways(h, b) = {q}
  BY <1>1 DEF Ways
<1>3. DOMAIN t = {q} /\ t[q] = e
  <2>1. 0 \in 0 .. Len(q) /\ \A k \in 0 .. Len(q) : SubSeq(q, 1, k) = q
    BY FirstMoves
  <2>2. {SubSeq(q, 1, k) : k \in 0 .. Len(q)} = {q}
    BY <2>1
  <2>3. QED
    BY <2>2 DEF LineTree
<1>4. t = [p \in DOMAIN t |-> t[p]]
  BY DEF LineTree
<1>5. \A x \in Owned(h, b) : t[WayTo(h, b, x)] = h[x].edges
  BY <1>1, <1>3
<1> HIDE DEF t
<1>6. DOMAIN t = Ways(h, b)
  BY <1>2, <1>3
<1>7. TreeOf(h, b) = t
  BY <1>4, <1>5, <1>6, TreeIs
<1>8. QED
  BY <1>7 DEF t

-----------------------------------------------------------------------------
(***************************************************************************)
(* ResetToPosition.                                                        *)
(***************************************************************************)

\* What ResetToPosition has after some moves: the first node is a root, and the head
\* is a node of it without edges, down the line of those moves.
IsReplayed(h, R, x, used, done, t) ==
    \E g, v : /\ t = [heap |-> g, head |-> v] /\ Heap(g) /\ Forest(g, R \cup {x})
              /\ DOMAIN g = DOMAIN h \cup {x} \cup used
              /\ v \in Owned(g, x) /\ g[v].edges = <<>> /\ SiblingOrder(g, x)
              /\ HasLine(g, x, v, done) /\ TreeOf(g, x) = LineTree(done)

LEMMA ReplayedIsForest ==
  ASSUME NEW h, Heap(h), NEW R, Forest(h, R), NEW x \in Node \ DOMAIN h, NEW ms \in Seq(Move),
         NEW a \in [DOMAIN ms -> Node \ DOMAIN h], IsInjective(a), x \notin Range(a)
  PROVE  LET t == Replayed(h, x, ms, a)
         IN  /\ Heap(t.heap) /\ Forest(t.heap, R \cup {x})
             /\ t.head \in Owned(t.heap, x) /\ t.head \in DOMAIN t.heap
             /\ SiblingOrder(t.heap, x) /\ HasLine(t.heap, x, t.head, ms)
             /\ TreeOf(t.heap, x) = LineTree(ms)
<1> DEFINE n == Len(ms)
           first == [heap |-> Alloc(h, x, NewNode(Null, 0, Null)), head |-> x]
           body(f, k) == IF k = 0 THEN first ELSE Played(f[k - 1], ms[k], a[k])
           Trees(f, m) == f = [k \in 0 .. m |-> body(f, k)]
           t == CHOOSE f : Trees(f, n)
<1>1. n \in Nat /\ DOMAIN ms = 1 .. n
  OBVIOUS
<1>2. Replayed(h, x, ms, a) = t[n]
  BY DEF Replayed
<1> HIDE DEF n, first
<1>3. \E f : Trees(f, n)
  <2> DEFINE S == {m \in 0 .. n : \E f : Trees(f, m)}
  <2>1. 0 \in S
    <3>1. Trees([k \in 0 .. 0 |-> first], 0)
      OBVIOUS
    <3> HIDE DEF Trees
    <3>2. QED
      BY <1>1, <3>1
  <2>2. ASSUME NEW m \in S, m < n PROVE m + 1 \in S
    <3>0. m \in 0 .. n /\ \E f : Trees(f, m)
      <4> HIDE DEF Trees
      <4>1. QED
        BY <2>2
    <3>1. PICK f : Trees(f, m)
      BY <3>0
    <3> DEFINE g == [k \in 0 .. m + 1 |-> IF k = m + 1 THEN Played(f[m], ms[m + 1], a[m + 1])
                                                       ELSE f[k]]
    <3>2. \A k \in 0 .. m : g[k] = f[k]
      BY <1>1, <3>0
    <3>3. \A k \in 0 .. m + 1 : g[k] = body(g, k)
      <4>1. TAKE k \in 0 .. m + 1
      <4>2. CASE k = m + 1
        <5>1. g[k] = Played(f[m], ms[k], a[k]) /\ g[m] = f[m] /\ k # 0 /\ k - 1 = m
          BY <1>1, <3>0, <3>2, <4>2
        <5>2. QED
          BY <5>1
      <4>3. CASE k # m + 1
        <5>1. k \in 0 .. m /\ g[k] = f[k] /\ (k # 0 => g[k - 1] = f[k - 1])
          BY <1>1, <3>0, <4>3
        <5>2. QED
          BY <3>1, <5>1
      <4>4. QED
        BY <4>2, <4>3
    <3>4. Trees(g, m + 1)
      BY <3>3
    <3> HIDE DEF Trees
    <3>5. QED
      BY <1>1, <2>2, <3>0, <3>4
  <2> HIDE DEF Trees
  <2>3. S = 0 .. n
    <3>1. \A m \in S : m < n => m + 1 \in S
      BY <2>2
    <3>2. S \in SUBSET (0 .. n)
      OBVIOUS
    <3> HIDE DEF S
    <3>3. QED
      BY <1>1, <2>1, <3>1, <3>2, UpTo
  <2>4. QED
    BY <1>1, <2>3
<1>4. Trees(t, n)
  BY <1>3
<1> HIDE DEF t
<1>5. /\ t[0] = first
      /\ \A k \in 0 .. n : k < n => t[k + 1] = Played(t[k], ms[k + 1], a[k + 1])
  BY <1>1, <1>4
<1> DEFINE used(k) == {a[j] : j \in 1 .. k}
           done(k) == [j \in 1 .. k |-> ms[j]]
           S == {k \in 0 .. n : IsReplayed(h, R, x, used(k), done(k), t[k])}
<1>6. 0 \in S
  <2> DEFINE g == Alloc(h, x, NewNode(Null, 0, Null))
  <2>1. Heap(g) /\ Forest(g, R \cup {x}) /\ DOMAIN g = DOMAIN h \cup {x} /\ g[x].edges = <<>>
    BY NewRoot
  <2> HIDE DEF g
  <2>2. x \in Owned(g, x)
    BY <2>1, OwnedBy
  <2>3. t[0] = [heap |-> g, head |-> x] /\ used(0) = {}
    BY <1>5 DEF first, g
  <2>4. SiblingOrder(g, x)
    <3>1. g[x].child = Null /\ g[x].sibling = Null
      BY DEF g, Alloc, NewNode
    <3>2. Owned(g, x) \subseteq {x}
      <4>1. Closed(g, {x}) /\ {x} \in SUBSET DOMAIN g
        BY <2>1, <3>1 DEF Closed
      <4>2. QED
        BY <2>1, <4>1, OwnedBy
    <3>3. QED
      BY <3>1, <3>2 DEF SiblingOrder
  <2>8. TreeOf(g, x) = LineTree(done(0))
    <3>1. g[x].child = Null /\ g[x].sibling = Null /\ g[x].parent = Null
      BY DEF g, Alloc, NewNode
    <3>2. Owned(g, x) = {x}
      <4>1. Closed(g, {x}) /\ {x} \in SUBSET DOMAIN g
        BY <2>1, <3>1 DEF Closed
      <4>2. QED
        BY <2>1, <2>2, <4>1, OwnedBy
    <3>3. done(0) \in Seq(Move) /\ Len(done(0)) = 0
      BY <1>1
    <3>4. TreeAt(g, R \cup {x}, x)
      BY <2>1, <2>4, <3>1 DEF TreeAt
    <3> HIDE DEF done
    <3>5. QED
      BY <2>1, <3>2, <3>3, <3>4, FirstTree
  <2>5. HasLine(g, x, x, done(0))
    <3> DEFINE e == <<>>
    <3>1. g[x].parent = Null
      BY DEF g, Alloc, NewNode
    <3>2. done(0) \in Seq(Move) /\ Len(done(0)) = 0
      BY <1>1
    <3>3. done(0) = e
      <4> HIDE DEF done
      <4>1. QED
        BY <3>2, EmptySeq
    <3>4. HasLine(g, x, x, e)
      BY <2>2, <3>1, NoMoves
    <3>5. QED
      BY <3>3, <3>4
  <2> HIDE DEF used, done
  <2>6. IsReplayed(h, R, x, used(0), done(0), t[0])
    BY <2>1, <2>2, <2>3, <2>4, <2>5, <2>8 DEF IsReplayed
  <2>7. QED
    BY <1>1, <2>6
<1>7. ASSUME NEW k \in S, k < n PROVE k + 1 \in S
  <2>1. k \in 0 .. n /\ IsReplayed(h, R, x, used(k), done(k), t[k])
    OBVIOUS
  <2>2. PICK g, v : /\ t[k] = [heap |-> g, head |-> v] /\ Heap(g) /\ Forest(g, R \cup {x})
                    /\ DOMAIN g = DOMAIN h \cup {x} \cup used(k)
                    /\ v \in Owned(g, x) /\ g[v].edges = <<>> /\ SiblingOrder(g, x)
                    /\ HasLine(g, x, v, done(k)) /\ TreeOf(g, x) = LineTree(done(k))
    <3> HIDE DEF used, done
    <3>1. QED
      BY <2>1 DEF IsReplayed
  <2>3. k + 1 \in DOMAIN ms /\ ms[k + 1] \in Move
    BY <1>1, <1>7, <2>1
  <2> DEFINE y == a[k + 1]
             s == Played([heap |-> g, head |-> v], ms[k + 1], y)
  <2>4. y \in Node \ DOMAIN g
    <3>1. y \in Node \ DOMAIN h /\ y # x
      BY <2>3 DEF Range
    <3>2. \A j \in 1 .. k : a[j] # y
      <4>1. \A j \in 1 .. k : j \in DOMAIN a /\ k + 1 \in DOMAIN a /\ j # k + 1
        BY <1>1, <2>1, <2>3
      <4>2. QED
        BY <4>1 DEF IsInjective
    <3>3. QED
      BY <2>2, <3>1, <3>2
  <2>5. /\ Heap(s.heap) /\ Forest(s.heap, R \cup {x})
        /\ s.head \in Owned(s.heap, x) \cup {Null}
        /\ s.head = y /\ s.heap[y].edges = <<>> /\ DOMAIN s.heap = DOMAIN g \cup {y}
        /\ SiblingOrder(s.heap, x)
        /\ s.head # Null => HasLine(s.heap, x, s.head, Append(done(k), ms[k + 1]))
    <3> HIDE DEF y, done
    <3>1. x \in R \cup {x}
      OBVIOUS
    <3>2. QED
      BY <2>2, <2>3, <2>4, <3>1, MoveOfForest, MoveInOrder, MoveOnLine
  <2>6. s = [heap |-> s.heap, head |-> s.head]
    BY DEF Played
  <2>7. t[k + 1] = s
    BY <1>5, <1>7, <2>1, <2>2
  <2>8. used(k + 1) = used(k) \cup {y}
    BY <2>1
  <2>9. y # Null
    BY <2>4, NodeTreeAssumption
  <2>10. Append(done(k), ms[k + 1]) = done(k + 1)
    <3>1. /\ done(k) \in Seq(Move) /\ done(k + 1) \in Seq(Move)
          /\ Len(done(k)) = k /\ Len(done(k + 1)) = k + 1
      <4>1. \A j \in 1 .. k + 1 : ms[j] \in Move
        BY <1>1, <2>1, <2>3
      <4>2. k \in Nat /\ k + 1 \in Nat /\ \A j \in 1 .. k : j \in 1 .. k + 1
        BY <1>1, <2>1
      <4>3. QED
        BY <4>1, <4>2
    <3>2. \A j \in 1 .. k : done(k + 1)[j] = done(k)[j]
      BY <1>1, <2>1
    <3>3. done(k + 1)[k + 1] = ms[k + 1]
      BY <1>1, <2>1
    <3> HIDE DEF done
    <3>4. QED
      BY <1>1, <2>1, <2>3, <3>1, <3>2, <3>3
  <2>13. TreeOf(s.heap, x) = LineTree(Append(done(k), ms[k + 1]))
    <3>1. TreeAt(g, R \cup {x}, x)
      BY <2>2 DEF TreeAt, HasLine
    <3>2. WayTo(g, x, v) = done(k) /\ done(k) \in Seq(Move)
      <4> HIDE DEF done
      <4>1. QED
        BY <2>2, <3>1, TheWay DEF HasLine
    <3> HIDE DEF done, y
    <3>3. TreeOf(s.heap, x) = Led(TreeOf(g, x), WayTo(g, x, v), ms[k + 1])
      BY <2>2, <2>3, <2>4, <3>1, MovedInTree
    <3>4. Led(LineTree(done(k)), done(k), ms[k + 1]) = LineTree(Append(done(k), ms[k + 1]))
      BY <2>3, <3>2, LineTreeGrows
    <3> HIDE DEF s
    <3>5. QED
      BY <2>2, <3>2, <3>3, <3>4
  <2> HIDE DEF s, y, used, done, S
  <2>11. IsReplayed(h, R, x, used(k + 1), done(k + 1), t[k + 1])
    <3>1. DOMAIN s.heap = DOMAIN h \cup {x} \cup used(k + 1) /\ s.head \in Owned(s.heap, x)
      BY <2>2, <2>5, <2>8, <2>9
    <3>2. HasLine(s.heap, x, s.head, done(k + 1))
      BY <2>5, <2>9, <2>10
    <3>3. TreeOf(s.heap, x) = LineTree(done(k + 1))
      BY <2>10, <2>13
    <3>4. QED
      BY <2>5, <2>6, <2>7, <3>1, <3>2, <3>3 DEF IsReplayed
  <2>12. QED
    BY <1>1, <1>7, <2>1, <2>11 DEF S
<1>8. n \in S
  <2>1. S \in SUBSET (0 .. n) /\ \A k \in S : k < n => k + 1 \in S
    BY <1>7
  <2> HIDE DEF S
  <2>2. S = 0 .. n
    BY <1>1, <1>6, <2>1, UpTo
  <2>3. QED
    BY <1>1, <2>2
<1>9. PICK g, v : /\ t[n] = [heap |-> g, head |-> v] /\ Heap(g) /\ Forest(g, R \cup {x})
                  /\ v \in Owned(g, x) /\ SiblingOrder(g, x) /\ HasLine(g, x, v, done(n))
                  /\ TreeOf(g, x) = LineTree(done(n))
  <2>1. IsReplayed(h, R, x, used(n), done(n), t[n])
    BY <1>8
  <2> HIDE DEF used, done
  <2>2. QED
    BY <2>1 DEF IsReplayed
<1>10. v \in DOMAIN g
  BY <1>9, OwnedBy DEF Forest
<1>11. done(n) = ms
  BY DEF n
<1>12. QED
  <2> HIDE DEF done
  <2>1. QED
    BY <1>2, <1>9, <1>10, <1>11

-----------------------------------------------------------------------------
(***************************************************************************)
(* The inductive invariant.                                                *)
(***************************************************************************)

\* What is owned by no node: the tree and the subtrees of the collector.
Roots == ({begin, dying} \cup Range(queue)) \ {Null}

\* None of them is owned twice.
RootsApart ==
    /\ queue \in Seq(Node) /\ IsInjective(queue)
    /\ begin \notin Range(queue) /\ dying \notin Range(queue)
    /\ begin = dying => begin = Null

HeadInTree == head # Null => begin # Null /\ head \in Owned(heap, begin)

\* What the collector's thread has, by where it is.
Collector ==
    /\ gcStop \in BOOLEAN
    /\ gc \in {"loops", "takes", "destroys", "over", "gone"}
    /\ gcStop => begin = Null
    /\ dying # Null <=> gc = "destroys"
    /\ gc \in {"over", "gone"} => gcStop
    /\ gc = "gone" => Live = {}

InOrder == begin # Null => SiblingOrder(heap, begin)

OnLine == head # Null => HasLine(heap, begin, head, moves)

IInv ==
    /\ Heap(heap) /\ Forest(heap, Roots) /\ RootsApart /\ HeadInTree /\ InOrder /\ OnLine
    /\ Collector

LEMMA Queued ==
  ASSUME NEW q \in Seq(Node), IsInjective(q), NEW x \in Node \ Range(q)
  PROVE  /\ Append(q, x) \in Seq(Node) /\ IsInjective(Append(q, x))
         /\ Range(Append(q, x)) = Range(q) \cup {x}
<1> DEFINE p == Append(q, x)
<1>1. /\ p \in Seq(Node) /\ Len(q) \in Nat /\ DOMAIN q = 1 .. Len(q)
      /\ DOMAIN p = 1 .. Len(q) + 1 /\ p[Len(q) + 1] = x
      /\ \A i \in 1 .. Len(q) : p[i] = q[i]
  OBVIOUS
<1> HIDE DEF p
<1>2. 1 .. Len(q) + 1 = (1 .. Len(q)) \cup {Len(q) + 1}
  BY <1>1
<1>3. Range(p) = Range(q) \cup {x}
  BY <1>1, <1>2 DEF Range
<1>4. \A i \in 1 .. Len(q) : p[i] # x
  BY <1>1 DEF Range
<1>5. IsInjective(p)
  BY <1>1, <1>2, <1>4 DEF IsInjective
<1>6. QED
  BY <1>1, <1>3, <1>5 DEF p

LEMMA Unqueued ==
  ASSUME NEW q \in Seq(Node), IsInjective(q), q # <<>>
  PROVE  /\ Front(q) \in Seq(Node) /\ IsInjective(Front(q))
         /\ Last(q) \in Node \ Range(Front(q))
         /\ Range(q) = Range(Front(q)) \cup {Last(q)}
<1> DEFINE p == Front(q)
           n == Len(q)
<1>1. n \in Nat /\ n # 0 /\ DOMAIN q = 1 .. n
  BY EmptySeq
<1>2. p \in Seq(Node) /\ DOMAIN p = 1 .. n - 1 /\ \A i \in 1 .. n - 1 : p[i] = q[i]
  BY <1>1 DEF Front
<1>3. Last(q) = q[n] /\ q[n] \in Node
  BY <1>1 DEF Last
<1> HIDE DEF p, n
<1>4. 1 .. n = (1 .. n - 1) \cup {n} /\ n \notin 1 .. n - 1
  BY <1>1
<1>5. Range(q) = Range(p) \cup {q[n]}
  BY <1>1, <1>2, <1>4 DEF Range
<1>6. IsInjective(p)
  BY <1>1, <1>2, <1>4 DEF IsInjective
<1>7. q[n] \notin Range(p)
  BY <1>1, <1>2, <1>4 DEF IsInjective, Range
<1>8. QED
  BY <1>2, <1>3, <1>5, <1>6, <1>7 DEF p

LEMMA AddedToQueue ==
  ASSUME RootsApart, NEW x \in Node \cup {Null}, x \notin Range(queue), AddToGcQueue(x)
  PROVE  /\ queue' \in Seq(Node) /\ IsInjective(queue')
         /\ Range(queue') = Range(queue) \cup ({x} \ {Null})
<1>1. CASE x = Null
  <2>1. queue' = queue
    BY <1>1 DEF AddToGcQueue
  <2>2. QED
    BY <1>1, <2>1 DEF RootsApart
<1>2. CASE x # Null
  <2>1. queue' = Append(queue, x)
    BY <1>2 DEF AddToGcQueue
  <2>2. QED
    BY <1>2, <2>1, Queued DEF RootsApart
<1>3. QED
  BY <1>1, <1>2

LEMMA IInvInit == Init => IInv
<1> SUFFICES ASSUME Init PROVE IInv
  OBVIOUS
<1> DEFINE e == <<>>
<1>1. e \in Seq(Node) /\ Range(e) = {} /\ IsInjective(e) /\ DOMAIN e = {}
  BY DEF Range, IsInjective
<1>2. heap = e /\ queue = e /\ begin = Null /\ head = Null /\ dying = Null
  BY DEF Init
<1>3. gcStop = FALSE /\ gc = "loops"
  BY DEF Init
<1>4. e \in [DOMAIN e -> NodeRecord]
  BY <1>1
<1> HIDE DEF e
<1>5. Roots = {} /\ DOMAIN heap = {}
  BY <1>1, <1>2 DEF Roots
<1>6. Heap(heap)
  BY <1>2, <1>4, <1>5 DEF Heap
<1>7. Forest(heap, Roots)
  BY <1>5 DEF Forest, OnePointer, Held, NoCycle
<1>8. RootsApart /\ HeadInTree /\ InOrder /\ OnLine
  BY <1>1, <1>2 DEF RootsApart, HeadInTree, InOrder, OnLine
<1>9. Collector
  BY <1>2, <1>3 DEF Collector
<1>10. QED
  BY <1>6, <1>7, <1>8, <1>9 DEF IInv

\* What has the tree to itself leaves the roots alone.
LEMMA SameRoots ==
  ASSUME IInv, head # Null, UNCHANGED <<begin, queue, gcVars>>,
         Heap(heap'), Forest(heap', Roots), head' \in Owned(heap', begin) \cup {Null},
         SiblingOrder(heap', begin), head' # Null => HasLine(heap', begin, head', moves')
  PROVE  IInv'
<1>1. Roots' = Roots
  BY DEF Roots, gcVars
<1>2. RootsApart'
  BY DEF RootsApart, IInv, gcVars
<1>3. HeadInTree'
  BY DEF HeadInTree, IInv
<1>4. ~gcStop
  BY DEF IInv, HeadInTree, Collector
<1>5. Collector'
  BY <1>4 DEF Collector, IInv, gcVars
<1>6. QED
  BY <1>1, <1>2, <1>3, <1>5 DEF IInv, InOrder, OnLine

LEMMA HeadIsNode ==
  ASSUME IInv, head # Null
  PROVE  /\ begin \in Roots /\ begin \in Live /\ head \in Owned(heap, begin) /\ head \in Live
         /\ SiblingOrder(heap, begin)
<1>1. begin # Null /\ head \in Owned(heap, begin)
  BY DEF IInv, HeadInTree
<1>2. begin \in Roots
  BY <1>1 DEF Roots
<1>3. begin \in Live
  BY <1>2 DEF IInv, Forest, Live
<1>4. QED
  BY <1>1, <1>2, <1>3, OwnedBy DEF IInv, Live, InOrder

LEMMA RootsAreLive == IInv => /\ begin \in Live \cup {Null} /\ dying \in Live \cup {Null}
                              /\ Range(queue) \subseteq Live /\ Null \notin Live
                              /\ Live \subseteq Node
<1> SUFFICES ASSUME IInv
             PROVE  /\ begin \in Live \cup {Null} /\ dying \in Live \cup {Null}
                    /\ Range(queue) \subseteq Live /\ Null \notin Live
                    /\ Live \subseteq Node
  OBVIOUS
<1>1. Roots \subseteq Live /\ Live \subseteq Node
  BY DEF IInv, Forest, Heap, Live
<1>2. Range(queue) \subseteq Node
  BY DEF IInv, RootsApart, Range
<1>3. Null \notin Node
  BY NodeTreeAssumption
<1>4. QED
  BY <1>1, <1>2, <1>3 DEF Roots

\* What changes no node leaves the line alone.
LEMMA LineStays ==
  ASSUME IInv, head # Null, NEW g, Heap(g), Forest(g, Roots), KeptNodes(heap, g),
         SiblingOrder(g, begin), head \in Owned(g, begin)
  PROVE  HasLine(g, begin, head, moves)
<1>1. begin \in DOMAIN heap /\ begin \in DOMAIN g
  BY HeadIsNode DEF Live, Forest
<1>2. Heap(heap) /\ HasLine(heap, begin, head, moves)
  BY DEF IInv, OnLine
<1>3. Owned(heap, begin) \subseteq DOMAIN heap
  BY <1>1, <1>2, OwnedBy
<1>4. QED
  BY <1>1, <1>2, <1>3, LineKept DEF KeptNodes

LEMMA IInvMakeMove ==
  ASSUME IInv, NEW m \in Move, MakeMove(m)
  PROVE  IInv'
<1> DEFINE t(y) == Played([heap |-> heap, head |-> head], m, y)
<1>1. head # Null /\ (heap[head].edges = <<>> \/ m \in Range(heap[head].edges))
  BY DEF MakeMove
<1>2. PICK y \in Free : heap' = t(y).heap /\ head' = t(y).head
  BY DEF MakeMove
<1>3. begin \in Roots /\ head \in Owned(heap, begin) /\ SiblingOrder(heap, begin)
  BY <1>1, HeadIsNode
<1>4. y \in Node \ DOMAIN heap /\ Heap(heap) /\ Forest(heap, Roots)
  BY DEF Free, Live, IInv
<1>5. /\ Heap(t(y).heap) /\ Forest(t(y).heap, Roots)
      /\ t(y).head \in Owned(t(y).heap, begin) \cup {Null}
      /\ SiblingOrder(t(y).heap, begin)
  BY <1>1, <1>3, <1>4, MoveOfForest, MoveInOrder
<1>6. t(y).head # Null => HasLine(t(y).heap, begin, t(y).head, Append(moves, m))
  <2>1. HasLine(heap, begin, head, moves)
    BY <1>1 DEF IInv, OnLine
  <2>2. QED
    BY <1>1, <1>3, <1>4, <2>1, MoveOnLine
<1> HIDE DEF t
<1>7. UNCHANGED <<begin, queue, gcVars>> /\ moves' = Append(moves, m)
  BY DEF MakeMove
<1>8. QED
  BY <1>1, <1>2, <1>5, <1>6, <1>7, SameRoots

LEMMA IInvCreateEdges ==
  ASSUME IInv, head # Null, NEW x \in InSearch, NEW list \in MoveLists, CreateEdges(x, list)
  PROVE  IInv'
<1> DEFINE g == [heap EXCEPT ![x].edges = list]
<1>1. /\ begin \in Roots /\ head \in Owned(heap, begin) /\ head \in Live
      /\ SiblingOrder(heap, begin)
  BY HeadIsNode
<1>2. x \in DOMAIN heap
  BY <1>1 DEF InSearch, Owned, Live
<1>3. list \in Seq(Move) /\ IsInjective(list) /\ heap[x].edges = <<>> /\ heap' = g
  BY NodeTreeAssumption DEF CreateEdges
<1>4. Heap(heap) /\ Forest(heap, Roots)
  BY DEF IInv
<1>5. Heap(g) /\ Forest(g, Roots) /\ Keeps(heap, g, Roots)
  BY <1>2, <1>3, <1>4, NewEdges
<1>6. SiblingOrder(g, begin)
  BY <1>1, <1>2, <1>3, <1>4, EdgesInOrder
<1>7. KeptNodes(heap, g)
  <2>1. /\ \A w \in DOMAIN heap \ {x} : g[w] = heap[w]
        /\ g[x].parent = heap[x].parent /\ g[x].index = heap[x].index
    BY <1>2, <1>4 DEF Heap, NodeRecord
  <2> HIDE DEF g
  <2>2. QED
    BY <1>3, <2>1 DEF KeptNodes
<1> HIDE DEF g
<1>8. head \in Owned(g, begin)
  BY <1>1, <1>5 DEF Keeps
<1>9. HasLine(g, begin, head, moves)
  BY <1>5, <1>6, <1>7, <1>8, LineStays
<1>10. UNCHANGED <<begin, head, moves, queue, gcVars>>
  BY DEF CreateEdges
<1>11. QED
  BY <1>3, <1>5, <1>6, <1>8, <1>9, <1>10, SameRoots

\* A search goes where the tree does.
LEMMA InSearchIsOwned ==
  ASSUME IInv, head # Null
  PROVE  InSearch \subseteq Owned(heap, begin)
<1> DEFINE O == Owned(heap, begin)
           c == heap[head].child
<1>1. /\ Heap(heap) /\ begin \in DOMAIN heap /\ head \in O
      /\ O \in SUBSET DOMAIN heap /\ Closed(heap, O)
  BY HeadIsNode, OwnedBy DEF IInv, Live
<1>2. InSearch = {head} \cup Owned(heap, c)
  BY DEF InSearch
<1> SUFFICES InSearch \subseteq O
  OBVIOUS
<1> HIDE DEF O
<1>3. c \in O \cup {Null}
  BY <1>1 DEF Closed
<1> HIDE DEF c
<1>4. CASE c = Null
  BY <1>1, <1>2, <1>4 DEF Owned
<1>5. CASE c # Null
  <2>1. c \in O /\ c \in DOMAIN heap
    BY <1>1, <1>3, <1>5
  <2>2. Owned(heap, c) \subseteq O
    BY <1>1, <2>1, OwnedBy
  <2>3. QED
    BY <1>1, <1>2, <2>2
<1>6. QED
  BY <1>4, <1>5

LEMMA IInvVisit ==
  ASSUME IInv, head # Null, NEW x \in InSearch, NEW i, Visit(x, i)
  PROVE  IInv'
<1>1. /\ begin \in Roots /\ head \in Owned(heap, begin) /\ head \in Live
      /\ SiblingOrder(heap, begin)
  BY HeadIsNode
<1>2. x \in DOMAIN heap
  BY <1>1 DEF InSearch, Owned, Live
<1>3. PICK y \in Free : heap' = GetOrSpawnNode(heap, x, i, y)
  BY DEF Visit
<1>4. y \in Node \ DOMAIN heap /\ Heap(heap) /\ Forest(heap, Roots)
  BY DEF Free, Live, IInv
<1>5. i \in Nat /\ i < Len(heap[x].edges) /\ heap[x].edges # <<>>
  <2>1. Len(heap[x].edges) \in Nat
    BY <1>2, <1>4 DEF Heap, NodeRecord
  <2>2. i \in 0 .. Len(heap[x].edges) - 1
    BY DEF Visit
  <2>3. Len(heap[x].edges) # 0
    BY <2>1, <2>2
  <2>4. QED
    BY <2>1, <2>2, <2>3
<1>6. Heap(heap') /\ Forest(heap', Roots) /\ Keeps(heap, heap', Roots)
  BY <1>2, <1>3, <1>4, <1>5, Spawn
<1>7. head \in Owned(heap', begin)
  BY <1>1, <1>6 DEF Keeps
<1>8. UNCHANGED <<begin, head, moves, queue, gcVars>>
  BY DEF Visit
<1>9. SiblingOrder(heap', begin)
  BY <1>1, <1>3, <1>4, <1>5, InSearchIsOwned, SpawnInOrder
<1>10. KeptNodes(heap, heap')
  BY <1>2, <1>3, <1>4, <1>5, SpawnKeeps DEF Forest
<1>11. HasLine(heap', begin, head, moves)
  BY <1>6, <1>7, <1>9, <1>10, LineStays
<1>12. QED
  BY <1>6, <1>7, <1>8, <1>9, <1>11, SameRoots

LEMMA IInvTrim ==
  ASSUME IInv, TrimTreeAtHead
  PROVE  IInv'
<1> DEFINE c == heap[head].child
           g == [heap EXCEPT ![head] = Renewed(@)]
<1>1. head # Null /\ AddToGcQueue(c) /\ heap' = g
  BY DEF TrimTreeAtHead
<1>2. UNCHANGED <<begin, head, moves, gcVars>>
  BY DEF TrimTreeAtHead
<1>3. begin \in Roots /\ begin \in Live /\ head \in Owned(heap, begin) /\ head \in DOMAIN heap
  BY <1>1, HeadIsNode DEF Live
<1>4. Heap(heap) /\ Forest(heap, Roots) /\ RootsApart
  BY DEF IInv
<1>5. /\ Heap(g) /\ Forest(g, Roots \cup ({c} \ {Null})) /\ c \notin Roots
      /\ head \in Owned(g, begin)
  BY <1>3, <1>4, Trim
<1>6. c \in Node \cup {Null}
  BY <1>3, <1>4 DEF Heap
<1> HIDE DEF c, g
<1>7. Range(queue) \subseteq Roots /\ Null \notin Roots
  BY RootsAreLive DEF Roots
<1>8. /\ queue' \in Seq(Node) /\ IsInjective(queue')
      /\ Range(queue') = Range(queue) \cup ({c} \ {Null})
  BY <1>1, <1>4, <1>5, <1>6, <1>7, AddedToQueue
<1>9. Roots' = Roots \cup ({c} \ {Null})
  BY <1>2, <1>8 DEF Roots, gcVars
<1>10. RootsApart'
  <2>1. begin # Null => begin # c
    BY <1>5 DEF Roots
  <2>2. dying # Null => dying # c
    BY <1>5 DEF Roots
  <2>3. begin' \notin Range(queue') /\ dying' \notin Range(queue')
    BY <1>2, <1>4, <1>8, <2>1, <2>2 DEF RootsApart, gcVars
  <2>4. QED
    BY <1>2, <1>4, <1>8, <2>3 DEF RootsApart, gcVars
<1>11. HeadInTree'
  BY <1>1, <1>2, <1>3, <1>5, RootsAreLive DEF HeadInTree
<1>12. ~gcStop
  BY <1>1 DEF IInv, HeadInTree, Collector
<1>13. Collector'
  BY <1>2, <1>12 DEF IInv, Collector, gcVars
<1>14. InOrder'
  <2>1. SiblingOrder(g, begin)
    BY <1>1, <1>3, <1>4, HeadIsNode, TrimInOrder DEF g
  <2>2. QED
    BY <1>1, <1>2, <2>1 DEF InOrder
<1>15. HasLine(g, begin, head, moves)
  <2>1. SiblingOrder(g, begin) /\ HasLine(heap, begin, head, moves)
    BY <1>1, <1>3, <1>4, HeadIsNode, TrimInOrder DEF g, IInv, OnLine
  <2>2. /\ DOMAIN g = DOMAIN heap /\ \A w \in DOMAIN heap \ {head} : g[w] = heap[w]
        /\ g[head].parent = heap[head].parent /\ g[head].index = heap[head].index
    BY <1>3, <1>4 DEF g, Renewed, NewNode, Heap
  <2>3. begin \in DOMAIN heap /\ Owned(heap, begin) \subseteq DOMAIN heap
    BY <1>3, <1>4, OwnedBy DEF Live
  <2>4. QED
    BY <1>4, <1>5, <2>1, <2>2, <2>3, LineKept
<1>16. OnLine'
  BY <1>1, <1>2, <1>15 DEF OnLine
<1>17. QED
  BY <1>1, <1>5, <1>9, <1>10, <1>11, <1>13, <1>14, <1>16 DEF IInv

LEMMA IInvDeallocate ==
  ASSUME IInv, DeallocateTree
  PROVE  IInv'
<1>1. ~gcStop /\ AddToGcQueue(begin) /\ begin' = Null /\ head' = Null
  BY DEF DeallocateTree
<1>2. UNCHANGED <<heap, gcVars>>
  BY DEF DeallocateTree
<1>3. /\ queue' \in Seq(Node) /\ IsInjective(queue')
      /\ Range(queue') = Range(queue) \cup ({begin} \ {Null})
  BY <1>1, RootsAreLive, AddedToQueue DEF IInv, RootsApart
<1>4. Roots' = Roots
  BY <1>1, <1>2, <1>3 DEF Roots, gcVars
<1>5. RootsApart'
  <2>1. Null \notin Range(queue')
    BY <1>3, RootsAreLive
  <2>2. dying \notin Range(queue')
    BY <1>3 DEF IInv, RootsApart
  <2>3. QED
    BY <1>1, <1>2, <1>3, <2>1, <2>2 DEF RootsApart, gcVars
<1>6. HeadInTree'
  BY <1>1 DEF HeadInTree
<1>7. Collector'
  BY <1>1, <1>2 DEF IInv, Collector, gcVars, Live
<1>8. QED
  BY <1>1, <1>2, <1>4, <1>5, <1>6, <1>7 DEF IInv, InOrder, OnLine

LEMMA IInvReset ==
  ASSUME IInv, NEW ms \in Openings, ResetToPosition(ms)
  PROVE  IInv'
<1>1. ~gcStop /\ AddToGcQueue(begin)
  BY DEF ResetToPosition
<1>2. PICK x \in Free, a \in [DOMAIN ms -> Free] :
         /\ IsInjective(a) /\ x \notin Range(a)
         /\ heap' = Replayed(heap, x, ms, a).heap /\ head' = Replayed(heap, x, ms, a).head
         /\ begin' = x
  BY DEF ResetToPosition
<1>3. UNCHANGED gcVars
  BY DEF ResetToPosition
<1>4. Heap(heap) /\ Forest(heap, Roots) /\ ms \in Seq(Move) /\ x \in Node \ DOMAIN heap
  BY NodeTreeAssumption DEF IInv, Free, Live
<1>5. a \in [DOMAIN ms -> Node \ DOMAIN heap]
  BY DEF Free, Live
<1>6. /\ Heap(heap') /\ Forest(heap', Roots \cup {x}) /\ head' \in Owned(heap', x)
      /\ SiblingOrder(heap', x) /\ HasLine(heap', x, head', ms)
  BY <1>2, <1>4, <1>5, ReplayedIsForest
<1>7. /\ queue' \in Seq(Node) /\ IsInjective(queue')
      /\ Range(queue') = Range(queue) \cup ({begin} \ {Null})
  BY <1>1, RootsAreLive, AddedToQueue DEF IInv, RootsApart
<1>8. x # Null /\ x # dying /\ x # begin /\ x \notin Range(queue)
  BY <1>4, RootsAreLive, NodeTreeAssumption DEF Live
<1>9. Roots' = Roots \cup {x}
  BY <1>2, <1>3, <1>7, <1>8 DEF Roots, gcVars
<1>10. RootsApart'
  <2>1. dying \notin Range(queue')
    BY <1>7 DEF IInv, RootsApart
  <2>2. x \notin Range(queue')
    BY <1>7, <1>8
  <2>3. QED
    BY <1>2, <1>3, <1>7, <1>8, <2>1, <2>2 DEF RootsApart, gcVars
<1>11. HeadInTree'
  BY <1>2, <1>6, <1>8 DEF HeadInTree
<1>12. Collector'
  BY <1>1, <1>3 DEF IInv, Collector, gcVars
<1>13. moves' = ms
  BY DEF ResetToPosition
<1>14. QED
  BY <1>2, <1>6, <1>9, <1>10, <1>11, <1>12, <1>13 DEF IInv, InOrder, OnLine

LEMMA IInvTake ==
  ASSUME IInv, TakeSubtree
  PROVE  IInv'
<1>1. UNCHANGED <<treeVars, gcStop>> /\ gc = "takes"
  BY DEF TakeSubtree
<1>2. dying = Null /\ ~(gc \in {"over", "gone", "destroys"})
  BY <1>1 DEF IInv, Collector
<1>3. CASE queue = <<>>
  <2>1. gc' = "loops" /\ UNCHANGED <<queue, dying>>
    BY <1>3 DEF TakeSubtree
  <2>2. Roots' = Roots /\ RootsApart' /\ HeadInTree'
    BY <1>1, <2>1 DEF IInv, Roots, RootsApart, HeadInTree, treeVars
  <2>3. Collector'
    BY <1>1, <1>2, <2>1 DEF IInv, Collector, treeVars
  <2>4. QED
    BY <1>1, <2>2, <2>3 DEF IInv, InOrder, OnLine, treeVars
<1>4. CASE queue # <<>>
  <2>1. gc' = "destroys" /\ dying' = Last(queue) /\ queue' = Front(queue)
    BY <1>4 DEF TakeSubtree
  <2>2. queue \in Seq(Node) /\ IsInjective(queue) /\ begin \notin Range(queue)
    BY DEF IInv, RootsApart
  <2>3. /\ queue' \in Seq(Node) /\ IsInjective(queue') /\ dying' \in Node \ Range(queue')
        /\ Range(queue) = Range(queue') \cup {dying'}
    BY <1>4, <2>1, <2>2, Unqueued
  <2>4. dying' # Null /\ dying' # begin
    BY <2>2, <2>3, NodeTreeAssumption
  <2>5. Roots' = Roots
    BY <1>1, <1>2, <2>3 DEF Roots, treeVars
  <2>6. RootsApart'
    BY <1>1, <2>2, <2>3, <2>4 DEF RootsApart, treeVars
  <2>7. HeadInTree'
    BY <1>1 DEF IInv, HeadInTree, treeVars
  <2>8. Collector'
    BY <1>1, <1>2, <2>1, <2>4 DEF IInv, Collector, treeVars
  <2>9. QED
    BY <1>1, <2>5, <2>6, <2>7, <2>8 DEF IInv, InOrder, OnLine, treeVars
<1>5. QED
  BY <1>3, <1>4

LEMMA IInvRelease ==
  ASSUME IInv, Release
  PROVE  IInv'
<1> DEFINE g == Without(heap, Owned(heap, dying))
<1>1. gc = "destroys" /\ heap' = g /\ dying' = Null /\ gc' = "loops"
  BY DEF Release, Without, Live
<1>2. UNCHANGED <<begin, head, moves, queue, gcStop>>
  BY DEF Release
<1>3. dying # Null /\ dying \in Roots
  BY <1>1 DEF IInv, Collector, Roots
<1>4. Heap(heap) /\ Forest(heap, Roots)
  BY DEF IInv
<1>5. /\ Heap(g) /\ Forest(g, Roots \ {dying})
      /\ \A b \in Roots \ {dying} : Owned(heap, b) \subseteq Owned(g, b)
  BY <1>3, <1>4, ReleaseRoot
<1> HIDE DEF g
<1>6. Roots' = Roots \ {dying}
  BY <1>1, <1>2, <1>3 DEF Roots, IInv, RootsApart
<1>7. RootsApart'
  BY <1>1, <1>2, RootsAreLive DEF RootsApart, IInv
<1>8. HeadInTree'
  <2>1. begin # Null => begin \in Roots \ {dying}
    BY DEF Roots, IInv, RootsApart
  <2>2. QED
    BY <1>1, <1>2, <1>5, <2>1 DEF HeadInTree, IInv
<1>9. Collector'
  BY <1>1, <1>2 DEF IInv, Collector
<1>10. InOrder'
  <2>1. ASSUME begin # Null PROVE SiblingOrder(heap', begin)
    <3>1. begin \in Roots \ {dying} /\ SiblingOrder(heap, begin)
      BY <2>1 DEF Roots, IInv, RootsApart, InOrder
    <3>2. QED
      BY <1>1, <1>3, <1>4, <3>1, ReleaseInOrder DEF g
  <2>2. QED
    BY <1>2, <2>1 DEF InOrder
<1>11. OnLine'
  <2>1. SUFFICES ASSUME head # Null PROVE HasLine(g, begin, head, moves)
    BY <1>1, <1>2 DEF OnLine
  <2>2. HasLine(heap, begin, head, moves) /\ begin \in Roots \ {dying}
    BY <2>1, HeadIsNode DEF IInv, OnLine, HeadInTree, Roots, RootsApart
  <2>3. head \in Owned(g, begin) /\ begin \in DOMAIN heap /\ begin \in DOMAIN g
    BY <1>5, <2>1, <2>2, HeadIsNode DEF Live, Forest
  <2>4. SiblingOrder(g, begin)
    BY <1>1, <1>2, <1>10, <2>1, HeadIsNode, RootsAreLive DEF InOrder
  <2>5. \A w \in Owned(heap, begin) : g[w] = heap[w]
    <3>1. Owned(heap, begin) \subseteq Owned(g, begin) /\ Owned(g, begin) \subseteq DOMAIN g
      BY <1>5, <2>2, <2>3, OwnedBy
    <3>2. QED
      BY <3>1 DEF g, Without
  <2>6. QED
    BY <1>4, <1>5, <2>2, <2>3, <2>4, <2>5, LineKept
<1>12. QED
  BY <1>1, <1>5, <1>6, <1>7, <1>8, <1>9, <1>10, <1>11 DEF IInv

\* The destructor leaves no node: what is in no subtree of the queue would have to
\* be held by itself.
LEMMA IInvGone ==
  ASSUME IInv, CollectorGone
  PROVE  IInv'
<1> DEFINE O == UNION {Owned(heap, queue[i]) : i \in DOMAIN queue}
           S == Live \ O
           e == <<>>
<1>1. gc = "over" /\ heap' = [x \in S |-> heap[x]] /\ queue' = e /\ gc' = "gone"
  BY DEF CollectorGone
<1>2. UNCHANGED <<begin, head, moves, dying, gcStop>>
  BY DEF CollectorGone
<1>3. begin = Null /\ dying = Null /\ gcStop
  BY <1>1 DEF IInv, Collector
<1>4. Roots = Range(queue)
  BY <1>3, RootsAreLive DEF Roots
<1>5. Heap(heap) /\ Forest(heap, Roots)
  BY DEF IInv
<1>6. \A i \in DOMAIN queue : queue[i] \in DOMAIN heap
  BY <1>4, <1>5 DEF Range, Forest
<1>7. S = {}
  <2>1. SUFFICES ASSUME S # {} PROVE FALSE
    OBVIOUS
  <2>2. S \in SUBSET DOMAIN heap
    BY DEF Live
  <2>3. PICK v \in S : \A y \in S : v \notin {heap[y].child, heap[y].sibling}
    BY <1>5, <2>1, <2>2 DEF Forest, NoCycle
  <2>4. v \notin Roots
    <3>1. \A i \in DOMAIN queue : queue[i] \in Owned(heap, queue[i])
      BY <1>5, <1>6, OwnedBy
    <3>2. QED
      BY <1>4, <3>1 DEF Range
  <2>5. PICK y \in DOMAIN heap : v \in {heap[y].child, heap[y].sibling}
    BY <1>5, <2>2, <2>4 DEF Forest, Held
  <2>6. PICK i \in DOMAIN queue : y \in Owned(heap, queue[i])
    BY <2>3, <2>5 DEF Live
  <2>7. v \in Owned(heap, queue[i]) \cup {Null}
    BY <1>5, <1>6, <2>5, <2>6, OwnedBy DEF Closed
  <2>8. QED
    BY <2>7, RootsAreLive
<1>8. e \in Seq(Node) /\ Range(e) = {} /\ IsInjective(e)
  BY DEF Range, IsInjective
<1> HIDE DEF S, e
<1>9. DOMAIN heap' = {} /\ heap' \in [{} -> NodeRecord]
  BY <1>1, <1>7
<1>10. Roots' = {}
  BY <1>1, <1>2, <1>3, <1>8 DEF Roots
<1>11. Heap(heap') /\ Forest(heap', Roots')
  BY <1>9, <1>10 DEF Heap, Forest, OnePointer, Held, NoCycle
<1>12. RootsApart'
  BY <1>1, <1>2, <1>3, <1>8 DEF RootsApart
<1>13. HeadInTree'
  BY <1>2, <1>3 DEF IInv, HeadInTree
<1>14. Collector'
  BY <1>1, <1>2, <1>3, <1>9 DEF Collector, Live
<1>15. QED
  <2>1. head' = Null
    BY <1>2, <1>3 DEF IInv, HeadInTree
  <2>2. QED
    BY <1>2, <1>3, <1>11, <1>12, <1>13, <1>14, <2>1 DEF IInv, InOrder, OnLine

LEMMA IInvNext == IInv /\ [Next]_vars => IInv'
<1> SUFFICES ASSUME IInv, [Next]_vars PROVE IInv'
  OBVIOUS
<1>1. ASSUME NEW ms \in Openings, ResetToPosition(ms) PROVE IInv'
  BY <1>1, IInvReset
<1>2. ASSUME head # Null, NEW x \in InSearch, NEW list \in MoveLists, CreateEdges(x, list)
      PROVE IInv'
  BY <1>2, IInvCreateEdges
<1>3. ASSUME head # Null, NEW x \in InSearch, NEW i, Visit(x, i) PROVE IInv'
  BY <1>3, IInvVisit
<1>4. ASSUME NEW list \in MoveLists, NEW i \in DOMAIN list, MakeMove(list[i]) PROVE IInv'
  <2>1. list \in Seq(Move)
    BY NodeTreeAssumption
  <2>2. list[i] \in Move
    BY <2>1
  <2>3. QED
    BY <1>4, <2>2, IInvMakeMove
<1>5. CASE TrimTreeAtHead
  BY <1>5, IInvTrim
<1>6. CASE DeallocateTree
  BY <1>6, IInvDeallocate
<1>7. CASE LookAtStop \/ StopCollector \/ UNCHANGED vars
  <2>1. UNCHANGED <<heap, begin, head, moves, queue, dying>>
    BY <1>7 DEF LookAtStop, StopCollector, vars, treeVars
  <2>2. Roots' = Roots /\ RootsApart' /\ HeadInTree'
    BY <2>1 DEF IInv, Roots, RootsApart, HeadInTree
  <2>3. Collector'
    <3>1. Collector
      BY DEF IInv
    <3>2. CASE LookAtStop
      <4>1. gc' \in {"over", "takes"} /\ (gc' = "over" => gcStop) /\ gc = "loops"
        BY <3>2 DEF LookAtStop
      <4>2. gcStop' = gcStop
        BY <3>2 DEF LookAtStop
      <4>3. QED
        BY <2>1, <3>1, <4>1, <4>2 DEF Collector
    <3>3. CASE StopCollector
      <4>1. begin = Null /\ gcStop' = TRUE /\ gc' = gc
        BY <3>3 DEF StopCollector
      <4>2. QED
        BY <2>1, <3>1, <4>1 DEF Collector, Live
    <3>4. CASE UNCHANGED vars
      BY <3>1, <3>4 DEF Collector, vars, Live
    <3>5. QED
      BY <1>7, <3>2, <3>3, <3>4
  <2>4. QED
    BY <2>1, <2>2, <2>3 DEF IInv, InOrder, OnLine
<1>8. CASE TakeSubtree
  BY <1>8, IInvTake
<1>9. CASE Release
  BY <1>9, IInvRelease
<1>10. CASE CollectorGone
  BY <1>10, IInvGone
<1>11. QED
  BY <1>1, <1>2, <1>3, <1>4, <1>5, <1>6, <1>7, <1>8, <1>9, <1>10 DEF Next, Gone
-----------------------------------------------------------------------------
\* In every reachable state pointers are to nodes that exist, and no node is left
\* when the destructor of the collector is done.
THEOREM TypeCorrect == Spec => []TypeOK
<1>1. IInv => TypeOK
  <2> SUFFICES ASSUME IInv PROVE TypeOK
    OBVIOUS
  <2>1. Heap(heap) /\ Collector /\ RootsApart
    BY DEF IInv
  <2>2. \A x \in Live :
           /\ x \in Node
           /\ heap[x].child \in Live \cup {Null} /\ heap[x].sibling \in Live \cup {Null}
           /\ heap[x].index \in Nat /\ IsInjective(heap[x].edges)
    BY <2>1 DEF Heap, NodeRecord, Live
  <2>3. head \in Live \cup {Null}
    BY HeadIsNode
  <2>4. queue \in Seq(Live)
    <3>1. \A i \in 1 .. Len(queue) : queue[i] \in Live
      BY <2>1, RootsAreLive DEF Range, RootsApart
    <3>2. queue = [i \in 1 .. Len(queue) |-> queue[i]] /\ Len(queue) \in Nat
      BY <2>1 DEF RootsApart
    <3>3. QED
      BY <3>1, <3>2, SeqDef
  <2>5. QED
    BY <2>1, <2>2, <2>3, <2>4, RootsAreLive DEF TypeOK, Collector
<1>2. QED
  BY <1>1, IInvInit, IInvNext, PTL DEF Spec

\* In every reachable state each node has one owner: the tree and the collector
\* share no node, so that the thread that destroys a subtree touches none the
\* tree can reach, and no node is lost.
THEOREM OneOwnerHolds == Spec => []OneOwner
<1>1. IInv => OneOwner
  <2> SUFFICES ASSUME IInv, NEW x \in Live PROVE Cardinality(Owners(x)) = 1
    BY DEF OneOwner
  <2> DEFINE C == {z \in Live : heap[z].child = x}
             B == {z \in Live : heap[z].sibling = x}
             Q == {j \in DOMAIN queue : queue[j] = x}
             M == {o \in {<<"begin", begin>>, <<"dying", dying>>} : o[2] = x}
             byChild == {<<"child", y>> : y \in C}
             bySibling == {<<"sibling", y>> : y \in B}
             byQueue == {<<"queue", i>> : i \in Q}
  <2>1. Owners(x) = byChild \cup bySibling \cup byQueue \cup M
    BY DEF Owners
  <2>2. x # Null /\ OnePointer(heap, Roots) /\ Held(heap, Roots) /\ RootsApart
    BY RootsAreLive DEF IInv, Forest
  <2>3. x \in Roots => C = {} /\ B = {}
    BY <2>2 DEF OnePointer, Live
  <2>4. x \notin Range(queue) => Q = {}
    BY DEF Range
  <2>5. x # begin /\ x # dying => M = {}
    OBVIOUS
  <2>6. \E o : Owners(x) = {o}
    <3>1. CASE x = begin
      <4>1. M = {<<"begin", begin>>}
        BY <2>2, <3>1 DEF RootsApart
      <4>2. C = {} /\ B = {} /\ Q = {}
        BY <2>2, <2>3, <2>4, <3>1 DEF RootsApart, Roots
      <4>3. QED
        BY <2>1, <4>1, <4>2
    <3>2. CASE x = dying
      <4>1. M = {<<"dying", dying>>}
        BY <2>2, <3>2 DEF RootsApart
      <4>2. C = {} /\ B = {} /\ Q = {}
        BY <2>2, <2>3, <2>4, <3>2 DEF RootsApart, Roots
      <4>3. QED
        BY <2>1, <4>1, <4>2
    <3>3. CASE x \in Range(queue)
      <4>1. M = {} /\ C = {} /\ B = {}
        BY <2>2, <2>3, <2>5, <3>3 DEF RootsApart, Roots
      <4>2. PICK i \in DOMAIN queue : queue[i] = x
        BY <3>3 DEF Range
      <4>3. Q = {i}
        BY <2>2, <4>2 DEF RootsApart, IsInjective
      <4>4. byQueue = {<<"queue", i>>} /\ byChild = {} /\ bySibling = {}
        BY <4>1, <4>3
      <4>5. QED
        BY <2>1, <4>1, <4>4, Zenon
    <3>4. CASE x # begin /\ x # dying /\ x \notin Range(queue)
      <4>1. M = {} /\ Q = {} /\ x \in DOMAIN heap \ Roots
        BY <2>4, <2>5, <3>4 DEF Roots, Live
      <4>2. PICK y \in DOMAIN heap : x \in {heap[y].child, heap[y].sibling}
        BY <2>2, <4>1 DEF Held
      <4>3. CASE x = heap[y].child
        <5>1. C = {y} /\ B = {}
          BY <2>2, <4>2, <4>3 DEF OnePointer, Live
        <5>2. byChild = {<<"child", y>>} /\ bySibling = {} /\ byQueue = {}
          BY <4>1, <5>1
        <5>3. QED
          BY <2>1, <4>1, <5>2, Zenon
      <4>4. CASE x = heap[y].sibling
        <5>1. B = {y} /\ C = {}
          BY <2>2, <4>2, <4>4 DEF OnePointer, Live
        <5>2. bySibling = {<<"sibling", y>>} /\ byChild = {} /\ byQueue = {}
          BY <4>1, <5>1
        <5>3. QED
          BY <2>1, <4>1, <5>2, Zenon
      <4>5. QED
        BY <4>2, <4>3, <4>4
    <3>5. QED
      BY <3>1, <3>2, <3>3, <3>4
  <2>7. QED
    BY <2>6, FS_Singleton
<1>2. QED
  BY <1>1, IInvInit, IInvNext, PTL DEF Spec

\* In every reachable state the children of each node of the tree are those of that node,
\* each has an edge, and they come in the order of their edges: what Actualize relies on
\* when it walks the list, and the asserts of GetEdgeToNode.
THEOREM SiblingsOrderedHolds == Spec => []SiblingsOrdered
<1>1. IInv => SiblingsOrdered
  <2> SUFFICES ASSUME IInv, begin # Null, NEW x \in Owned(heap, begin),
                      NEW i \in DOMAIN ChildList(heap, x)
               PROVE  LET list == ChildList(heap, x) IN
                        /\ heap[list[i]].parent = x
                        /\ heap[list[i]].index < Len(heap[x].edges)
                        /\ i > 1 => heap[list[i - 1]].index < heap[list[i]].index
    BY DEF SiblingsOrdered, InTree
  <2>1. /\ Heap(heap) /\ Forest(heap, Roots) /\ begin \in Roots /\ SiblingOrder(heap, begin)
    BY DEF IInv, Roots, InOrder
  <2>2. x \in DOMAIN heap /\ NoCycle(heap)
    BY <2>1, OwnedBy DEF Forest
  <2> DEFINE l == ChildList(heap, x)
  <2>3. IsList(heap, x, l) /\ l \in Seq(DOMAIN heap)
    BY <2>1, <2>2, ChildListIs DEF IsList
  <2> HIDE DEF l
  <2>4. \A j \in 1 .. Len(l) : /\ heap[l[j]].parent = x
                               /\ heap[l[j]].index < Len(heap[x].edges)
                               /\ j > 1 => heap[l[j - 1]].index < heap[l[j]].index
    BY <2>1, <2>3, ListIsOrdered
  <2>5. DOMAIN l = 1 .. Len(l)
    BY <2>3
  <2>6. QED
    BY <2>4, <2>5 DEF l
<1>2. QED
  BY <1>1, IInvInit, IInvNext, PTL DEF Spec

\* In every reachable state the moves read off the nodes from the head up to
\* gamebegin_node_ are those of the history: trimming, the search and the collector's
\* thread leave the played line alone, and the game reads its moves where the search is.
THEOREM MovesAreHistoryHolds == Spec => []MovesAreHistory
<1>1. IInv => MovesAreHistory
  <2> SUFFICES ASSUME IInv, head # Null PROVE PathTo(head) = moves
    BY DEF MovesAreHistory
  <2>1. Heap(heap) /\ begin \in Live /\ HasLine(heap, begin, head, moves)
    BY HeadIsNode DEF IInv, OnLine
  <2>2. QED
    BY <2>1, PathOfLine
<1>2. QED
  BY <1>1, IInvInit, IInvNext, PTL DEF Spec
-----------------------------------------------------------------------------
(***************************************************************************)
(* The nodes are a tree of moves.                                          *)
(***************************************************************************)

\* There is a head where there is a tree, and a game of no moves where there is none.
Headed == (begin # Null => head # Null) /\ (head = Null => moves = <<>>)

PathInv == IInv /\ Headed

LEMMA TheTree ==
  ASSUME PathInv, begin # Null
  PROVE  /\ TreeAt(heap, Roots, begin) /\ head \in Owned(heap, begin) /\ head # Null
         /\ begin \in Live /\ begin \in Roots
         /\ WayTo(heap, begin, head) = moves
<1>1. head # Null /\ IInv
  BY DEF PathInv, Headed
<1>2. /\ begin \in Roots /\ begin \in Live /\ head \in Owned(heap, begin)
      /\ SiblingOrder(heap, begin) /\ HasLine(heap, begin, head, moves)
  BY <1>1, HeadIsNode DEF IInv, OnLine
<1>3. TreeAt(heap, Roots, begin)
  BY <1>1, <1>2 DEF TreeAt, IInv, HasLine
<1>4. QED
  BY <1>1, <1>2, <1>3, TheWay

\* What the nodes are read as.
ReadAs ==
    /\ begin = Null => MoveTree = <<>> /\ GameMoves = <<>> /\ moves = <<>>
    /\ begin # Null => MoveTree = TreeOf(heap, begin) /\ GameMoves = moves

LEMMA NodesReadAs == PathInv => ReadAs
<1> SUFFICES ASSUME PathInv PROVE ReadAs
  OBVIOUS
<1>1. CASE begin = Null
  <2>1. head = Null /\ moves = <<>>
    BY <1>1 DEF PathInv, Headed, IInv, HeadInTree
  <2>2. InTree = {}
    BY <1>1 DEF InTree
  <2>3. MoveTree = <<>>
    BY <2>2 DEF MoveTree
  <2>4. QED
    BY <1>1, <2>1, <2>3 DEF ReadAs, GameMoves
<1>2. CASE begin # Null
  <2>1. /\ TreeAt(heap, Roots, begin) /\ head \in Owned(heap, begin) /\ head # Null
        /\ begin \in Live /\ WayTo(heap, begin, head) = moves
    BY <1>2, TheTree
  <2>2. InTree = Owned(heap, begin) /\ Heap(heap)
    BY <1>2, <2>1 DEF InTree, TreeAt
  <2>3. \A x \in InTree : PathTo(x) = WayTo(heap, begin, x)
    BY <2>1, <2>2, TheWay, PathOfLine
  <2>4. DOMAIN MoveTree = Ways(heap, begin)
    BY <2>2, <2>3 DEF MoveTree, Ways
  <2>5. MoveTree = [p \in DOMAIN MoveTree |-> MoveTree[p]]
    BY DEF MoveTree
  <2>6. ASSUME NEW x \in Owned(heap, begin)
        PROVE  MoveTree[WayTo(heap, begin, x)] = heap[x].edges
    <3>1. PathTo(x) = WayTo(heap, begin, x) /\ x \in InTree
      BY <2>2, <2>3
    <3>2. \A y \in InTree : PathTo(y) = PathTo(x) => y = x
      BY <2>1, <2>2, <2>3, WaysDiffer
    <3>3. (CHOOSE y \in InTree : PathTo(y) = PathTo(x)) = x
      BY <3>1, <3>2
    <3>4. MoveTree[PathTo(x)] = heap[x].edges
      BY <3>1, <3>3 DEF MoveTree
    <3>5. QED
      BY <3>1, <3>4
  <2>7. MoveTree = TreeOf(heap, begin)
    BY <2>1, <2>4, <2>5, <2>6, TreeIs
  <2>8. GameMoves = moves
    BY <2>1, <2>2, <2>3 DEF GameMoves
  <2>9. QED
    BY <1>2, <2>7, <2>8 DEF ReadAs
<1>3. QED
  BY <1>1, <1>2

LEMMA NodesReadAsNext == PathInv' => ReadAs'
BY NodesReadAs, PTL

\* Every operation leaves a head where it leaves a tree.
LEMMA MoveHasHead ==
  ASSUME PathInv, NEW m \in Move, MakeMove(m)
  PROVE  /\ head' # Null /\ begin' = begin /\ begin # Null
         /\ TreeOf(heap', begin') = Led(TreeOf(heap, begin), moves, m)
<1> DEFINE t(y) == Played([heap |-> heap, head |-> head], m, y)
<1>1. /\ head # Null /\ (heap[head].edges = <<>> \/ m \in Range(heap[head].edges))
      /\ begin' = begin
  BY DEF MakeMove
<1>2. PICK y \in Free : heap' = t(y).heap /\ head' = t(y).head
  BY DEF MakeMove
<1>3. begin # Null
  BY <1>1 DEF PathInv, IInv, HeadInTree
<1>4. /\ TreeAt(heap, Roots, begin) /\ head \in Owned(heap, begin)
      /\ WayTo(heap, begin, head) = moves
  BY <1>3, TheTree
<1>5. y \in Node \ DOMAIN heap
  BY DEF Free, Live
<1>6. /\ TreeAt(t(y).heap, Roots, begin) /\ t(y).head \in Owned(t(y).heap, begin)
      /\ TreeOf(t(y).heap, begin) = Led(TreeOf(heap, begin), moves, m)
  BY <1>1, <1>4, <1>5, MovedInTree
<1> HIDE DEF t
<1>7. t(y).head # Null
  BY <1>6, InTheTree
<1>8. QED
  BY <1>1, <1>2, <1>3, <1>6, <1>7

LEMMA ResetHasHead ==
  ASSUME PathInv, NEW ms \in Openings, ResetToPosition(ms)
  PROVE  /\ head' # Null /\ begin' # Null /\ moves' = ms
         /\ TreeOf(heap', begin') = LineTree(ms)
<1>1. PICK x \in Free, a \in [DOMAIN ms -> Free] :
         /\ IsInjective(a) /\ x \notin Range(a)
         /\ heap' = Replayed(heap, x, ms, a).heap /\ head' = Replayed(heap, x, ms, a).head
         /\ begin' = x
  BY DEF ResetToPosition
<1>2. Heap(heap) /\ Forest(heap, Roots) /\ ms \in Seq(Move) /\ x \in Node \ DOMAIN heap
  BY NodeTreeAssumption DEF PathInv, IInv, Free, Live
<1>3. a \in [DOMAIN ms -> Node \ DOMAIN heap]
  BY DEF Free, Live
<1>4. Heap(heap') /\ head' \in DOMAIN heap' /\ TreeOf(heap', x) = LineTree(ms)
  BY <1>1, <1>2, <1>3, ReplayedIsForest
<1>5. Null \notin Node /\ head' \in Node
  BY <1>4, NodeTreeAssumption DEF Heap
<1>6. moves' = ms
  BY DEF ResetToPosition
<1>7. QED
  BY <1>1, <1>2, <1>4, <1>5, <1>6

LEMMA PathInvInit == Init => PathInv
BY IInvInit DEF Init, PathInv, Headed

LEMMA PathInvNext == PathInv /\ [Next]_vars => PathInv'
<1> SUFFICES ASSUME PathInv, [Next]_vars PROVE Headed'
  BY IInvNext DEF PathInv
<1>1. ASSUME NEW ms \in Openings, ResetToPosition(ms) PROVE Headed'
  BY <1>1, ResetHasHead DEF Headed
<1>2. ASSUME NEW list \in MoveLists, NEW i \in DOMAIN list, MakeMove(list[i]) PROVE Headed'
  <2>1. list \in Seq(Move)
    BY NodeTreeAssumption
  <2>2. list[i] \in Move
    BY <2>1
  <2>3. QED
    BY <1>2, <2>2, MoveHasHead DEF Headed
<1>3. CASE DeallocateTree
  BY <1>3 DEF DeallocateTree, Headed
<1>4. ASSUME UNCHANGED <<begin, head, moves>> PROVE Headed'
  BY <1>4 DEF Headed, PathInv
<1>5. QED
  BY <1>1, <1>2, <1>3, <1>4 DEF Next, CreateEdges, Visit, TrimTreeAtHead, LookAtStop, TakeSubtree,
     Release, StopCollector, CollectorGone, Gone, vars, treeVars

\* Where a search can be is where the tree of moves lets it be.
LEMMA SearchedWay ==
  ASSUME PathInv, head # Null, NEW x \in InSearch
  PROVE  LET p == WayTo(heap, begin, x)
         IN  /\ begin # Null /\ x \in Owned(heap, begin) /\ x \in DOMAIN heap
             /\ TreeAt(heap, Roots, begin)
             /\ p \in DOMAIN MoveTree /\ MoveTree[p] = heap[x].edges
             /\ p \in {GameMoves} \cup Paths!Below(GameMoves)
<1> DEFINE p == WayTo(heap, begin, x)
<1>1. begin # Null
  BY DEF PathInv, IInv, HeadInTree
<1>2. /\ TreeAt(heap, Roots, begin) /\ head \in Owned(heap, begin)
      /\ WayTo(heap, begin, head) = moves
  BY <1>1, TheTree
<1>3. MoveTree = TreeOf(heap, begin) /\ GameMoves = moves
  BY <1>1, NodesReadAs DEF ReadAs
<1>4. x = head \/ x \in Owned(heap, heap[head].child)
  BY DEF InSearch
<1>5. x \in Owned(heap, begin) /\ (x = head \/ GoesOn(moves, p))
  BY <1>2, <1>4, SearchGoesOn
<1>6. p \in DOMAIN MoveTree /\ MoveTree[p] = heap[x].edges
  BY <1>2, <1>3, <1>5, TreeOfIs
<1>7. p \in {GameMoves} \cup Paths!Below(GameMoves)
  BY <1>2, <1>3, <1>5, <1>6 DEF Paths!Below, GoesOn
<1>8. x \in DOMAIN heap
  BY <1>2, <1>5, InTheTree
<1>9. QED
  BY <1>1, <1>2, <1>5, <1>6, <1>7, <1>8

LEMMA CreateEdgesIs ==
  ASSUME PathInv, PathInv', head # Null, NEW x \in InSearch, NEW list \in MoveLists,
         CreateEdges(x, list)
  PROVE  \E p \in DOMAIN MoveTree : Paths!CreateEdges(p, list)
<1> DEFINE p == WayTo(heap, begin, x)
<1>1. /\ heap[x].edges = <<>> /\ heap' = [heap EXCEPT ![x].edges = list]
      /\ begin' = begin /\ moves' = moves
  BY DEF CreateEdges
<1>2. /\ begin # Null /\ x \in Owned(heap, begin) /\ TreeAt(heap, Roots, begin)
      /\ p \in DOMAIN MoveTree /\ MoveTree[p] = heap[x].edges
      /\ p \in {GameMoves} \cup Paths!Below(GameMoves)
  BY SearchedWay
<1>3. list \in Seq(Move) /\ IsInjective(list)
  BY NodeTreeAssumption
<1>4. TreeOf(heap', begin) = [TreeOf(heap, begin) EXCEPT ![p] = list]
  <2> DEFINE g == [heap EXCEPT ![x].edges = list]
  <2>1. heap[x].edges = <<>> /\ x \in Owned(heap, begin) /\ TreeAt(heap, Roots, begin)
    BY <1>1, <1>2
  <2>2. TreeOf(g, begin) = [TreeOf(heap, begin) EXCEPT ![p] = list]
    BY <1>3, <2>1, EdgesInTree
  <2>3. heap' = g
    BY <1>1
  <2> HIDE DEF g, p
  <2>4. QED
    BY <2>2, <2>3
<1>5. MoveTree = TreeOf(heap, begin) /\ GameMoves = moves
  BY <1>2, NodesReadAs DEF ReadAs
<1>6. MoveTree' = TreeOf(heap', begin') /\ GameMoves' = moves'
  BY <1>1, <1>2, NodesReadAsNext DEF ReadAs
<1> HIDE DEF p
<1>7. MoveTree' = [MoveTree EXCEPT ![p] = list] /\ GameMoves' = GameMoves
  BY <1>1, <1>4, <1>5, <1>6
<1>8. Paths!CreateEdges(p, list)
  BY <1>1, <1>2, <1>7 DEF Paths!CreateEdges
<1>9. QED
  BY <1>2, <1>8

LEMMA VisitIs ==
  ASSUME PathInv, PathInv', head # Null, NEW x \in InSearch, NEW i, Visit(x, i)
  PROVE  \E p \in DOMAIN MoveTree : \E m \in Paths!Moves(p) : Paths!Visit(p, m)
<1> DEFINE p == WayTo(heap, begin, x)
           m == heap[x].edges[i + 1]
<1>1. PICK y \in Free : heap' = GetOrSpawnNode(heap, x, i, y)
  BY DEF Visit
<1>2. i \in 0 .. Len(heap[x].edges) - 1 /\ begin' = begin /\ moves' = moves
  BY DEF Visit
<1>3. /\ begin # Null /\ x \in Owned(heap, begin) /\ x \in DOMAIN heap
      /\ TreeAt(heap, Roots, begin)
      /\ p \in DOMAIN MoveTree /\ MoveTree[p] = heap[x].edges
      /\ p \in {GameMoves} \cup Paths!Below(GameMoves)
  BY SearchedWay
<1>4. i \in Nat /\ i + 1 \in DOMAIN heap[x].edges
  <2>1. heap[x].edges \in Seq(Move)
    BY <1>3 DEF PathInv, IInv, Heap, NodeRecord
  <2>2. QED
    BY <1>2, <2>1
<1>5. y \in Node \ DOMAIN heap
  BY DEF Free, Live
<1>6. TreeOf(heap', begin) = Paths!Grown(TreeOf(heap, begin), Append(p, m))
  BY <1>1, <1>3, <1>4, <1>5, SpawnedInTree
<1>7. MoveTree = TreeOf(heap, begin) /\ GameMoves = moves
  BY <1>3, NodesReadAs DEF ReadAs
<1>8. MoveTree' = TreeOf(heap', begin') /\ GameMoves' = moves'
  BY <1>2, <1>3, NodesReadAsNext DEF ReadAs
<1>9. m \in Paths!Moves(p)
  BY <1>3, <1>4 DEF Paths!Moves
<1> HIDE DEF p, m
<1>10. MoveTree' = Paths!Grown(MoveTree, Append(p, m)) /\ GameMoves' = GameMoves
  BY <1>2, <1>6, <1>7, <1>8
<1>11. Paths!Visit(p, m)
  BY <1>3, <1>9, <1>10 DEF Paths!Visit
<1>12. QED
  BY <1>3, <1>9, <1>11

LEMMA MakeMoveIs ==
  ASSUME PathInv, PathInv', NEW m \in Move, MakeMove(m)
  PROVE  Paths!MakeMove(m)
<1>1. /\ head # Null /\ (heap[head].edges = <<>> \/ m \in Range(heap[head].edges))
      /\ Len(moves) < MaxGame /\ moves' = Append(moves, m)
  BY DEF MakeMove
<1>2. /\ begin' = begin /\ begin # Null
      /\ TreeOf(heap', begin') = Led(TreeOf(heap, begin), moves, m)
  BY MoveHasHead
<1>3. /\ TreeAt(heap, Roots, begin) /\ head \in Owned(heap, begin)
      /\ WayTo(heap, begin, head) = moves
  BY <1>2, TheTree
<1>4. MoveTree = TreeOf(heap, begin) /\ GameMoves = moves
  BY <1>2, NodesReadAs DEF ReadAs
<1>5. MoveTree' = TreeOf(heap', begin') /\ GameMoves' = moves'
  BY <1>2, NodesReadAsNext DEF ReadAs
<1>6. moves \in DOMAIN MoveTree /\ MoveTree[moves] = heap[head].edges
  BY <1>3, <1>4, TreeOfIs
<1>7. MoveTree[moves] = <<>> \/ m \in Paths!Moves(moves)
  BY <1>1, <1>6 DEF Paths!Moves, Range
<1>8. Paths!Known
  BY <1>6 DEF Paths!Known
<1>9. MoveTree' = Led(MoveTree, GameMoves, m) /\ GameMoves' = Append(GameMoves, m)
  BY <1>1, <1>2, <1>4, <1>5
<1>10. QED
  BY <1>1, <1>4, <1>7, <1>8, <1>9 DEF Paths!MakeMove, Led

LEMMA TrimIs ==
  ASSUME PathInv, PathInv', TrimTreeAtHead
  PROVE  Paths!TrimTreeAtHead
<1> DEFINE g == [heap EXCEPT ![head] = Renewed(@)]
           e == <<>>
<1>1. head # Null /\ heap' = g /\ begin' = begin /\ moves' = moves
  BY DEF TrimTreeAtHead
<1>2. begin # Null
  BY <1>1 DEF PathInv, IInv, HeadInTree
<1>3. /\ TreeAt(heap, Roots, begin) /\ head \in Owned(heap, begin)
      /\ WayTo(heap, begin, head) = moves
  BY <1>2, TheTree
<1>4. TreeOf(g, begin) = [q \in {r \in Ways(heap, begin) : ~GoesOn(moves, r)} |->
                            IF q = moves THEN e ELSE TreeOf(heap, begin)[q]]
  BY <1>3, TrimmedTree
<1>5. MoveTree = TreeOf(heap, begin) /\ GameMoves = moves
  BY <1>2, NodesReadAs DEF ReadAs
<1>6. MoveTree' = TreeOf(heap', begin') /\ GameMoves' = moves'
  BY <1>1, <1>2, NodesReadAsNext DEF ReadAs
<1>7. DOMAIN MoveTree = Ways(heap, begin) /\ moves \in DOMAIN MoveTree
  BY <1>3, <1>5, TreeOfIs
<1> HIDE DEF g, e
<1>8. {r \in Ways(heap, begin) : ~GoesOn(moves, r)} = DOMAIN MoveTree \ Paths!Below(moves)
  BY <1>7 DEF Paths!Below, GoesOn
<1>9. MoveTree' = [q \in DOMAIN MoveTree \ Paths!Below(GameMoves) |->
                     IF q = GameMoves THEN e ELSE MoveTree[q]]
  BY <1>1, <1>4, <1>5, <1>6, <1>8
<1>10. Paths!Known /\ GameMoves' = GameMoves
  BY <1>1, <1>5, <1>6, <1>7 DEF Paths!Known
<1>11. QED
  BY <1>9, <1>10 DEF Paths!TrimTreeAtHead, e

LEMMA CollectorIs ==
  ASSUME PathInv, PathInv', Release \/ CollectorGone
  PROVE  UNCHANGED Paths!vars
<1>1. UNCHANGED <<begin, head, moves>>
  BY DEF Release, CollectorGone
<1>2. CASE begin = Null
  BY <1>1, <1>2, NodesReadAs, NodesReadAsNext DEF ReadAs, Paths!vars
<1>3. CASE begin # Null
  <2>1. Release
    <3>1. gc = "over" => begin = Null
      BY DEF PathInv, IInv, Collector
    <3>2. QED
      BY <1>3, <3>1 DEF CollectorGone
  <2>2. heap' = Without(heap, Owned(heap, dying)) /\ gc = "destroys"
    BY <2>1 DEF Release, Without, Live
  <2>3. dying # Null /\ dying # begin
    BY <1>3, <2>2 DEF PathInv, IInv, Collector, RootsApart
  <2>4. dying \in Roots \ {begin} /\ TreeAt(heap, Roots, begin)
    BY <1>3, <2>3, TheTree DEF Roots
  <2>5. TreeOf(heap', begin) = TreeOf(heap, begin)
    BY <2>2, <2>4, ReleasedTree
  <2>6. QED
    BY <1>1, <1>3, <2>5, NodesReadAs, NodesReadAsNext DEF ReadAs, Paths!vars
<1>4. QED
  BY <1>2, <1>3

\* Every step is one of the tree of moves, or is not seen there.
LEMMA PathSteps ==
  ASSUME PathInv, PathInv', [Next]_vars
  PROVE  [Paths!Next]_(Paths!vars)
<1>1. ASSUME NEW ms \in Openings, ResetToPosition(ms) PROVE Paths!ResetToPosition(ms)
  <2>1. begin' # Null /\ moves' = ms /\ TreeOf(heap', begin') = LineTree(ms)
    BY <1>1, ResetHasHead
  <2>2. MoveTree' = LineTree(ms) /\ GameMoves' = ms
    BY <2>1, NodesReadAsNext DEF ReadAs
  <2>3. QED
    BY <2>2 DEF Paths!ResetToPosition, LineTree
<1>2. ASSUME NEW list \in MoveLists, NEW i \in DOMAIN list, MakeMove(list[i])
      PROVE  Paths!MakeMove(list[i])
  <2>1. list \in Seq(Move)
    BY NodeTreeAssumption
  <2>2. list[i] \in Move
    BY <2>1
  <2>3. QED
    BY <1>2, <2>2, MakeMoveIs
<1>3. CASE DeallocateTree
  <2>1. begin' = Null
    BY <1>3 DEF DeallocateTree
  <2>2. QED
    BY <2>1, NodesReadAsNext DEF ReadAs, Paths!DeallocateTree, Paths!Next
<1>4. ASSUME UNCHANGED <<heap, begin, moves>> PROVE UNCHANGED Paths!vars
  <2>1. CASE begin = Null
    BY <1>4, <2>1, NodesReadAs, NodesReadAsNext DEF ReadAs, Paths!vars
  <2>2. CASE begin # Null
    BY <1>4, <2>2, NodesReadAs, NodesReadAsNext DEF ReadAs, Paths!vars
  <2>3. QED
    BY <2>1, <2>2
<1>5. CASE LookAtStop \/ TakeSubtree \/ StopCollector \/ Gone \/ UNCHANGED vars
  <2>1. UNCHANGED <<heap, begin, moves>>
    BY <1>5 DEF LookAtStop, TakeSubtree, StopCollector, Gone, vars, treeVars
  <2>2. QED
    BY <1>4, <2>1
<1>6. CASE Release \/ CollectorGone
  BY <1>6, CollectorIs
<1>7. CASE TrimTreeAtHead
  BY <1>7, TrimIs DEF Paths!Next
<1>8. ASSUME head # Null, NEW x \in InSearch, NEW list \in MoveLists, CreateEdges(x, list)
      PROVE  Paths!Next
  BY <1>8, CreateEdgesIs DEF Paths!Next
<1>9. ASSUME head # Null, NEW x \in InSearch, NEW i, Visit(x, i)
      PROVE  Paths!Next
  BY <1>9, VisitIs DEF Paths!Next
<1>10. QED
  BY <1>1, <1>2, <1>3, <1>5, <1>6, <1>7, <1>8, <1>9 DEF Next, Paths!Next

\* The nodes, with the collector's thread, implement the tree of moves: nodes are made
\* where their moves say, in whatever order they are visited and wherever they lie in
\* their list, TrimTreeAtHead forgets what goes on from the game and nothing else, and
\* what the collector destroys is not missed.
THEOREM NodesAreAPathTree == Spec => IsPathTree
<1>1. Init => Paths!Init
  <2> SUFFICES ASSUME Init PROVE Paths!Init
    OBVIOUS
  <2>1. PathInv /\ begin = Null
    BY PathInvInit DEF Init
  <2>2. QED
    BY <2>1, NodesReadAs DEF ReadAs, Paths!Init
<1>2. PathInv /\ PathInv' /\ [Next]_vars => [Paths!Next]_(Paths!vars)
  BY PathSteps
<1>3. QED
  BY <1>1, <1>2, PathInvInit, PathInvNext, PTL DEF Spec, IsPathTree, Paths!Spec
=============================================================================
