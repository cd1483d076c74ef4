--------------------------- MODULE SearchTreeProofs ---------------------------
(***************************************************************************)
(* The tree under any number of workers, for every tree, every network and *)
(* every size of a minibatch: the virtual loss is accounted for and keeps  *)
(* the workers apart, and visits and values add up.  Each of the three     *)
(* invariants (IInv, AddUpInv, WorthInv) rests on those before it.         *)
(***************************************************************************)
EXTENDS SearchTree, FiniteSetTheorems, SequenceTheorems,
        WellFoundedInduction, TLAPS
-----------------------------------------------------------------------------
(***************************************************************************)
(* SumFunctionOnSet over a finite set, whatever the order it is taken in.  *)
(***************************************************************************)

\* Induction over the subsets of a finite set.
LEMMA SubsetInduction ==
    ASSUME NEW S, IsFiniteSet(S), NEW P,
           \A T \in SUBSET S : (\A x \in T : T \ {x} \in P) => T \in P
    PROVE  \A T \in SUBSET S : T \in P
<1> DEFINE Bad == (SUBSET S) \ P
           R == StrictSubsetOrdering(S)
<1>1. SUFFICES ASSUME Bad # {} PROVE FALSE
  OBVIOUS
<1>2. IsWellFoundedOn(R, SUBSET S)
  BY FS_FiniteSubsetsOfFinite, FS_StrictSubsetOrderingWellFounded
<1>3. PICK T \in Bad : \A U \in Bad : <<U, T>> \notin R
  BY <1>1, <1>2, WFMin
<1>4. PICK x \in T : T \ {x} \notin P
  BY <1>3
<1>5. <<T \ {x}, T>> \in R
  BY <1>3, <1>4 DEF StrictSubsetOrdering
<1>6. QED
  BY <1>3, <1>4, <1>5

\* What SumFunctionOnSet takes next.
Taken(s) == CHOOSE y \in s : TRUE

\* The recursion of SumFunctionOnSet, on the subsets in D.
SumsOn(g, f, D) ==
    g = [s \in D |-> IF s = {} THEN 0 ELSE f[Taken(s)] + g[s \ {Taken(s)}]]

LEMMA SumDef ==
    ASSUME NEW f, NEW S
    PROVE  SumFunctionOnSet(f, S) = (CHOOSE g : SumsOn(g, f, SUBSET S))[S]
  BY DEF SumFunctionOnSet, FoldFunctionOnSet, MapThenFoldSet, SumsOn, Taken

\* The recursion defines a function.
LEMMA SumsExist ==
    ASSUME NEW f, NEW S, IsFiniteSet(S)
    PROVE  \E g : SumsOn(g, f, SUBSET S)
<1> DEFINE D(T) == {s \in SUBSET S : Cardinality(s) <= Cardinality(T)}
           P == {T \in SUBSET S : \E g : SumsOn(g, f, D(T))}
<1>1. \A T \in SUBSET S : IsFiniteSet(T) /\ Cardinality(T) \in Nat /\ Cardinality(T) <= Cardinality(S)
  BY FS_Subset, FS_CardinalityType
<1>2. ASSUME NEW T \in SUBSET S, \A x \in T : T \ {x} \in P
      PROVE  T \in P
  <2>1. CASE T = {}
    <3> DEFINE g == [s \in D(T) |-> 0]
    <3>1. \A s \in D(T) : s = {}
      BY <1>1, <2>1, FS_EmptySet
    <3>2. g = [s \in D(T) |-> IF s = {} THEN 0 ELSE f[Taken(s)] + g[s \ {Taken(s)}]]
      BY <3>1
    <3> HIDE DEF g, D
    <3>3. QED
      BY <3>2 DEF SumsOn
  <2>2. CASE T # {}
    <3>1. PICK x : x \in T
      BY <2>2
    <3> DEFINE U == T \ {x}
    <3>2. PICK g : SumsOn(g, f, D(U))
      BY <1>2, <3>1
    <3>3. Cardinality(U) = Cardinality(T) - 1 /\ Cardinality(U) \in Nat /\ Cardinality(T) \in Nat
      BY <1>1, <3>1, FS_RemoveElement
    <3> DEFINE t == [s \in D(T) |-> IF s = {} THEN 0 ELSE f[Taken(s)] + g[s \ {Taken(s)}]]
    <3>4. D(U) \subseteq D(T)
      BY <1>1, <3>3
    <3>5. \A s \in D(U) : t[s] = g[s]
      BY <3>2, <3>4 DEF SumsOn
    <3>6. \A s \in D(T) : s # {} => Taken(s) \in s /\ s \ {Taken(s)} \in D(U)
      <4> SUFFICES ASSUME NEW s \in D(T), s # {}
                   PROVE  Taken(s) \in s /\ s \ {Taken(s)} \in D(U)
        OBVIOUS
      <4>1. Taken(s) \in s
        BY DEF Taken
      <4>2. IsFiniteSet(s) /\ Cardinality(s) \in Nat /\ s \in SUBSET S
        BY <1>1
      <4>3. Cardinality(s \ {Taken(s)}) = Cardinality(s) - 1
        BY <4>1, <4>2, FS_RemoveElement
      <4> HIDE DEF U
      <4>4. QED
        BY <3>3, <4>1, <4>2, <4>3
    <3> HIDE DEF D
    <3>7. t = [s \in D(T) |-> IF s = {} THEN 0 ELSE f[Taken(s)] + t[s \ {Taken(s)}]]
      BY <3>5, <3>6
    <3> HIDE DEF t
    <3>8. QED
      BY <3>7 DEF SumsOn
  <2>3. QED
    BY <2>1, <2>2
<1>3. S \in P
  <2> HIDE DEF P
  <2>1. QED
    BY <1>2, SubsetInduction
<1>4. D(S) = SUBSET S
  BY <1>1
<1> HIDE DEF D
<1>5. QED
  BY <1>3, <1>4

\* On the way to the sum of S the sums of its subsets are passed.
LEMMA SumsAgree ==
    ASSUME NEW f, NEW S, IsFiniteSet(S)
    PROVE  \A T \in SUBSET S : \A g, t :
              SumsOn(g, f, SUBSET S) /\ SumsOn(t, f, SUBSET T) => g[T] = t[T]
<1> SUFFICES ASSUME NEW T \in SUBSET S, NEW g, NEW t,
                    SumsOn(g, f, SUBSET S), SumsOn(t, f, SUBSET T)
             PROVE  g[T] = t[T]
  OBVIOUS
<1> DEFINE P == {s \in SUBSET T : g[s] = t[s]}
<1>1. IsFiniteSet(T)
  BY FS_Subset
<1>2. ASSUME NEW s \in SUBSET T, \A x \in s : s \ {x} \in P
      PROVE  s \in P
  <2>1. g[s] = (IF s = {} THEN 0 ELSE f[Taken(s)] + g[s \ {Taken(s)}])
    <3>1. s \in SUBSET S
      OBVIOUS
    <3>2. QED
      BY <3>1 DEF SumsOn
  <2>2. t[s] = (IF s = {} THEN 0 ELSE f[Taken(s)] + t[s \ {Taken(s)}])
    BY DEF SumsOn
  <2>3. s # {} => Taken(s) \in s
    BY DEF Taken
  <2>4. QED
    BY <1>2, <2>1, <2>2, <2>3
<1> HIDE DEF P
<1>3. T \in P
  BY <1>1, <1>2, SubsetInduction
<1>4. QED
  BY <1>3 DEF P

LEMMA SumStep ==
    ASSUME NEW f, NEW S, IsFiniteSet(S)
    PROVE  SumFunctionOnSet(f, S) =
              IF S = {} THEN 0
              ELSE f[Taken(S)] + SumFunctionOnSet(f, S \ {Taken(S)})
<1> DEFINE T == S \ {Taken(S)}
           g == CHOOSE g : SumsOn(g, f, SUBSET S)
           t == CHOOSE t : SumsOn(t, f, SUBSET T)
<1>1. IsFiniteSet(T) /\ T \in SUBSET S
  BY FS_Subset
<1>2. SumsOn(g, f, SUBSET S) /\ SumsOn(t, f, SUBSET T)
  BY <1>1, SumsExist
<1>3. SumFunctionOnSet(f, S) = g[S] /\ SumFunctionOnSet(f, T) = t[T]
  BY SumDef
<1>4. g[S] = IF S = {} THEN 0 ELSE f[Taken(S)] + g[T]
  <2> HIDE DEF g
  <2>1. S \in SUBSET S
    OBVIOUS
  <2>2. QED
    BY <1>2, <2>1 DEF SumsOn
<1> HIDE DEF g, t, T
<1>5. g[T] = t[T]
  BY <1>1, <1>2, SumsAgree
<1>6. QED
  BY <1>3, <1>4, <1>5 DEF T

LEMMA SumIsInt ==
    ASSUME NEW f, NEW S, IsFiniteSet(S), \A x \in S : f[x] \in Int
    PROVE  \A T \in SUBSET S : SumFunctionOnSet(f, T) \in Int
<1> DEFINE P == {T \in SUBSET S : SumFunctionOnSet(f, T) \in Int}
<1>1. ASSUME NEW T \in SUBSET S, \A x \in T : T \ {x} \in P
      PROVE  T \in P
  <2>1. IsFiniteSet(T)
    BY FS_Subset
  <2>2. SumFunctionOnSet(f, T) =
           IF T = {} THEN 0 ELSE f[Taken(T)] + SumFunctionOnSet(f, T \ {Taken(T)})
    BY <2>1, SumStep
  <2>3. T # {} => Taken(T) \in T
    BY DEF Taken
  <2>4. QED
    BY <1>1, <2>2, <2>3
<1> HIDE DEF P
<1>2. \A T \in SUBSET S : T \in P
  BY <1>1, SubsetInduction
<1>3. QED
  BY <1>2 DEF P

\* The order does not matter.
LEMMA SumRemove ==
    ASSUME NEW f, NEW S, IsFiniteSet(S), \A x \in S : f[x] \in Int
    PROVE  \A T \in SUBSET S :
              /\ SumFunctionOnSet(f, T) \in Int
              /\ T = {} => SumFunctionOnSet(f, T) = 0
              /\ \A x \in T : SumFunctionOnSet(f, T) = f[x] + SumFunctionOnSet(f, T \ {x})
<1> DEFINE Good(T) == /\ SumFunctionOnSet(f, T) \in Int
                      /\ T = {} => SumFunctionOnSet(f, T) = 0
                      /\ \A x \in T : SumFunctionOnSet(f, T) = f[x] + SumFunctionOnSet(f, T \ {x})
           P == {T \in SUBSET S : Good(T)}
<1>1. ASSUME NEW T \in SUBSET S, \A x \in T : T \ {x} \in P
      PROVE  T \in P
  <2>1. IsFiniteSet(T)
    BY FS_Subset
  <2> DEFINE c == Taken(T)
  <2>2. SumFunctionOnSet(f, T) = IF T = {} THEN 0 ELSE f[c] + SumFunctionOnSet(f, T \ {c})
    BY <2>1, SumStep
  <2>3. CASE T = {}
    BY <2>2, <2>3
  <2>4. CASE T # {}
    <3>1. c \in T
      BY <2>4 DEF Taken
    <3> HIDE DEF c
    <3>2. Good(T \ {c}) /\ f[c] \in Int
      BY <1>1, <3>1
    <3>3. ASSUME NEW x \in T
          PROVE  SumFunctionOnSet(f, T) = f[x] + SumFunctionOnSet(f, T \ {x})
      <4>1. CASE x = c
        BY <2>2, <2>4, <4>1
      <4>2. CASE x # c
        <5>1. Good(T \ {x}) /\ f[x] \in Int
          BY <1>1, <3>3
        <5>2. (T \ {c}) \ {x} = (T \ {x}) \ {c}
          OBVIOUS
        <5> DEFINE rest == SumFunctionOnSet(f, (T \ {x}) \ {c})
        <5>3. SumFunctionOnSet(f, T \ {c}) = f[x] + rest
          BY <3>2, <3>3, <4>2, <5>2
        <5>4. SumFunctionOnSet(f, T \ {x}) = f[c] + rest
          BY <3>1, <4>2, <5>1
        <5>5. rest \in Int
          <6>1. (T \ {x}) \ {c} \in SUBSET S
            OBVIOUS
          <6>2. QED
            BY <6>1, SumIsInt
        <5> HIDE DEF rest
        <5>6. SumFunctionOnSet(f, T) = f[c] + (f[x] + rest)
          BY <2>2, <2>4, <5>3
        <5>7. QED
          BY <3>2, <5>1, <5>4, <5>5, <5>6
      <4>3. QED
        BY <4>1, <4>2
    <3>4. SumFunctionOnSet(f, T) \in Int
      BY <2>2, <2>4, <3>2
    <3>5. QED
      BY <2>4, <3>3, <3>4
  <2>5. QED
    BY <2>3, <2>4
<1>2. \A T \in SUBSET S : T \in P
  <2> HIDE DEF P
  <2>1. QED
    BY <1>1, SubsetInduction
<1>3. QED
  BY <1>2

LEMMA SumEmpty ==
    ASSUME NEW f
    PROVE  SumFunctionOnSet(f, {}) = 0
  BY SumStep, FS_EmptySet

\* Equal terms make equal sums.
LEMMA SumSame ==
    ASSUME NEW S, IsFiniteSet(S), NEW f, NEW g,
           \A x \in S : f[x] \in Int /\ g[x] = f[x]
    PROVE  SumFunctionOnSet(g, S) = SumFunctionOnSet(f, S)
<1> DEFINE P == {T \in SUBSET S : SumFunctionOnSet(g, T) = SumFunctionOnSet(f, T)}
<1>1. ASSUME NEW T \in SUBSET S, \A x \in T : T \ {x} \in P
      PROVE  T \in P
  <2>1. CASE T = {}
    BY <2>1, SumEmpty
  <2>2. CASE T # {}
    <3>1. PICK x : x \in T
      BY <2>2
    <3>2. SumFunctionOnSet(f, T) = f[x] + SumFunctionOnSet(f, T \ {x})
      BY <3>1, SumRemove
    <3>3. SumFunctionOnSet(g, T) = g[x] + SumFunctionOnSet(g, T \ {x})
      BY <3>1, SumRemove
    <3>4. QED
      BY <1>1, <3>1, <3>2, <3>3
  <2>3. QED
    BY <2>1, <2>2
<1> HIDE DEF P
<1>2. \A T \in SUBSET S : T \in P
  BY <1>1, SubsetInduction
<1>3. QED
  BY <1>2 DEF P

\* The sums of two functions add up.
LEMMA SumPlus ==
    ASSUME NEW S, IsFiniteSet(S), NEW f, NEW g, NEW h,
           \A x \in S : f[x] \in Int /\ g[x] \in Int /\ h[x] = f[x] + g[x]
    PROVE  SumFunctionOnSet(h, S) = SumFunctionOnSet(f, S) + SumFunctionOnSet(g, S)
<1> DEFINE P == {T \in SUBSET S :
                    SumFunctionOnSet(h, T) = SumFunctionOnSet(f, T) + SumFunctionOnSet(g, T)}
<1>1. ASSUME NEW T \in SUBSET S, \A x \in T : T \ {x} \in P
      PROVE  T \in P
  <2>1. CASE T = {}
    BY <2>1, SumEmpty
  <2>2. CASE T # {}
    <3>1. PICK x : x \in T
      BY <2>2
    <3> DEFINE U == T \ {x}
    <3>2. /\ SumFunctionOnSet(f, T) = f[x] + SumFunctionOnSet(f, U)
          /\ SumFunctionOnSet(f, U) \in Int
      <4>1. U \in SUBSET S
        OBVIOUS
      <4>2. QED
        BY <3>1, <4>1, SumRemove
    <3>3. /\ SumFunctionOnSet(g, T) = g[x] + SumFunctionOnSet(g, U)
          /\ SumFunctionOnSet(g, U) \in Int
      <4>1. U \in SUBSET S
        OBVIOUS
      <4>2. QED
        BY <3>1, <4>1, SumRemove
    <3>4. SumFunctionOnSet(h, T) = h[x] + SumFunctionOnSet(h, U)
      <4>1. \A y \in S : h[y] \in Int
        OBVIOUS
      <4>2. QED
        BY <3>1, <4>1, SumRemove
    <3>5. SumFunctionOnSet(h, U) = SumFunctionOnSet(f, U) + SumFunctionOnSet(g, U)
      BY <1>1, <3>1
    <3> HIDE DEF U
    <3>6. QED
      BY <3>1, <3>2, <3>3, <3>4, <3>5
  <2>3. QED
    BY <2>1, <2>2
<1> HIDE DEF P
<1>2. \A T \in SUBSET S : T \in P
  BY <1>1, SubsetInduction
<1>3. QED
  BY <1>2 DEF P

\* A sum of terms that are all between a and b.
LEMMA SumBounds ==
    ASSUME NEW S, IsFiniteSet(S), NEW f, NEW a \in Int, NEW b \in Int,
           \A x \in S : f[x] \in a .. b
    PROVE  SumFunctionOnSet(f, S) \in a * Cardinality(S) .. b * Cardinality(S)
<1> DEFINE P == {T \in SUBSET S :
                    SumFunctionOnSet(f, T) \in a * Cardinality(T) .. b * Cardinality(T)}
<1>1. ASSUME NEW T \in SUBSET S, \A x \in T : T \ {x} \in P
      PROVE  T \in P
  <2>1. CASE T = {}
    BY <2>1, SumEmpty, FS_EmptySet
  <2>2. CASE T # {}
    <3>1. PICK x : x \in T
      BY <2>2
    <3> DEFINE U == T \ {x}
               c == Cardinality(U)
    <3>2. c \in Nat /\ Cardinality(T) = c + 1
      BY <3>1, FS_Subset, FS_RemoveElement, FS_CardinalityType
    <3>3. \A y \in S : f[y] \in Int
      OBVIOUS
    <3>4. /\ SumFunctionOnSet(f, T) = f[x] + SumFunctionOnSet(f, U)
          /\ SumFunctionOnSet(f, U) \in Int
      <4>1. U \in SUBSET S
        OBVIOUS
      <4>2. QED
        BY <3>1, <3>3, <4>1, SumRemove
    <3>5. SumFunctionOnSet(f, U) \in a * c .. b * c
      BY <1>1, <3>1
    <3>6. f[x] \in a .. b
      BY <3>1
    <3> HIDE DEF U, c
    <3>7. a * (c + 1) = a * c + a /\ b * (c + 1) = b * c + b /\ a * c \in Int /\ b * c \in Int
      BY <3>2
    <3>8. SumFunctionOnSet(f, T) \in a * (c + 1) .. b * (c + 1)
      BY <3>4, <3>5, <3>6, <3>7
    <3>9. QED
      BY <3>2, <3>8
  <2>3. QED
    BY <2>1, <2>2
<1> HIDE DEF P
<1>2. \A T \in SUBSET S : T \in P
  BY <1>1, SubsetInduction
<1>3. QED
  BY <1>2 DEF P

LEMMA SumZero ==
    ASSUME NEW S, IsFiniteSet(S), NEW f, \A x \in S : f[x] = 0
    PROVE  SumFunctionOnSet(f, S) = 0
<1> DEFINE c == Cardinality(S)
<1>1. PICK a \in Int : a = 0
  OBVIOUS
<1>2. \A x \in S : f[x] \in a .. a
  BY <1>1
<1>3. SumFunctionOnSet(f, S) \in a * c .. a * c
  BY <1>2, SumBounds
<1>4. c \in Nat
  BY FS_CardinalityType
<1> HIDE DEF c
<1>5. a * c = 0
  BY <1>1, <1>4
<1>6. QED
  BY <1>3, <1>5

\* The size of a union of disjoint sets.
LEMMA SumOfParts ==
    ASSUME NEW K, IsFiniteSet(K), NEW part, NEW size,
           \A y \in K : IsFiniteSet(part[y]) /\ size[y] = Cardinality(part[y]),
           \A y, z \in K : y # z => part[y] \cap part[z] = {}
    PROVE  /\ IsFiniteSet(UNION {part[y] : y \in K})
           /\ Cardinality(UNION {part[y] : y \in K}) = SumFunctionOnSet(size, K)
<1> DEFINE All(T) == UNION {part[y] : y \in T}
           P == {T \in SUBSET K : IsFiniteSet(All(T)) /\ Cardinality(All(T)) = SumFunctionOnSet(size, T)}
<1>1. ASSUME NEW T \in SUBSET K, \A x \in T : T \ {x} \in P
      PROVE  T \in P
  <2>1. CASE T = {}
    <3>1. All(T) = {}
      BY <2>1
    <3>2. QED
      BY <2>1, <3>1, SumEmpty, FS_EmptySet
  <2>2. CASE T # {}
    <3>1. PICK x : x \in T
      BY <2>2
    <3>2. All(T) = All(T \ {x}) \cup part[x] /\ All(T \ {x}) \cap part[x] = {}
      BY <3>1
    <3>3. /\ IsFiniteSet(All(T \ {x})) /\ IsFiniteSet(part[x])
          /\ Cardinality(All(T \ {x})) = SumFunctionOnSet(size, T \ {x})
          /\ size[x] = Cardinality(part[x])
      BY <1>1, <3>1
    <3>4. \A y \in K : size[y] \in Int
      BY FS_CardinalityType
    <3>5. SumFunctionOnSet(size, T) = size[x] + SumFunctionOnSet(size, T \ {x})
      BY <3>1, <3>4, SumRemove
    <3> HIDE DEF All
    <3>6. /\ IsFiniteSet(All(T))
          /\ Cardinality(All(T)) = Cardinality(All(T \ {x})) + Cardinality(part[x])
      <4>1. Cardinality({}) = 0
        BY FS_EmptySet
      <4>2. Cardinality(All(T \ {x})) \in Nat /\ Cardinality(part[x]) \in Nat
        BY <3>3, FS_CardinalityType
      <4>3. /\ IsFiniteSet(All(T \ {x}) \cup part[x])
            /\ Cardinality(All(T \ {x}) \cup part[x]) =
                  Cardinality(All(T \ {x})) + Cardinality(part[x])
                     - Cardinality(All(T \ {x}) \cap part[x])
        BY <3>3, FS_Union
      <4>4. Cardinality(All(T \ {x}) \cap part[x]) = 0
        BY <3>2, <4>1
      <4>5. Cardinality(All(T \ {x}) \cup part[x]) =
               Cardinality(All(T \ {x})) + Cardinality(part[x])
        BY <4>2, <4>3, <4>4
      <4>6. QED
        BY <3>2, <4>3, <4>5
    <3>7. Cardinality(All(T \ {x})) \in Nat /\ Cardinality(part[x]) \in Nat
      BY <3>3, FS_CardinalityType
    <3>8. QED
      BY <3>3, <3>5, <3>6, <3>7
  <2>3. QED
    BY <2>1, <2>2
<1> HIDE DEF P
<1>2. \A T \in SUBSET K : T \in P
  BY <1>1, SubsetInduction
<1>3. QED
  BY <1>2 DEF P

\* A sum can be taken in two parts.
LEMMA SumUnion ==
    ASSUME NEW A, NEW B, IsFiniteSet(A), IsFiniteSet(B), A \cap B = {},
           NEW f, \A t \in A \cup B : f[t] \in Int
    PROVE  SumFunctionOnSet(f, A \cup B) = SumFunctionOnSet(f, A) + SumFunctionOnSet(f, B)
<1> DEFINE S == A \cup B
           P == {T \in SUBSET B :
                    SumFunctionOnSet(f, A \cup T) = SumFunctionOnSet(f, A) + SumFunctionOnSet(f, T)}
<1>1. IsFiniteSet(S) /\ \A t \in S : f[t] \in Int
  BY FS_Union
<1> HIDE DEF S
<1>2. \A T \in SUBSET S :
         /\ SumFunctionOnSet(f, T) \in Int
         /\ \A x \in T : SumFunctionOnSet(f, T) = f[x] + SumFunctionOnSet(f, T \ {x})
  BY <1>1, SumRemove
<1>3. ASSUME NEW T \in SUBSET B, \A x \in T : T \ {x} \in P
      PROVE  T \in P
  <2>1. CASE T = {}
    <3>1. A \cup T = A /\ A \in SUBSET S
      BY <2>1 DEF S
    <3>2. SumFunctionOnSet(f, T) = 0 /\ SumFunctionOnSet(f, A) \in Int
      BY <2>1, <3>1, <1>2, SumEmpty
    <3>3. SumFunctionOnSet(f, A \cup T) = SumFunctionOnSet(f, A)
      BY <3>1
    <3>4. QED
      BY <3>2, <3>3
  <2>2. CASE T # {}
    <3>1. PICK x : x \in T
      BY <2>2
    <3> DEFINE U == T \ {x}
    <3>2. /\ A \cup T \in SUBSET S /\ T \in SUBSET S /\ A \in SUBSET S /\ U \in SUBSET S
          /\ x \in A \cup T /\ (A \cup T) \ {x} = A \cup U /\ x \in S
      BY <3>1 DEF S
    <3>3. SumFunctionOnSet(f, A \cup U) = SumFunctionOnSet(f, A) + SumFunctionOnSet(f, U)
      BY <1>3, <3>1
    <3>4. SumFunctionOnSet(f, A \cup T) = f[x] + SumFunctionOnSet(f, A \cup U)
      BY <1>2, <3>2
    <3>5. SumFunctionOnSet(f, T) = f[x] + SumFunctionOnSet(f, U)
      BY <1>2, <3>1, <3>2
    <3>6. /\ SumFunctionOnSet(f, A) \in Int /\ SumFunctionOnSet(f, U) \in Int
          /\ f[x] \in Int
      BY <1>1, <1>2, <3>2
    <3> HIDE DEF U
    <3>7. QED
      BY <3>3, <3>4, <3>5, <3>6
  <2>3. QED
    BY <2>1, <2>2
<1> HIDE DEF P
<1>4. \A T \in SUBSET B : T \in P
  BY <1>3, SubsetInduction
<1>5. QED
  BY <1>4 DEF P

\* A sum over a union of disjoint sets is the sum of the sums over them.
LEMMA SumOverParts ==
    ASSUME NEW K, IsFiniteSet(K), NEW part, NEW f, NEW gain,
           \A y \in K : /\ IsFiniteSet(part[y])
                         /\ gain[y] = SumFunctionOnSet(f, part[y])
                         /\ \A t \in part[y] : f[t] \in Int,
           \A y, z \in K : y # z => part[y] \cap part[z] = {}
    PROVE  SumFunctionOnSet(f, UNION {part[y] : y \in K}) = SumFunctionOnSet(gain, K)
<1> DEFINE All(T) == UNION {part[y] : y \in T}
           P == {T \in SUBSET K :
                    IsFiniteSet(All(T)) /\ SumFunctionOnSet(f, All(T)) = SumFunctionOnSet(gain, T)}
<1>1. \A y \in K : gain[y] \in Int
  <2> SUFFICES ASSUME NEW y \in K
               PROVE  gain[y] \in Int
    OBVIOUS
  <2> DEFINE q == part[y]
  <2>1. IsFiniteSet(q) /\ gain[y] = SumFunctionOnSet(f, q) /\ \A t \in q : f[t] \in Int
    OBVIOUS
  <2> HIDE DEF q
  <2>2. SumFunctionOnSet(f, q) \in Int
    BY <2>1, SumIsInt
  <2>3. QED
    BY <2>1, <2>2
<1>2. ASSUME NEW T \in SUBSET K, \A x \in T : T \ {x} \in P
      PROVE  T \in P
  <2>1. CASE T = {}
    <3>1. All(T) = {}
      BY <2>1
    <3>2. QED
      BY <2>1, <3>1, SumEmpty, FS_EmptySet
  <2>2. CASE T # {}
    <3>1. PICK x : x \in T
      BY <2>2
    <3> DEFINE A == All(T \ {x})
               B == part[x]
    <3>2. /\ All(T) = A \cup B /\ A \cap B = {}
          /\ \A t \in A \cup B : f[t] \in Int
      BY <3>1
    <3>3. /\ IsFiniteSet(A) /\ IsFiniteSet(B)
          /\ SumFunctionOnSet(f, A) = SumFunctionOnSet(gain, T \ {x})
          /\ gain[x] = SumFunctionOnSet(f, B)
      BY <1>2, <3>1
    <3>4. /\ SumFunctionOnSet(gain, T) = gain[x] + SumFunctionOnSet(gain, T \ {x})
          /\ SumFunctionOnSet(gain, T \ {x}) \in Int /\ gain[x] \in Int
      <4>1. T \ {x} \in SUBSET K
        OBVIOUS
      <4>2. QED
        BY <1>1, <3>1, <4>1, SumRemove
    <3> HIDE DEF A, B, All
    <3>5. SumFunctionOnSet(f, A \cup B) = SumFunctionOnSet(f, A) + SumFunctionOnSet(f, B)
      BY <3>2, <3>3, SumUnion
    <3>6. IsFiniteSet(A \cup B)
      BY <3>3, FS_Union
    <3>7. SumFunctionOnSet(f, All(T)) = SumFunctionOnSet(f, A) + SumFunctionOnSet(f, B)
      BY <3>2, <3>5
    <3>8. SumFunctionOnSet(f, All(T)) = SumFunctionOnSet(gain, T)
      BY <3>3, <3>4, <3>7
    <3>9. IsFiniteSet(All(T))
      BY <3>2, <3>6
    <3>10. QED
      BY <3>8, <3>9
  <2>3. QED
    BY <2>1, <2>2
<1> HIDE DEF P
<1>3. \A T \in SUBSET K : T \in P
  BY <1>2, SubsetInduction
<1>4. QED
  BY <1>3 DEF P
-----------------------------------------------------------------------------
\* What the workers hold passes through any node finitely often.
FinitelyHeld == \A x \in Node : IsFiniteSet(Through(x))

IsVisit(u, i) == ~batch[u][i].collision

Above(x) == Path[x] \ {x}

\* A worker at ExtendNode goes there with the visit it put in last.
ExtendsLast ==
    \A w \in Worker : pc[w] = "extend" =>
        /\ batch[w] # <<>>
        /\ IsVisit(w, Len(batch[w]))
        /\ ~expanded[batch[w][Len(batch[w])].node]
        /\ ~terminal[batch[w][Len(batch[w])].node]

\* A node never backed up has one visit.
OneFirstVisit ==
    \A u, v \in Worker : \A i \in DOMAIN batch[u], j \in DOMAIN batch[v] :
        /\ IsVisit(u, i) /\ IsVisit(v, j)
        /\ batch[u][i].node = batch[v][j].node
        /\ n[batch[u][i].node] = 0
        => u = v /\ i = j

\* A node that was backed up has edges, or is terminal.
VisitedIsResolved == \A x \in Node : n[x] > 0 => expanded[x] \/ terminal[x]

\* A descent passed through nodes with edges only.
AboveIsExpanded ==
    \A u \in Worker : \A i \in DOMAIN batch[u] :
        \A a \in Above(batch[u][i].node) : expanded[a]

\* A visited node gets its edges or its verdict before anything else happens to
\* the visit.
HeldIsResolved ==
    \A u \in Worker : \A i \in DOMAIN batch[u] :
        IsVisit(u, i) =>
            \/ expanded[batch[u][i].node] \/ terminal[batch[u][i].node]
            \/ pc[u] = "extend" /\ i = Len(batch[u])

IInv ==
    /\ TypeOK
    /\ FinitelyHeld
    /\ InFlightAccounted
    /\ ExtendsLast
    /\ OneFirstVisit
    /\ VisitedIsResolved
    /\ AboveIsExpanded
    /\ HeldIsResolved

-----------------------------------------------------------------------------
\* The average of a node is a number, and that of equal values is the value.
LEMMA GetQIsInt ==
    ASSUME TypeOK, NEW x \in Node
    PROVE  /\ Weight(x) \in Nat \ {0} /\ GetQ(x) \in Int
           /\ \A a \in Int : total[x] = a * Weight(x) => GetQ(x) = a
<1>1. n[x] \in Nat /\ total[x] \in Int
  BY DEF TypeOK
<1>2. Weight(x) \in Nat \ {0}
  BY <1>1 DEF Weight
<1>3. \A a \in Int, k \in Nat \ {0} : a \div k \in Int /\ (a * k) \div k = a
  OBVIOUS
<1> HIDE DEF Weight
<1>4. QED
  BY <1>1, <1>2, <1>3 DEF GetQ

\* The tickets through a node, by worker and index.
LEMMA ThroughPairs ==
    \A x : /\ \A u, i : <<u, i>> \in Through(x) <=>
                  u \in Worker /\ i \in DOMAIN batch[u] /\ x \in Passes(batch[u][i])
           /\ \A t \in Through(x) : t = <<t[1], t[2]>>
<1>1. \A t : t \in Outstanding <=>
                \E u \in Worker : \E i \in DOMAIN batch[u] : t = <<u, i>>
  BY DEF Outstanding
<1>2. QED
  BY <1>1 DEF Through, TicketAt

LEMMA ThroughPairsNext ==
    \A x : /\ \A u, i : <<u, i>> \in Through(x)' <=>
                  u \in Worker /\ i \in DOMAIN batch'[u] /\ x \in Passes(batch'[u][i])
           /\ \A t \in Through(x)' : t = <<t[1], t[2]>>
<1>1. \A t : t \in Outstanding' <=>
                \E u \in Worker : \E i \in DOMAIN batch'[u] : t = <<u, i>>
  BY DEF Outstanding
<1>2. QED
  BY <1>1 DEF Through, TicketAt, Passes

LEMMA BatchTyped ==
    ASSUME TypeOK
    PROVE  \A u \in Worker :
              /\ batch[u] \in Seq(Ticket)
              /\ Len(batch[u]) \in Nat
              /\ DOMAIN batch[u] = 1 .. Len(batch[u])
              /\ \A i \in DOMAIN batch[u] : batch[u][i] \in Ticket
<1>1. \A u \in Worker : batch[u] \in Seq(Ticket)
  BY DEF TypeOK
<1>2. QED
  BY <1>1, LenProperties, ElementOfSeq

\* A ticket is added at the end, and passes through its nodes.
LEMMA PutAdds ==
    ASSUME TypeOK, NEW w \in Worker, NEW t \in Ticket, Put(w, t)
    PROVE  LET new == Len(batch[w]) + 1
           IN  /\ batch' \in [Worker -> Seq(Ticket)]
               /\ Len(batch'[w]) = new
               /\ \A u \in Worker : DOMAIN batch'[u] = 1 .. Len(batch'[u])
               /\ \A u \in Worker : \A i \in DOMAIN batch'[u] :
                     \/ i \in DOMAIN batch[u] /\ batch'[u][i] = batch[u][i]
                     \/ u = w /\ i = new
               /\ \A u \in Worker : \A i \in DOMAIN batch[u] :
                     i \in DOMAIN batch'[u] /\ batch'[u][i] = batch[u][i]
               /\ new \in DOMAIN batch'[w] /\ batch'[w][new] = t
               /\ new \notin DOMAIN batch[w]
               /\ \A u \in Worker : u # w => batch'[u] = batch[u]
<1> DEFINE new == Len(batch[w]) + 1
<1>1. \A u \in Worker :
         /\ batch[u] \in Seq(Ticket)
         /\ Len(batch[u]) \in Nat
         /\ DOMAIN batch[u] = 1 .. Len(batch[u])
  BY BatchTyped
<1>2. batch' = [batch EXCEPT ![w] = Append(batch[w], t)]
  BY DEF Put
<1>3. batch'[w] = Append(batch[w], t) /\ \A u \in Worker : u # w => batch'[u] = batch[u]
  BY <1>2 DEF TypeOK
<1>4. /\ Append(batch[w], t) \in Seq(Ticket)
      /\ Len(Append(batch[w], t)) = new
      /\ \A i \in 1 .. Len(batch[w]) : Append(batch[w], t)[i] = batch[w][i]
      /\ Append(batch[w], t)[new] = t
  BY <1>1, AppendProperties
<1>5. DOMAIN Append(batch[w], t) = 1 .. new
  BY <1>4, LenProperties
<1>6. batch' \in [Worker -> Seq(Ticket)]
  BY <1>2, <1>4 DEF TypeOK
<1>7. 1 .. new = (1 .. Len(batch[w])) \cup {new} /\ new \notin 1 .. Len(batch[w])
  BY <1>1
<1>8. \A u \in Worker : DOMAIN batch'[u] = 1 .. Len(batch'[u])
  BY <1>1, <1>3, <1>4, <1>5
<1>9. QED
  BY <1>1, <1>3, <1>4, <1>5, <1>6, <1>7, <1>8

\* Adding a ticket keeps the accounts.
LEMMA PutAccounts ==
    ASSUME TypeOK, FinitelyHeld, InFlightAccounted,
           NEW w \in Worker, NEW t \in Ticket, Put(w, t)
    PROVE  FinitelyHeld' /\ InFlightAccounted' /\ nInFlight' \in [Node -> Nat]
<1> DEFINE new == <<w, Len(batch[w]) + 1>>
<1>1. \A x \in Node : Through(x)' = IF x \in Passes(t) THEN Through(x) \cup {new} ELSE Through(x)
  <2> TAKE x \in Node
  <2> DEFINE last == Len(batch[w]) + 1
  <2>1. /\ \A u \in Worker : \A i \in DOMAIN batch'[u] :
              \/ i \in DOMAIN batch[u] /\ batch'[u][i] = batch[u][i]
              \/ u = w /\ i = last
        /\ \A u \in Worker : \A i \in DOMAIN batch[u] :
              i \in DOMAIN batch'[u] /\ batch'[u][i] = batch[u][i]
        /\ last \in DOMAIN batch'[w] /\ batch'[w][last] = t
    BY PutAdds
  <2> HIDE DEF last
  <2>2. \A u, i : <<u, i>> \in Through(x)' <=>
           <<u, i>> \in Through(x) \/ (u = w /\ i = last /\ x \in Passes(t))
    BY <2>1, ThroughPairs, ThroughPairsNext
  <2>3. /\ \A s \in Through(x) : s = <<s[1], s[2]>>
        /\ \A s \in Through(x)' : s = <<s[1], s[2]>>
    BY ThroughPairs, ThroughPairsNext
  <2>4. \A s : s \in Through(x)' <=> s \in Through(x) \/ (s = <<w, last>> /\ x \in Passes(t))
    BY <2>2, <2>3
  <2>5. CASE x \in Passes(t)
    BY <2>4, <2>5 DEF last
  <2>6. CASE x \notin Passes(t)
    BY <2>4, <2>6
  <2>7. QED
    BY <2>5, <2>6
<1>2. \A x \in Node : new \notin Through(x)
  BY PutAdds, ThroughPairs
<1>3. \A x \in Node : /\ IsFiniteSet(Through(x)) /\ IsFiniteSet(Through(x) \cup {new})
                      /\ Cardinality(Through(x) \cup {new}) = Cardinality(Through(x)) + 1
  BY <1>2, FS_AddElement DEF FinitelyHeld
<1>4. \A x \in Node : nInFlight'[x] = nInFlight[x] + (IF x \in Passes(t) THEN 1 ELSE 0)
  BY DEF Put
<1>5. nInFlight' \in [Node -> Nat]
  BY DEF Put, TypeOK
<1>6. FinitelyHeld'
  BY <1>1, <1>3 DEF FinitelyHeld
<1>7. InFlightAccounted'
  <2> SUFFICES ASSUME NEW x \in Node
               PROVE  nInFlight'[x] = Cardinality(Through(x)')
    BY DEF InFlightAccounted
  <2>1. nInFlight[x] = Cardinality(Through(x)) /\ nInFlight[x] \in Nat
    BY DEF InFlightAccounted, TypeOK
  <2>2. CASE x \in Passes(t)
    BY <2>1, <2>2, <1>1, <1>3, <1>4
  <2>3. CASE x \notin Passes(t)
    BY <2>1, <2>3, <1>1, <1>4
  <2>4. QED
    BY <2>2, <2>3
<1>8. QED
  BY <1>5, <1>6, <1>7

-----------------------------------------------------------------------------
(***************************************************************************)
(* Steps that leave the nodes of all tickets alone.                        *)
(***************************************************************************)
SameTickets ==
    \A u \in Worker :
        /\ Len(batch'[u]) = Len(batch[u])
        /\ DOMAIN batch'[u] = DOMAIN batch[u]
        /\ \A i \in DOMAIN batch[u] : /\ batch'[u][i].node = batch[u][i].node
                                      /\ batch'[u][i].collision = batch[u][i].collision

Resolves ==
    \A x \in Node : (expanded[x] => expanded'[x]) /\ (terminal[x] => terminal'[x])

LEMMA SameTicketsKeep ==
    ASSUME IInv, SameTickets, Resolves, UNCHANGED <<n, nInFlight>>
    PROVE  /\ FinitelyHeld' /\ InFlightAccounted'
           /\ OneFirstVisit' /\ VisitedIsResolved' /\ AboveIsExpanded'
<1>1. \A u \in Worker : \A i \in DOMAIN batch[u] : batch[u][i].node \in Node
  BY BatchTyped DEF IInv, Ticket
<1>2. \A x : Through(x)' = Through(x)
  <2> TAKE x
  <2>1. \A u \in Worker : \A i \in DOMAIN batch[u] : Passes(batch'[u][i]) = Passes(batch[u][i])
    BY DEF SameTickets, Passes
  <2>2. \A u, i : <<u, i>> \in Through(x)' <=> <<u, i>> \in Through(x)
    BY <2>1, ThroughPairs, ThroughPairsNext DEF SameTickets
  <2>3. /\ \A s \in Through(x) : s = <<s[1], s[2]>>
        /\ \A s \in Through(x)' : s = <<s[1], s[2]>>
    BY ThroughPairs, ThroughPairsNext
  <2>4. \A s : s \in Through(x)' <=> s \in Through(x)
    BY <2>2, <2>3
  <2>5. QED
    BY <2>4
<1>3. FinitelyHeld' /\ InFlightAccounted'
  BY <1>2 DEF IInv, FinitelyHeld, InFlightAccounted
<1>4. OneFirstVisit'
  <2>1. OneFirstVisit /\ n' = n
    BY DEF IInv
  <2>2. \A u \in Worker : /\ DOMAIN batch'[u] = DOMAIN batch[u]
                         /\ \A i \in DOMAIN batch[u] : /\ batch'[u][i].node = batch[u][i].node
                                                       /\ IsVisit(u, i)' = IsVisit(u, i)
    BY DEF SameTickets, IsVisit
  <2>3. QED
    BY <2>1, <2>2 DEF OneFirstVisit
<1>5. VisitedIsResolved'
  BY DEF IInv, VisitedIsResolved, Resolves
<1>6. AboveIsExpanded'
  <2>1. \A u \in Worker : \A i \in DOMAIN batch[u] :
           batch'[u][i].node = batch[u][i].node /\ Above(batch[u][i].node) \subseteq Node
    BY <1>1, TreeAssumption DEF SameTickets, Above
  <2>2. \A u \in Worker : \A i \in DOMAIN batch[u] :
           \A a \in Above(batch[u][i].node) : expanded[a] /\ a \in Node
    BY <2>1 DEF IInv, AboveIsExpanded
  <2>3. \A u \in Worker : \A i \in DOMAIN batch'[u] :
           \A a \in Above(batch'[u][i].node) : expanded'[a]
    BY <2>1, <2>2 DEF SameTickets, Resolves
  <2>4. QED
    BY <2>3 DEF AboveIsExpanded, Above
<1>7. QED
  BY <1>3, <1>4, <1>5, <1>6

-----------------------------------------------------------------------------
LEMMA InitIInv == Init => IInv
<1> SUFFICES ASSUME Init PROVE IInv
  OBVIOUS
<1>1. \A u \in Worker : batch[u] = <<>> /\ DOMAIN batch[u] = {}
  BY DEF Init
<1>2. \A x \in Node : Through(x) = {}
  BY <1>1, ThroughPairs
<1>3. TypeOK
  <2>1. /\ n \in [Node -> Nat] /\ nInFlight \in [Node -> Nat]
        /\ total \in [Node -> Int]
    BY DEF Init
  <2>2. /\ expanded \in [Node -> BOOLEAN] /\ terminal \in [Node -> BOOLEAN]
        /\ pc \in [Worker -> {"gather", "extend", "full", "evaluate", "backup", "loop", "done"}]
        /\ stop \in BOOLEAN
    BY DEF Init
  <2>3. batch \in [Worker -> Seq(Ticket)]
    BY EmptySeq DEF Init
  <2>4. QED
    BY <2>1, <2>2, <2>3 DEF TypeOK
<1>4. FinitelyHeld /\ InFlightAccounted
  BY <1>2, FS_EmptySet DEF Init, FinitelyHeld, InFlightAccounted
<1>5. ExtendsLast /\ OneFirstVisit /\ VisitedIsResolved /\ AboveIsExpanded /\ HeldIsResolved
  BY <1>1 DEF Init, ExtendsLast, OneFirstVisit, VisitedIsResolved, AboveIsExpanded, HeldIsResolved
<1>6. QED
  BY <1>3, <1>4, <1>5 DEF IInv

\* ExtendNode is at the node of the last ticket, and touches no other.
LEMMA ExtendNodeTickets ==
    ASSUME IInv, NEW w \in Worker, ExtendNode(w)
    PROVE  /\ Len(batch[w]) \in DOMAIN batch[w]
           /\ batch[w][Len(batch[w])] \in Ticket
           /\ batch[w][Len(batch[w])].node \in Node
           /\ pc[w] = "extend"
           /\ batch' \in [Worker -> Seq(Ticket)] /\ SameTickets
           /\ \A u \in Worker : \A i \in DOMAIN batch[u] : batch'[u][i].v = batch[u][i].v
<1> DEFINE last == Len(batch[w])
           x == batch[w][last].node
<1>1. /\ batch[w] \in Seq(Ticket) /\ last \in DOMAIN batch[w] /\ last \in 1 .. Len(batch[w])
      /\ batch[w][last] \in Ticket /\ x \in Node
      /\ pc[w] = "extend"
  <2>1. batch[w] # <<>> /\ pc[w] = "extend"
    BY DEF IInv, ExtendsLast, ExtendNode
  <2>2. batch[w] \in Seq(Ticket) /\ last \in Nat /\ DOMAIN batch[w] = 1 .. last
    BY BatchTyped DEF IInv
  <2>3. last \in 1 .. last
    BY <2>1, <2>2, EmptySeq
  <2>4. QED
    BY <2>1, <2>2, <2>3, BatchTyped DEF IInv, Ticket
<1>2. /\ batch' \in [Worker -> Seq(Ticket)] /\ SameTickets
      /\ \A u \in Worker : \A i \in DOMAIN batch[u] : batch'[u][i].v = batch[u][i].v
  <2>1. CASE batch' = batch
    BY <2>1 DEF SameTickets, IInv, TypeOK
  <2>2. CASE batch' = [batch EXCEPT ![w][last].queried = TRUE]
    <3> DEFINE t == [batch[w][last] EXCEPT !.queried = TRUE]
               s == [batch[w] EXCEPT ![last] = t]
    <3>1. /\ t \in Ticket /\ t.node = x /\ t.collision = batch[w][last].collision
          /\ t.v = batch[w][last].v
      BY <1>1 DEF Ticket
    <3>2. /\ s \in Seq(Ticket)
          /\ Len(s) = Len(batch[w])
          /\ \A j \in 1 .. Len(batch[w]) : s[j] = IF j = last THEN t ELSE batch[w][j]
      BY <1>1, <3>1, ExceptSeq
    <3>3. DOMAIN s = DOMAIN batch[w] /\ DOMAIN batch[w] = 1 .. Len(batch[w])
      BY <1>1, LenProperties
    <3>4. batch' = [batch EXCEPT ![w] = s]
      BY <2>2
    <3>5. batch'[w] = s /\ \A u \in Worker : u # w => batch'[u] = batch[u]
      BY <3>4 DEF IInv, TypeOK
    <3>6. batch' \in [Worker -> Seq(Ticket)]
      BY <3>2, <3>4 DEF IInv, TypeOK
    <3> HIDE DEF t, s
    <3>7. SameTickets
      BY <3>1, <3>2, <3>3, <3>5 DEF SameTickets
    <3>8. \A u \in Worker : \A i \in DOMAIN batch[u] : batch'[u][i].v = batch[u][i].v
      BY <3>1, <3>2, <3>3, <3>5
    <3>9. QED
      BY <3>6, <3>7, <3>8
  <2>3. QED
    BY <2>1, <2>2 DEF ExtendNode
<1>3. QED
  BY <1>1, <1>2

\* ExtendNode marks a leaf, and its ticket when the network is asked.
LEMMA ExtendNodeKeeps ==
    ASSUME IInv, NEW w \in Worker, ExtendNode(w)
    PROVE  IInv'
<1> DEFINE last == Len(batch[w])
           x == batch[w][last].node
<1>1. /\ last \in DOMAIN batch[w] /\ batch[w][last] \in Ticket /\ x \in Node
      /\ pc[w] = "extend"
  BY ExtendNodeTickets
<1>2. batch' \in [Worker -> Seq(Ticket)] /\ SameTickets
  BY ExtendNodeTickets
<1>3. /\ UNCHANGED <<n, nInFlight, stop>>
      /\ pc' = [pc EXCEPT ![w] = "full"]
      /\ \/ total' = total
         \/ total' = [total EXCEPT ![x] = TerminalValue(x) * Weight(x)]
      /\ \/ expanded' = [expanded EXCEPT ![x] = TRUE] /\ terminal' = terminal
         \/ terminal' = [terminal EXCEPT ![x] = TRUE] /\ expanded' = expanded
  BY DEF ExtendNode
<1> HIDE DEF last, x
<1>4. TypeOK'
  <2>1. TerminalValue(x) * Weight(x) \in Int
    <3>1. TerminalValue(x) \in Int
      BY SearchAssumption DEF TerminalValue
    <3>2. Weight(x) \in Nat
      BY <1>1, GetQIsInt DEF IInv
    <3>3. QED
      BY <3>1, <3>2
  <2>2. total' \in [Node -> Int]
    BY <1>1, <1>3, <2>1 DEF IInv, TypeOK
  <2>3. QED
    BY <1>2, <1>3, <2>2 DEF IInv, TypeOK
<1>5. Resolves
  BY <1>3 DEF Resolves, IInv, TypeOK
<1>6. expanded'[x] \/ terminal'[x]
  BY <1>1, <1>3 DEF IInv, TypeOK
<1>7. \A u \in Worker : u # w =>
         /\ pc'[u] = pc[u]
         /\ pc[u] = "extend" => batch[u] # <<>> /\ batch[u][Len(batch[u])].node # x
  <2> SUFFICES ASSUME NEW u \in Worker, u # w
               PROVE  /\ pc'[u] = pc[u]
                      /\ pc[u] = "extend" => batch[u] # <<>> /\ batch[u][Len(batch[u])].node # x
    OBVIOUS
  <2>1. pc'[u] = pc[u]
    BY <1>3 DEF IInv, TypeOK
  <2>2. ASSUME pc[u] = "extend"
        PROVE  batch[u] # <<>> /\ batch[u][Len(batch[u])].node # x
    <3>1. /\ batch[u] # <<>> /\ IsVisit(u, Len(batch[u])) /\ IsVisit(w, last)
          /\ ~expanded[x] /\ ~terminal[x]
      BY <1>1, <2>2 DEF IInv, ExtendsLast, last, x
    <3>2. Len(batch[u]) \in DOMAIN batch[u]
      BY <3>1, BatchTyped, EmptySeq DEF IInv
    <3>3. ~(n[x] > 0) => n[x] = 0
      BY <1>1 DEF IInv, TypeOK
    <3>4. n[x] = 0
      BY <1>1, <3>1, <3>3 DEF IInv, VisitedIsResolved
    <3>5. QED
      BY <1>1, <3>1, <3>2, <3>4 DEF IInv, OneFirstVisit, last, x
  <2>3. QED
    BY <2>1, <2>2
<1>8. ExtendsLast'
  <2> SUFFICES ASSUME NEW u \in Worker, pc'[u] = "extend"
               PROVE  /\ batch'[u] # <<>>
                      /\ ~batch'[u][Len(batch'[u])].collision
                      /\ ~expanded'[batch'[u][Len(batch'[u])].node]
                      /\ ~terminal'[batch'[u][Len(batch'[u])].node]
    BY DEF ExtendsLast, IsVisit
  <2> DEFINE y == batch[u][Len(batch[u])].node
  <2>1. u # w /\ pc[u] = "extend" /\ batch[u] # <<>> /\ y # x
    BY <1>3, <1>7 DEF IInv, TypeOK
  <2>2. IsVisit(u, Len(batch[u])) /\ ~expanded[y] /\ ~terminal[y]
    BY <2>1 DEF IInv, ExtendsLast
  <2>3. Len(batch[u]) \in DOMAIN batch[u] /\ y \in Node
    BY <2>1, BatchTyped, EmptySeq DEF IInv, Ticket
  <2>4. /\ Len(batch'[u]) = Len(batch[u])
        /\ batch'[u][Len(batch[u])].node = y
        /\ batch'[u][Len(batch[u])].collision = batch[u][Len(batch[u])].collision
    BY <1>2, <2>3 DEF SameTickets
  <2>5. batch'[u] # <<>>
    BY <2>3, <2>4, BatchTyped, EmptySeq DEF IInv
  <2>6. ~expanded'[y] /\ ~terminal'[y]
    BY <1>3, <2>1, <2>2, <2>3 DEF IInv, TypeOK
  <2>7. QED
    BY <2>2, <2>4, <2>5, <2>6 DEF IsVisit
<1>9. HeldIsResolved'
  <2> SUFFICES ASSUME NEW u \in Worker, NEW i \in DOMAIN batch[u], ~batch[u][i].collision
               PROVE  \/ expanded'[batch[u][i].node] \/ terminal'[batch[u][i].node]
                      \/ pc'[u] = "extend" /\ i = Len(batch[u])
    BY <1>2 DEF SameTickets, HeldIsResolved, IsVisit
  <2>1. batch[u][i].node \in Node
    BY BatchTyped DEF IInv, Ticket
  <2>2. CASE expanded[batch[u][i].node] \/ terminal[batch[u][i].node]
    BY <1>5, <2>1, <2>2 DEF Resolves
  <2>3. CASE u = w /\ i = Len(batch[u])
    BY <1>6, <2>3 DEF last, x
  <2>4. CASE u # w /\ pc[u] = "extend" /\ i = Len(batch[u])
    BY <1>7, <2>4
  <2>5. QED
    BY <2>2, <2>3, <2>4 DEF IInv, HeldIsResolved, IsVisit
<1>10. QED
  BY <1>2, <1>3, <1>4, <1>5, <1>8, <1>9, SameTicketsKeep DEF IInv

\* A step that moves one worker on, away from ExtendNode.
LEMMA MoveOnKeeps ==
    ASSUME IInv, NEW w \in Worker, TypeOK', SameTickets,
           UNCHANGED <<n, nInFlight, expanded, terminal>>,
           pc[w] # "extend", pc'[w] # "extend",
           \A u \in Worker : u # w => pc'[u] = pc[u] /\ batch'[u] = batch[u]
    PROVE  IInv'
<1>1. Resolves
  BY DEF Resolves
<1>2. ExtendsLast'
  BY DEF IInv, ExtendsLast, IsVisit
<1>3. HeldIsResolved'
  BY DEF IInv, HeldIsResolved, IsVisit, SameTickets
<1>4. QED
  BY <1>1, <1>2, <1>3, SameTicketsKeep DEF IInv

LEMMA GatherOnKeeps ==
    ASSUME IInv, NEW w \in Worker, GatherOn(w)
    PROVE  IInv'
<1>1. SameTickets
  BY DEF GatherOn, SameTickets
<1>2. /\ pc[w] = "full" /\ pc'[w] \in {"evaluate", "gather"}
      /\ pc' = [pc EXCEPT ![w] = pc'[w]]
  BY DEF GatherOn, IInv, TypeOK
<1>3. TypeOK'
  BY <1>2 DEF GatherOn, IInv, TypeOK
<1>4. QED
  BY <1>1, <1>2, <1>3, MoveOnKeeps DEF GatherOn, IInv, TypeOK

LEMMA NextIterationKeeps ==
    ASSUME IInv, NEW w \in Worker, NextIteration(w)
    PROVE  IInv'
<1>1. SameTickets
  BY DEF NextIteration, SameTickets
<1>2. /\ pc[w] = "loop" /\ pc'[w] \in {"done", "gather"}
      /\ pc' = [pc EXCEPT ![w] = pc'[w]]
  BY DEF NextIteration, IInv, TypeOK
<1>3. TypeOK'
  BY <1>2 DEF NextIteration, IInv, TypeOK
<1>4. QED
  BY <1>1, <1>2, <1>3, MoveOnKeeps DEF NextIteration, IInv, TypeOK

\* Evaluate writes the values of the tickets, and nothing else.
LEMMA EvaluateTickets ==
    ASSUME IInv, NEW w \in Worker, Evaluate(w)
    PROVE  /\ batch' \in [Worker -> Seq(Ticket)] /\ SameTickets
           /\ \A u \in Worker : u # w => batch'[u] = batch[u]
           /\ \A i \in DOMAIN batch[w] :
                 /\ batch'[w][i].queried = batch[w][i].queried
                 /\ IF batch[w][i].queried THEN batch'[w][i].v \in Values
                    ELSE batch'[w][i].v = GetQ(batch[w][i].node)
<1>1. /\ batch[w] \in Seq(Ticket)
      /\ Len(batch[w]) \in Nat
      /\ DOMAIN batch[w] = 1 .. Len(batch[w])
      /\ \A i \in DOMAIN batch[w] : batch[w][i] \in Ticket
  BY BatchTyped DEF IInv
<1>2. PICK answer \in [{i \in DOMAIN batch[w] : batch[w][i].queried} -> Values] :
         batch' = [batch EXCEPT ![w] =
             [i \in DOMAIN batch[w] |->
                 [batch[w][i] EXCEPT !.v =
                     IF batch[w][i].queried THEN answer[i] ELSE GetQ(batch[w][i].node)]]]
  BY DEF Evaluate
<1> DEFINE fetched(i) == IF batch[w][i].queried THEN answer[i] ELSE GetQ(batch[w][i].node)
           s == [i \in DOMAIN batch[w] |-> [batch[w][i] EXCEPT !.v = fetched(i)]]
<1>3. \A i \in DOMAIN batch[w] :
         /\ s[i] \in Ticket
         /\ s[i].node = batch[w][i].node
         /\ s[i].collision = batch[w][i].collision
         /\ s[i].queried = batch[w][i].queried
         /\ IF batch[w][i].queried THEN s[i].v \in Values ELSE s[i].v = GetQ(batch[w][i].node)
  <2> SUFFICES ASSUME NEW i \in DOMAIN batch[w]
               PROVE  /\ s[i] \in Ticket
                      /\ s[i].node = batch[w][i].node
                      /\ s[i].collision = batch[w][i].collision
                      /\ s[i].queried = batch[w][i].queried
                      /\ IF batch[w][i].queried THEN s[i].v \in Values
                         ELSE s[i].v = GetQ(batch[w][i].node)
    OBVIOUS
  <2>1. batch[w][i] \in Ticket
    BY <1>1
  <2>2. batch[w][i].queried => fetched(i) \in Values
    BY i \in {j \in DOMAIN batch[w] : batch[w][j].queried} <=> batch[w][i].queried
  <2>3. ~batch[w][i].queried => fetched(i) = GetQ(batch[w][i].node)
    OBVIOUS
  <2>4. fetched(i) \in Int
    <3>1. \A k \in Values : k \in Int
      BY SearchAssumption
    <3>2. GetQ(batch[w][i].node) \in Int
      BY <2>1, GetQIsInt DEF IInv, Ticket
    <3>3. QED
      BY <2>2, <2>3, <3>1, <3>2
  <2> DEFINE f == fetched(i)
  <2>5. s[i] = [batch[w][i] EXCEPT !.v = f]
    OBVIOUS
  <2> HIDE DEF f, s
  <2>6. /\ s[i] \in Ticket /\ s[i].v = f
        /\ s[i].node = batch[w][i].node
        /\ s[i].collision = batch[w][i].collision
        /\ s[i].queried = batch[w][i].queried
    <3>1. f \in Int
      BY <2>4 DEF f
    <3>2. QED
      BY <2>1, <2>5, <3>1 DEF Ticket
  <2>7. QED
    BY <2>2, <2>3, <2>6 DEF f
<1>4. s \in Seq(Ticket) /\ Len(s) = Len(batch[w]) /\ DOMAIN s = DOMAIN batch[w]
  <2>1. s \in [1 .. Len(batch[w]) -> Ticket]
    BY <1>1, <1>3
  <2> HIDE DEF s
  <2>2. s \in Seq(Ticket)
    <3>1. [1 .. Len(batch[w]) -> Ticket] \in {[1 .. k -> Ticket] : k \in Nat}
      BY <1>1
    <3>2. s \in UNION {[1 .. k -> Ticket] : k \in Nat}
      BY <2>1, <3>1, Zenon
    <3>3. QED
      BY <3>2, SeqDef, Zenon
  <2>3. Len(s) = Len(batch[w])
    <3>1. s \in [1 .. Len(s) -> Ticket] /\ Len(s) \in Nat
      BY <2>2, LenProperties
    <3>2. 1 .. Len(s) = 1 .. Len(batch[w])
      BY <2>1, <3>1
    <3>3. \A a, b \in Nat : 1 .. a = 1 .. b => a = b
      <4> SUFFICES ASSUME NEW a \in Nat, NEW b \in Nat, 1 .. a = 1 .. b
                   PROVE  ~(a < b) /\ ~(b < a)
        OBVIOUS
      <4>1. ~(a < b)
        BY b \in 1 .. b => b <= a
      <4>2. ~(b < a)
        BY a \in 1 .. a => a <= b
      <4>3. QED
        BY <4>1, <4>2
    <3>4. QED
      BY <1>1, <3>1, <3>2, <3>3
  <2>4. QED
    BY <1>1, <2>1, <2>2, <2>3
<1>5. batch' = [batch EXCEPT ![w] = s]
  BY <1>2
<1> HIDE DEF s
<1>6. batch'[w] = s /\ \A u \in Worker : u # w => batch'[u] = batch[u]
  BY <1>5 DEF IInv, TypeOK
<1>7. SameTickets
  BY <1>3, <1>4, <1>6 DEF SameTickets
<1>8. batch' \in [Worker -> Seq(Ticket)]
  BY <1>4, <1>5 DEF IInv, TypeOK
<1>9. QED
  BY <1>3, <1>6, <1>7, <1>8

LEMMA EvaluateKeeps ==
    ASSUME IInv, NEW w \in Worker, Evaluate(w)
    PROVE  IInv'
<1>1. /\ batch' \in [Worker -> Seq(Ticket)] /\ SameTickets
      /\ \A u \in Worker : u # w => batch'[u] = batch[u]
  BY EvaluateTickets
<1>2. TypeOK'
  BY <1>1 DEF Evaluate, IInv, TypeOK
<1>3. pc[w] = "evaluate" /\ pc'[w] = "backup" /\ \A u \in Worker : u # w => pc'[u] = pc[u]
  BY DEF Evaluate, IInv, TypeOK
<1>4. QED
  BY <1>1, <1>2, <1>3, MoveOnKeeps DEF Evaluate

\* What the two ways to put a ticket in have in common: the descent ended there.
LEMMA PickedKeeps ==
    ASSUME IInv, NEW w \in Worker, NEW x \in Picked, NEW t \in Ticket,
           t.node = x, Put(w, t)
    PROVE  VisitedIsResolved' /\ AboveIsExpanded'
<1>1. /\ \A u \in Worker : \A i \in DOMAIN batch'[u] :
            \/ i \in DOMAIN batch[u] /\ batch'[u][i] = batch[u][i]
            \/ u = w /\ i = Len(batch[w]) + 1
      /\ batch'[w][Len(batch[w]) + 1] = t
  BY PutAdds DEF IInv
<1>2. UNCHANGED <<n, expanded, terminal>>
  BY DEF Put
<1>3. \A a \in Above(x) : expanded[a]
  BY DEF Picked, IsLeaf, Above
<1>4. VisitedIsResolved'
  BY <1>2 DEF IInv, VisitedIsResolved
<1>5. AboveIsExpanded'
  <2> SUFFICES ASSUME NEW u \in Worker, NEW i \in DOMAIN batch'[u],
                      NEW a \in Above(batch'[u][i].node)
               PROVE  expanded[a]
    BY <1>2 DEF AboveIsExpanded, Above
  <2>1. CASE i \in DOMAIN batch[u] /\ batch'[u][i] = batch[u][i]
    BY <2>1 DEF IInv, AboveIsExpanded
  <2>2. CASE u = w /\ i = Len(batch[w]) + 1
    BY <1>1, <1>3, <2>2
  <2>3. QED
    BY <1>1, <2>1, <2>2
<1>6. QED
  BY <1>4, <1>5

LEMMA PickCollisionKeeps ==
    ASSUME IInv, NEW w \in Worker, PickCollision(w)
    PROVE  IInv'
<1>1. PICK x \in Picked : Collides(x) /\ Put(w, Collision(x))
  BY DEF PickCollision
<1> DEFINE t == Collision(x)
           new == Len(batch[w]) + 1
<1>2. x \in Node /\ t \in Ticket /\ t.node = x /\ t.collision
  <2>1. x \in Node
    BY DEF Picked
  <2>2. t = [node |-> x, collision |-> TRUE, queried |-> FALSE, v |-> 0]
    BY DEF Collision
  <2>3. QED
    BY <2>1, <2>2 DEF Ticket
<1> HIDE DEF t
<1>3. Put(w, t)
  BY <1>1 DEF t
<1>4. FinitelyHeld' /\ InFlightAccounted' /\ nInFlight' \in [Node -> Nat]
  BY <1>2, <1>3, PutAccounts DEF IInv
<1>5. VisitedIsResolved' /\ AboveIsExpanded'
  BY <1>2, <1>3, PickedKeeps
<1>6. /\ batch' \in [Worker -> Seq(Ticket)]
      /\ \A u \in Worker : \A i \in DOMAIN batch'[u] :
            \/ i \in DOMAIN batch[u] /\ batch'[u][i] = batch[u][i]
            \/ u = w /\ i = new
      /\ batch'[w][new] = t
      /\ \A u \in Worker : u # w => batch'[u] = batch[u]
  BY <1>2, <1>3, PutAdds DEF IInv
<1> HIDE DEF new
<1>7. UNCHANGED <<n, total, expanded, terminal, stop>>
  BY <1>3 DEF Put
<1>8. /\ pc[w] = "gather" /\ pc'[w] \in {"evaluate", "gather"}
      /\ pc' = [pc EXCEPT ![w] = pc'[w]]
      /\ \A u \in Worker : u # w => pc'[u] = pc[u]
  BY DEF PickCollision, IInv, TypeOK
<1>9. TypeOK'
  BY <1>4, <1>6, <1>7, <1>8 DEF IInv, TypeOK
<1>10. \A u \in Worker : \A i \in DOMAIN batch'[u] :
         ~batch'[u][i].collision => i \in DOMAIN batch[u] /\ batch'[u][i] = batch[u][i]
  BY <1>2, <1>6
<1>11. ExtendsLast'
  BY <1>6, <1>7, <1>8 DEF IInv, ExtendsLast, IsVisit
<1>12. OneFirstVisit'
  BY <1>7, <1>10 DEF IInv, OneFirstVisit, IsVisit
<1>13. HeldIsResolved'
  BY <1>6, <1>7, <1>8, <1>10 DEF IInv, HeldIsResolved, IsVisit
<1>14. QED
  BY <1>4, <1>5, <1>9, <1>11, <1>12, <1>13 DEF IInv

LEMMA PickVisitKeeps ==
    ASSUME IInv, NEW w \in Worker, PickVisit(w)
    PROVE  IInv'
<1>1. PICK x \in Picked :
         /\ ~Collides(x) /\ Put(w, Visit(x))
         /\ pc' = [pc EXCEPT ![w] = IF terminal[x] THEN "full" ELSE "extend"]
  BY DEF PickVisit
<1> DEFINE t == Visit(x)
           new == Len(batch[w]) + 1
<1>2. x \in Node /\ t \in Ticket /\ t.node = x /\ ~t.collision
  BY DEF Picked, Visit, Ticket
<1> HIDE DEF t
<1>3. Put(w, t)
  BY <1>1 DEF t
<1>4. FinitelyHeld' /\ InFlightAccounted' /\ nInFlight' \in [Node -> Nat]
  BY <1>2, <1>3, PutAccounts DEF IInv
<1>5. VisitedIsResolved' /\ AboveIsExpanded'
  BY <1>2, <1>3, PickedKeeps
<1>6. /\ batch' \in [Worker -> Seq(Ticket)]
      /\ Len(batch'[w]) = new
      /\ \A u \in Worker : \A i \in DOMAIN batch'[u] :
            \/ i \in DOMAIN batch[u] /\ batch'[u][i] = batch[u][i]
            \/ u = w /\ i = new
      /\ batch'[w][new] = t
      /\ new \in DOMAIN batch'[w]
      /\ \A u \in Worker : u # w => batch'[u] = batch[u]
  BY <1>2, <1>3, PutAdds DEF IInv
<1>7. batch'[w] # <<>>
  BY <1>6, BatchTyped, EmptySeq DEF IInv
<1> HIDE DEF new
<1>8. UNCHANGED <<n, total, expanded, terminal, stop>>
  BY <1>3 DEF Put
<1>9. pc[w] = "gather" /\ \A u \in Worker : u # w => pc'[u] = pc[u]
  BY <1>1 DEF PickVisit, IInv, TypeOK
<1>10. IF terminal[x] THEN pc'[w] = "full" ELSE pc'[w] = "extend"
  BY <1>1 DEF IInv, TypeOK
<1>11. TypeOK'
  BY <1>1, <1>4, <1>6, <1>8 DEF IInv, TypeOK
<1>12. terminal[x] \/ ~expanded[x]
  BY <1>1 DEF Picked, IsLeaf
<1>13. ExtendsLast'
  <2> SUFFICES ASSUME NEW u \in Worker, pc'[u] = "extend"
               PROVE  /\ batch'[u] # <<>>
                      /\ ~batch'[u][Len(batch'[u])].collision
                      /\ ~expanded[batch'[u][Len(batch'[u])].node]
                      /\ ~terminal[batch'[u][Len(batch'[u])].node]
    BY <1>8 DEF ExtendsLast, IsVisit
  <2>1. CASE u = w
    BY <2>1, <1>2, <1>6, <1>7, <1>10, <1>12
  <2>2. CASE u # w
    BY <2>2, <1>6, <1>9 DEF IInv, ExtendsLast, IsVisit
  <2>3. QED
    BY <2>1, <2>2
<1>14. \* no other visit of the node, when it was never backed up
       ASSUME n[x] = 0, NEW u \in Worker, NEW i \in DOMAIN batch[u], ~batch[u][i].collision
       PROVE  batch[u][i].node # x
  <2>1. nInFlight[x] \in Nat /\ ~(nInFlight[x] > 0)
    BY <1>1, <1>2, <1>14 DEF Collides, IInv, TypeOK
  <2>2. Cardinality(Through(x)) = 0 /\ IsFiniteSet(Through(x))
    BY <1>2, <2>1 DEF IInv, InFlightAccounted, FinitelyHeld
  <2>3. Through(x) = {}
    BY <2>2, FS_EmptySet
  <2>4. <<u, i>> \notin Through(x)
    BY <2>3
  <2>5. x \notin Path[batch[u][i].node]
    BY <1>14, <2>4, ThroughPairs DEF Passes
  <2>6. QED
    BY <1>2, <2>5, TreeAssumption
<1>15. OneFirstVisit'
  <2> SUFFICES ASSUME NEW u \in Worker, NEW v \in Worker,
                      NEW i \in DOMAIN batch'[u], NEW j \in DOMAIN batch'[v],
                      ~batch'[u][i].collision, ~batch'[v][j].collision,
                      batch'[u][i].node = batch'[v][j].node,
                      n[batch'[u][i].node] = 0
               PROVE  u = v /\ i = j
    BY <1>8 DEF OneFirstVisit, IsVisit
  <2>1. CASE i \in DOMAIN batch[u] /\ batch'[u][i] = batch[u][i]
             /\ j \in DOMAIN batch[v] /\ batch'[v][j] = batch[v][j]
    BY <2>1 DEF IInv, OneFirstVisit, IsVisit
  <2>2. CASE i \in DOMAIN batch[u] /\ batch'[u][i] = batch[u][i] /\ v = w /\ j = new
    BY <2>2, <1>2, <1>6, <1>14
  <2>3. CASE j \in DOMAIN batch[v] /\ batch'[v][j] = batch[v][j] /\ u = w /\ i = new
    BY <2>3, <1>2, <1>6, <1>14
  <2>4. QED
    BY <1>6, <2>1, <2>2, <2>3
<1>16. HeldIsResolved'
  <2> SUFFICES ASSUME NEW u \in Worker, NEW i \in DOMAIN batch'[u], ~batch'[u][i].collision
               PROVE  \/ expanded[batch'[u][i].node] \/ terminal[batch'[u][i].node]
                      \/ pc'[u] = "extend" /\ i = Len(batch'[u])
    BY <1>8 DEF HeldIsResolved, IsVisit
  <2>1. CASE u = w /\ i = new
    BY <2>1, <1>2, <1>6, <1>10
  <2>2. CASE i \in DOMAIN batch[u] /\ batch'[u][i] = batch[u][i]
    <3>1. CASE u = w
      BY <2>2, <3>1, <1>9 DEF IInv, HeldIsResolved, IsVisit
    <3>2. CASE u # w
      BY <2>2, <3>2, <1>6, <1>9 DEF IInv, HeldIsResolved, IsVisit
    <3>3. QED
      BY <3>1, <3>2
  <2>3. QED
    BY <1>6, <2>1, <2>2
<1>17. QED
  BY <1>4, <1>5, <1>11, <1>13, <1>15, <1>16 DEF IInv

\* The tickets of a worker that bring a visit to a node.
LEMMA VisitsHeldPairs ==
    ASSUME NEW w \in Worker, NEW x
    PROVE  /\ \A i : <<w, i>> \in VisitsHeld(w, x) <=>
                  i \in DOMAIN batch[w] /\ IsVisit(w, i) /\ x \in Path[batch[w][i].node]
           /\ \A t \in VisitsHeld(w, x) : t = <<w, t[2]>>
<1>1. \A t \in Through(x) : t = <<t[1], t[2]>>
  BY ThroughPairs
<1>2. \A t : t \in VisitsHeld(w, x) <=> t \in Through(x) /\ t[1] = w /\ ~TicketAt(t).collision
  BY DEF VisitsHeld, Held
<1>3. \A i : <<w, i>> \in Through(x) <=> i \in DOMAIN batch[w] /\ x \in Passes(batch[w][i])
  BY ThroughPairs
<1>4. \A i : <<w, i>> \in VisitsHeld(w, x) <=>
                  i \in DOMAIN batch[w] /\ IsVisit(w, i) /\ x \in Path[batch[w][i].node]
  <2> TAKE i
  <2>1. <<w, i>>[1] = w /\ TicketAt(<<w, i>>) = batch[w][i]
    BY DEF TicketAt
  <2>2. QED
    BY <1>2, <1>3, <2>1 DEF Passes, IsVisit
<1>5. \A t \in VisitsHeld(w, x) : t = <<w, t[2]>>
  BY <1>1, <1>2
<1>6. QED
  BY <1>4, <1>5

\* The same by the ticket.
LEMMA VisitHeld ==
    ASSUME TypeOK, NEW w \in Worker, NEW x \in Node, NEW t \in VisitsHeld(w, x)
    PROVE  /\ t = <<w, t[2]>> /\ t[2] \in DOMAIN batch[w] /\ IsVisit(w, t[2])
           /\ TicketAt(t) = batch[w][t[2]]
           /\ batch[w][t[2]] \in Ticket /\ batch[w][t[2]].node \in Node
           /\ x = batch[w][t[2]].node \/ x \in Above(batch[w][t[2]].node)
<1>1. t = <<w, t[2]>>
  BY VisitsHeldPairs
<1>2. t[2] \in DOMAIN batch[w] /\ IsVisit(w, t[2]) /\ x \in Path[batch[w][t[2]].node]
  <2>1. <<w, t[2]>> \in VisitsHeld(w, x)
    BY <1>1
  <2>2. QED
    BY <2>1, VisitsHeldPairs
<1>3. batch[w][t[2]] \in Ticket /\ batch[w][t[2]].node \in Node
  BY <1>2, BatchTyped DEF Ticket
<1>4. TicketAt(t) = batch[w][t[2]]
  <2>1. t[1] = w
    BY <1>1
  <2>2. QED
    BY <2>1 DEF TicketAt
<1>5. QED
  BY <1>1, <1>2, <1>3, <1>4 DEF Above

LEMMA VisitsHeldFinite ==
    ASSUME IInv, NEW w \in Worker, NEW x \in Node
    PROVE  /\ IsFiniteSet(VisitsHeld(w, x)) /\ Cardinality(VisitsHeld(w, x)) \in Nat
           /\ Cardinality(VisitsHeld(w, x)) = 0 <=> VisitsHeld(w, x) = {}
<1>1. VisitsHeld(w, x) \in SUBSET Through(x) /\ IsFiniteSet(Through(x))
  BY DEF VisitsHeld, Held, IInv, FinitelyHeld
<1>2. IsFiniteSet(VisitsHeld(w, x))
  BY <1>1, FS_Subset
<1>3. QED
  BY <1>2, FS_CardinalityType, FS_EmptySet

\* What a visit brings is a number.
LEMMA WorthIsInt ==
    ASSUME TypeOK, NEW w \in Worker, NEW x \in Node
    PROVE  \A t \in VisitsHeld(w, x) : Worth(t) \in Int
<1> SUFFICES ASSUME NEW t \in VisitsHeld(w, x)
             PROVE  Worth(t) \in Int
  OBVIOUS
<1> DEFINE y == TicketAt(t).node
<1>1. TicketAt(t) \in Ticket /\ y \in Node
  BY VisitHeld
<1>2. TicketAt(t).v \in Int
  BY <1>1 DEF Ticket
<1>3. GetQ(y) \in Int
  BY <1>1, GetQIsInt
<1>4. QED
  BY <1>2, <1>3 DEF Worth

\* A backup adds to what a node has earned what its visits are worth.
Worths(w, x) == [t \in VisitsHeld(w, x) |-> Worth(t)]

Gain(w, x) == SumFunctionOnSet(Worths(w, x), VisitsHeld(w, x))

LEMMA BackupTotals ==
    ASSUME IInv, NEW w \in Worker, DoBackupUpdate(w), NEW x \in Node
    PROVE  /\ Gain(w, x) \in Int /\ Earned[x] \in Int
           /\ VisitsHeld(w, x) = {} => total'[x] = total[x] /\ n'[x] = n[x] /\ Gain(w, x) = 0
           /\ VisitsHeld(w, x) # {} => total'[x] = Earned[x] + Gain(w, x) /\ n'[x] > 0
           /\ total'[x] \in Int
           /\ Earned'[x] = Earned[x] + Gain(w, x)
<1> DEFINE V == VisitsHeld(w, x)
           f == Worths(w, x)
<1>1. /\ total'[x] = IF V = {} THEN total[x] ELSE Earned[x] + SumFunction(f)
      /\ n'[x] = n[x] + Cardinality(V)
  BY DEF DoBackupUpdate, Worths
<1>2. n[x] \in Nat /\ total[x] \in Int
  BY DEF IInv, TypeOK
<1>3. Earned[x] = (IF n[x] > 0 THEN total[x] ELSE 0) /\ Earned[x] \in Int
  BY <1>2 DEF Earned
<1>4. Earned'[x] = IF n'[x] > 0 THEN total'[x] ELSE 0
  BY DEF Earned
<1>5. IsFiniteSet(V) /\ Cardinality(V) \in Nat /\ (Cardinality(V) = 0 <=> V = {})
  BY VisitsHeldFinite
<1>6. DOMAIN f = V /\ \A t \in V : f[t] \in Int
  BY WorthIsInt DEF Worths, IInv
<1> DEFINE g == SumFunctionOnSet(f, V)
<1>7. Gain(w, x) = g
  BY DEF Gain
<1> HIDE DEF V, f
<1>8. SumFunction(f) = g
  BY <1>6 DEF SumFunction
<1>9. g \in Int /\ (V = {} => g = 0)
  BY <1>5, <1>6, SumIsInt, SumEmpty
<1> HIDE DEF g
<1>10. V = {} => total'[x] = total[x] /\ n'[x] = n[x]
  BY <1>1, <1>2, <1>5
<1>11. V # {} => total'[x] = Earned[x] + g /\ n'[x] > 0
  BY <1>1, <1>2, <1>5, <1>8
<1>12. total'[x] \in Int /\ Earned'[x] = Earned[x] + g
  BY <1>2, <1>3, <1>4, <1>9, <1>10, <1>11
<1>13. QED
  BY <1>3, <1>7, <1>9, <1>10, <1>11, <1>12 DEF V

LEMMA DoBackupUpdateKeeps ==
    ASSUME IInv, NEW w \in Worker, DoBackupUpdate(w)
    PROVE  IInv'
<1>1. /\ batch' = [batch EXCEPT ![w] = <<>>]
      /\ pc' = [pc EXCEPT ![w] = "loop"]
      /\ pc[w] = "backup"
      /\ UNCHANGED <<expanded, terminal, stop>>
  BY DEF DoBackupUpdate
<1>2. /\ batch'[w] = <<>> /\ pc'[w] = "loop"
      /\ \A u \in Worker : u # w => batch'[u] = batch[u] /\ pc'[u] = pc[u]
      /\ DOMAIN batch'[w] = {}
  BY <1>1 DEF IInv, TypeOK
<1>3. \A x \in Node : Through(x)' = Through(x) \ Held(w, x)
  <2> TAKE x \in Node
  <2>1. \A u, i : <<u, i>> \in Through(x)' <=> <<u, i>> \in Through(x) /\ u # w
    <3> TAKE u, i
    <3>1. CASE u = w
      BY <3>1, <1>2, ThroughPairsNext
    <3>2. CASE u # w /\ u \in Worker
      <4>1. batch'[u] = batch[u]
        BY <3>2, <1>2
      <4>2. QED
        BY <3>2, <4>1, ThroughPairs, ThroughPairsNext
    <3>3. CASE u \notin Worker
      BY <3>3, ThroughPairs, ThroughPairsNext
    <3>4. QED
      BY <3>1, <3>2, <3>3
  <2>2. /\ \A s \in Through(x) : s = <<s[1], s[2]>>
        /\ \A s \in Through(x)' : s = <<s[1], s[2]>>
    BY ThroughPairs, ThroughPairsNext
  <2>3. \A s : s \in Through(x)' <=> s \in Through(x) /\ s[1] # w
    BY <2>1, <2>2
  <2>4. QED
    BY <2>3 DEF Held
<1>4. \A x \in Node :
         /\ Held(w, x) \subseteq Through(x) /\ VisitsHeld(w, x) \subseteq Through(x)
         /\ Through(x) \cap Held(w, x) = Held(w, x)
         /\ IsFiniteSet(Through(x))
  BY DEF Held, VisitsHeld, IInv, FinitelyHeld
<1>5. \A x \in Node :
         /\ IsFiniteSet(Held(w, x)) /\ IsFiniteSet(VisitsHeld(w, x))
         /\ Cardinality(Held(w, x)) <= Cardinality(Through(x))
         /\ IsFiniteSet(Through(x) \ Held(w, x))
         /\ Cardinality(Through(x) \ Held(w, x)) = Cardinality(Through(x)) - Cardinality(Held(w, x))
  <2> TAKE x \in Node
  <2>1. \A T \in SUBSET Through(x) :
           IsFiniteSet(T) /\ Cardinality(T) <= Cardinality(Through(x))
    BY <1>4, FS_Subset
  <2>2. \A T : /\ IsFiniteSet(Through(x) \ T)
               /\ Cardinality(Through(x) \ T) =
                     Cardinality(Through(x)) - Cardinality(Through(x) \cap T)
    BY <1>4, FS_Difference
  <2>3. QED
    BY <1>4, <2>1, <2>2
<1>6. \A x \in Node :
         /\ Cardinality(Held(w, x)) \in Nat
         /\ Cardinality(VisitsHeld(w, x)) \in Nat
         /\ Cardinality(VisitsHeld(w, x)) > 0 => VisitsHeld(w, x) # {}
  <2> TAKE x \in Node
  <2>1. IsFiniteSet(Held(w, x)) /\ IsFiniteSet(VisitsHeld(w, x))
    BY <1>5
  <2>2. Cardinality(Held(w, x)) \in Nat /\ Cardinality(VisitsHeld(w, x)) \in Nat
    BY <2>1, FS_CardinalityType
  <2>3. VisitsHeld(w, x) = {} => Cardinality(VisitsHeld(w, x)) = 0
    BY FS_EmptySet
  <2>4. QED
    BY <2>2, <2>3
<1>7. \A x \in Node :
         /\ n'[x] = n[x] + Cardinality(VisitsHeld(w, x))
         /\ nInFlight'[x] = nInFlight[x] - Cardinality(Held(w, x))
         /\ n[x] \in Nat /\ nInFlight[x] \in Nat
         /\ nInFlight[x] = Cardinality(Through(x))
  BY DEF DoBackupUpdate, Released, IInv, TypeOK, InFlightAccounted
<1>8. FinitelyHeld' /\ InFlightAccounted'
  BY <1>3, <1>5, <1>7 DEF FinitelyHeld, InFlightAccounted
<1>9. TypeOK'
  <2>1. \A x \in Node : n'[x] \in Nat /\ nInFlight'[x] \in Nat
    <3> TAKE x \in Node
    <3>1. n'[x] \in Nat
      BY <1>6, <1>7
    <3>2. /\ nInFlight'[x] = nInFlight[x] - Cardinality(Held(w, x))
          /\ Cardinality(Held(w, x)) <= nInFlight[x]
          /\ Cardinality(Held(w, x)) \in Nat /\ nInFlight[x] \in Nat
      BY <1>5, <1>6, <1>7
    <3>3. QED
      BY <3>1, <3>2
  <2>2. n' \in [Node -> Nat]
    <3>1. n' = [x \in Node |-> n'[x]]
      BY DEF DoBackupUpdate
    <3>2. QED
      BY <2>1, <3>1
  <2>3. nInFlight' \in [Node -> Nat]
    <3>1. nInFlight' = [x \in Node |-> nInFlight'[x]]
      BY DEF DoBackupUpdate
    <3>2. QED
      BY <2>1, <3>1
  <2>4. batch' \in [Worker -> Seq(Ticket)]
    BY <1>1, EmptySeq DEF IInv, TypeOK
  <2>5. total' \in [Node -> Int]
    <3>1. total' = [x \in Node |-> total'[x]]
      BY DEF DoBackupUpdate
    <3>2. \A x \in Node : total'[x] \in Int
      BY BackupTotals DEF IInv, TypeOK
    <3>3. QED
      BY <3>1, <3>2
  <2>6. QED
    BY <1>1, <2>2, <2>3, <2>4, <2>5 DEF IInv, TypeOK
<1>10. ExtendsLast'
  BY <1>1, <1>2 DEF IInv, ExtendsLast, IsVisit
<1>11. OneFirstVisit'
  <2> SUFFICES ASSUME NEW u \in Worker, NEW v \in Worker,
                      NEW i \in DOMAIN batch'[u], NEW j \in DOMAIN batch'[v],
                      ~batch'[u][i].collision, ~batch'[v][j].collision,
                      batch'[u][i].node = batch'[v][j].node,
                      n'[batch'[u][i].node] = 0
               PROVE  u = v /\ i = j
    BY DEF OneFirstVisit, IsVisit
  <2>1. u # w /\ v # w /\ batch'[u] = batch[u] /\ batch'[v] = batch[v]
    BY <1>2
  <2>2. batch[u][i].node \in Node
    BY <2>1, BatchTyped DEF IInv, Ticket
  <2>3. n[batch[u][i].node] = 0
    BY <2>1, <2>2, <1>6, <1>7
  <2>4. QED
    BY <2>1, <2>3 DEF IInv, OneFirstVisit, IsVisit
<1>12. VisitedIsResolved'
  <2> SUFFICES ASSUME NEW x \in Node, n'[x] > 0
               PROVE  expanded[x] \/ terminal[x]
    BY <1>1 DEF VisitedIsResolved
  <2>1. CASE n[x] > 0
    BY <2>1 DEF IInv, VisitedIsResolved
  <2>2. CASE ~(n[x] > 0)
    <3>1. VisitsHeld(w, x) # {}
      BY <2>2, <1>6, <1>7
    <3>2. PICK s \in Through(x) : s[1] = w /\ ~TicketAt(s).collision
      BY <3>1 DEF VisitsHeld, Held
    <3>3. s = <<w, s[2]>>
      BY <3>2, ThroughPairs
    <3>4. PICK i : s = <<w, i>>
      BY <3>3
    <3>5. i \in DOMAIN batch[w] /\ x \in Passes(batch[w][i]) /\ ~batch[w][i].collision
      <4>1. <<w, i>> \in Through(x) /\ TicketAt(s) = batch[w][i]
        BY <3>2, <3>4 DEF TicketAt
      <4>2. QED
        BY <3>2, <4>1, ThroughPairs
    <3>6. x = batch[w][i].node \/ x \in Above(batch[w][i].node)
      BY <3>5 DEF Passes, Above
    <3>7. CASE x = batch[w][i].node
      BY <3>5, <3>7, <1>1 DEF IInv, HeldIsResolved, IsVisit
    <3>8. CASE x \in Above(batch[w][i].node)
      BY <3>5, <3>8 DEF IInv, AboveIsExpanded
    <3>9. QED
      BY <3>6, <3>7, <3>8
  <2>3. QED
    BY <2>1, <2>2
<1>13. AboveIsExpanded'
  BY <1>1, <1>2 DEF IInv, AboveIsExpanded, Above
<1>14. HeldIsResolved'
  BY <1>1, <1>2 DEF IInv, HeldIsResolved, IsVisit
<1>15. QED
  BY <1>8, <1>9, <1>10, <1>11, <1>12, <1>13, <1>14 DEF IInv

-----------------------------------------------------------------------------
LEMMA NextIInv == IInv /\ [Next]_vars => IInv'
<1> SUFFICES ASSUME IInv, [Next]_vars PROVE IInv'
  OBVIOUS
<1>1. CASE UNCHANGED vars
  <2>1. SameTickets /\ Resolves
    BY <1>1 DEF vars, SameTickets, Resolves
  <2>2. TypeOK' /\ ExtendsLast' /\ HeldIsResolved'
    BY <1>1 DEF vars, IInv, TypeOK, ExtendsLast, HeldIsResolved, IsVisit
  <2>3. QED
    BY <1>1, <2>1, <2>2, SameTicketsKeep DEF vars, IInv
<1>2. CASE FireStop
  <2>1. SameTickets /\ Resolves
    BY <1>2 DEF FireStop, SameTickets, Resolves
  <2>2. TypeOK' /\ ExtendsLast' /\ HeldIsResolved'
    BY <1>2 DEF FireStop, IInv, TypeOK, ExtendsLast, HeldIsResolved, IsVisit
  <2>3. QED
    BY <1>2, <2>1, <2>2, SameTicketsKeep DEF FireStop, IInv
<1>3. CASE Joined
  BY <1>1, <1>3 DEF Joined
<1>4. ASSUME NEW w \in Worker, Step(w)
      PROVE  IInv'
  BY <1>4, PickCollisionKeeps, PickVisitKeeps, ExtendNodeKeeps, GatherOnKeeps,
     EvaluateKeeps, DoBackupUpdateKeeps, NextIterationKeeps DEF Step
<1>5. QED
  BY <1>1, <1>2, <1>3, <1>4 DEF Next

LEMMA IInvInvariant == Spec => []IInv
  BY InitIInv, NextIInv, PTL DEF Spec

\* TypeOK: whatever the workers interleave, n_in_flight_ is never taken below
\* zero.
THEOREM TypeCorrect == Spec => []TypeOK
<1>1. IInv => TypeOK
  BY DEF IInv
<1>2. QED
  BY <1>1, IInvInvariant, PTL

\* InFlightAccounted: the virtual loss of a node is what the workers hold through
\* it.
THEOREM InFlightAccountedHolds == Spec => []InFlightAccounted
<1>1. IInv => InFlightAccounted
  BY DEF IInv
<1>2. QED
  BY <1>1, IInvInvariant, PTL

\* ExtendsAlone: the node a worker expands without the mutex is its own, and the
\* asserts of CreateEdges hold.
THEOREM ExtendsAloneHolds == Spec => []ExtendsAlone
<1>1. IInv => ExtendsAlone
  <2> SUFFICES ASSUME IInv, NEW w \in Worker, pc[w] = "extend"
               PROVE  LET x == batch[w][Len(batch[w])].node
                      IN  /\ ~expanded[x] /\ ~terminal[x] /\ n[x] = 0
                          /\ \A t \in Outstanding :
                                ~TicketAt(t).collision /\ TicketAt(t).node = x
                                   => t = <<w, Len(batch[w])>>
    BY DEF ExtendsAlone
  <2> DEFINE last == Len(batch[w])
             x == batch[w][last].node
  <2>1. batch[w] # <<>> /\ IsVisit(w, last) /\ ~expanded[x] /\ ~terminal[x]
    BY DEF IInv, ExtendsLast
  <2>2. last \in DOMAIN batch[w] /\ x \in Node
    BY <2>1, BatchTyped, EmptySeq DEF IInv, Ticket
  <2>3. n[x] = 0
    <3>1. n[x] \in Nat /\ ~(n[x] > 0)
      BY <2>1, <2>2 DEF IInv, TypeOK, VisitedIsResolved
    <3>2. QED
      BY <3>1
  <2>4. ASSUME NEW t \in Outstanding, ~TicketAt(t).collision, TicketAt(t).node = x
        PROVE  t = <<w, last>>
    <3>1. PICK u \in Worker : \E i \in DOMAIN batch[u] : t = <<u, i>>
      BY DEF Outstanding
    <3>2. PICK i \in DOMAIN batch[u] : t = <<u, i>>
      BY <3>1
    <3>3. TicketAt(t) = batch[u][i]
      BY <3>2 DEF TicketAt
    <3>4. u = w /\ i = last
      BY <2>1, <2>2, <2>3, <2>4, <3>3 DEF IInv, OneFirstVisit, IsVisit
    <3>5. QED
      BY <3>2, <3>4
  <2>5. QED
    BY <2>1, <2>3, <2>4
<1>2. QED
  BY <1>1, IInvInvariant, PTL

\* A worker between two iterations holds nothing.
IdleHoldsNothing == \A w \in Worker : pc[w] \in {"loop", "done"} => batch[w] = <<>>

LEMMA IdleInvariant == Spec => []IdleHoldsNothing
<1>1. Init => IdleHoldsNothing
  BY DEF Init, IdleHoldsNothing
<1>2. ASSUME TypeOK, IdleHoldsNothing, [Next]_vars
      PROVE  IdleHoldsNothing'
  <2>1. CASE UNCHANGED vars
    BY <1>2, <2>1 DEF vars, IdleHoldsNothing
  <2>2. CASE FireStop
    BY <1>2, <2>2 DEF FireStop, IdleHoldsNothing
  <2>3. CASE Joined
    BY <2>1, <2>3 DEF Joined
  <2>4. ASSUME NEW w \in Worker, PickCollision(w) \/ PickVisit(w) \/ ExtendNode(w) \/ GatherOn(w) \/ Evaluate(w)
        PROVE  IdleHoldsNothing'
    <3>1. pc' = [pc EXCEPT ![w] = pc'[w]] /\ pc'[w] \notin {"loop", "done"}
      BY <1>2, <2>4 DEF TypeOK, PickCollision, PickVisit, ExtendNode, GatherOn, Evaluate
    <3>2. \A u \in Worker : u # w => batch'[u] = batch[u]
      BY <1>2, <2>4 DEF TypeOK, PickCollision, PickVisit, Put, ExtendNode, GatherOn, Evaluate
    <3>3. QED
      BY <1>2, <3>1, <3>2 DEF TypeOK, IdleHoldsNothing
  <2>5. ASSUME NEW w \in Worker, DoBackupUpdate(w) \/ NextIteration(w)
        PROVE  IdleHoldsNothing'
    BY <1>2, <2>5 DEF TypeOK, DoBackupUpdate, NextIteration, IdleHoldsNothing
  <2>6. QED
    BY <1>2, <2>1, <2>2, <2>3, <2>4, <2>5 DEF Next, Step
<1>3. QED
  BY <1>1, <1>2, TypeCorrect, PTL DEF Spec

\* When the threads were joined, no virtual loss is left in the tree for the next
\* search to find.
NothingLeft == AllDone => \A x \in Node : nInFlight[x] = 0

THEOREM NothingLeftBehind == Spec => []NothingLeft
<1>1. IInv /\ IdleHoldsNothing => NothingLeft
  <2> SUFFICES ASSUME IInv, IdleHoldsNothing, AllDone, NEW x \in Node
               PROVE  nInFlight[x] = 0
    BY DEF NothingLeft
  <2>1. \A w \in Worker : DOMAIN batch[w] = {}
    BY DEF IdleHoldsNothing, AllDone
  <2>2. Through(x) = {}
    BY <2>1, ThroughPairs
  <2>3. QED
    BY <2>2, FS_EmptySet DEF IInv, InFlightAccounted
<1>2. QED
  BY <1>1, IInvInvariant, IdleInvariant, PTL

-----------------------------------------------------------------------------
(***************************************************************************)
(* The visits go up the tree.                                              *)
(***************************************************************************)

\* A node has edges or a verdict, not both.
Exclusive == \A x \in Node : ~(expanded[x] /\ terminal[x])

\* A node that got its edges has a visit coming until its first was backed up.
ExpandedIsVisited ==
    \A x \in Node : expanded[x] /\ n[x] = 0 =>
        \E u \in Worker : \E i \in DOMAIN batch[u] : IsVisit(u, i) /\ batch[u][i].node = x

\* No other visit than the first ends at a node that has edges.
OneVisitOfItsOwn ==
    \A u \in Worker : \A i \in DOMAIN batch[u] :
        IsVisit(u, i) /\ expanded[batch[u][i].node] => n[batch[u][i].node] = 0

KidOnPath(a, x) == \E b \in Path[x] : b \in KidSet(a)

\* A descent goes below a node after its first visit, and to one of its children.
AboveIsVisited ==
    \A u \in Worker : \A i \in DOMAIN batch[u] :
        \A a \in Above(batch[u][i].node) : n[a] > 0 /\ KidOnPath(a, batch[u][i].node)

AddUpInv ==
    /\ Exclusive
    /\ ExpandedIsVisited
    /\ OneVisitOfItsOwn
    /\ AboveIsVisited
    /\ VisitsAddUp

\* The children of a node are on different lines.
LEMMA KidFacts ==
    ASSUME NEW x \in Node
    PROVE  /\ KidSet(x) \subseteq Node /\ IsFiniteSet(KidSet(x))
           /\ \A y \in KidSet(x) : y \notin Path[x] /\ x \in Path[y] /\ x # y
           /\ \A y \in KidSet(x), z \in Node : y \in Path[z] => x \in Above(z)
           /\ \A y, k \in KidSet(x), z \in Node : y \in Path[z] /\ k \in Path[z] => y = k
<1>1. /\ Kids[x] \in Seq(Node)
      /\ \A i \in DOMAIN Kids[x] : /\ Kids[x][i] \notin Path[x]
                                   /\ Path[Kids[x][i]] = Path[x] \cup {Kids[x][i]}
  BY TreeAssumption
<1>2. /\ DOMAIN Kids[x] = 1 .. Len(Kids[x]) /\ Len(Kids[x]) \in Nat
      /\ \A i \in DOMAIN Kids[x] : Kids[x][i] \in Node
  BY <1>1, LenProperties, ElementOfSeq
<1>3. KidSet(x) \subseteq Node
  BY <1>2 DEF KidSet
<1>4. IsFiniteSet(KidSet(x))
  <2>1. Kids[x] \in Surjection(DOMAIN Kids[x], KidSet(x))
    <3>1. Kids[x] = [i \in DOMAIN Kids[x] |-> Kids[x][i]]
      BY <1>1, SeqDef
    <3>2. QED
      BY <3>1 DEF Surjection, KidSet
  <2>2. IsFiniteSet(DOMAIN Kids[x])
    BY <1>2, FS_Interval
  <2>3. QED
    BY <2>1, <2>2, FS_Surjection
<1>5. \A y \in KidSet(x) : y \notin Path[x] /\ Path[y] = Path[x] \cup {y}
  BY <1>1 DEF KidSet
<1>6. x \in Path[x]
  BY TreeAssumption
<1>7. \A y \in KidSet(x), z \in Node : y \in Path[z] => x \in Above(z)
  <2> SUFFICES ASSUME NEW y \in KidSet(x), NEW z \in Node, y \in Path[z]
               PROVE  x \in Path[z] /\ x # z
    BY DEF Above
  <2>1. Path[y] \subseteq Path[z]
    BY <1>3, TreeAssumption
  <2>2. QED
    BY <1>5, <1>6, <2>1
<1>8. ASSUME NEW y \in KidSet(x), NEW k \in KidSet(x), NEW z \in Node,
             y \in Path[z], k \in Path[z]
      PROVE  y = k
  <2>1. y \in Path[k] \/ k \in Path[y]
    BY <1>3, <1>8, TreeAssumption
  <2>2. QED
    BY <1>5, <2>1
<1>9. QED
  BY <1>3, <1>4, <1>5, <1>6, <1>7, <1>8

LEMMA InitAddUp == Init => AddUpInv
<1> SUFFICES ASSUME Init PROVE AddUpInv
  OBVIOUS
<1>1. \A u \in Worker : batch[u] = <<>> /\ DOMAIN batch[u] = {}
  BY DEF Init
<1>2. Exclusive /\ ExpandedIsVisited
  BY DEF Init, Exclusive, ExpandedIsVisited
<1>3. OneVisitOfItsOwn /\ AboveIsVisited
  BY <1>1 DEF OneVisitOfItsOwn, AboveIsVisited
<1>4. \A x \in Node : n[x] = 0
  BY DEF Init
<1>5. VisitsAddUp
  BY <1>4, KidFacts DEF VisitsAddUp
<1>6. QED
  BY <1>2, <1>3, <1>5 DEF AddUpInv

\* Steps that change nothing but the place of a worker and what it fetched.
LEMMA SameTicketsAddUp ==
    ASSUME IInv, AddUpInv, SameTickets, UNCHANGED <<n, expanded, terminal>>
    PROVE  AddUpInv'
<1>1. \A u \in Worker : /\ DOMAIN batch'[u] = DOMAIN batch[u]
                        /\ \A i \in DOMAIN batch[u] : /\ batch'[u][i].node = batch[u][i].node
                                                      /\ IsVisit(u, i)' = IsVisit(u, i)
  BY DEF SameTickets, IsVisit
<1>2. Exclusive'
  BY DEF AddUpInv, Exclusive
<1>3. ExpandedIsVisited'
  BY <1>1 DEF AddUpInv, ExpandedIsVisited
<1>4. OneVisitOfItsOwn'
  BY <1>1 DEF AddUpInv, OneVisitOfItsOwn
<1>5. AboveIsVisited'
  BY <1>1 DEF AddUpInv, AboveIsVisited, Above, KidOnPath
<1>6. VisitsAddUp'
  BY DEF AddUpInv, VisitsAddUp
<1>7. QED
  BY <1>2, <1>3, <1>4, <1>5, <1>6 DEF AddUpInv

\* A node the descent passed through was visited before.
LEMMA PassedIsVisited ==
    ASSUME IInv, AddUpInv, NEW x \in Picked, NEW a \in Above(x)
    PROVE  a \in Node /\ n[a] > 0 /\ KidOnPath(a, x)
<1>1. x \in Node /\ a \in Node
  BY TreeAssumption DEF Picked, Above
<1>2. ~Collides(a) /\ ~IsLeaf(a) /\ KidOnPath(a, x)
  BY DEF Picked, Above, BestKid, KidOnPath, KidSet
<1>3. ASSUME n[a] = 0 PROVE FALSE
  <2>1. PICK u \in Worker : \E i \in DOMAIN batch[u] : IsVisit(u, i) /\ batch[u][i].node = a
    BY <1>1, <1>2, <1>3 DEF AddUpInv, ExpandedIsVisited, IsLeaf
  <2>2. PICK i \in DOMAIN batch[u] : IsVisit(u, i) /\ batch[u][i].node = a
    BY <2>1
  <2>3. a \in Passes(batch[u][i])
    BY <1>1, <2>2, TreeAssumption DEF Passes, IsVisit
  <2>4. Through(a) # {}
    BY <2>3, ThroughPairs
  <2>5. Cardinality(Through(a)) # 0
    BY <1>1, <2>4, FS_EmptySet DEF IInv, FinitelyHeld
  <2>6. nInFlight[a] > 0
    BY <1>1, <2>5 DEF IInv, InFlightAccounted, TypeOK
  <2>7. QED
    BY <1>2, <1>3, <2>6 DEF Collides
<1>4. n[a] \in Nat
  BY <1>1 DEF IInv, TypeOK
<1>5. QED
  BY <1>1, <1>2, <1>3, <1>4

\* A ticket is put in: the first visit of a leaf, one more of a terminal node, or
\* a collision.
LEMMA PutAddUp ==
    ASSUME IInv, AddUpInv, NEW w \in Worker, NEW x \in Picked, NEW t \in Ticket,
           t.node = x, ~t.collision => ~Collides(x), Put(w, t)
    PROVE  AddUpInv'
<1> DEFINE new == Len(batch[w]) + 1
<1>1. /\ \A u \in Worker : \A i \in DOMAIN batch'[u] :
            \/ i \in DOMAIN batch[u] /\ batch'[u][i] = batch[u][i]
            \/ batch'[u][i] = t
      /\ \A u \in Worker : \A i \in DOMAIN batch[u] :
            i \in DOMAIN batch'[u] /\ batch'[u][i] = batch[u][i]
  <2>1. /\ \A u \in Worker : \A i \in DOMAIN batch'[u] :
              \/ i \in DOMAIN batch[u] /\ batch'[u][i] = batch[u][i]
              \/ u = w /\ i = new
        /\ \A u \in Worker : \A i \in DOMAIN batch[u] :
              i \in DOMAIN batch'[u] /\ batch'[u][i] = batch[u][i]
        /\ batch'[w][new] = t
    BY PutAdds DEF IInv
  <2>2. QED
    BY <2>1
<1>2. UNCHANGED <<n, expanded, terminal>>
  BY DEF Put
<1>3. x \in Node
  BY DEF Picked
<1>4. Exclusive' /\ VisitsAddUp'
  BY <1>2 DEF AddUpInv, Exclusive, VisitsAddUp
<1>5. ExpandedIsVisited'
  BY <1>1, <1>2 DEF AddUpInv, ExpandedIsVisited, IsVisit
<1>6. OneVisitOfItsOwn'
  <2>1. ~t.collision => ~expanded[x]
    BY <1>3 DEF Picked, IsLeaf, AddUpInv, Exclusive
  <2>2. QED
    BY <1>1, <1>2, <2>1 DEF AddUpInv, OneVisitOfItsOwn, IsVisit
<1>7. AboveIsVisited'
  <2>1. \A a \in Above(x) : n[a] > 0 /\ KidOnPath(a, x)
    BY PassedIsVisited
  <2> SUFFICES ASSUME NEW u \in Worker, NEW i \in DOMAIN batch'[u],
                      NEW a \in Above(batch'[u][i].node)
               PROVE  n[a] > 0 /\ KidOnPath(a, batch'[u][i].node)
    BY <1>2 DEF AboveIsVisited, Above, KidOnPath
  <2>2. CASE i \in DOMAIN batch[u] /\ batch'[u][i] = batch[u][i]
    BY <2>2 DEF AddUpInv, AboveIsVisited
  <2>3. CASE batch'[u][i] = t
    BY <2>1, <2>3
  <2>4. QED
    BY <1>1, <2>2, <2>3
<1>8. QED
  BY <1>4, <1>5, <1>6, <1>7 DEF AddUpInv

\* ExtendNode: a node without a backed up visit gets its edges or its verdict.
LEMMA ExtendNodeAddsUp ==
    ASSUME IInv, AddUpInv, NEW w \in Worker, ExtendNode(w)
    PROVE  AddUpInv'
<1> DEFINE last == Len(batch[w])
           x == batch[w][last].node
<1>1. /\ last \in DOMAIN batch[w] /\ x \in Node /\ SameTickets
      /\ pc[w] = "extend"
  BY ExtendNodeTickets
<1>2. /\ UNCHANGED n
      /\ \/ expanded' = [expanded EXCEPT ![x] = TRUE] /\ terminal' = terminal
         \/ terminal' = [terminal EXCEPT ![x] = TRUE] /\ expanded' = expanded
  BY DEF ExtendNode
<1>3. IsVisit(w, last) /\ ~expanded[x] /\ ~terminal[x]
  BY <1>1 DEF IInv, ExtendsLast
<1> HIDE DEF last
<1>4. batch[w][last].node = x
  OBVIOUS
<1> HIDE DEF x
<1>5. n[x] = 0
  <2>1. n[x] \in Nat /\ ~(n[x] > 0)
    BY <1>1, <1>3 DEF IInv, TypeOK, VisitedIsResolved
  <2>2. QED
    BY <2>1
<1>6. /\ \A z \in Node : z # x => expanded'[z] = expanded[z] /\ terminal'[z] = terminal[z]
      /\ ~(expanded'[x] /\ terminal'[x])
      /\ \A z \in Node : terminal'[z] => terminal[z] \/ z = x
  BY <1>1, <1>2, <1>3 DEF IInv, TypeOK
<1>7. \A u \in Worker : /\ DOMAIN batch'[u] = DOMAIN batch[u]
                        /\ \A i \in DOMAIN batch[u] : /\ batch'[u][i].node = batch[u][i].node
                                                      /\ batch[u][i].node \in Node
                                                      /\ IsVisit(u, i)' = IsVisit(u, i)
  BY <1>1, BatchTyped DEF SameTickets, IsVisit, IInv, Ticket
<1>8. Exclusive'
  BY <1>2, <1>6 DEF AddUpInv, Exclusive
<1>9. ExpandedIsVisited'
  <2> SUFFICES ASSUME NEW z \in Node, expanded'[z], n[z] = 0
               PROVE  \E u \in Worker : \E i \in DOMAIN batch'[u] :
                         IsVisit(u, i)' /\ batch'[u][i].node = z
    BY <1>2 DEF ExpandedIsVisited
  <2>1. CASE z = x
    BY <2>1, <1>1, <1>3, <1>4, <1>7
  <2>2. CASE z # x
    BY <2>2, <1>6, <1>7 DEF AddUpInv, ExpandedIsVisited
  <2>3. QED
    BY <2>1, <2>2
<1>10. OneVisitOfItsOwn'
  BY <1>2, <1>5, <1>6, <1>7 DEF AddUpInv, OneVisitOfItsOwn
<1>11. AboveIsVisited'
  BY <1>2, <1>7 DEF AddUpInv, AboveIsVisited, Above, KidOnPath
<1>12. VisitsAddUp'
  <2> SUFFICES ASSUME NEW z \in Node
               PROVE  /\ expanded'[z] /\ n[z] > 0 => n[z] = 1 + SumFunctionOnSet(n, KidSet(z))
                      /\ n[z] > 0 => expanded'[z] # terminal'[z]
                      /\ n[z] = 0 => \A y \in KidSet(z) : n[y] = 0
    BY <1>2 DEF VisitsAddUp
  <2>1. CASE z = x
    BY <2>1, <1>5 DEF AddUpInv, VisitsAddUp
  <2>2. CASE z # x
    BY <2>2, <1>6 DEF AddUpInv, VisitsAddUp
  <2>3. QED
    BY <2>1, <2>2
<1>13. QED
  BY <1>8, <1>9, <1>10, <1>11, <1>12 DEF AddUpInv

LEMMA EvaluateAddsUp ==
    ASSUME IInv, AddUpInv, NEW w \in Worker, Evaluate(w)
    PROVE  AddUpInv'
<1>1. SameTickets
  BY EvaluateTickets
<1>2. QED
  BY <1>1, SameTicketsAddUp DEF Evaluate

\* The first visit of a node comes alone and none comes to its children.
LEMMA FirstVisitAlone ==
    ASSUME IInv, AddUpInv, NEW w \in Worker, NEW x \in Node, n[x] = 0,
           VisitsHeld(w, x) # {}
    PROVE  /\ Cardinality(VisitsHeld(w, x)) = 1
           /\ \E i \in DOMAIN batch[w] : IsVisit(w, i) /\ batch[w][i].node = x
           /\ \A y \in KidSet(x) : VisitsHeld(w, y) = {}
<1>1. \A t \in VisitsHeld(w, x) :
         /\ t = <<w, t[2]>> /\ t[2] \in DOMAIN batch[w] /\ IsVisit(w, t[2])
         /\ batch[w][t[2]].node = x
  <2> TAKE t \in VisitsHeld(w, x)
  <2>1. /\ t = <<w, t[2]>> /\ t[2] \in DOMAIN batch[w] /\ IsVisit(w, t[2])
        /\ x = batch[w][t[2]].node \/ x \in Above(batch[w][t[2]].node)
    BY VisitHeld DEF IInv
  <2>2. x \notin Above(batch[w][t[2]].node)
    BY <2>1 DEF AddUpInv, AboveIsVisited
  <2>3. QED
    BY <2>1, <2>2
<1>2. PICK t : t \in VisitsHeld(w, x)
  OBVIOUS
<1>3. ASSUME NEW s \in VisitsHeld(w, x) PROVE s = t
  <2>1. s[2] = t[2]
    BY <1>1, <1>2 DEF IInv, OneFirstVisit
  <2>2. QED
    BY <1>1, <1>2, <2>1
<1>4. VisitsHeld(w, x) = {t}
  BY <1>2, <1>3
<1>5. Cardinality(VisitsHeld(w, x)) = 1
  BY <1>4, FS_Singleton
<1>6. ASSUME NEW y \in KidSet(x), VisitsHeld(w, y) # {} PROVE FALSE
  <2>1. PICK s : s \in VisitsHeld(w, y)
    BY <1>6
  <2>2. y \in Node
    BY KidFacts
  <2>3. /\ s[2] \in DOMAIN batch[w] /\ batch[w][s[2]].node \in Node
        /\ y \in Path[batch[w][s[2]].node]
    <3>1. /\ s[2] \in DOMAIN batch[w] /\ batch[w][s[2]].node \in Node
          /\ y = batch[w][s[2]].node \/ y \in Above(batch[w][s[2]].node)
      BY <2>1, <2>2, VisitHeld DEF IInv
    <3>2. QED
      BY <3>1, TreeAssumption DEF Above
  <2>4. x \in Above(batch[w][s[2]].node)
    BY <2>3, KidFacts
  <2>5. QED
    BY <2>3, <2>4 DEF AddUpInv, AboveIsVisited
<1>7. QED
  BY <1>1, <1>2, <1>5, <1>6

\* All later visits of a node with edges are visits of one of its children.
LEMMA LaterVisitsBelow ==
    ASSUME IInv, AddUpInv, NEW w \in Worker, NEW x \in Node, expanded[x], n[x] > 0
    PROVE  /\ VisitsHeld(w, x) = UNION {VisitsHeld(w, y) : y \in KidSet(x)}
           /\ \A y, k \in KidSet(x) : y # k => VisitsHeld(w, y) \cap VisitsHeld(w, k) = {}
<1>1. KidSet(x) \subseteq Node
  BY KidFacts
<1>2. \A y \in Node : \A t \in VisitsHeld(w, y) :
         /\ t = <<w, t[2]>> /\ t[2] \in DOMAIN batch[w] /\ IsVisit(w, t[2])
         /\ batch[w][t[2]].node \in Node /\ y \in Path[batch[w][t[2]].node]
  <2> TAKE y \in Node
  <2> TAKE t \in VisitsHeld(w, y)
  <2>1. /\ t = <<w, t[2]>> /\ t[2] \in DOMAIN batch[w] /\ IsVisit(w, t[2])
        /\ batch[w][t[2]].node \in Node
        /\ y = batch[w][t[2]].node \/ y \in Above(batch[w][t[2]].node)
    BY VisitHeld DEF IInv
  <2>2. QED
    BY <2>1, TreeAssumption DEF Above
<1>3. ASSUME NEW t \in VisitsHeld(w, x)
      PROVE  \E y \in KidSet(x) : t \in VisitsHeld(w, y)
  <2>1. /\ t = <<w, t[2]>> /\ t[2] \in DOMAIN batch[w] /\ IsVisit(w, t[2])
        /\ x = batch[w][t[2]].node \/ x \in Above(batch[w][t[2]].node)
    BY <1>3, VisitHeld DEF IInv
  <2>2. batch[w][t[2]].node # x
    BY <2>1 DEF AddUpInv, OneVisitOfItsOwn
  <2>3. KidOnPath(x, batch[w][t[2]].node)
    BY <2>1, <2>2 DEF AddUpInv, AboveIsVisited
  <2>4. PICK y \in Path[batch[w][t[2]].node] : y \in KidSet(x)
    BY <2>3 DEF KidOnPath
  <2>5. <<w, t[2]>> \in VisitsHeld(w, y)
    BY <2>1, <2>4, VisitsHeldPairs
  <2>6. QED
    BY <2>1, <2>4, <2>5
<1>4. ASSUME NEW y \in KidSet(x), NEW t \in VisitsHeld(w, y)
      PROVE  t \in VisitsHeld(w, x)
  <2>1. /\ t = <<w, t[2]>> /\ t[2] \in DOMAIN batch[w] /\ IsVisit(w, t[2])
        /\ batch[w][t[2]].node \in Node /\ y \in Path[batch[w][t[2]].node]
    BY <1>1, <1>2, <1>4
  <2>2. x \in Path[batch[w][t[2]].node]
    BY <2>1, KidFacts DEF Above
  <2>3. <<w, t[2]>> \in VisitsHeld(w, x)
    BY <2>1, <2>2, VisitsHeldPairs
  <2>4. QED
    BY <2>1, <2>3
<1>5. ASSUME NEW y \in KidSet(x), NEW k \in KidSet(x),
             NEW t \in VisitsHeld(w, y), t \in VisitsHeld(w, k)
      PROVE  y = k
  <2>1. /\ batch[w][t[2]].node \in Node
        /\ y \in Path[batch[w][t[2]].node] /\ k \in Path[batch[w][t[2]].node]
    BY <1>1, <1>2, <1>5
  <2>2. QED
    BY <2>1, KidFacts
<1>6. QED
  BY <1>3, <1>4, <1>5

\* A backup keeps the visits of a node and of its children in step.
LEMMA BackupAddsUp ==
    ASSUME IInv, AddUpInv, NEW w \in Worker, DoBackupUpdate(w),
           NEW x \in Node, expanded[x], n'[x] > 0
    PROVE  n'[x] = 1 + SumFunctionOnSet(n', KidSet(x))
<1> DEFINE size == [y \in Node |-> Cardinality(VisitsHeld(w, y))]
<1>1. /\ n' = [y \in Node |-> n[y] + Cardinality(VisitsHeld(w, y))]
      /\ \A y \in Node : n'[y] = n[y] + size[y]
  BY DEF DoBackupUpdate
<1>2. \A y \in Node : /\ n[y] \in Nat /\ size[y] \in Nat
                      /\ IsFiniteSet(VisitsHeld(w, y)) /\ size[y] = Cardinality(VisitsHeld(w, y))
                      /\ VisitsHeld(w, y) = {} <=> size[y] = 0
  BY VisitsHeldFinite DEF IInv, TypeOK
<1>3. KidSet(x) \subseteq Node /\ IsFiniteSet(KidSet(x))
  BY KidFacts
<1> HIDE DEF size
<1>4. CASE n[x] = 0
  <2>1. VisitsHeld(w, x) # {}
    BY <1>1, <1>2, <1>4
  <2>2. size[x] = 1 /\ \A y \in KidSet(x) : VisitsHeld(w, y) = {}
    BY <1>2, <1>4, <2>1, FirstVisitAlone
  <2>3. \A y \in KidSet(x) : n[y] = 0
    BY <1>4 DEF AddUpInv, VisitsAddUp
  <2>4. \A y \in KidSet(x) : n'[y] = 0
    BY <1>1, <1>2, <1>3, <2>2, <2>3
  <2>5. SumFunctionOnSet(n', KidSet(x)) = 0
    <3>1. \A f : (\A y \in KidSet(x) : f[y] = 0) => SumFunctionOnSet(f, KidSet(x)) = 0
      BY <1>3, SumZero
    <3>2. QED
      BY <2>4, <3>1
  <2>6. QED
    BY <1>1, <1>4, <2>2, <2>5
<1>5. CASE n[x] > 0
  <2>1. n[x] = 1 + SumFunctionOnSet(n, KidSet(x))
    BY <1>5 DEF AddUpInv, VisitsAddUp
  <2> DEFINE part == [y \in Node |-> VisitsHeld(w, y)]
  <2>2. /\ VisitsHeld(w, x) = UNION {part[y] : y \in KidSet(x)}
        /\ \A y, k \in KidSet(x) : y # k => part[y] \cap part[k] = {}
    <3>1. \A y \in KidSet(x) : part[y] = VisitsHeld(w, y)
      BY <1>3
    <3>2. {part[y] : y \in KidSet(x)} = {VisitsHeld(w, y) : y \in KidSet(x)}
      BY <3>1
    <3>3. QED
      BY <1>5, <3>1, <3>2, LaterVisitsBelow
  <2>3. \A y \in KidSet(x) : IsFiniteSet(part[y]) /\ size[y] = Cardinality(part[y])
    BY <1>2, <1>3
  <2> HIDE DEF part
  <2>4. Cardinality(UNION {part[y] : y \in KidSet(x)}) = SumFunctionOnSet(size, KidSet(x))
    BY <1>3, <2>2, <2>3, SumOfParts
  <2>5. size[x] = SumFunctionOnSet(size, KidSet(x))
    BY <1>2, <2>2, <2>4
  <2>6. SumFunctionOnSet(n', KidSet(x)) =
           SumFunctionOnSet(n, KidSet(x)) + SumFunctionOnSet(size, KidSet(x))
    <3>1. \A y \in KidSet(x) : n[y] \in Int /\ size[y] \in Int /\ n'[y] = n[y] + size[y]
      BY <1>1, <1>2, <1>3
    <3>2. \A h : (\A y \in KidSet(x) : h[y] = n[y] + size[y]) =>
             SumFunctionOnSet(h, KidSet(x)) =
                SumFunctionOnSet(n, KidSet(x)) + SumFunctionOnSet(size, KidSet(x))
      BY <1>3, <3>1, SumPlus
    <3>3. QED
      BY <3>1, <3>2
  <2>7. SumFunctionOnSet(n, KidSet(x)) = n[x] - 1
    <3>1. SumFunctionOnSet(n, KidSet(x)) \in Int
      BY <1>2, <1>3, SumIsInt
    <3>2. QED
      BY <2>1, <3>1
  <2>8. QED
    BY <1>1, <1>2, <2>5, <2>6, <2>7
<1>6. QED
  BY <1>2, <1>4, <1>5

LEMMA DoBackupUpdateAddsUp ==
    ASSUME IInv, IInv', AddUpInv, NEW w \in Worker, DoBackupUpdate(w)
    PROVE  AddUpInv'
<1>1. /\ UNCHANGED <<expanded, terminal>>
      /\ DOMAIN batch'[w] = {}
      /\ \A u \in Worker : u # w => batch'[u] = batch[u]
      /\ \A x \in Node : n'[x] = n[x] + Cardinality(VisitsHeld(w, x))
      /\ \A x \in Node : n[x] \in Nat /\ n'[x] \in Nat
  BY DEF DoBackupUpdate, IInv, TypeOK
<1>2. \A x \in Node : /\ Cardinality(VisitsHeld(w, x)) \in Nat
                      /\ Cardinality(VisitsHeld(w, x)) = 0 <=> VisitsHeld(w, x) = {}
  BY VisitsHeldFinite
<1>3. \A x \in Node : /\ n'[x] = 0 => n[x] = 0 /\ VisitsHeld(w, x) = {}
                      /\ n[x] > 0 => n'[x] > 0
  BY <1>1, <1>2
<1>4. \A u \in Worker : \A i \in DOMAIN batch'[u] :
         u # w /\ i \in DOMAIN batch[u] /\ batch'[u][i] = batch[u][i] /\ batch[u][i].node \in Node
  BY <1>1, BatchTyped DEF IInv, Ticket
<1>5. Exclusive'
  BY <1>1 DEF AddUpInv, Exclusive
<1>6. ExpandedIsVisited'
  <2> SUFFICES ASSUME NEW x \in Node, expanded[x], n'[x] = 0
               PROVE  \E u \in Worker : \E i \in DOMAIN batch'[u] :
                         ~batch'[u][i].collision /\ batch'[u][i].node = x
    BY <1>1 DEF ExpandedIsVisited, IsVisit
  <2>1. PICK u \in Worker : \E i \in DOMAIN batch[u] : IsVisit(u, i) /\ batch[u][i].node = x
    BY <1>3 DEF AddUpInv, ExpandedIsVisited
  <2>2. PICK i \in DOMAIN batch[u] : IsVisit(u, i) /\ batch[u][i].node = x
    BY <2>1
  <2>3. ASSUME u = w PROVE FALSE
    <3>1. x \in Path[batch[w][i].node]
      BY <2>2, <2>3, TreeAssumption
    <3>2. <<w, i>> \in VisitsHeld(w, x)
      BY <2>2, <2>3, <3>1, VisitsHeldPairs
    <3>3. QED
      BY <1>3, <3>2
  <2>4. QED
    BY <1>1, <2>2, <2>3 DEF IsVisit
<1>7. OneVisitOfItsOwn'
  <2> SUFFICES ASSUME NEW u \in Worker, NEW i \in DOMAIN batch'[u],
                      ~batch'[u][i].collision, expanded[batch'[u][i].node]
               PROVE  n'[batch'[u][i].node] = 0
    BY <1>1 DEF OneVisitOfItsOwn, IsVisit
  <2> DEFINE x == batch[u][i].node
  <2>1. /\ u # w /\ i \in DOMAIN batch[u] /\ batch'[u][i] = batch[u][i] /\ x \in Node
        /\ IsVisit(u, i)
    BY <1>4 DEF IsVisit
  <2>2. n[x] = 0
    BY <2>1 DEF AddUpInv, OneVisitOfItsOwn
  <2>3. ASSUME VisitsHeld(w, x) # {} PROVE FALSE
    <3>1. PICK j \in DOMAIN batch[w] : IsVisit(w, j) /\ batch[w][j].node = x
      BY <2>1, <2>2, <2>3, FirstVisitAlone
    <3>2. QED
      BY <2>1, <2>2, <3>1 DEF IInv, OneFirstVisit
  <2>4. Cardinality(VisitsHeld(w, x)) = 0
    BY <1>2, <2>1, <2>3
  <2>5. QED
    BY <1>1, <2>1, <2>2, <2>4
<1>8. AboveIsVisited'
  <2> SUFFICES ASSUME NEW u \in Worker, NEW i \in DOMAIN batch'[u],
                      NEW a \in Above(batch'[u][i].node)
               PROVE  n'[a] > 0 /\ KidOnPath(a, batch'[u][i].node)
    BY DEF AboveIsVisited, Above, KidOnPath
  <2>1. /\ i \in DOMAIN batch[u] /\ batch'[u][i] = batch[u][i] /\ batch[u][i].node \in Node
    BY <1>4
  <2>2. n[a] > 0 /\ KidOnPath(a, batch[u][i].node)
    BY <2>1 DEF AddUpInv, AboveIsVisited
  <2>3. a \in Node
    BY <2>1, TreeAssumption DEF Above
  <2>4. QED
    BY <1>3, <2>1, <2>2, <2>3
<1>9. VisitsAddUp'
  <2> SUFFICES ASSUME NEW x \in Node
               PROVE  /\ expanded[x] /\ n'[x] > 0 => n'[x] = 1 + SumFunctionOnSet(n', KidSet(x))
                      /\ n'[x] > 0 => expanded[x] # terminal[x]
                      /\ n'[x] = 0 => \A y \in KidSet(x) : n'[y] = 0
    BY <1>1 DEF VisitsAddUp
  <2>1. expanded[x] /\ n'[x] > 0 => n'[x] = 1 + SumFunctionOnSet(n', KidSet(x))
    BY BackupAddsUp
  <2>2. n'[x] > 0 => expanded[x] # terminal[x]
    <3>1. n'[x] > 0 => expanded[x] \/ terminal[x]
      BY <1>1 DEF IInv, VisitedIsResolved
    <3>2. ~(expanded[x] /\ terminal[x])
      BY DEF AddUpInv, Exclusive
    <3>3. expanded[x] \in BOOLEAN /\ terminal[x] \in BOOLEAN
      BY DEF IInv, TypeOK
    <3>4. QED
      BY <3>1, <3>2, <3>3
  <2>3. ASSUME n'[x] = 0, NEW y \in KidSet(x) PROVE n'[y] = 0
    <3>1. n[x] = 0 /\ VisitsHeld(w, x) = {} /\ y \in Node
      BY <1>3, <2>3, KidFacts
    <3>2. n[y] = 0
      BY <3>1 DEF AddUpInv, VisitsAddUp
    <3>3. ASSUME NEW t \in VisitsHeld(w, y) PROVE FALSE
      <4>1. /\ t[2] \in DOMAIN batch[w] /\ batch[w][t[2]].node \in Node /\ IsVisit(w, t[2])
            /\ y = batch[w][t[2]].node \/ y \in Above(batch[w][t[2]].node)
        BY <3>1, VisitHeld DEF IInv
      <4>2. y \in Path[batch[w][t[2]].node]
        BY <4>1, TreeAssumption DEF Above
      <4>3. x \in Path[batch[w][t[2]].node]
        BY <4>1, <4>2, KidFacts DEF Above
      <4>4. QED
        BY <3>1, <4>1, <4>3, VisitsHeldPairs
    <3>4. Cardinality(VisitsHeld(w, y)) = 0
      BY <1>2, <3>1, <3>3
    <3>5. QED
      BY <1>1, <3>1, <3>2, <3>4
  <2>4. QED
    BY <2>1, <2>2, <2>3
<1>10. QED
  BY <1>5, <1>6, <1>7, <1>8, <1>9 DEF AddUpInv

LEMMA NextAddsUp == IInv /\ IInv' /\ AddUpInv /\ [Next]_vars => AddUpInv'
<1> SUFFICES ASSUME IInv, IInv', AddUpInv, [Next]_vars PROVE AddUpInv'
  OBVIOUS
<1>1. ASSUME batch' = batch, UNCHANGED <<n, expanded, terminal>>
      PROVE  AddUpInv'
  <2>1. SameTickets
    BY <1>1 DEF SameTickets
  <2>2. QED
    BY <1>1, <2>1, SameTicketsAddUp
<1>2. CASE UNCHANGED vars \/ FireStop \/ Joined
  BY <1>1, <1>2 DEF vars, FireStop, Joined
<1>3. ASSUME NEW w \in Worker, PickCollision(w)
      PROVE  AddUpInv'
  <2>1. PICK x \in Picked : Collides(x) /\ Put(w, Collision(x))
    BY <1>3 DEF PickCollision
  <2>2. Collision(x) \in Ticket /\ Collision(x).node = x /\ Collision(x).collision
    <3>1. x \in Node
      BY DEF Picked
    <3>2. QED
      BY <3>1 DEF Collision, Ticket
  <2>3. QED
    BY <2>1, <2>2, PutAddUp
<1>4. ASSUME NEW w \in Worker, PickVisit(w)
      PROVE  AddUpInv'
  <2>1. PICK x \in Picked : ~Collides(x) /\ Put(w, Visit(x))
    BY <1>4 DEF PickVisit
  <2>2. Visit(x) \in Ticket /\ Visit(x).node = x
    <3>1. x \in Node
      BY DEF Picked
    <3>2. QED
      BY <3>1 DEF Visit, Ticket
  <2>3. QED
    BY <2>1, <2>2, PutAddUp
<1>5. ASSUME NEW w \in Worker, GatherOn(w) \/ NextIteration(w)
      PROVE  AddUpInv'
  BY <1>1, <1>5 DEF GatherOn, NextIteration
<1>6. QED
  BY <1>2, <1>3, <1>4, <1>5, ExtendNodeAddsUp, EvaluateAddsUp, DoBackupUpdateAddsUp
     DEF Next, Step

LEMMA AddUpInvariant == Spec => []AddUpInv
  BY InitAddUp, NextAddsUp, IInvInvariant, PTL DEF Spec

\* VisitsAddUp: however many workers back up their minibatches in whatever order,
\* an expanded node has one visit more than its children together, which is what
\* GetV4TrainingData divides by.
THEOREM VisitsAddUpHolds == Spec => []VisitsAddUp
<1>1. AddUpInv => VisitsAddUp
  BY DEF AddUpInv
<1>2. QED
  BY <1>1, AddUpInvariant, PTL

-----------------------------------------------------------------------------
(***************************************************************************)
(* The values go up the tree with the visits.                              *)
(***************************************************************************)

\* The network was asked for the tickets that gave their nodes edges.
QueriedIsExpanded ==
    \A u \in Worker : \A i \in DOMAIN batch[u] :
        /\ batch[u][i].queried => expanded[batch[u][i].node]
        /\ IsVisit(u, i) /\ expanded[batch[u][i].node] => batch[u][i].queried

\* What a worker brings to the backup: an answer of the network or the verdict.
FetchedIsCurrent ==
    \A u \in Worker : pc[u] = "backup" => \A i \in DOMAIN batch[u] :
        /\ batch[u][i].queried => batch[u][i].v \in Values
        /\ IsVisit(u, i) /\ terminal[batch[u][i].node] =>
              batch[u][i].v = TerminalValue(batch[u][i].node)

\* The conjuncts of ValuesAddUp on the nodes.
TerminalKept == \A x \in Node : terminal[x] => total[x] = TerminalValue(x) * Weight(x)

EarnedAddUp ==
    \A x \in Node : expanded[x] /\ n[x] > 0 =>
        Earned[x] - SumFunctionOnSet(Earned, KidSet(x)) \in Values

WorthInv ==
    /\ QueriedIsExpanded
    /\ FetchedIsCurrent
    /\ TerminalKept
    /\ EarnedAddUp

LEMMA TerminalGetQ ==
    ASSUME TypeOK, TerminalKept, NEW x \in Node, terminal[x]
    PROVE  GetQ(x) = TerminalValue(x)
<1>1. TerminalValue(x) \in Int
  BY SearchAssumption DEF TerminalValue
<1>2. QED
  BY <1>1, GetQIsInt DEF TerminalKept

LEMMA InitWorth == Init => WorthInv
  BY DEF Init, WorthInv, QueriedIsExpanded, FetchedIsCurrent, TerminalKept, EarnedAddUp

\* Steps that leave the nodes alone.
LEMMA SameNodesKeepTotals ==
    ASSUME WorthInv, UNCHANGED <<n, total, expanded, terminal>>
    PROVE  TerminalKept' /\ EarnedAddUp'
<1>1. Earned' = Earned
  BY DEF Earned
<1>2. \A x \in Node : Weight(x)' = Weight(x)
  BY DEF Weight
<1>3. QED
  BY <1>1, <1>2 DEF WorthInv, TerminalKept, EarnedAddUp

\* Steps of a worker that brings nothing to the backup.
LEMMA OthersStayCurrent ==
    ASSUME WorthInv, NEW w \in Worker, pc'[w] # "backup", UNCHANGED terminal,
           \A u \in Worker : u # w => pc'[u] = pc[u] /\ batch'[u] = batch[u]
    PROVE  FetchedIsCurrent'
  BY DEF WorthInv, FetchedIsCurrent, IsVisit

LEMMA PutWorth ==
    ASSUME IInv, AddUpInv, WorthInv, NEW w \in Worker, NEW x \in Picked, NEW t \in Ticket,
           t.node = x, ~t.queried, ~t.collision => ~Collides(x), Put(w, t),
           pc'[w] # "backup", \A u \in Worker : u # w => pc'[u] = pc[u]
    PROVE  WorthInv'
<1> DEFINE new == Len(batch[w]) + 1
<1>1. /\ \A u \in Worker : \A i \in DOMAIN batch'[u] :
            \/ i \in DOMAIN batch[u] /\ batch'[u][i] = batch[u][i]
            \/ u = w /\ i = new
      /\ batch'[w][new] = t
  BY PutAdds DEF IInv
<1>2. \A u \in Worker : \A i \in DOMAIN batch'[u] :
         \/ i \in DOMAIN batch[u] /\ batch'[u][i] = batch[u][i]
         \/ batch'[u][i] = t
  BY <1>1
<1>3. UNCHANGED <<n, total, expanded, terminal>>
  BY DEF Put
<1>4. ~t.collision => ~expanded[x]
  BY DEF Picked, IsLeaf, AddUpInv, Exclusive
<1>5. QueriedIsExpanded'
  BY <1>2, <1>3, <1>4 DEF WorthInv, QueriedIsExpanded, IsVisit
<1>6. \A u \in Worker : u # w => batch'[u] = batch[u]
  BY DEF Put, IInv, TypeOK
<1>7. FetchedIsCurrent'
  BY <1>3, <1>6, OthersStayCurrent
<1>8. QED
  BY <1>3, <1>5, <1>7, SameNodesKeepTotals DEF WorthInv

\* ExtendNode gives the node of the last ticket its edges and asks the network
\* for it, or gives it its verdict.
LEMMA ExtendNodeMarks ==
    ASSUME IInv, NEW w \in Worker, ExtendNode(w)
    PROVE  LET last == Len(batch[w])
               x == batch[w][last].node
           IN  /\ \A u \in Worker : u # w => batch'[u] = batch[u] /\ pc'[u] = pc[u]
               /\ pc'[w] = "full" /\ UNCHANGED n
               /\ \A i \in DOMAIN batch[w] :
                     /\ i # last => batch'[w][i] = batch[w][i]
                     /\ i = last => \/ batch'[w][i].queried /\ expanded'[x]
                                    \/ /\ batch'[w][i].queried = batch[w][i].queried
                                       /\ expanded' = expanded
               /\ \A y \in Node : y # x => total'[y] = total[y]
               /\ terminal'[x] => terminal[x] \/ total'[x] = TerminalValue(x) * Weight(x)
<1> DEFINE last == Len(batch[w])
           x == batch[w][last].node
<1>1. /\ last \in DOMAIN batch[w] /\ batch[w][last] \in Ticket /\ x \in Node
      /\ batch[w] \in Seq(Ticket) /\ pc[w] = "extend"
  BY ExtendNodeTickets, BatchTyped DEF IInv
<1>2. /\ pc'[w] = "full" /\ UNCHANGED n
      /\ \A u \in Worker : u # w => pc'[u] = pc[u]
  BY DEF ExtendNode, IInv, TypeOK
<1>3. CASE Outcome[x] = "UNDECIDED"
  <2>1. /\ expanded' = [expanded EXCEPT ![x] = TRUE]
        /\ batch' = [batch EXCEPT ![w][last].queried = TRUE]
        /\ UNCHANGED <<terminal, total>>
    BY <1>3 DEF ExtendNode
  <2> DEFINE t == [batch[w][last] EXCEPT !.queried = TRUE]
             s == [batch[w] EXCEPT ![last] = t]
  <2>2. t.queried
    BY <1>1 DEF Ticket
  <2>3. /\ \A j \in DOMAIN batch[w] : s[j] = IF j = last THEN t ELSE batch[w][j]
    BY <1>1
  <2>4. batch' = [batch EXCEPT ![w] = s]
    BY <2>1
  <2> HIDE DEF t, s
  <2>5. batch'[w] = s /\ \A u \in Worker : u # w => batch'[u] = batch[u]
    BY <2>4 DEF IInv, TypeOK
  <2>6. expanded'[x]
    BY <1>1, <2>1 DEF IInv, TypeOK
  <2> HIDE DEF last
  <2>7. \A i \in DOMAIN batch[w] :
           /\ i # last => batch'[w][i] = batch[w][i]
           /\ i = last => batch'[w][i].queried /\ expanded'[x]
    BY <2>2, <2>3, <2>5, <2>6
  <2>8. QED
    BY <1>2, <2>1, <2>5, <2>7 DEF last
<1>4. CASE Outcome[x] # "UNDECIDED"
  <2>1. /\ terminal' = [terminal EXCEPT ![x] = TRUE]
        /\ total' = [total EXCEPT ![x] = TerminalValue(x) * Weight(x)]
        /\ UNCHANGED <<expanded, batch>>
    BY <1>4 DEF ExtendNode
  <2>2. /\ total'[x] = TerminalValue(x) * Weight(x)
        /\ \A y \in Node : y # x => total'[y] = total[y]
    BY <1>1, <2>1 DEF IInv, TypeOK
  <2>3. QED
    BY <1>2, <2>1, <2>2
<1>5. QED
  BY <1>3, <1>4

LEMMA ExtendNodeWorth ==
    ASSUME IInv, AddUpInv, WorthInv, NEW w \in Worker, ExtendNode(w)
    PROVE  WorthInv'
<1> DEFINE last == Len(batch[w])
           x == batch[w][last].node
<1>1. /\ last \in DOMAIN batch[w] /\ x \in Node /\ SameTickets /\ pc[w] = "extend"
      /\ IsVisit(w, last) /\ ~expanded[x] /\ ~terminal[x]
  BY ExtendNodeTickets DEF IInv, ExtendsLast
<1>2. /\ \A u \in Worker : u # w => batch'[u] = batch[u] /\ pc'[u] = pc[u]
      /\ pc'[w] = "full" /\ UNCHANGED n
      /\ \A i \in DOMAIN batch[w] :
            /\ i # last => batch'[w][i] = batch[w][i]
            /\ i = last => \/ batch'[w][i].queried /\ expanded'[x]
                           \/ /\ batch'[w][i].queried = batch[w][i].queried
                              /\ expanded' = expanded
      /\ \A y \in Node : y # x => total'[y] = total[y]
      /\ terminal'[x] => terminal[x] \/ total'[x] = TerminalValue(x) * Weight(x)
  BY ExtendNodeMarks
<1>3. \A z \in Node : z # x => expanded'[z] = expanded[z] /\ terminal'[z] = terminal[z]
  <2>1. \/ expanded' = [expanded EXCEPT ![x] = TRUE] /\ terminal' = terminal
        \/ terminal' = [terminal EXCEPT ![x] = TRUE] /\ expanded' = expanded
    BY DEF ExtendNode
  <2> HIDE DEF x
  <2>2. QED
    BY <1>1, <2>1 DEF IInv, TypeOK
<1> HIDE DEF last
<1>4. batch[w][last].node = x
  OBVIOUS
<1> HIDE DEF x
<1>5. n[x] = 0
  <2>1. n[x] \in Nat /\ ~(n[x] > 0)
    BY <1>1 DEF IInv, TypeOK, VisitedIsResolved
  <2>2. QED
    BY <2>1
<1>6. \A u \in Worker : \A i \in DOMAIN batch[u] :
         IsVisit(u, i) /\ batch[u][i].node = x => u = w /\ i = last
  BY <1>1, <1>4, <1>5 DEF IInv, OneFirstVisit
<1>7. \A u \in Worker : /\ DOMAIN batch'[u] = DOMAIN batch[u]
                        /\ \A i \in DOMAIN batch[u] : /\ batch'[u][i].node = batch[u][i].node
                                                      /\ batch[u][i].node \in Node
                                                      /\ IsVisit(u, i)' = IsVisit(u, i)
  BY <1>1, BatchTyped DEF SameTickets, IsVisit, IInv, Ticket
<1>8. QueriedIsExpanded'
  <2> SUFFICES ASSUME NEW u \in Worker, NEW i \in DOMAIN batch[u]
               PROVE  /\ batch'[u][i].queried => expanded'[batch[u][i].node]
                      /\ IsVisit(u, i) /\ expanded'[batch[u][i].node] => batch'[u][i].queried
    BY <1>7 DEF QueriedIsExpanded
  <2>1. /\ batch[u][i].queried => expanded[batch[u][i].node]
        /\ IsVisit(u, i) /\ expanded[batch[u][i].node] => batch[u][i].queried
    BY DEF WorthInv, QueriedIsExpanded
  <2>2. CASE u = w /\ i = last
    BY <1>2, <1>4, <2>1, <2>2
  <2>3. CASE ~(u = w /\ i = last)
    <3>1. batch'[u][i] = batch[u][i]
      BY <1>2, <2>3
    <3>2. CASE batch[u][i].node # x
      BY <1>3, <1>7, <2>1, <3>1, <3>2
    <3>3. CASE batch[u][i].node = x
      BY <1>1, <1>6, <2>1, <2>3, <3>1, <3>3
    <3>4. QED
      BY <3>2, <3>3
  <2>4. QED
    BY <2>2, <2>3
<1>9. FetchedIsCurrent'
  <2> SUFFICES ASSUME NEW u \in Worker, pc'[u] = "backup", NEW i \in DOMAIN batch'[u]
               PROVE  /\ batch'[u][i].queried => batch'[u][i].v \in Values
                      /\ ~batch'[u][i].collision /\ terminal'[batch'[u][i].node] =>
                            batch'[u][i].v = TerminalValue(batch'[u][i].node)
    BY DEF FetchedIsCurrent, IsVisit, TerminalValue
  <2>1. u # w /\ pc[u] = "backup" /\ i \in DOMAIN batch[u] /\ batch'[u][i] = batch[u][i]
    BY <1>2
  <2>2. ~batch[u][i].collision => batch[u][i].node # x
    BY <1>6, <2>1 DEF IsVisit
  <2>3. QED
    BY <1>3, <1>7, <2>1, <2>2 DEF WorthInv, FetchedIsCurrent, IsVisit
<1>10. TerminalKept'
  <2> SUFFICES ASSUME NEW z \in Node, terminal'[z]
               PROVE  total'[z] = TerminalValue(z) * Weight(z)
    BY <1>2 DEF TerminalKept, Weight, TerminalValue
  <2>1. CASE z = x
    BY <1>1, <1>2, <2>1
  <2>2. CASE z # x
    BY <1>2, <1>3, <2>2 DEF WorthInv, TerminalKept
  <2>3. QED
    BY <2>1, <2>2
<1>11. Earned' = Earned
  <2>1. \A z \in Node : (IF n'[z] > 0 THEN total'[z] ELSE 0) = IF n[z] > 0 THEN total[z] ELSE 0
    <3> TAKE z \in Node
    <3>1. CASE z = x
      BY <1>2, <1>5, <3>1
    <3>2. CASE z # x
      BY <1>2, <3>2
    <3>3. QED
      BY <3>1, <3>2
  <2>2. QED
    BY <2>1 DEF Earned
<1>12. EarnedAddUp'
  <2> SUFFICES ASSUME NEW z \in Node, expanded'[z], n[z] > 0
               PROVE  Earned[z] - SumFunctionOnSet(Earned, KidSet(z)) \in Values
    BY <1>2, <1>11 DEF EarnedAddUp, KidSet
  <2>1. z # x
    BY <1>5
  <2>2. QED
    BY <1>3, <2>1 DEF WorthInv, EarnedAddUp
<1>13. QED
  BY <1>8, <1>9, <1>10, <1>12 DEF WorthInv

LEMMA EvaluateWorth ==
    ASSUME IInv, AddUpInv, WorthInv, NEW w \in Worker, Evaluate(w)
    PROVE  WorthInv'
<1>1. /\ SameTickets
      /\ \A u \in Worker : u # w => batch'[u] = batch[u] /\ pc'[u] = pc[u]
      /\ \A i \in DOMAIN batch[w] :
            /\ batch'[w][i].queried = batch[w][i].queried
            /\ batch[w][i].queried => batch'[w][i].v \in Values
            /\ ~batch[w][i].queried => batch'[w][i].v = GetQ(batch[w][i].node)
      /\ UNCHANGED <<n, total, expanded, terminal>>
  BY EvaluateTickets DEF Evaluate, IInv, TypeOK
<1>2. \A u \in Worker : /\ DOMAIN batch'[u] = DOMAIN batch[u]
                        /\ \A i \in DOMAIN batch[u] : /\ batch'[u][i].node = batch[u][i].node
                                                      /\ batch[u][i].node \in Node
                                                      /\ batch'[u][i].queried = batch[u][i].queried
                                                      /\ IsVisit(u, i)' = IsVisit(u, i)
  BY <1>1, BatchTyped DEF SameTickets, IsVisit, IInv, Ticket
<1>3. QueriedIsExpanded'
  BY <1>1, <1>2 DEF WorthInv, QueriedIsExpanded
<1>4. FetchedIsCurrent'
  <2> SUFFICES ASSUME NEW u \in Worker, pc'[u] = "backup", NEW i \in DOMAIN batch[u]
               PROVE  /\ batch[u][i].queried => batch'[u][i].v \in Values
                      /\ IsVisit(u, i) /\ terminal[batch[u][i].node] =>
                            batch'[u][i].v = TerminalValue(batch[u][i].node)
    BY <1>1, <1>2 DEF FetchedIsCurrent, TerminalValue
  <2>1. CASE u # w
    BY <1>1, <2>1 DEF WorthInv, FetchedIsCurrent
  <2>2. CASE u = w
    <3>1. ASSUME terminal[batch[w][i].node]
          PROVE  batch'[w][i].v = TerminalValue(batch[w][i].node)
      <4>1. ~batch[w][i].queried
        BY <1>2, <2>2, <3>1 DEF WorthInv, QueriedIsExpanded, AddUpInv, Exclusive
      <4>2. GetQ(batch[w][i].node) = TerminalValue(batch[w][i].node)
        BY <1>2, <2>2, <3>1, TerminalGetQ DEF IInv, WorthInv
      <4>3. QED
        BY <1>1, <2>2, <4>1, <4>2
    <3>2. QED
      BY <1>1, <2>2, <3>1
  <2>3. QED
    BY <2>1, <2>2
<1>5. QED
  BY <1>1, <1>3, <1>4, SameNodesKeepTotals DEF WorthInv

\* The visits through a terminal node end there, and bring its verdict.
LEMMA BackupTerminal ==
    ASSUME IInv, AddUpInv, WorthInv, NEW w \in Worker, DoBackupUpdate(w),
           NEW x \in Node, terminal[x]
    PROVE  total'[x] = TerminalValue(x) * Weight(x)'
<1> DEFINE V == VisitsHeld(w, x)
           c == Cardinality(V)
           f == Worths(w, x)
           T == TerminalValue(x)
<1>1. T \in Int
  BY SearchAssumption DEF TerminalValue
<1>2. \A t \in V : f[t] = T
  <2> SUFFICES ASSUME NEW t \in V PROVE Worth(t) = T
    BY DEF Worths
  <2>1. /\ t[2] \in DOMAIN batch[w] /\ TicketAt(t) = batch[w][t[2]]
        /\ x = batch[w][t[2]].node \/ x \in Above(batch[w][t[2]].node)
    BY VisitHeld DEF IInv
  <2>2. x \notin Above(batch[w][t[2]].node)
    BY <2>1 DEF IInv, AboveIsExpanded, AddUpInv, Exclusive
  <2>3. GetQ(x) = T
    BY TerminalGetQ DEF IInv, WorthInv
  <2>4. QED
    BY <2>1, <2>2, <2>3 DEF Worth
<1>3. /\ n'[x] = n[x] + c /\ n[x] \in Nat
      /\ IsFiniteSet(V) /\ c \in Nat /\ (c = 0 <=> V = {})
  BY VisitsHeldFinite DEF DoBackupUpdate, IInv, TypeOK
<1>4. total[x] = T * Weight(x)
  BY DEF WorthInv, TerminalKept
<1>5. Gain(w, x) = SumFunctionOnSet(f, V)
  BY DEF Gain
<1>6. /\ V = {} => total'[x] = total[x] /\ n'[x] = n[x]
      /\ V # {} => total'[x] = Earned[x] + Gain(w, x) /\ n'[x] > 0
  BY BackupTotals
<1>7. Earned[x] = IF n[x] > 0 THEN total[x] ELSE 0
  BY DEF Earned
<1> HIDE DEF V, f, T
<1>8. Gain(w, x) = T * c
  <2>1. \A t \in V : f[t] \in T .. T
    BY <1>1, <1>2
  <2>2. SumFunctionOnSet(f, V) \in T * c .. T * c
    BY <1>1, <1>3, <2>1, SumBounds
  <2>3. T * c \in Int
    BY <1>1, <1>3
  <2>4. QED
    BY <1>5, <2>2, <2>3
<1> HIDE DEF c
<1>9. CASE V = {}
  BY <1>4, <1>6, <1>9 DEF Weight, T
<1>10. CASE V # {}
  <2>1. Earned[x] = T * n[x]
    <3>1. CASE n[x] > 0
      BY <1>4, <1>7, <3>1 DEF Weight
    <3>2. CASE n[x] = 0
      BY <1>1, <1>7, <3>2
    <3>3. QED
      BY <1>3, <3>1, <3>2
  <2>2. T * (n[x] + c) = T * n[x] + T * c
    BY <1>1, <1>3
  <2>3. Weight(x)' = n[x] + c
    BY <1>3, <1>6, <1>10 DEF Weight
  <2>4. QED
    BY <1>6, <1>8, <1>10, <2>1, <2>2, <2>3 DEF T
<1>11. QED
  BY <1>9, <1>10

\* The first visit of a node with edges brings the answer of the network.
LEMMA FirstGain ==
    ASSUME IInv, AddUpInv, WorthInv, NEW w \in Worker, DoBackupUpdate(w),
           NEW x \in Node, expanded[x], n[x] = 0, VisitsHeld(w, x) # {}
    PROVE  Gain(w, x) \in Values
<1>1. Cardinality(VisitsHeld(w, x)) = 1 /\ IsFiniteSet(VisitsHeld(w, x))
  BY FirstVisitAlone, VisitsHeldFinite
<1>2. PICK t : VisitsHeld(w, x) = {t}
  BY <1>1, FS_Singleton
<1>3. PICK i \in DOMAIN batch[w] : IsVisit(w, i) /\ batch[w][i].node = x
  BY FirstVisitAlone
<1>4. t = <<w, i>>
  <2>1. <<w, i>> \in VisitsHeld(w, x)
    BY <1>3, VisitsHeldPairs, TreeAssumption
  <2>2. QED
    BY <1>2, <2>1
<1>5. TicketAt(t) = batch[w][i]
  BY <1>4 DEF TicketAt
<1>6. batch[w][i].queried /\ ~terminal[x]
  BY <1>3 DEF WorthInv, QueriedIsExpanded, AddUpInv, Exclusive
<1>7. pc[w] = "backup"
  BY DEF DoBackupUpdate
<1>8. batch[w][i].v \in Values
  BY <1>6, <1>7 DEF WorthInv, FetchedIsCurrent
<1>9. Worth(t) \in Values
  BY <1>3, <1>5, <1>6, <1>8 DEF Worth
<1> DEFINE f == Worths(w, x)
<1>10. f[t] = Worth(t)
  BY <1>2 DEF Worths
<1>11. f[t] \in Int
  <2>1. Values \subseteq Int
    BY SearchAssumption
  <2>2. QED
    BY <1>9, <1>10, <2>1, Zenon
<1>12. Gain(w, x) = SumFunctionOnSet(f, VisitsHeld(w, x))
  BY DEF Gain
<1> HIDE DEF f
<1>13. SumFunctionOnSet(f, {t}) = f[t]
  <2>1. IsFiniteSet({t}) /\ \A y \in {t} : f[y] \in Int
    BY <1>11, FS_Singleton
  <2>2. {t} \in SUBSET {t} /\ {t} \ {t} = {}
    OBVIOUS
  <2> DEFINE S == {t}
  <2>3. t \in S /\ S \in SUBSET S /\ S \ {t} = {}
    OBVIOUS
  <2> HIDE DEF S
  <2>4. SumFunctionOnSet(f, S) = f[t] + SumFunctionOnSet(f, S \ {t})
    <3>1. IsFiniteSet(S) /\ \A y \in S : f[y] \in Int
      BY <2>1 DEF S
    <3>2. QED
      BY <2>3, <3>1, SumRemove
  <2>5. SumFunctionOnSet(f, S \ {t}) = 0
    BY <2>3, SumEmpty
  <2>6. SumFunctionOnSet(f, S) = f[t]
    BY <1>11, <2>4, <2>5
  <2>7. QED
    BY <2>6 DEF S
<1>14. SumFunctionOnSet(f, VisitsHeld(w, x)) = SumFunctionOnSet(f, {t})
  BY <1>2, Zenon
<1>15. QED
  BY <1>9, <1>10, <1>12, <1>13, <1>14

\* What later visits bring to a node with edges they bring to its children.
LEMMA LaterGain ==
    ASSUME IInv, AddUpInv, WorthInv, NEW w \in Worker, DoBackupUpdate(w),
           NEW x \in Node, expanded[x], n[x] > 0
    PROVE  Gain(w, x) = SumFunctionOnSet([y \in Node |-> Gain(w, y)], KidSet(x))
<1> DEFINE part == [y \in Node |-> VisitsHeld(w, y)]
           gain == [y \in Node |-> Gain(w, y)]
           f == Worths(w, x)
<1>1. KidSet(x) \subseteq Node /\ IsFiniteSet(KidSet(x))
  BY KidFacts
<1>2. /\ VisitsHeld(w, x) = UNION {part[y] : y \in KidSet(x)}
      /\ \A y, k \in KidSet(x) : y # k => part[y] \cap part[k] = {}
  <2>1. \A y \in KidSet(x) : part[y] = VisitsHeld(w, y)
    BY <1>1
  <2>2. {part[y] : y \in KidSet(x)} = {VisitsHeld(w, y) : y \in KidSet(x)}
    BY <2>1
  <2>3. QED
    BY <2>1, <2>2, LaterVisitsBelow
<1>3. \A y \in KidSet(x) : /\ IsFiniteSet(part[y])
                            /\ gain[y] = SumFunctionOnSet(f, part[y])
                            /\ \A t \in part[y] : f[t] \in Int
  <2> SUFFICES ASSUME NEW y \in KidSet(x)
               PROVE  /\ IsFiniteSet(VisitsHeld(w, y))
                      /\ Gain(w, y) = SumFunctionOnSet(f, VisitsHeld(w, y))
                      /\ \A t \in VisitsHeld(w, y) : f[t] \in Int
    BY <1>1
  <2> DEFINE S == VisitsHeld(w, y)
             g == Worths(w, y)
  <2>1. y \in Node /\ IsFiniteSet(S)
    BY <1>1, VisitsHeldFinite
  <2>2. S \subseteq VisitsHeld(w, x)
    BY <1>1, <1>2
  <2>3. \A t \in S : g[t] \in Int /\ f[t] = g[t]
    BY <2>1, <2>2, WorthIsInt DEF Worths, IInv
  <2>4. Gain(w, y) = SumFunctionOnSet(g, S)
    BY DEF Gain
  <2> HIDE DEF f, g, S
  <2>5. SumFunctionOnSet(f, S) = SumFunctionOnSet(g, S)
    BY <2>1, <2>3, SumSame
  <2>6. QED
    BY <2>1, <2>3, <2>4, <2>5 DEF S
<1>4. Gain(w, x) = SumFunctionOnSet(f, VisitsHeld(w, x))
  BY DEF Gain
<1> HIDE DEF part, gain, f
<1>5. SumFunctionOnSet(f, UNION {part[y] : y \in KidSet(x)}) = SumFunctionOnSet(gain, KidSet(x))
  BY <1>1, <1>2, <1>3, SumOverParts
<1>6. QED
  BY <1>2, <1>4, <1>5 DEF gain

LEMMA BackupEarned ==
    ASSUME IInv, AddUpInv, WorthInv, NEW w \in Worker, DoBackupUpdate(w),
           NEW x \in Node, expanded[x], n'[x] > 0
    PROVE  Earned'[x] - SumFunctionOnSet(Earned', KidSet(x)) \in Values
<1> DEFINE K == KidSet(x)
           gain == [y \in Node |-> Gain(w, y)]
           e == Earned
           p == Earned'
<1>1. \A y \in Node : /\ gain[y] \in Int /\ e[y] \in Int /\ p[y] = e[y] + gain[y]
                      /\ VisitsHeld(w, y) = {} => gain[y] = 0 /\ n'[y] = n[y]
  BY BackupTotals
<1>2. K \subseteq Node /\ IsFiniteSet(K)
  BY KidFacts
<1>3. n[x] \in Nat /\ \A y \in Node : n[y] = 0 => e[y] = 0
  BY DEF IInv, TypeOK, Earned
<1>4. CASE n[x] = 0
  <2>1. VisitsHeld(w, x) # {}
    BY <1>1, <1>4
  <2>2. gain[x] \in Values
    BY <1>4, <2>1, FirstGain
  <2>3. \A y \in K : VisitsHeld(w, y) = {} /\ n[y] = 0
    BY <1>4, <2>1, FirstVisitAlone DEF AddUpInv, VisitsAddUp
  <2> HIDE DEF K, gain, e, p
  <2>4. \A y \in K : p[y] = 0
    BY <1>1, <1>2, <1>3, <2>3
  <2>5. SumFunctionOnSet(p, K) = 0
    BY <1>2, <2>4, SumZero
  <2>6. p[x] = gain[x]
    BY <1>1, <1>3, <1>4
  <2>7. p[x] - SumFunctionOnSet(p, K) = gain[x]
    BY <1>1, <2>5, <2>6
  <2>8. QED
    BY <2>2, <2>7 DEF p, K
<1>5. CASE n[x] > 0
  <2>1. e[x] - SumFunctionOnSet(e, K) \in Values
    BY <1>5 DEF WorthInv, EarnedAddUp
  <2>2. gain[x] = SumFunctionOnSet(gain, K)
    BY <1>5, LaterGain
  <2> HIDE DEF K, gain, e, p
  <2>3. \A y \in K : e[y] \in Int /\ gain[y] \in Int /\ p[y] = e[y] + gain[y]
    BY <1>1, <1>2
  <2>4. SumFunctionOnSet(p, K) = SumFunctionOnSet(e, K) + SumFunctionOnSet(gain, K)
    BY <1>2, <2>3, SumPlus
  <2>5. SumFunctionOnSet(e, K) \in Int /\ SumFunctionOnSet(gain, K) \in Int
    BY <1>2, <2>3, SumIsInt
  <2>6. p[x] - SumFunctionOnSet(p, K) = e[x] - SumFunctionOnSet(e, K)
    BY <1>1, <2>2, <2>4, <2>5
  <2>7. QED
    BY <2>1, <2>6 DEF p, K
<1>6. QED
  BY <1>3, <1>4, <1>5

LEMMA DoBackupUpdateWorth ==
    ASSUME IInv, AddUpInv, WorthInv, NEW w \in Worker, DoBackupUpdate(w)
    PROVE  WorthInv'
<1>1. /\ UNCHANGED <<expanded, terminal>>
      /\ DOMAIN batch'[w] = {} /\ pc'[w] # "backup"
      /\ \A u \in Worker : u # w => batch'[u] = batch[u] /\ pc'[u] = pc[u]
  BY DEF DoBackupUpdate, IInv, TypeOK
<1>2. QueriedIsExpanded'
  BY <1>1 DEF WorthInv, QueriedIsExpanded, IsVisit
<1>3. FetchedIsCurrent'
  BY <1>1, OthersStayCurrent
<1>4. TerminalKept'
  <2>1. \A x \in Node : terminal[x] => total'[x] = TerminalValue(x) * Weight(x)'
    BY BackupTerminal
  <2>2. QED
    BY <1>1, <2>1 DEF TerminalKept, TerminalValue
<1>5. EarnedAddUp'
  <2>1. \A x \in Node : expanded[x] /\ n'[x] > 0 =>
           Earned'[x] - SumFunctionOnSet(Earned', KidSet(x)) \in Values
    BY BackupEarned
  <2>2. QED
    BY <1>1, <2>1 DEF EarnedAddUp, KidSet
<1>6. QED
  BY <1>2, <1>3, <1>4, <1>5 DEF WorthInv

LEMMA NextWorth == IInv /\ AddUpInv /\ WorthInv /\ [Next]_vars => WorthInv'
<1> SUFFICES ASSUME IInv, AddUpInv, WorthInv, [Next]_vars PROVE WorthInv'
  OBVIOUS
<1>1. CASE UNCHANGED vars \/ FireStop \/ Joined
  <2>1. UNCHANGED <<n, total, expanded, terminal, batch, pc>>
    BY <1>1 DEF vars, FireStop, Joined
  <2>2. QueriedIsExpanded' /\ FetchedIsCurrent'
    BY <2>1 DEF WorthInv, QueriedIsExpanded, FetchedIsCurrent, IsVisit
  <2>3. QED
    BY <2>1, <2>2, SameNodesKeepTotals DEF WorthInv
<1>2. ASSUME NEW w \in Worker, PickCollision(w)
      PROVE  WorthInv'
  <2>1. PICK x \in Picked : Collides(x) /\ Put(w, Collision(x))
    BY <1>2 DEF PickCollision
  <2>2. /\ Collision(x) \in Ticket /\ Collision(x).node = x /\ Collision(x).collision
        /\ ~Collision(x).queried
    <3>1. x \in Node
      BY DEF Picked
    <3>2. QED
      BY <3>1 DEF Collision, Ticket
  <2>3. pc'[w] # "backup" /\ \A u \in Worker : u # w => pc'[u] = pc[u]
    BY <1>2 DEF PickCollision, IInv, TypeOK
  <2>4. QED
    BY <2>1, <2>2, <2>3, PutWorth
<1>3. ASSUME NEW w \in Worker, PickVisit(w)
      PROVE  WorthInv'
  <2>1. PICK x \in Picked : ~Collides(x) /\ Put(w, Visit(x))
    BY <1>3 DEF PickVisit
  <2>2. Visit(x) \in Ticket /\ Visit(x).node = x /\ ~Visit(x).queried
    <3>1. x \in Node
      BY DEF Picked
    <3>2. QED
      BY <3>1 DEF Visit, Ticket
  <2>3. pc'[w] # "backup" /\ \A u \in Worker : u # w => pc'[u] = pc[u]
    BY <1>3 DEF PickVisit, IInv, TypeOK
  <2>4. QED
    BY <2>1, <2>2, <2>3, PutWorth
<1>4. ASSUME NEW w \in Worker, GatherOn(w) \/ NextIteration(w)
      PROVE  WorthInv'
  <2>1. /\ UNCHANGED <<n, total, expanded, terminal, batch>>
        /\ pc'[w] # "backup" /\ \A u \in Worker : u # w => pc'[u] = pc[u]
    BY <1>4 DEF GatherOn, NextIteration, IInv, TypeOK
  <2>2. QueriedIsExpanded'
    BY <2>1 DEF WorthInv, QueriedIsExpanded, IsVisit
  <2>3. FetchedIsCurrent'
    BY <2>1, OthersStayCurrent
  <2>4. QED
    BY <2>1, <2>2, <2>3, SameNodesKeepTotals DEF WorthInv
<1>5. QED
  BY <1>1, <1>2, <1>3, <1>4, ExtendNodeWorth, EvaluateWorth, DoBackupUpdateWorth
     DEF Next, Step

LEMMA WorthInvariant == Spec => []WorthInv
  BY InitWorth, NextWorth, IInvInvariant, AddUpInvariant, PTL DEF Spec

\* ValuesAddUp: however many workers fetch values without the lock and back them up
\* in whatever order, a node with edges has earned the answer of the network for it
\* and what its children have earned; the average of a terminal node is its verdict;
\* and the q_ of a terminal node that a worker fetched is the one it finds again in
\* the backup.
THEOREM ValuesAddUpHolds == Spec => []ValuesAddUp
<1>1. IInv /\ AddUpInv /\ WorthInv => ValuesAddUp
  <2> SUFFICES ASSUME IInv, AddUpInv, WorthInv
               PROVE  ValuesAddUp
    OBVIOUS
  <2>1. ASSUME NEW w \in Worker, pc[w] = "backup", NEW i \in Visits(batch[w])
        PROVE  Worth(<<w, i>>) = batch[w][i].v
    <3> DEFINE x == batch[w][i].node
    <3>1. i \in DOMAIN batch[w] /\ IsVisit(w, i)
      BY DEF Visits, IsVisit
    <3>2. x \in Node /\ TicketAt(<<w, i>>) = batch[w][i]
      BY <3>1, BatchTyped DEF IInv, Ticket, TicketAt
    <3>3. terminal[x] => GetQ(x) = batch[w][i].v
      BY <2>1, <3>1, <3>2, TerminalGetQ DEF IInv, WorthInv, FetchedIsCurrent
    <3>4. QED
      BY <3>2, <3>3 DEF Worth
  <2>2. QED
    BY <2>1 DEF WorthInv, TerminalKept, EarnedAddUp, ValuesAddUp
<1>2. QED
  BY <1>1, IInvInvariant, AddUpInvariant, WorthInvariant, PTL
=============================================================================
