---------------------------- MODULE OptionsProofs ----------------------------
(***************************************************************************)
(* The settings are what the flags say, and a tournament starts when they  *)
(* can all be read and give a movetime, for command lines of any arguments *)
(* and of any length.                                                      *)
(***************************************************************************)
EXTENDS Options, FiniteSetTheorems, SequenceTheorems, WellFoundedInduction, TLAPS

-----------------------------------------------------------------------------
\* The empty string is none of the strings the parser knows.
LEMMA NothingIs ==
  Nothing # "b" /\ Nothing # "t" /\ Nothing # "number" /\ Nothing # "random"
BY Zenon DEF Nothing

(***************************************************************************)
(* The table of the options.                                               *)
(***************************************************************************)
LEMMA TheOptions == DOMAIN OptionTable = 1 .. 12 /\ Len(OptionTable) = 12
BY SMT DEF OptionTable

LEMMA OptionFields ==
  ASSUME NEW l, NEW s, NEW k, NEW m, NEW n, NEW d, NEW o, o = Option(l, s, k, m, n, d)
  PROVE  /\ o.long = l /\ o.short = s /\ o.kind = k
         /\ o.min = m /\ o.max = n /\ o.default = d
BY DEF Option

LEMMA OptionRows ==
  /\ OptionTable[1] = Option("backend", "b", "choice", 0, 0, "random")
  /\ OptionTable[2] = Option("threads", "t", "int", 1, 8, 1)
  /\ OptionTable[3] = Option("minibatch-size", Nothing, "int", 1, 1024, 256)
  /\ OptionTable[4] = Option("cpuct", Nothing, "float", 0, 1000, 30)
  /\ OptionTable[5] = Option("cpuct-base", Nothing, "float", 10, 10000000, 196520)
  /\ OptionTable[6] = Option("cpuct-factor", Nothing, "float", 0, 10000, 20)
  /\ OptionTable[7] = Option("temperature", Nothing, "float", 0, 1000, 0)
  /\ OptionTable[8] = Option("fpu-value", Nothing, "float", -1000, 1000, 12)
  /\ OptionTable[9] = Option("games", Nothing, "int", -1, 99999, 1)
  /\ OptionTable[10] = Option("parallelism", Nothing, "int", 1, 256, 8)
  /\ OptionTable[11] = Option("movetime", Nothing, "int", -1, 9999999, -1)
BY SMTT(60) DEF OptionTable

\* The only option that is a bool.
LEMMA TrainingFields ==
  /\ OptionTable[12].long = "training" /\ OptionTable[12].short = Nothing
  /\ OptionTable[12].kind = "bool" /\ OptionTable[12].default = FALSE
<1>1. OptionTable[12] = Option("training", Nothing, "bool", 0, 0, FALSE)
  BY SMTT(60) DEF OptionTable
<1>2. \A o : o = Option("training", Nothing, "bool", 0, 0, FALSE) =>
               o.long = "training" /\ o.short = Nothing /\ o.kind = "bool"
  BY SMT DEF Option
<1>3. \A o : o = Option("training", Nothing, "bool", 0, 0, FALSE) => o.default = FALSE
  BY SMT DEF Option
<1>4. QED
  BY <1>1, <1>2, <1>3, Zenon

LEMMA OptionNames ==
  /\ OptionTable[1].long = "backend" /\ OptionTable[2].long = "threads"
  /\ OptionTable[3].long = "minibatch-size" /\ OptionTable[4].long = "cpuct"
  /\ OptionTable[5].long = "cpuct-base" /\ OptionTable[6].long = "cpuct-factor"
  /\ OptionTable[7].long = "temperature" /\ OptionTable[8].long = "fpu-value"
  /\ OptionTable[9].long = "games" /\ OptionTable[10].long = "parallelism"
  /\ OptionTable[11].long = "movetime" /\ OptionTable[12].long = "training"
BY OptionRows, OptionFields, TrainingFields, SMTT(60)

LEMMA OptionLetters ==
  /\ OptionTable[1].short = "b" /\ OptionTable[2].short = "t"
  /\ \A i \in 3 .. 12 : OptionTable[i].short = Nothing
<1>1. OptionTable[1].short = "b" /\ OptionTable[2].short = "t"
  BY OptionRows, OptionFields, TrainingFields, SMTT(60)
<1>2. /\ OptionTable[3].short = Nothing /\ OptionTable[4].short = Nothing /\ OptionTable[5].short = Nothing
      /\ OptionTable[6].short = Nothing /\ OptionTable[7].short = Nothing /\ OptionTable[8].short = Nothing
      /\ OptionTable[9].short = Nothing /\ OptionTable[10].short = Nothing /\ OptionTable[11].short = Nothing
      /\ OptionTable[12].short = Nothing
  BY OptionRows, OptionFields, TrainingFields, SMTT(60)
<1>3. QED
  BY <1>1, <1>2

LEMMA OptionKinds ==
  /\ OptionTable[1].kind = "choice" /\ OptionTable[12].kind = "bool"
  /\ \A i \in {2, 3, 9, 10, 11} : OptionTable[i].kind = "int"
  /\ \A i \in 4 .. 8 : OptionTable[i].kind = "float"
<1>1. /\ OptionTable[1].kind = "choice" /\ OptionTable[12].kind = "bool"
      /\ OptionTable[2].kind = "int" /\ OptionTable[3].kind = "int" /\ OptionTable[9].kind = "int"
      /\ OptionTable[10].kind = "int" /\ OptionTable[11].kind = "int"
  BY OptionRows, OptionFields, TrainingFields, SMTT(60)
<1>2. /\ OptionTable[4].kind = "float" /\ OptionTable[5].kind = "float"
      /\ OptionTable[6].kind = "float" /\ OptionTable[7].kind = "float"
      /\ OptionTable[8].kind = "float"
  BY OptionRows, OptionFields, TrainingFields, SMTT(60)
<1>3. QED
  BY <1>1, <1>2

\* An option is found by its name, and by its letter when it has one.
LEMMA NamesDiffer ==
  \A i, j \in DOMAIN OptionTable :
      /\ OptionTable[i].long = OptionTable[j].long => i = j
      /\ OptionTable[i].short = OptionTable[j].short /\ OptionTable[i].short # Nothing => i = j
<1>1. TAKE i, j \in DOMAIN OptionTable
<1>2. OptionTable[i].long = OptionTable[j].long => i = j
  BY TheOptions, OptionNames
<1>3. OptionTable[i].short = OptionTable[j].short /\ OptionTable[i].short # Nothing => i = j
  BY TheOptions, OptionLetters, NothingIs
<1>4. QED
  BY <1>2, <1>3

\* The option with a short flag is no bool.
LEMMA LetteredOptions ==
  \A i \in DOMAIN OptionTable :
      OptionTable[i].short # Nothing => OptionTable[i].kind \in {"choice", "int"}
BY TheOptions, OptionLetters, OptionKinds

\* What is not set has a value in its range.
LEMMA DefaultsInRange ==
  \A i \in DOMAIN OptionTable : OptionTable[i].default \in Values(OptionTable[i])
<1>1. TAKE i \in DOMAIN OptionTable
<1>2. i \in 1 .. 12
  BY TheOptions
<1>3. CASE i = 1
  BY <1>3, OptionRows, OptionFields, TrainingFields, SMTT(60) DEF Values, Backends
<1>4. CASE i = 12
  BY <1>4, TrainingFields DEF Values
<1>5. CASE i \in 2 .. 11
  <2>1. OptionTable[i].kind \notin {"bool", "choice"}
    BY <1>5, OptionKinds
  <2>2. OptionTable[i].default \in OptionTable[i].min .. OptionTable[i].max
    BY <1>5, OptionRows, OptionFields, TrainingFields, SMTT(60)
  <2>3. QED
    BY <2>1, <2>2 DEF Values
<1>6. QED
  BY <1>2, <1>3, <1>4, <1>5
-----------------------------------------------------------------------------
(***************************************************************************)
(* Which arguments are values.                                             *)
(***************************************************************************)

\* Induction up to n.
LEMMA UpTo ==
  ASSUME NEW n \in Nat, NEW S \in SUBSET (0 .. n), 0 \in S,
         \A k \in S : k < n => k + 1 \in S
  PROVE  S = 0 .. n
<1> DEFINE below(k) == 0 .. k
           T == {below(k) : k \in (0 .. n) \ S}
           R == StrictSubsetOrdering(0 .. n)
<1>1. SUFFICES ASSUME (0 .. n) \ S # {} PROVE FALSE
  OBVIOUS
<1>2. IsFiniteSet(0 .. n)
  BY FS_Interval, 0 \in Int, n \in Int, Zenon
<1>3. IsWellFoundedOn(R, SUBSET (0 .. n))
  BY <1>2, FS_FiniteSubsetsOfFinite, FS_StrictSubsetOrderingWellFounded
<1>4. T \subseteq SUBSET (0 .. n) /\ T # {}
  <2>1. \A k \in 0 .. n : below(k) \subseteq 0 .. n
    OBVIOUS
  <2>2. T # {}
    BY <1>1
  <2>3. QED
    BY <2>1, <2>2
<1>5. PICK x \in T : \A y \in T : ~(<<y, x>> \in R)
  BY <1>3, <1>4, WFMin
<1>6. PICK k \in (0 .. n) \ S : x = below(k)
  OBVIOUS
<1>7. k - 1 \in 0 .. n /\ k - 1 \notin S
  BY <1>6
<1>8. below(k - 1) \subseteq below(k) /\ below(k - 1) # below(k)
  <2>1. k \in below(k) /\ k \notin below(k - 1)
    BY <1>6
  <2>2. below(k - 1) \subseteq below(k)
    BY <1>6
  <2>3. QED
    BY <2>1, <2>2
<1>9. <<below(k - 1), x>> \in R
  BY <1>4, <1>6, <1>7, <1>8 DEF StrictSubsetOrdering
<1>10. QED
  BY <1>5, <1>7, <1>9

IsShort(k) == arguments[k].form = "short"

\* The arguments from j to the one before i are short flags or their values, and
\* the one before j is neither or does not exist.
ShortFrom(j, i) == (\A k \in j .. i - 1 : IsShort(k)) /\ (j = 1 \/ ~IsShort(j - 1))

LEMMA ShortsStart == \A i \in Nat \ {0} : \E j \in 1 .. i : ShortFrom(j, i)
<1>1. TAKE n \in Nat \ {0}
<1> DEFINE S == {i \in 0 .. n : i = 0 \/ \E j \in 1 .. i : ShortFrom(j, i)}
<1>2. 0 \in S
  OBVIOUS
<1>3. ASSUME NEW i \in S, i < n PROVE i + 1 \in S
  <2>1. i + 1 \in 0 .. n
    BY <1>3
  <2>2. CASE i # 0 /\ IsShort(i)
    <3>1. PICK j \in 1 .. i : ShortFrom(j, i)
      BY <2>2
    <3>2. j \in 1 .. i + 1 /\ ShortFrom(j, i + 1)
      BY <2>2, <3>1 DEF ShortFrom
    <3>3. QED
      BY <2>1, <3>2
  <2>3. CASE i = 0 \/ ~IsShort(i)
    <3>1. i + 1 \in 1 .. i + 1 /\ ShortFrom(i + 1, i + 1)
      BY <2>3 DEF ShortFrom
    <3>2. QED
      BY <2>1, <3>1
  <2>4. QED
    BY <2>2, <2>3
<1> HIDE DEF S
<1>4. S = 0 .. n
  <2>1. S \in SUBSET (0 .. n)
    BY DEF S
  <2>2. QED
    BY <1>2, <1>3, <2>1, UpTo
<1>5. QED
  BY <1>4 DEF S

LEMMA OneStart ==
  ASSUME NEW i \in Nat, NEW j \in 1 .. i, NEW k \in 1 .. i, ShortFrom(j, i), ShortFrom(k, i)
  PROVE  j = k
<1>1. ASSUME NEW a \in 1 .. i, NEW b \in 1 .. i, ShortFrom(a, i), ShortFrom(b, i), a < b
      PROVE  FALSE
  <2>1. b - 1 \in a .. i - 1 /\ b # 1
    BY <1>1
  <2>2. QED
    BY <1>1, <2>1 DEF ShortFrom
<1>2. ~(j < k) /\ ~(k < j)
  BY <1>1
<1>3. QED
  BY <1>2

\* Every other argument of a run of short ones is a value.
Odd(i) == \E j \in 1 .. i : ShortFrom(j, i) /\ (i - j) % 2 = 1

LEMMA OddIs ==
  \A i \in Nat : Odd(i) <=> i > 1 /\ IsShort(i - 1) /\ ~Odd(i - 1)
<1>1. TAKE i \in Nat
<1>2. CASE i <= 1
  BY <1>2 DEF Odd
<1>3. CASE i > 1 /\ ~IsShort(i - 1)
  <2>1. ASSUME NEW j \in 1 .. i, ShortFrom(j, i) PROVE j = i
    <3>1. ~(i - 1 \in j .. i - 1)
      BY <1>3, <2>1 DEF ShortFrom
    <3>2. QED
      BY <3>1
  <2>2. QED
    BY <1>3, <2>1 DEF Odd
<1>4. CASE i > 1 /\ IsShort(i - 1)
  <2>1. PICK j \in 1 .. i - 1 : ShortFrom(j, i - 1)
    BY <1>4, ShortsStart
  <2>2. j \in 1 .. i /\ ShortFrom(j, i)
    BY <1>4, <2>1 DEF ShortFrom
  <2>3. Odd(i) <=> (i - j) % 2 = 1
    BY <2>2, OneStart DEF Odd
  <2>4. Odd(i - 1) <=> ((i - 1) - j) % 2 = 1
    <3>1. i - 1 \in Nat
      BY <1>4
    <3>2. QED
      BY <2>1, <3>1, OneStart DEF Odd
  <2>5. (i - j) % 2 = 1 <=> ~(((i - 1) - j) % 2 = 1)
    <3>1. PICK d \in Nat : d = (i - 1) - j
      BY <1>4, <2>1
    <3>2. (d + 1) % 2 = 1 <=> ~(d % 2 = 1)
      OBVIOUS
    <3>3. QED
      BY <3>1, <3>2
  <2>6. QED
    BY <1>4, <2>3, <2>4, <2>5
<1>5. QED
  BY <1>2, <1>3, <1>4

\* IsValue is what its recursive definition says.
LEMMA IsValueIs ==
  \A i \in Nat : IsValue[i] <=> i > 1 /\ IsShort(i - 1) /\ ~IsValue[i - 1]
<1> DEFINE Unfolds(g) == g = [i \in Nat |-> i > 1 /\ arguments[i - 1].form = "short" /\ ~g[i - 1]]
           odd == [i \in Nat |-> Odd(i)]
<1>1. Unfolds(odd)
  <2>1. ASSUME NEW i \in Nat
        PROVE  odd[i] = (i > 1 /\ arguments[i - 1].form = "short" /\ ~odd[i - 1])
    <3>1. Odd(i) <=> i > 1 /\ IsShort(i - 1) /\ ~Odd(i - 1)
      BY OddIs
    <3>2. odd[i] = Odd(i)
      OBVIOUS
    <3>3. i > 1 => odd[i - 1] = Odd(i - 1)
      OBVIOUS
    <3> HIDE DEF odd
    <3>4. odd[i] \in BOOLEAN
      BY <3>2, Zenon DEF Odd
    <3>5. odd[i] <=> i > 1 /\ IsShort(i - 1) /\ ~odd[i - 1]
      BY <3>1, <3>2, <3>3, Zenon
    <3>6. QED
      BY <3>4, <3>5, Zenon DEF IsShort
  <2>2. QED
    BY <2>1
<1>2. IsValue = CHOOSE g : Unfolds(g)
  BY DEF IsValue
<1> HIDE DEF odd
<1>3. Unfolds(IsValue)
  <2> HIDE DEF Unfolds
  <2>1. QED
    BY <1>1, <1>2, Zenon
<1>4. QED
  BY <1>3 DEF IsShort
-----------------------------------------------------------------------------
(***************************************************************************)
(* What is read is in the range of the option.                             *)
(***************************************************************************)
LEMMA ReadInRange ==
  \A i \in DOMAIN OptionTable : \A text :
      OptionTable[i].kind # "bool" => Read(OptionTable[i], text) \subseteq Values(OptionTable[i])
<1>1. SUFFICES ASSUME NEW i \in DOMAIN OptionTable, NEW text, OptionTable[i].kind # "bool"
               PROVE  Read(OptionTable[i], text) \subseteq Values(OptionTable[i])
  OBVIOUS
<1>2. CASE OptionTable[i].kind = "choice"
  BY <1>2 DEF Read, ReadChoice, Values
<1>3. CASE OptionTable[i].kind = "int"
  BY <1>3 DEF Read, ReadInt, InRange, Values
<1>4. CASE OptionTable[i].kind = "float"
  BY <1>4 DEF Read, ReadFloat, InRange, Values
<1>5. OptionTable[i].kind \in {"choice", "int", "float"}
  BY <1>1, TheOptions, OptionKinds
<1>6. QED
  BY <1>2, <1>3, <1>4, <1>5

LEMMA ReadBoolInRange ==
  \A i \in DOMAIN OptionTable : \A arg :
      OptionTable[i].kind = "bool" => ReadBool(arg) \subseteq Values(OptionTable[i])
<1>1. SUFFICES ASSUME NEW i \in DOMAIN OptionTable, NEW arg, OptionTable[i].kind = "bool"
               PROVE  ReadBool(arg) \subseteq Values(OptionTable[i])
  OBVIOUS
<1>2. Values(OptionTable[i]) = BOOLEAN
  BY <1>1 DEF Values
<1>3. ReadBool(arg) \in {{TRUE}, {FALSE}, {}}
  BY Zenon DEF ReadBool
<1>4. QED
  BY <1>2, <1>3, Zenon

\* A flag that takes a value cannot do without.
LEMMA ReadNothing ==
  \A i \in DOMAIN OptionTable :
      OptionTable[i].kind \in {"choice", "int"} => Read(OptionTable[i], Word(Nothing)) = {}
BY NothingIs DEF Read, ReadInt, ReadChoice, Word, Backends
-----------------------------------------------------------------------------
(***************************************************************************)
(* Reading one more argument.                                              *)
(***************************************************************************)

\* The parser never takes a value for a flag.
NextIsAFlag == pc = "flags" => ~IsValue[next]

\* It leaves the loop at the end of the command line.
ReadAll == pc \in {"construct", "tournament"} => next > Len(arguments)

Inv == TypeOK /\ NextIsAFlag /\ ReadAll /\ SettingsAreTheFlags /\ FlagsDecide

Saying(o, n) == {i \in 1 .. n - 1 : ~IsValue[i] /\ Says(i, o) # {}}

\* Option o has the value of the last of the arguments in S, or its default.
Follows(o, S) ==
    IF S = {} THEN Get(o) = OptionTable[o].default
    ELSE \E i \in S : Get(o) \in Says(i, o) /\ \A j \in S : j <= i

LEMMA SettingsAre ==
  SettingsAreTheFlags <=> \A o \in DOMAIN OptionTable : Follows(o, Saying(o, next))
BY DEF SettingsAreTheFlags, Follows, Saying

LEMMA SettingsWillBe ==
  SettingsAreTheFlags' <=> \A o \in DOMAIN OptionTable : Follows(o, Saying(o, next))'
BY DEF SettingsAreTheFlags, Follows, Saying

\* What an argument says depends on the command line only.
LEMMA SaysTheSame ==
  ASSUME UNCHANGED arguments
  PROVE  IsValue' = IsValue /\ \A o, n : Says(n, o)' = Says(n, o)
BY DEF IsValue, Says, AsText, Read, ReadBool

LEMMA FaultyTheSame ==
  ASSUME UNCHANGED arguments
  PROVE  Faulty' = Faulty /\ TimeIsGiven' = TimeIsGiven
BY SaysTheSame DEF Faulty, Foreign, TimeIsGiven, Index

\* The loop or the constructor is left.
LEMMA ReturnKeeps ==
  ASSUME Inv, UNCHANGED <<arguments, next, values>>, ReadAll', FlagsDecide',
         pc' \in {"refused", "terminated", "construct", "tournament"}
  PROVE  Inv'
<1>1. TypeOK' /\ NextIsAFlag'
  BY DEF Inv, TypeOK, NextIsAFlag, Get
<1>2. ASSUME NEW o \in DOMAIN OptionTable PROVE Follows(o, Saying(o, next))'
  <2>1. Get(o)' = Get(o)
    BY DEF Get
  <2>2. Saying(o, next)' = Saying(o, next)
    BY SaysTheSame DEF Saying
  <2>3. Follows(o, Saying(o, next))
    BY SettingsAre DEF Inv
  <2>4. QED
    BY <2>1, <2>2, <2>3, SaysTheSame DEF Follows
<1>3. QED
  BY <1>1, <1>2, SettingsWillBe DEF Inv

\* It is left at an argument that cannot be read.
LEMMA FaultKeeps ==
  ASSUME Inv, pc = "flags", next <= Len(arguments), UNCHANGED <<arguments, next, values>>,
         pc' \in {"refused", "terminated"}, arguments[next].form # "hidden",
         Foreign(next) \/ \A o \in DOMAIN OptionTable : Says(next, o) = {}
  PROVE  Inv'
<1>1. next \in Faulty
  BY DEF Inv, TypeOK, NextIsAFlag, Faulty
<1>2. FlagsDecide'
  BY <1>1, FaultyTheSame DEF Inv, FlagsDecide
<1>3. ReadAll'
  BY DEF ReadAll
<1>4. QED
  BY <1>2, <1>3, ReturnKeeps

\* A flag that was not taken for a value is read: step arguments are used up.
LEMMA ReadingKeeps ==
  ASSUME Inv, pc = "flags", next <= Len(arguments), NEW i \in DOMAIN OptionTable,
         NEW read, read \subseteq Values(OptionTable[i]), NEW step \in {1, 2},
         SetOrThrow(i, read, step),
         read # {} => next + step <= Len(arguments) + 1,
         IsShort(next) <=> step = 2,
         arguments[next].form # "hidden", ~Foreign(next),
         \A o \in DOMAIN OptionTable : Says(next, o) = IF o = i THEN read ELSE {}
  PROVE  Inv'
<1>1. CASE read = {}
  BY <1>1, FaultKeeps DEF SetOrThrow
<1>2. CASE read # {}
  <2> DEFINE v == CHOOSE w \in read : TRUE
  <2>1. /\ arguments' = arguments /\ values' = With(i, v) /\ next' = next + step /\ pc' = "flags"
    BY <1>2 DEF SetOrThrow
  <2>2. v \in read
    BY <1>2
  <2> HIDE DEF v
  <2>3. next \in Nat \ {0} /\ arguments \in Seq(Argument) /\ Len(arguments) \in Nat
    BY DEF Inv, TypeOK
  <2>4. DOMAIN values' = DOMAIN values \cup {i} /\ Get(i)' = v
    BY <2>1 DEF With, Get
  <2>5. \A o \in DOMAIN OptionTable : o # i => Get(o)' = Get(o)
    BY <2>1 DEF With, Get
  <2>6. TypeOK'
    <3>1. arguments' \in Seq(Argument) /\ next' \in 1 .. Len(arguments') + 1 /\ pc' = "flags"
      BY <1>2, <2>1, <2>3
    <3>2. DOMAIN values' \subseteq DOMAIN OptionTable
      BY <2>4 DEF Inv, TypeOK
    <3>3. \A o \in DOMAIN OptionTable : Get(o)' \in Values(OptionTable[o])
      BY <2>2, <2>4, <2>5 DEF Inv, TypeOK
    <3>4. QED
      BY <3>1, <3>2, <3>3 DEF TypeOK
  <2>7. ~IsValue[next] /\ (step = 2 => IsValue[next + 1]) /\ ~IsValue[next + step]
    <3>1. ~IsValue[next]
      BY DEF Inv, NextIsAFlag
    <3>2. IsValue[next + 1] <=> IsShort(next)
      BY <2>3, <3>1, IsValueIs
    <3>3. IsValue[next + 2] => ~IsValue[next + 1]
      BY <2>3, IsValueIs
    <3>4. QED
      BY <3>1, <3>2, <3>3
  <2>8. NextIsAFlag'
    BY <2>1, <2>7, SaysTheSame DEF NextIsAFlag
  <2>9. ASSUME NEW o \in DOMAIN OptionTable PROVE Follows(o, Saying(o, next))'
    <3>1. Saying(o, next)' = Saying(o, next + step)
      BY <2>1, SaysTheSame DEF Saying
    <3>2. Follows(o, Saying(o, next))
      BY SettingsAre DEF Inv
    <3>3. Saying(o, next) \subseteq 1 .. next - 1
      BY DEF Saying
    <3>4. CASE o = i
      <4>1. Saying(o, next + step) = Saying(o, next) \cup {next}
        BY <1>2, <2>3, <2>7, <3>4 DEF Saying
      <4>2. Get(o)' \in Says(next, o)
        BY <2>2, <2>4, <3>4
      <4>3. \A j \in Saying(o, next + step) : j <= next
        BY <2>3, <3>3, <4>1
      <4>4. QED
        BY <2>1, <3>1, <4>1, <4>2, <4>3, SaysTheSame DEF Follows
    <3>5. CASE o # i
      <4>1. Saying(o, next + step) = Saying(o, next)
        BY <2>3, <2>7, <3>5 DEF Saying
      <4>2. QED
        BY <2>1, <2>5, <3>1, <3>2, <3>5, <4>1, SaysTheSame DEF Follows
    <3>6. QED
      BY <3>4, <3>5
  <2>10. FlagsDecide' /\ ReadAll'
    <3>1. ASSUME NEW j \in Faulty PROVE next + step <= j
      <4>1. j \in Nat /\ next <= j /\ ~IsValue[j]
        BY <2>3 DEF Inv, FlagsDecide, Faulty
      <4>2. next \notin Faulty
        BY <1>2 DEF Faulty
      <4>3. step = 2 => j # next + 1
        BY <2>7, <4>1
      <4>4. j # next
        BY <4>2
      <4>5. QED
        BY <2>3, <4>1, <4>3, <4>4
    <3>2. QED
      BY <2>1, <3>1, FaultyTheSame DEF FlagsDecide, ReadAll
  <2>11. QED
    BY <2>6, <2>8, <2>9, <2>10, SettingsWillBe DEF Inv
<1>3. QED
  BY <1>1, <1>2

\* What is no flag is read: it says nothing of any option.
LEMMA PassingKeeps ==
  ASSUME Inv, ShowHidden
  PROVE  Inv'
<1>1. /\ pc = "flags" /\ next <= Len(arguments) /\ arguments[next].form = "hidden"
      /\ next' = next + 1 /\ UNCHANGED <<arguments, values, pc>>
  BY DEF ShowHidden, Arguing, Current
<1>2. next \in Nat \ {0} /\ arguments \in Seq(Argument) /\ Len(arguments) \in Nat
  BY DEF Inv, TypeOK
<1>3. TypeOK' /\ ReadAll'
  BY <1>1, <1>2 DEF Inv, TypeOK, ReadAll, Get
<1>4. FlagsDecide'
  <2>1. ASSUME NEW j \in Faulty PROVE next + 1 <= j
    <3>1. j \in Nat /\ next <= j /\ j # next
      BY <1>1, <1>2 DEF Inv, FlagsDecide, Faulty
    <3>2. QED
      BY <1>2, <3>1
  <2>2. QED
    BY <1>1, <2>1, FaultyTheSame DEF FlagsDecide
<1>5. NextIsAFlag'
  <2>1. ~IsValue[next + 1]
    BY <1>1, <1>2, IsValueIs DEF IsShort
  <2>2. QED
    BY <1>1, <2>1, SaysTheSame DEF NextIsAFlag
<1>6. ASSUME NEW o \in DOMAIN OptionTable PROVE Follows(o, Saying(o, next))'
  <2>1. Says(next, o) = {}
    BY <1>1 DEF Says
  <2>2. Saying(o, next)' = Saying(o, next)
    BY <1>1, <1>2, <2>1, SaysTheSame DEF Saying
  <2>3. Get(o)' = Get(o)
    BY <1>1 DEF Get
  <2>4. Follows(o, Saying(o, next))
    BY SettingsAre DEF Inv
  <2>5. QED
    BY <1>1, <2>2, <2>3, <2>4, SaysTheSame DEF Follows
<1>7. QED
  BY <1>3, <1>5, <1>6, <1>4, SettingsWillBe DEF Inv

LEMMA LongFlagKeeps ==
  ASSUME Inv, NEW i \in DOMAIN OptionTable, ProcessLongFlag(i)
  PROVE  Inv'
<1> DEFINE bool == OptionTable[i].kind = "bool"
           read == IF bool THEN ReadBool(Current) ELSE Read(OptionTable[i], Current.text)
<1>1. /\ pc = "flags" /\ next <= Len(arguments) /\ Current.form \in {"long", "no"}
      /\ OptionTable[i].long = Current.name
  BY DEF ProcessLongFlag, Arguing, Named
<1>2. SetOrThrow(i, read, 1)
  BY DEF ProcessLongFlag
<1>3. read \subseteq Values(OptionTable[i])
  BY ReadInRange, ReadBoolInRange
<1>4. \A o \in DOMAIN OptionTable : Says(next, o) = IF o = i THEN read ELSE {}
  <2>1. ~bool => Current.form = "long"
    BY DEF ProcessLongFlag
  <2>2. QED
    BY <1>1, <2>1, NamesDiffer DEF Says, Current
<1> HIDE DEF read
<1>5. next \in Nat /\ Len(arguments) \in Nat
  BY DEF Inv, TypeOK
<1>6. ~IsShort(next) /\ arguments[next].form # "hidden" /\ ~Foreign(next)
  BY <1>1 DEF IsShort, Current, Foreign, ProcessLongFlag
<1>7. QED
  BY <1>1, <1>2, <1>3, <1>4, <1>5, <1>6, ReadingKeeps

LEMMA ShortFlagKeeps ==
  ASSUME Inv, NEW i \in DOMAIN OptionTable, ProcessShortFlag(i)
  PROVE  Inv'
<1> DEFINE read == Read(OptionTable[i], Following)
<1>1. /\ pc = "flags" /\ next <= Len(arguments) /\ Current.form = "short"
      /\ OptionTable[i].short = Current.name
  BY DEF ProcessShortFlag, Arguing, Lettered
<1>2. SetOrThrow(i, read, 2)
  BY DEF ProcessShortFlag
<1>3. next \in 1 .. Len(arguments) + 1 /\ Len(arguments) \in Nat /\ arguments \in Seq(Argument)
  BY DEF Inv, TypeOK
<1>4. OptionTable[i].short # Nothing
  <2>1. Current \in Argument
    BY <1>1, <1>3 DEF Current
  <2>2. QED
    BY <1>1, <2>1, OptionsAssumption
<1>5. OptionTable[i].kind \in {"choice", "int"}
  BY <1>4, LetteredOptions
<1>6. read \subseteq Values(OptionTable[i])
  BY <1>5, ReadInRange
<1>7. next = Len(arguments) => read = {}
  BY <1>5, ReadNothing DEF Following
<1>8. \A o \in DOMAIN OptionTable : Says(next, o) = IF o = i THEN read ELSE {}
  <2>1. ASSUME NEW o \in DOMAIN OptionTable
        PROVE  OptionTable[o].short = Current.name <=> o = i
    BY <1>1, <1>4, NamesDiffer
  <2>2. CASE next < Len(arguments)
    BY <1>1, <2>1, <2>2 DEF Says, Current, Following
  <2>3. CASE next = Len(arguments)
    <3>1. \A o \in DOMAIN OptionTable : Says(next, o) = {}
      BY <1>1, <1>3, <2>3 DEF Says, Current
    <3>2. QED
      BY <1>7, <2>3, <3>1
  <2>4. QED
    BY <1>1, <1>3, <2>2, <2>3
<1> HIDE DEF read
<1>9. IsShort(next) /\ arguments[next].form # "hidden" /\ ~Foreign(next)
  BY <1>1 DEF IsShort, Current, Foreign
<1>10. read # {} => next + 2 <= Len(arguments) + 1
  BY <1>1, <1>3, <1>7
<1>11. QED
  BY <1>1, <1>2, <1>6, <1>8, <1>9, <1>10, ReadingKeeps

\* What other arguments end the loop.
LEMMA UnknownKeeps ==
  ASSUME Inv,
         UnknownContext \/ UnknownLongFlag \/ UnknownShortFlag \/ UnknownArgument \/ ShowHelp
  PROVE  Inv'
<1>1. /\ pc = "flags" /\ next <= Len(arguments) /\ UNCHANGED <<arguments, next, values>>
      /\ pc' \in {"refused", "terminated"} /\ arguments[next].form # "hidden"
  BY DEF UnknownContext, UnknownLongFlag, UnknownShortFlag, UnknownArgument, ShowHelp,
         Arguing, Return, Current
<1>2. CASE UnknownContext
  <2>1. Foreign(next)
    BY <1>2 DEF UnknownContext, Arguing, Current, Foreign
  <2>2. QED
    BY <1>1, <2>1, FaultKeeps
<1>3. CASE UnknownLongFlag
  <2>1. \A o \in DOMAIN OptionTable : Says(next, o) = {}
    BY <1>3 DEF UnknownLongFlag, Arguing, Current, Named, Says
  <2>2. QED
    BY <1>1, <2>1, FaultKeeps
<1>4. CASE UnknownShortFlag
  <2>1. \A o \in DOMAIN OptionTable : Says(next, o) = {}
    BY <1>4 DEF UnknownShortFlag, Arguing, Current, Lettered, Says
  <2>2. QED
    BY <1>1, <2>1, FaultKeeps
<1>5. CASE UnknownArgument \/ ShowHelp
  <2>1. \A o \in DOMAIN OptionTable : Says(next, o) = {}
    BY <1>5 DEF UnknownArgument, ShowHelp, Arguing, Current, Says
  <2>2. QED
    BY <1>1, <2>1, FaultKeeps
<1>6. QED
  BY <1>2, <1>3, <1>4, <1>5

LEMMA ProcessedAllKeeps ==
  ASSUME Inv, ProcessedAll
  PROVE  Inv'
<1>1. /\ next > Len(arguments) /\ pc' = "construct" /\ UNCHANGED <<arguments, next, values>>
  BY DEF ProcessedAll, Return
<1>2. ReadAll' /\ FlagsDecide'
  BY <1>1, FaultyTheSame DEF Inv, FlagsDecide, ReadAll
<1>3. QED
  BY <1>1, <1>2, ReturnKeeps

\* The option with the name movetime is the one, and a flag gives it one value.
LEMMA MoveTimeIs ==
  /\ Index("movetime") = 11 /\ 11 \in DOMAIN OptionTable
  /\ OptionTable[11].kind = "int" /\ OptionTable[11].default = -1
<1>1. 11 \in DOMAIN OptionTable /\ OptionTable[11].long = "movetime"
  BY TheOptions, OptionNames
<1>2. Index(OptionTable[11].long) = 11
  BY <1>1, NamesDiffer DEF Index
<1>3. OptionTable[11].kind = "int"
  BY OptionKinds
<1>4. OptionTable[11].default = -1
  BY OptionRows, OptionFields, SMT
<1>5. QED
  BY <1>1, <1>2, <1>3, <1>4

LEMMA MoveTimeIsOne ==
  ASSUME NEW i, NEW v \in Says(i, 11)
  PROVE  Says(i, 11) = {v}
<1>1. \A text : v \in Read(OptionTable[11], text) => Read(OptionTable[11], text) = {v}
  BY MoveTimeIs DEF Read, ReadInt, InRange
<1>2. QED
  BY <1>1, MoveTimeIs DEF Says

\* After the whole command line the last movetime is what is set.
LEMMA TimeIsSet ==
  ASSUME Inv, next > Len(arguments)
  PROVE  HasMoveTime <=> TimeIsGiven
<1> DEFINE given == {i \in 1 .. Len(arguments) : ~IsValue[i] /\ Says(i, 11) # {}}
           Last(i) == i \in given /\ \A j \in given : j <= i
<1>1. next = Len(arguments) + 1 /\ Len(arguments) \in Nat
  BY DEF Inv, TypeOK
<1>2. Saying(11, next) = given
  BY <1>1 DEF Saying
<1>3. Follows(11, given)
  BY <1>2, SettingsAre, MoveTimeIs DEF Inv
<1>4. TimeIsGiven <=> \E i : Last(i) /\ -1 \notin Says(i, 11)
  BY MoveTimeIs DEF TimeIsGiven
<1>5. HasMoveTime <=> Get(11) # -1
  BY MoveTimeIs DEF HasMoveTime, Setting
<1>6. CASE given = {}
  <2>1. Get(11) = -1
    BY <1>3, <1>6, MoveTimeIs DEF Follows
  <2>2. QED
    BY <1>4, <1>5, <1>6, <2>1
<1>7. CASE given # {}
  <2>1. PICK i : Last(i) /\ Get(11) \in Says(i, 11)
    BY <1>3, <1>7 DEF Follows
  <2>2. \A j : Last(j) => j = i
    BY <1>1, <2>1
  <2>3. Says(i, 11) = {Get(11)}
    BY <2>1, MoveTimeIsOne
  <2> HIDE DEF Last
  <2>4. QED
    BY <1>4, <1>5, <2>1, <2>2, <2>3
<1>8. QED
  BY <1>6, <1>7

LEMMA ConstructKeeps ==
  ASSUME Inv, Construct
  PROVE  Inv'
<1>1. /\ pc = "construct" /\ UNCHANGED <<arguments, next, values>>
      /\ pc' = IF HasMoveTime THEN "tournament" ELSE "terminated"
  BY DEF Construct, Return
<1>2. next > Len(arguments) /\ Len(arguments) \in Nat /\ next \in Nat
  BY <1>1 DEF Inv, TypeOK, ReadAll
<1>3. Faulty = {}
  BY <1>2 DEF Inv, FlagsDecide, Faulty
<1>4. HasMoveTime <=> TimeIsGiven
  BY <1>2, TimeIsSet
<1>5. FlagsDecide' /\ ReadAll'
  BY <1>1, <1>2, <1>3, <1>4, FaultyTheSame DEF FlagsDecide, ReadAll
<1>6. QED
  BY <1>1, <1>5, ReturnKeeps

LEMMA StutterKeeps ==
  ASSUME Inv, UNCHANGED vars
  PROVE  Inv'
<1>1. UNCHANGED <<arguments, next, values, pc>>
  BY DEF vars
<1>2. TypeOK' /\ NextIsAFlag'
  BY <1>1 DEF Inv, TypeOK, NextIsAFlag, Get, IsValue
<1>3. FlagsDecide' /\ ReadAll'
  BY <1>1, FaultyTheSame DEF Inv, FlagsDecide, ReadAll
<1>4. SettingsAreTheFlags'
  <2>1. ASSUME NEW o \in DOMAIN OptionTable PROVE Follows(o, Saying(o, next))'
    <3>1. Saying(o, next)' = Saying(o, next) /\ Get(o)' = Get(o)
      BY <1>1, SaysTheSame DEF Saying, Get
    <3>2. Follows(o, Saying(o, next))
      BY SettingsAre DEF Inv
    <3>3. QED
      BY <1>1, <3>1, <3>2, SaysTheSame DEF Follows
  <2>2. QED
    BY <2>1, SettingsWillBe
<1>5. QED
  BY <1>2, <1>3, <1>4 DEF Inv
-----------------------------------------------------------------------------
(***************************************************************************)
(* The invariant and the theorems.                                         *)
(***************************************************************************)
LEMMA InitInv == Init => Inv
<1>1. SUFFICES ASSUME Init PROVE Inv
  OBVIOUS
<1>2. next = 1 /\ pc = "flags" /\ DOMAIN values = {}
  BY <1>1 DEF Init
<1>3. arguments \in Seq(Argument) /\ Len(arguments) \in Nat
  <2>1. PICK k \in 0 .. MaxArguments : arguments \in [1 .. k -> Argument]
    BY <1>1 DEF Init
  <2>2. QED
    BY <2>1, OptionsAssumption
<1>4. \A o : Get(o) = OptionTable[o].default
  BY <1>2 DEF Get
<1>5. TypeOK
  BY <1>2, <1>3, <1>4, DefaultsInRange DEF TypeOK
<1>6. NextIsAFlag
  BY <1>2, IsValueIs DEF NextIsAFlag
<1>7. SettingsAreTheFlags
  <2>1. \A o : Saying(o, next) = {}
    BY <1>2 DEF Saying
  <2>2. QED
    BY <1>4, <2>1, SettingsAre DEF Follows
<1>8. FlagsDecide /\ ReadAll
  BY <1>2 DEF FlagsDecide, ReadAll, Faulty
<1>9. QED
  BY <1>5, <1>6, <1>7, <1>8 DEF Inv

LEMMA NextInv == Inv /\ [Next]_vars => Inv'
<1>1. SUFFICES ASSUME Inv, [Next]_vars PROVE Inv'
  OBVIOUS
<1>2. CASE \E i \in DOMAIN OptionTable : ProcessLongFlag(i)
  BY <1>1, <1>2, LongFlagKeeps
<1>3. CASE \E i \in DOMAIN OptionTable : ProcessShortFlag(i)
  BY <1>1, <1>3, ShortFlagKeeps
<1>4. CASE UnknownContext \/ UnknownLongFlag \/ UnknownShortFlag \/ UnknownArgument \/ ShowHelp
  BY <1>1, <1>4, UnknownKeeps
<1>5. CASE ShowHidden
  BY <1>1, <1>5, PassingKeeps
<1>6. CASE ProcessedAll
  BY <1>1, <1>6, ProcessedAllKeeps
<1>7. CASE Construct
  BY <1>1, <1>7, ConstructKeeps
<1>8. CASE UNCHANGED vars
  BY <1>1, <1>8, StutterKeeps
<1>9. QED
  BY <1>1, <1>2, <1>3, <1>4, <1>5, <1>6, <1>7, <1>8 DEF Next, Stopped

LEMMA Invariance == Spec => []Inv
BY InitInv, NextInv, PTL DEF Spec

\* Every option has a value in its range after every prefix of every command line,
\* and the parser does not read past the end, a short flag being the last argument
\* included: ProcessFlags and SetVal.
THEOREM OptionsTypeCorrect == Spec => []TypeOK
<1>1. Inv => TypeOK
  BY DEF Inv
<1>2. QED
  BY <1>1, Invariance, PTL

\* The settings are those of the last flags that name them, whatever was taken for
\* the value of a short flag before: ProcessFlags.
THEOREM SettingsFollowTheFlags == Spec => []SettingsAreTheFlags
<1>1. Inv => SettingsAreTheFlags
  BY DEF Inv
<1>2. QED
  BY <1>1, Invariance, PTL

\* A tournament starts when every argument is a flag with its value or the value of
\* a short flag and the last movetime is a time, and only then; the first argument
\* that is neither ends the program: ProcessFlags and the constructor of
\* SelfPlayTournament.
THEOREM FlagsDecideHolds == Spec => []FlagsDecide
<1>1. Inv => FlagsDecide
  BY DEF Inv
<1>2. QED
  BY <1>1, Invariance, PTL
=============================================================================
