----------------------------- MODULE SumLemmas -----------------------------
(***************************************************************************)
(* The laws of MapThenSumSet over a finite set, which the accounts of      *)
(* stock and of cash are stated with.  The fold is a recursive function;   *)
(* that it is defined at all, and every law, is shown by the least         *)
(* counterexample: a set of naturals that is not empty has a least member. *)
(***************************************************************************)
EXTENDS Integers, FiniteSetsExt, FiniteSetTheorems, WellFoundedInduction, TLAPS

SumOf(g, S) == MapThenSumSet(LAMBDA k : g[k], S)

AnyOf(s) == CHOOSE x \in s : TRUE

\* One line of the fold: the sum over s from the sums over smaller sets.
SumLine(g, f, s) == IF s = {} THEN 0 ELSE g[AnyOf(s)] + f[s \ {AnyOf(s)}]

\* The table of the sums over all subsets of S.
PartialSum(g, S) == CHOOSE f : f = [s \in SUBSET S |-> SumLine(g, f, s)]

LEMMA SumIsPartialSum ==
  ASSUME NEW S, NEW g
  PROVE  SumOf(g, S) = PartialSum(g, S)[S]
BY DEF SumOf, PartialSum, SumLine, MapThenSumSet, MapThenFoldSet, AnyOf

LEMMA LeastNumber ==
  ASSUME NEW T \in SUBSET Nat, T # {}
  PROVE  \E n \in T : \A m \in T : n <= m
<1> DEFINE Less == {ss \in Nat \X Nat : ss[1] < ss[2]}
<1>1. IsWellFoundedOn(Less, Nat)
  BY NatLessThanWellFounded DEF OpToRel
<1> HIDE DEF Less
<1>2. PICK n \in T : \A m \in T : ~ (<<m, n>> \in Less)
  BY <1>1, WFMin
<1>3. \A m \in T : ~ (m < n)
  BY <1>2 DEF Less
<1> QED
  BY <1>3

\* A member taken out of a finite set leaves one fewer.
LEMMA OneFewer ==
  ASSUME NEW S, IsFiniteSet(S), NEW s \in SUBSET S, NEW x \in s
  PROVE  /\ IsFiniteSet(s) /\ Cardinality(s) \in Nat \ {0}
         /\ s \ {x} \in SUBSET S
         /\ Cardinality(s \ {x}) = Cardinality(s) - 1
         /\ Cardinality(s \ {x}) \in Nat
<1>1. IsFiniteSet(s)
  BY FS_Subset
<1>2. IsFiniteSet(s \ {x}) /\ Cardinality(s \ {x}) = Cardinality(s) - 1
  BY <1>1, FS_RemoveElement
<1>3. Cardinality(s) \in Nat /\ Cardinality(s \ {x}) \in Nat
  BY <1>1, <1>2, FS_CardinalityType
<1> QED
  BY <1>1, <1>2, <1>3

LEMMA PartialSumLine ==
  ASSUME NEW S, IsFiniteSet(S), NEW g
  PROVE  PartialSum(g, S) = [s \in SUBSET S |-> SumLine(g, PartialSum(g, S), s)]
<1> DEFINE Small(n) == {s \in SUBSET S : Cardinality(s) <= n}
           Fills(n, f) == f = [s \in Small(n) |-> SumLine(g, f, s)]
           Missing == {n \in Nat : ~ \E f : Fills(n, f)}
<1>0. \A s \in SUBSET S : IsFiniteSet(s) /\ Cardinality(s) \in Nat
  BY FS_Subset, FS_CardinalityType
<1>1. \A s \in SUBSET S : s # {} => AnyOf(s) \in s
  BY DEF AnyOf
<1>2. Missing = {}
  <2> SUFFICES ASSUME Missing # {} PROVE FALSE
    OBVIOUS
  <2>1. PICK n \in Missing : \A m \in Missing : n <= m
    BY LeastNumber
  <2>2. CASE n = 0
    <3>1. Fills(0, [s \in Small(0) |-> 0])
      <4>1. \A s \in Small(0) : s = {}
        BY <1>0, FS_EmptySet
      <4>2. \A f, s : s = {} => SumLine(g, f, s) = 0
        BY DEF SumLine
      <4> QED
        BY <4>1, <4>2
    <3> QED
      BY <2>1, <2>2, <3>1
  <2>3. CASE n # 0
    <3>1. n \in Nat /\ n - 1 \in Nat /\ n - 1 \notin Missing
      <4>1. n \in Nat
        BY <2>1
      <4>2. n - 1 \in Nat /\ ~ (n <= n - 1)
        BY <4>1, <2>3
      <4> HIDE DEF Missing
      <4> QED
        BY <4>1, <4>2, <2>1
    <3>2. PICK f : Fills(n - 1, f)
      BY <3>1
    <3> DEFINE h == [s \in Small(n) |-> SumLine(g, f, s)]
    <3>3. \A t \in Small(n - 1) : t \in Small(n) /\ h[t] = f[t]
      BY <1>0, <3>1, <3>2
    <3>4. ASSUME NEW s \in Small(n) PROVE SumLine(g, f, s) = SumLine(g, h, s)
      <4>1. CASE s = {}
        BY <4>1 DEF SumLine
      <4>2. CASE s # {}
        <5>1. s \ {AnyOf(s)} \in Small(n - 1)
          BY <1>1, <4>2, <3>1, OneFewer
        <5>2. f[s \ {AnyOf(s)}] = h[s \ {AnyOf(s)}]
          BY <5>1, <3>3
        <5> HIDE DEF h
        <5> QED
          BY <4>2, <5>2 DEF SumLine
      <4> QED
        BY <4>1, <4>2
    <3>5. Fills(n, h)
      BY <3>4
    <3> QED
      BY <2>1, <3>5
  <2> QED
    BY <2>2, <2>3
<1>3. PICK f : Fills(Cardinality(S), f)
  BY <1>0, <1>2
<1>4. Small(Cardinality(S)) = SUBSET S
  BY FS_Subset
<1>5. f = [s \in SUBSET S |-> SumLine(g, f, s)]
  BY <1>3, <1>4
<1> QED
  BY <1>5 DEF PartialSum

LEMMA PartialSumAt ==
  ASSUME NEW S, IsFiniteSet(S), NEW g, NEW s \in SUBSET S
  PROVE  /\ s = {} => PartialSum(g, S)[s] = 0
         /\ s # {} => /\ AnyOf(s) \in s
                      /\ PartialSum(g, S)[s]
                           = g[AnyOf(s)] + PartialSum(g, S)[s \ {AnyOf(s)}]
<1> DEFINE f == PartialSum(g, S)
<1>1. f = [t \in SUBSET S |-> SumLine(g, f, t)]
  BY PartialSumLine
<1> HIDE DEF f
<1>2. f[s] = SumLine(g, f, s)
  BY <1>1
<1>3. s # {} => AnyOf(s) \in s
  BY DEF AnyOf
<1> QED
  BY <1>2, <1>3 DEF SumLine, f

\* What holds of no smallest subset of a finite set fails of none of them.
LEMMA SmallestSubset ==
  ASSUME NEW S, IsFiniteSet(S), NEW T \in SUBSET (SUBSET S), T # {}
  PROVE  \E s \in T : \A t \in T : Cardinality(s) <= Cardinality(t)
<1> DEFINE Sizes == {Cardinality(s) : s \in T}
<1>1. \A s \in T : Cardinality(s) \in Nat
  BY FS_Subset, FS_CardinalityType
<1>2. Sizes \in SUBSET Nat /\ Sizes # {}
  BY <1>1
<1>3. PICK n \in Sizes : \A m \in Sizes : n <= m
  BY <1>2, LeastNumber
<1> QED
  BY <1>3

LEMMA PartialSumIn ==
  ASSUME NEW S, IsFiniteSet(S), NEW T \in {Nat, Int},
         NEW g \in [S -> T]
  PROVE  \A s \in SUBSET S : PartialSum(g, S)[s] \in T
<1> DEFINE Bad == {s \in SUBSET S : PartialSum(g, S)[s] \notin T}
<1> SUFFICES ASSUME Bad # {} PROVE FALSE
  OBVIOUS
<1>1. PICK s \in Bad : \A t \in Bad : Cardinality(s) <= Cardinality(t)
  BY SmallestSubset
<1>2. /\ s # {} /\ AnyOf(s) \in s
      /\ PartialSum(g, S)[s] = g[AnyOf(s)] + PartialSum(g, S)[s \ {AnyOf(s)}]
  <2>1. s \in SUBSET S /\ PartialSum(g, S)[s] \notin T
    OBVIOUS
  <2>2. PartialSum(g, S)[s] # 0
    BY <2>1
  <2>3. s # {}
    BY <2>1, <2>2, PartialSumAt
  <2> QED
    BY <2>1, <2>3, PartialSumAt
<1>3. /\ s \ {AnyOf(s)} \in SUBSET S
      /\ ~ (Cardinality(s) <= Cardinality(s \ {AnyOf(s)}))
  BY <1>2, OneFewer
<1>4. PartialSum(g, S)[s \ {AnyOf(s)}] \in T /\ g[AnyOf(s)] \in T
  BY <1>1, <1>2, <1>3
<1>5. PartialSum(g, S)[s] \in T
  <2>1. CASE T = Nat BY <2>1, <1>2, <1>4
  <2>2. CASE T = Int BY <2>2, <1>2, <1>4
  <2> QED BY <2>1, <2>2
<1> QED
  BY <1>5

LEMMA PartialSumType ==
  ASSUME NEW S, IsFiniteSet(S), NEW g \in [S -> Int]
  PROVE  \A s \in SUBSET S : PartialSum(g, S)[s] \in Int
BY PartialSumIn

\* The order in which the fold takes the members does not matter.
LEMMA PartialSumTakesAny ==
  ASSUME NEW S, IsFiniteSet(S), NEW g \in [S -> Int]
  PROVE  \A s \in SUBSET S : \A x \in s :
            PartialSum(g, S)[s] = g[x] + PartialSum(g, S)[s \ {x}]
<1> DEFINE f == PartialSum(g, S)
           Bad == {s \in SUBSET S : \E x \in s : f[s] # g[x] + f[s \ {x}]}
<1> SUFFICES ASSUME Bad # {} PROVE FALSE
  OBVIOUS
<1>0. \A s \in SUBSET S : f[s] \in Int
  BY PartialSumType
<1>1. PICK s \in Bad : \A t \in Bad : Cardinality(s) <= Cardinality(t)
  BY SmallestSubset
<1>2. PICK x \in s : f[s] # g[x] + f[s \ {x}]
  BY <1>1
<1> DEFINE c == AnyOf(s)
<1>3. c \in s /\ f[s] = g[c] + f[s \ {c}]
  BY PartialSumAt
<1> HIDE DEF f, c
<1>4. c # x
  BY <1>2, <1>3
<1>5. /\ s \ {c} \in SUBSET S /\ s \ {x} \in SUBSET S
      /\ ~ (Cardinality(s) <= Cardinality(s \ {c}))
      /\ ~ (Cardinality(s) <= Cardinality(s \ {x}))
  BY <1>3, OneFewer
<1>6. x \in s \ {c} /\ c \in s \ {x}
  BY <1>3, <1>4
<1>7. f[s \ {c}] = g[x] + f[(s \ {c}) \ {x}]
  BY <1>1, <1>5, <1>6
<1>8. f[s \ {x}] = g[c] + f[(s \ {x}) \ {c}]
  BY <1>1, <1>5, <1>6
<1>9. (s \ {c}) \ {x} = (s \ {x}) \ {c} /\ (s \ {c}) \ {x} \in SUBSET S
  OBVIOUS
<1>10. /\ g[x] \in Int /\ g[c] \in Int
       /\ f[(s \ {c}) \ {x}] \in Int
  BY <1>0, <1>3, <1>9
<1>11. f[s \ {x}] = g[c] + f[(s \ {c}) \ {x}]
  BY <1>8, <1>9
<1>12. g[c] + (g[x] + f[(s \ {c}) \ {x}]) = g[x] + (g[c] + f[(s \ {c}) \ {x}])
  BY <1>10
<1>13. f[s] = g[x] + f[s \ {x}]
  BY <1>3, <1>7, <1>11, <1>12
<1> QED
  BY <1>2, <1>13

\* Only the values of the members count.
LEMMA PartialSumCongruent ==
  ASSUME NEW S, IsFiniteSet(S), NEW g, NEW h
  PROVE  \A s \in SUBSET S :
            (\A x \in s : g[x] = h[x]) => PartialSum(g, S)[s] = PartialSum(h, S)[s]
<1>0. \A s \in SUBSET S : s # {} =>
         PartialSum(h, S)[s] = h[AnyOf(s)] + PartialSum(h, S)[s \ {AnyOf(s)}]
  BY PartialSumAt
<1> DEFINE Bad == {s \in SUBSET S : /\ \A x \in s : g[x] = h[x]
                                    /\ PartialSum(g, S)[s] # PartialSum(h, S)[s]}
<1> SUFFICES ASSUME Bad # {} PROVE FALSE
  OBVIOUS
<1>1. PICK s \in Bad : \A t \in Bad : Cardinality(s) <= Cardinality(t)
  BY SmallestSubset
<1>2. /\ s # {} /\ AnyOf(s) \in s
      /\ PartialSum(g, S)[s] = g[AnyOf(s)] + PartialSum(g, S)[s \ {AnyOf(s)}]
      /\ PartialSum(h, S)[s] = h[AnyOf(s)] + PartialSum(h, S)[s \ {AnyOf(s)}]
  <2>1. s \in SUBSET S /\ PartialSum(g, S)[s] # PartialSum(h, S)[s]
    OBVIOUS
  <2>2. s # {}
    BY <2>1, PartialSumAt
  <2>3. /\ AnyOf(s) \in s
        /\ PartialSum(g, S)[s] = g[AnyOf(s)] + PartialSum(g, S)[s \ {AnyOf(s)}]
    BY <2>1, <2>2, PartialSumAt
  <2>4. PartialSum(h, S)[s] = h[AnyOf(s)] + PartialSum(h, S)[s \ {AnyOf(s)}]
    BY <1>0, <2>1, <2>2
  <2> QED
    BY <2>2, <2>3, <2>4
<1>3. /\ s \ {AnyOf(s)} \in SUBSET S
      /\ ~ (Cardinality(s) <= Cardinality(s \ {AnyOf(s)}))
  BY <1>2, OneFewer
<1>4. /\ PartialSum(g, S)[s \ {AnyOf(s)}] = PartialSum(h, S)[s \ {AnyOf(s)}]
      /\ g[AnyOf(s)] = h[AnyOf(s)]
  BY <1>1, <1>2, <1>3
<1>5. PartialSum(g, S)[s] = PartialSum(h, S)[s]
  BY <1>2, <1>4
<1> QED
  BY <1>5

-----------------------------------------------------------------------------

LEMMA SumType ==
  ASSUME NEW S, IsFiniteSet(S), NEW g \in [S -> Int]
  PROVE  SumOf(g, S) \in Int
BY SumIsPartialSum, PartialSumType

LEMMA SumNatural ==
  ASSUME NEW S, IsFiniteSet(S), NEW g \in [S -> Nat]
  PROVE  SumOf(g, S) \in Nat
<1>1. S \in SUBSET S OBVIOUS
<1> QED BY <1>1, SumIsPartialSum, PartialSumIn

\* Nothing counted is nothing in total.
LEMMA SumZero ==
  ASSUME NEW S, IsFiniteSet(S), NEW g, \A x \in S : g[x] = 0
  PROVE  SumOf(g, S) = 0
<1> DEFINE Bad == {s \in SUBSET S : PartialSum(g, S)[s] # 0}
<1>1. Bad = {}
  <2> SUFFICES ASSUME Bad # {} PROVE FALSE
    OBVIOUS
  <2>1. PICK s \in Bad : \A t \in Bad : Cardinality(s) <= Cardinality(t)
    BY SmallestSubset
  <2>2. /\ s # {} /\ AnyOf(s) \in s
        /\ PartialSum(g, S)[s] = g[AnyOf(s)] + PartialSum(g, S)[s \ {AnyOf(s)}]
    <3>1. s \in SUBSET S /\ PartialSum(g, S)[s] # 0
      OBVIOUS
    <3>2. s # {}
      BY <3>1, PartialSumAt
    <3> QED
      BY <3>1, <3>2, PartialSumAt
  <2>3. /\ s \ {AnyOf(s)} \in SUBSET S
        /\ ~ (Cardinality(s) <= Cardinality(s \ {AnyOf(s)}))
    BY <2>2, OneFewer
  <2>4. PartialSum(g, S)[s \ {AnyOf(s)}] = 0 /\ g[AnyOf(s)] = 0
    BY <2>1, <2>2, <2>3
  <2>5. PartialSum(g, S)[s] = 0
    BY <2>2, <2>4
  <2> QED
    BY <2>5
<1> QED
  BY <1>1, SumIsPartialSum

\* A value that changes changes the total by as much.
LEMMA SumUpdate ==
  ASSUME NEW S, IsFiniteSet(S), NEW g \in [S -> Int], NEW h \in [S -> Int],
         NEW x \in S, \A y \in S \ {x} : h[y] = g[y]
  PROVE  SumOf(h, S) = SumOf(g, S) + h[x] - g[x]
<1>0. S \in SUBSET S
  OBVIOUS
<1>1. SumOf(g, S) = g[x] + PartialSum(g, S)[S \ {x}]
  <2>1. PartialSum(g, S)[S] = g[x] + PartialSum(g, S)[S \ {x}]
    BY <1>0, PartialSumTakesAny
  <2> QED
    BY <2>1, SumIsPartialSum
<1>2. SumOf(h, S) = h[x] + PartialSum(h, S)[S \ {x}]
  <2>1. PartialSum(h, S)[S] = h[x] + PartialSum(h, S)[S \ {x}]
    BY <1>0, PartialSumTakesAny
  <2> QED
    BY <2>1, SumIsPartialSum
<1>3. PartialSum(g, S)[S \ {x}] = PartialSum(h, S)[S \ {x}]
  BY PartialSumCongruent
<1>4. PartialSum(g, S)[S \ {x}] \in Int
  BY PartialSumType
<1> QED
  BY <1>1, <1>2, <1>3, <1>4

\* Equal values have equal totals.
LEMMA SumCongruent ==
  ASSUME NEW S, IsFiniteSet(S), NEW g, NEW h, \A x \in S : h[x] = g[x]
  PROVE  SumOf(h, S) = SumOf(g, S)
BY SumIsPartialSum, PartialSumCongruent

\* The table over a part of S is the part of the table over S.
LEMMA PartialSumOfPart ==
  ASSUME NEW S, IsFiniteSet(S), NEW A \in SUBSET S, NEW g
  PROVE  \A s \in SUBSET A : PartialSum(g, A)[s] = PartialSum(g, S)[s]
<1>0. IsFiniteSet(A)
  BY FS_Subset
<1>1. \A s \in SUBSET A : s # {} =>
         PartialSum(g, S)[s] = g[AnyOf(s)] + PartialSum(g, S)[s \ {AnyOf(s)}]
  BY PartialSumAt
<1> DEFINE Bad == {s \in SUBSET A : PartialSum(g, A)[s] # PartialSum(g, S)[s]}
<1> SUFFICES ASSUME Bad # {} PROVE FALSE
  OBVIOUS
<1>2. PICK s \in Bad : \A t \in Bad : Cardinality(s) <= Cardinality(t)
  BY <1>0, SmallestSubset
<1>3. s # {}
  <2>1. s = {} => PartialSum(g, S)[s] = 0 /\ PartialSum(g, A)[s] = 0
    BY <1>0, PartialSumAt
  <2> QED
    BY <1>2, <2>1
<1>4. /\ AnyOf(s) \in s
      /\ PartialSum(g, A)[s] = g[AnyOf(s)] + PartialSum(g, A)[s \ {AnyOf(s)}]
      /\ PartialSum(g, S)[s] = g[AnyOf(s)] + PartialSum(g, S)[s \ {AnyOf(s)}]
  <2>1. /\ AnyOf(s) \in s
        /\ PartialSum(g, A)[s] = g[AnyOf(s)] + PartialSum(g, A)[s \ {AnyOf(s)}]
    BY <1>0, <1>2, <1>3, PartialSumAt
  <2> QED
    BY <1>1, <1>2, <1>3, <2>1
<1>5. /\ s \ {AnyOf(s)} \in SUBSET A
      /\ ~ (Cardinality(s) <= Cardinality(s \ {AnyOf(s)}))
  BY <1>0, <1>4, OneFewer
<1>6. PartialSum(g, A)[s \ {AnyOf(s)}] = PartialSum(g, S)[s \ {AnyOf(s)}]
  BY <1>2, <1>5
<1> QED
  BY <1>2, <1>4, <1>6

\* A set in two parts has the sum of both.
LEMMA SumOfParts ==
  ASSUME NEW S, IsFiniteSet(S), NEW g \in [S -> Int], NEW A \in SUBSET S
  PROVE  SumOf(g, S) = SumOf(g, A) + SumOf(g, S \ A)
<1> DEFINE f == PartialSum(g, S)
           Bad == {s \in SUBSET S : f[s] # f[s \cap A] + f[s \ A]}
<1>0. \A s \in SUBSET S : f[s] \in Int
  BY PartialSumType
<1>1. Bad = {}
  <2> SUFFICES ASSUME Bad # {} PROVE FALSE
    OBVIOUS
  <2>1. PICK s \in Bad : \A t \in Bad : Cardinality(s) <= Cardinality(t)
    BY SmallestSubset
  <2>2. s # {}
    <3>1. f[{}] = 0 BY PartialSumAt
    <3>2. s = {} => s \cap A = {} /\ s \ A = {} OBVIOUS
    <3>3. f[s] # f[s \cap A] + f[s \ A] BY <2>1
    <3> HIDE DEF f, Bad
    <3> QED BY <3>1, <3>2, <3>3
  <2>3. PICK x \in s : TRUE
    BY <2>2
  <2> DEFINE t == s \ {x}
  <2>4. t \in SUBSET S /\ ~ (Cardinality(s) <= Cardinality(t))
    BY <2>3, OneFewer
  <2>5. f[t] = f[t \cap A] + f[t \ A]
    BY <2>1, <2>4
  <2>6. f[s] = g[x] + f[t]
    BY <2>1, <2>3, PartialSumTakesAny
  <2>7. f[s] = f[s \cap A] + f[s \ A]
    <3>1. /\ f[t \cap A] \in Int /\ f[t \ A] \in Int
          /\ g[x] \in Int
      BY <1>0, <2>1, <2>3
    <3>2. CASE x \in A
      <4>1. (s \cap A) \ {x} = t \cap A /\ s \ A = t \ A
        BY <3>2
      <4>2. f[s \cap A] = g[x] + f[(s \cap A) \ {x}]
        BY <2>1, <2>3, <3>2, PartialSumTakesAny
      <4>3. f[s \cap A] = g[x] + f[t \cap A] /\ f[s \ A] = f[t \ A]
        BY <4>1, <4>2
      <4> HIDE DEF f, t, Bad
      <4> QED BY <2>5, <2>6, <3>1, <4>3
    <3>3. CASE x \notin A
      <4>1. (s \ A) \ {x} = t \ A /\ s \cap A = t \cap A
        BY <3>3
      <4>2. f[s \ A] = g[x] + f[(s \ A) \ {x}]
        BY <2>1, <2>3, <3>3, PartialSumTakesAny
      <4>3. f[s \ A] = g[x] + f[t \ A] /\ f[s \cap A] = f[t \cap A]
        BY <4>1, <4>2
      <4> HIDE DEF f, t, Bad
      <4> QED BY <2>5, <2>6, <3>1, <4>3
    <3> QED
      BY <3>2, <3>3
  <2> QED
    BY <2>1, <2>7
<1>2. f[S] = f[A] + f[S \ A]
  <2>1. S \cap A = A /\ S \in SUBSET S
    OBVIOUS
  <2> HIDE DEF f
  <2> QED BY <1>1, <2>1
<1>3. SumOf(g, S) = f[S] /\ SumOf(g, A) = f[A] /\ SumOf(g, S \ A) = f[S \ A]
  <2>1. /\ A \in SUBSET A /\ S \ A \in SUBSET (S \ A)
        /\ S \ A \in SUBSET S
    OBVIOUS
  <2> QED BY <2>1, SumIsPartialSum, PartialSumOfPart
<1> QED
  BY <1>2, <1>3

\* A column of a table of rows, as a function of its own.
Column(g, S, p) == [k \in S |-> g[k][p]]

LEMMA SumOfColumn ==
  ASSUME NEW S, NEW g, NEW p
  PROVE  MapThenSumSet(LAMBDA k : g[k][p], S) = SumOf(Column(g, S, p), S)
<1> DEFINE c == Column(g, S, p)
           Direct(f) == [s \in SUBSET S |->
              IF s = {} THEN 0 ELSE g[AnyOf(s)][p] + f[s \ {AnyOf(s)}]]
           Stored(f) == [s \in SUBSET S |-> SumLine(c, f, s)]
<1>1. MapThenSumSet(LAMBDA k : g[k][p], S) = (CHOOSE f : f = Direct(f))[S]
  BY DEF MapThenSumSet, MapThenFoldSet, AnyOf
<1>2. ASSUME NEW f PROVE Direct(f) = Stored(f)
  <2>1. ASSUME NEW s \in SUBSET S, s # {}
        PROVE  c[AnyOf(s)] = g[AnyOf(s)][p]
    BY <2>1 DEF AnyOf, Column
  <2> HIDE DEF c
  <2> QED
    BY <2>1 DEF SumLine
<1>3. PartialSum(c, S) = CHOOSE f : f = Stored(f)
  BY DEF PartialSum
<1> HIDE DEF Direct, Stored, c
<1>4. (CHOOSE f : f = Direct(f)) = (CHOOSE f : f = Stored(f))
  BY <1>2
<1>5. SumOf(c, S) = PartialSum(c, S)[S]
  BY SumIsPartialSum
<1> QED
  BY <1>1, <1>3, <1>4, <1>5 DEF c
=============================================================================
