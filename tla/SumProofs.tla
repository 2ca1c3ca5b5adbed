------------------------------- MODULE SumProofs -------------------------------
(***************************************************************************)
(* Lemmas about data that the proofs of several components rest on: least  *)
(* numbers and smallest sets, sums over finite sets, the ranks of a strict *)
(* order, and sets counted class by class.                                 *)
(*                                                                         *)
(* A sum is a recursive function over the parts of a set.  That it unfolds *)
(* is proved from well-foundedness: among the numbers, or the sets, of     *)
(* which a fact does not hold there is a smallest one, and there cannot be.*)
(***************************************************************************)
EXTENDS Integers, Functions, FiniteSets, FiniteSetTheorems, WellFoundedInduction, TLAPS

-----------------------------------------------------------------------------
(***************************************************************************)
(* Sums over finite sets.                                                  *)
(***************************************************************************)
\* Every set of finite sets that is not empty has one that holds no other.
LEMMA SmallestSet ==
  ASSUME NEW S, IsFiniteSet(S), NEW T \in SUBSET SUBSET S, T # {}
  PROVE  \E s \in T : \A t \in T : t \subseteq s => t = s
<1> DEFINE R == StrictSubsetOrdering(S)
           F == FiniteSubsetsOf(S)
<1>1. IsWellFoundedOn(R, F)
  BY FS_StrictSubsetOrderingWellFounded
<1>2. T \subseteq F
  BY FS_Subset DEF FiniteSubsetsOf
<1>3. PICK s \in T : \A t \in T : ~(<<t, s>> \in R)
  <2> HIDE DEF R, F
  <2>1. \E s \in T : \A t \in T : ~(<<t, s>> \in R)
    BY <1>1, <1>2, WFMin
  <2>2. QED BY <2>1
<1>4. ASSUME NEW t \in T, t \subseteq s, t # s
      PROVE  FALSE
  <2>1. <<t, s>> \in R
    BY <1>4 DEF StrictSubsetOrdering
  <2>2. QED BY <1>3, <2>1
<1>5. QED  BY <1>3, <1>4

Pick(s) == CHOOSE x \in s : TRUE

\* The sum over every part of S.
Partial(f, S) ==
  CHOOSE sum : sum = [s \in SUBSET S |-> IF s = {} THEN 0
                                    ELSE f[Pick(s)] + sum[s \ {Pick(s)}]]

LEMMA SumIsPartial ==
  ASSUME NEW f, NEW S
  PROVE  SumFunctionOnSet(f, S) = Partial(f, S)[S]
BY DEF SumFunctionOnSet, FoldFunctionOnSet, MapThenFoldSet, Partial, Pick

\* The parts of S that have at most n members, and the sums over the sets D of
\* parts: the weight of one member and the sum over the others.
Level(S, n) == {s \in SUBSET S : Cardinality(s) <= n}
Extended(f, D, sum) ==
  [s \in D |-> IF s = {} THEN 0 ELSE f[Pick(s)] + sum[s \ {Pick(s)}]]

LEMMA PickIn ==
  ASSUME NEW s, s # {}
  PROVE  Pick(s) \in s
BY DEF Pick

\* Every set of natural numbers that is not empty has a least member.
LEMMA Smallest ==
  ASSUME NEW T \in SUBSET Nat, T # {}
  PROVE  \E x \in T : \A y \in T : x <= y
<1> DEFINE R == {p \in Nat \X Nat : p[1] < p[2]}
<1>0. R = OpToRel(<, Nat)
  BY DEF OpToRel
<1>1. IsWellFoundedOn(R, Nat)
  BY NatLessThanWellFounded, <1>0
<1>2. PICK x \in T : \A y \in T : ~(<<y, x>> \in R)
  <2> HIDE DEF R
  <2>1. QED BY <1>1, WFMin
<1>3. ASSUME NEW y \in T
      PROVE  x <= y
  <2>1. x \in Nat /\ y \in Nat
    OBVIOUS
  <2>2. y < x => <<y, x>> \in R
    BY <2>1
  <2>3. ~(y < x)
    BY <1>2, <2>2
  <2>4. QED
    BY <2>1, <2>3
<1>4. QED
  BY <1>3

\* Sums over the parts of at most n members extend to one member more ...
LEMMA LevelStep ==
  ASSUME NEW f, NEW S, IsFiniteSet(S), NEW n \in Nat, NEW sum,
         sum = Extended(f, Level(S, n), sum)
  PROVE  \E next : next = Extended(f, Level(S, n + 1), next)
<1> DEFINE next == Extended(f, Level(S, n + 1), sum)
<1>1. ASSUME NEW s \in Level(S, n + 1), s # {}
      PROVE  s \ {Pick(s)} \in Level(S, n)
  <2>1. IsFiniteSet(s) /\ Cardinality(s) \in Nat
    BY FS_Subset, FS_CardinalityType DEF Level
  <2>2. Cardinality(s \ {Pick(s)}) = Cardinality(s) - 1
    BY <1>1, <2>1, PickIn, FS_RemoveElement
  <2>3. QED  BY <2>1, <2>2 DEF Level
<1>2. \A s \in Level(S, n) : s \in Level(S, n + 1)
  <2>1. \A s \in SUBSET S : Cardinality(s) \in Nat
    BY FS_Subset, FS_CardinalityType
  <2>2. QED  BY <2>1 DEF Level
<1>3. \A s \in Level(S, n) : next[s] = sum[s]
  <2>1. \A s \in Level(S, n) :
          sum[s] = IF s = {} THEN 0 ELSE f[Pick(s)] + sum[s \ {Pick(s)}]
    BY DEF Extended
  <2>2. QED  BY <1>2, <2>1 DEF Extended
<1>4. next = Extended(f, Level(S, n + 1), next)
  BY <1>1, <1>3 DEF Extended
<1>5. QED  BY <1>4

\* ... so there are sums over all parts of a finite set.
LEMMA PartialExists ==
  ASSUME NEW f, NEW S, IsFiniteSet(S)
  PROVE  Partial(f, S) = Extended(f, SUBSET S, Partial(f, S))
<1> DEFINE Bad == {n \in Nat : ~\E sum : sum = Extended(f, Level(S, n), sum)}
<1>1. Bad = {}
  <2> SUFFICES ASSUME Bad # {} PROVE FALSE
    OBVIOUS
  <2>1. PICK n \in Bad : \A m \in Bad : n <= m
    <3> HIDE DEF Bad
    <3>1. Bad \in SUBSET Nat
      BY DEF Bad
    <3>2. QED  BY <3>1, Smallest
  <2>2. CASE n = 0
    <3>1. \A s \in Level(S, 0) : s = {}
      BY FS_Subset, FS_CardinalityType, FS_EmptySet DEF Level
    <3> DEFINE zero == [s \in Level(S, 0) |-> 0]
    <3>2. zero = Extended(f, Level(S, 0), zero)
      BY <3>1 DEF Extended
    <3>3. QED  BY <2>2, <3>2
  <2>3. CASE n # 0
    <3>1. n - 1 \in Nat /\ n - 1 \notin Bad
      BY <2>1, <2>3
    <3>2. PICK sum : sum = Extended(f, Level(S, n - 1), sum)
      BY <3>1
    <3>3. \E next : next = Extended(f, Level(S, (n - 1) + 1), next)
      BY <3>1, <3>2, LevelStep
    <3>4. QED  BY <3>3
  <2>4. QED  BY <2>2, <2>3
<1>2. Cardinality(S) \in Nat
  BY FS_CardinalityType
<1>3. \E sum : sum = Extended(f, Level(S, Cardinality(S)), sum)
  BY <1>1, <1>2
<1>4. Level(S, Cardinality(S)) = SUBSET S
  BY FS_Subset DEF Level
<1>5. \E sum : sum = Extended(f, SUBSET S, sum)
  BY <1>3, <1>4
<1>6. Partial(f, S) = CHOOSE sum : sum = Extended(f, SUBSET S, sum)
  BY DEF Partial, Extended
<1>7. QED  BY <1>5, <1>6

\* The sum of a part does not depend on the set it is a part of.
LEMMA PartialAgrees ==
  ASSUME NEW S, IsFiniteSet(S), NEW f, NEW g, \A x \in S : f[x] = g[x],
         NEW U, IsFiniteSet(U), S \subseteq U
  PROVE  Partial(f, S)[S] = Partial(g, U)[S]
<1> DEFINE p == Partial(f, S)
           q == Partial(g, U)
           Bad == {s \in SUBSET S : p[s] # q[s]}
<1>0. p = Extended(f, SUBSET S, p) /\ q = Extended(g, SUBSET U, q)
  BY PartialExists
<1> HIDE DEF p, q
<1>1. \A s \in SUBSET S : p[s] = IF s = {} THEN 0 ELSE f[Pick(s)] + p[s \ {Pick(s)}]
  BY <1>0 DEF Extended
<1>2. \A s \in SUBSET U : q[s] = IF s = {} THEN 0 ELSE g[Pick(s)] + q[s \ {Pick(s)}]
  BY <1>0 DEF Extended
<1>3. Bad = {}
  <2> SUFFICES ASSUME Bad # {} PROVE FALSE
    OBVIOUS
  <2>1. PICK s \in Bad : \A t \in Bad : t \subseteq s => t = s
    <3> HIDE DEF Bad
    <3>1. Bad \in SUBSET SUBSET S
      BY DEF Bad
    <3>2. QED  BY <3>1, SmallestSet
  <2>2. s # {}
    BY <1>1, <1>2
  <2>3. Pick(s) \in s /\ s \ {Pick(s)} \in SUBSET S /\ s \ {Pick(s)} # s
    BY <2>2, PickIn
  <2>4. p[s \ {Pick(s)}] = q[s \ {Pick(s)}]
    BY <2>1, <2>3
  <2>5. f[Pick(s)] = g[Pick(s)]
    BY <2>3
  <2>6. s \in SUBSET S /\ s \in SUBSET U
    OBVIOUS
  <2>7. p[s] = q[s]
    BY <1>1, <1>2, <2>2, <2>4, <2>5, <2>6
  <2>8. QED  BY <2>7
<1>4. S \in SUBSET S /\ p[S] = q[S]
  BY <1>3
<1>5. QED  BY <1>4 DEF p, q

LEMMA SumOfNothing ==
  ASSUME NEW f
  PROVE  SumFunctionOnSet(f, {}) = 0
<1>1. IsFiniteSet({})
  BY FS_EmptySet
<1>2. Partial(f, {}) = Extended(f, SUBSET {}, Partial(f, {}))
  BY <1>1, PartialExists
<1>3. {} \in SUBSET {}
  OBVIOUS
<1>4. Partial(f, {})[{}] = 0
  BY <1>2, <1>3 DEF Extended
<1>5. QED  BY <1>4, SumIsPartial

\* Sums of functions that agree on a set are equal.
LEMMA SumAgrees ==
  ASSUME NEW S, IsFiniteSet(S), NEW f, NEW g, \A x \in S : f[x] = g[x]
  PROVE  SumFunctionOnSet(f, S) = SumFunctionOnSet(g, S)
BY PartialAgrees, SumIsPartial

LEMMA SumPicks ==
  ASSUME NEW S, IsFiniteSet(S), S # {}, NEW f
  PROVE  /\ Pick(S) \in S
         /\ SumFunctionOnSet(f, S)
              = f[Pick(S)] + SumFunctionOnSet(f, S \ {Pick(S)})
<1> DEFINE rest == S \ {Pick(S)}
<1>1. Pick(S) \in S
  BY PickIn
<1>2. Partial(f, S) = Extended(f, SUBSET S, Partial(f, S))
  BY PartialExists
<1>3. S \in SUBSET S
  OBVIOUS
<1>4. Partial(f, S)[S] = f[Pick(S)] + Partial(f, S)[rest]
  BY <1>2, <1>3 DEF Extended
<1>5. IsFiniteSet(rest) /\ rest \subseteq S
  BY FS_Subset
<1>6. Partial(f, rest)[rest] = Partial(f, S)[rest]
  BY <1>5, PartialAgrees
<1>7. QED  BY <1>1, <1>4, <1>6, SumIsPartial

\* A sum of natural numbers is one, and any member can be taken out of it.
LEMMA SumTakes ==
  ASSUME NEW S, IsFiniteSet(S), NEW f, \A x \in S : f[x] \in Nat
  PROVE  /\ SumFunctionOnSet(f, S) \in Nat
         /\ \A x \in S :
              /\ SumFunctionOnSet(f, S \ {x}) \in Nat
              /\ SumFunctionOnSet(f, S) = f[x] + SumFunctionOnSet(f, S \ {x})
<1> DEFINE Sum(s) == SumFunctionOnSet(f, s)
           Good(s) == /\ Sum(s) \in Nat
                      /\ \A x \in s : Sum(s) = f[x] + Sum(s \ {x})
           Bad == {s \in SUBSET S : ~Good(s)}
<1>1. \A s \in SUBSET S : s # {} =>
        /\ Pick(s) \in s
        /\ Sum(s) = f[Pick(s)] + Sum(s \ {Pick(s)})
  BY SumPicks, FS_Subset
<1>2. Sum({}) = 0
  BY SumOfNothing
<1> HIDE DEF Sum
<1>3. Bad = {}
  <2> SUFFICES ASSUME Bad # {} PROVE FALSE
    OBVIOUS
  <2>1. PICK s \in Bad : \A t \in Bad : t \subseteq s => t = s
    <3> HIDE DEF Bad
    <3>1. Bad \in SUBSET SUBSET S
      BY DEF Bad
    <3>2. QED  BY <3>1, SmallestSet
  <2>2. s # {}
    BY <1>2
  <2> DEFINE p == Pick(s)
  <2>3. /\ s \in SUBSET S /\ p \in s /\ p \in S
        /\ Sum(s) = f[p] + Sum(s \ {p})
    BY <1>1, <2>2
  <2> HIDE DEF p
  <2>4. \A x \in s : Good(s \ {x})
    <3>1. \A x \in s : s \ {x} \in SUBSET S /\ s \ {x} \subseteq s /\ s \ {x} # s
      OBVIOUS
    <3>2. QED  BY <2>1, <3>1
  <2>5. Sum(s) \in Nat
    BY <2>3, <2>4
  <2>6. ASSUME NEW x \in s
        PROVE  Sum(s) = f[x] + Sum(s \ {x})
    <3>1. CASE x = p
      BY <2>3, <3>1
    <3>2. CASE x # p
      <4>1. x \in s \ {p} /\ p \in s \ {x} /\ (s \ {p}) \ {x} = (s \ {x}) \ {p}
        BY <2>3, <3>2
      <4>2. Sum(s \ {p}) = f[x] + Sum((s \ {p}) \ {x})
        BY <2>3, <2>4, <4>1
      <4>3. Sum(s \ {x}) = f[p] + Sum((s \ {p}) \ {x})
        BY <2>4, <4>1
      <4>4. /\ f[x] \in Nat /\ f[p] \in Nat
            /\ Sum(s \ {p}) \in Nat /\ Sum(s \ {x}) \in Nat
        BY <2>3, <2>4
      <4>5. Sum((s \ {p}) \ {x}) \in Nat
        <5>1. (s \ {p}) \ {x} \subseteq s /\ (s \ {p}) \ {x} # s /\ (s \ {p}) \ {x} \in SUBSET S
          BY <2>3
        <5>2. QED  BY <2>1, <5>1
      <4>6. QED  BY <2>3, <4>2, <4>3, <4>4, <4>5
    <3>3. QED  BY <3>1, <3>2
  <2>7. QED  BY <2>5, <2>6
<1>4. \A s \in SUBSET S : Good(s)
  BY <1>3
<1>5. \A x \in S : Sum(S \ {x}) \in Nat
  BY <1>4
<1>6. QED  BY <1>4, <1>5 DEF Sum

\* Smaller weights have a smaller sum.
LEMMA SumGrows ==
  ASSUME NEW S, IsFiniteSet(S), NEW f, NEW g,
         \A x \in S : f[x] \in Nat /\ g[x] \in Nat /\ f[x] <= g[x]
  PROVE  SumFunctionOnSet(f, S) <= SumFunctionOnSet(g, S)
<1> DEFINE Bad == {s \in SUBSET S : ~(SumFunctionOnSet(f, s) <= SumFunctionOnSet(g, s))}
<1>1. Bad = {}
  <2> SUFFICES ASSUME Bad # {} PROVE FALSE
    OBVIOUS
  <2>1. PICK s \in Bad : \A t \in Bad : t \subseteq s => t = s
    <3> HIDE DEF Bad
    <3>1. Bad \in SUBSET SUBSET S
      BY DEF Bad
    <3>2. QED  BY <3>1, SmallestSet
  <2>2. s # {}
    <3>1. SumFunctionOnSet(f, {}) = 0 /\ SumFunctionOnSet(g, {}) = 0
      BY SumOfNothing
    <3>2. QED  BY <3>1
  <2>3. PICK x \in s : TRUE
    BY <2>2
  <2>4. SumFunctionOnSet(f, s \ {x}) <= SumFunctionOnSet(g, s \ {x})
    <3>1. s \ {x} \subseteq s /\ s \ {x} # s /\ s \ {x} \in SUBSET S
      OBVIOUS
    <3>2. QED  BY <2>1, <3>1
  <2>5. IsFiniteSet(s) /\ s \in SUBSET S /\ x \in S
    BY FS_Subset
  <2>6. /\ SumFunctionOnSet(f, s) = f[x] + SumFunctionOnSet(f, s \ {x})
        /\ SumFunctionOnSet(f, s \ {x}) \in Nat
    BY <2>5, SumTakes
  <2>7. /\ SumFunctionOnSet(g, s) = g[x] + SumFunctionOnSet(g, s \ {x})
        /\ SumFunctionOnSet(g, s \ {x}) \in Nat
    BY <2>5, SumTakes
  <2>8. f[x] \in Nat /\ g[x] \in Nat /\ f[x] <= g[x]
    BY <2>5
  <2>9. SumFunctionOnSet(f, s) <= SumFunctionOnSet(g, s)
    BY <2>4, <2>6, <2>7, <2>8
  <2>10. QED  BY <2>9
<1>2. QED  BY <1>1

\* A member that was not there before adds its weight.
LEMMA SumAdds ==
  ASSUME NEW S, IsFiniteSet(S), NEW r, r \notin S, NEW f, NEW g,
         \A x \in S : f[x] \in Nat /\ g[x] = f[x], g[r] \in Nat
  PROVE  SumFunctionOnSet(g, S \cup {r}) = SumFunctionOnSet(f, S) + g[r]
<1> DEFINE T == S \cup {r}
<1>1. IsFiniteSet(T) /\ r \in T /\ T \ {r} = S
  BY FS_AddElement
<1>2. \A x \in T : g[x] \in Nat
  OBVIOUS
<1> HIDE DEF T
<1>3. SumFunctionOnSet(g, T) = g[r] + SumFunctionOnSet(g, S)
  BY <1>1, <1>2, SumTakes
<1>4. SumFunctionOnSet(g, S) = SumFunctionOnSet(f, S)
  BY SumAgrees
<1>5. SumFunctionOnSet(f, S) \in Nat
  BY SumTakes
<1>6. QED  BY <1>3, <1>4, <1>5 DEF T

\* A part of a set has no larger sum.
LEMMA SumOfPart ==
  ASSUME NEW T, IsFiniteSet(T), NEW f, \A x \in T : f[x] \in Nat, NEW S \in SUBSET T
  PROVE  SumFunctionOnSet(f, S) <= SumFunctionOnSet(f, T)
<1> DEFINE Sum(s) == SumFunctionOnSet(f, s)
           Bad == {s \in SUBSET T : S \subseteq s /\ ~(Sum(S) <= Sum(s))}
<1>1. \A s \in SUBSET T :
        /\ Sum(s) \in Nat
        /\ \A x \in s : Sum(s \ {x}) \in Nat /\ Sum(s) = f[x] + Sum(s \ {x})
  BY FS_Subset, SumTakes
<1> HIDE DEF Sum
<1>2. Bad = {}
  <2> SUFFICES ASSUME Bad # {} PROVE FALSE
    OBVIOUS
  <2>1. PICK s \in Bad : \A t \in Bad : t \subseteq s => t = s
    <3> HIDE DEF Bad
    <3>1. Bad \in SUBSET SUBSET T
      BY DEF Bad
    <3>2. QED  BY <3>1, SmallestSet
  <2>2. s # S
    BY <1>1
  <2>3. PICK x \in s : x \notin S
    BY <2>2
  <2>4. Sum(S) <= Sum(s \ {x})
    <3>1. s \ {x} \in SUBSET T /\ S \subseteq s \ {x} /\ s \ {x} \subseteq s /\ s \ {x} # s
      BY <2>3
    <3>2. QED  BY <2>1, <3>1
  <2>5. Sum(s) = f[x] + Sum(s \ {x}) /\ f[x] \in Nat /\ Sum(s \ {x}) \in Nat /\ Sum(S) \in Nat
    BY <1>1, <2>3
  <2>6. Sum(S) <= Sum(s)
    BY <2>4, <2>5
  <2>7. QED  BY <2>6
<1>3. Sum(S) <= Sum(T)
  BY <1>2
<1>4. QED  BY <1>3 DEF Sum

-----------------------------------------------------------------------------
(***************************************************************************)
(* Ranks: the members of a finite set by the number of those before them.  *)
(***************************************************************************)
Preceding(S, R, x) == {y \in S : <<y, x>> \in R}

StrictOrder(S, R) ==
  /\ \A x \in S : ~(<<x, x>> \in R)
  /\ \A x, y, z \in S : <<x, y>> \in R /\ <<y, z>> \in R => <<x, z>> \in R
  /\ \A x, y \in S : x = y \/ <<x, y>> \in R \/ <<y, x>> \in R

\* In a strict order no two members have the same number of members before them.
LEMMA RanksDiffer ==
  ASSUME NEW S, IsFiniteSet(S), NEW R, StrictOrder(S, R)
  PROVE  /\ \A x \in S : /\ Cardinality(Preceding(S, R, x)) \in Nat
                         /\ Cardinality(Preceding(S, R, x)) < Cardinality(S)
         /\ \A x, y \in S :
              Cardinality(Preceding(S, R, x)) = Cardinality(Preceding(S, R, y)) => x = y
<1>1. \A x \in S : /\ Preceding(S, R, x) \in SUBSET S
                   /\ x \notin Preceding(S, R, x)
  BY DEF Preceding, StrictOrder
<1>2. Cardinality(S) \in Nat
  BY FS_CardinalityType
<1>3. ASSUME NEW x \in S
      PROVE  /\ IsFiniteSet(Preceding(S, R, x))
             /\ Cardinality(Preceding(S, R, x)) \in Nat
             /\ Cardinality(Preceding(S, R, x)) < Cardinality(S)
  <2>1. /\ IsFiniteSet(Preceding(S, R, x))
        /\ Cardinality(Preceding(S, R, x)) <= Cardinality(S)
        /\ Cardinality(S) = Cardinality(Preceding(S, R, x)) => S = Preceding(S, R, x)
    BY <1>1, FS_Subset
  <2>2. Cardinality(Preceding(S, R, x)) \in Nat
    BY <2>1, FS_CardinalityType
  <2>3. QED  BY <1>1, <1>2, <2>1, <2>2
<1>4. ASSUME NEW x \in S, NEW y \in S, <<x, y>> \in R
      PROVE  Cardinality(Preceding(S, R, x)) # Cardinality(Preceding(S, R, y))
  <2>1. Preceding(S, R, x) \in SUBSET Preceding(S, R, y)
    BY <1>4 DEF Preceding, StrictOrder
  <2>2. x \in Preceding(S, R, y)
    BY <1>4 DEF Preceding
  <2>3. Cardinality(Preceding(S, R, y)) = Cardinality(Preceding(S, R, x))
          => Preceding(S, R, y) = Preceding(S, R, x)
    BY <1>3, <2>1, FS_Subset
  <2>4. QED  BY <1>1, <2>2, <2>3
<1>5. ASSUME NEW x \in S, NEW y \in S,
             Cardinality(Preceding(S, R, x)) = Cardinality(Preceding(S, R, y))
      PROVE  x = y
  BY <1>4, <1>5 DEF StrictOrder
<1>6. QED  BY <1>3, <1>5

\* Different numbers below the size of the set; a list that has the member of each number; and
\* one that has each member once.
Ranks(rank, S) ==
  /\ \A x \in S : rank[x] \in Nat /\ rank[x] < Cardinality(S)
  /\ \A x, y \in S : rank[x] = rank[y] => x = y

ByRank(list, rank, S) ==
  \A k \in 1 .. Cardinality(S) :
    (\E x \in S : rank[x] = k - 1) => list[k] \in S /\ rank[list[k]] = k - 1

HasEachOnce(list, S) ==
  /\ \A k \in 1 .. Cardinality(S) : list[k] \in S
  /\ \A i, j \in 1 .. Cardinality(S) : list[i] = list[j] => i = j
  /\ \A x \in S : \E k \in 1 .. Cardinality(S) : list[k] = x

\* So to choose the member of each rank is to take every member once.
LEMMA Ranking ==
  ASSUME NEW S, IsFiniteSet(S), NEW rank, Ranks(rank, S), NEW f, ByRank(f, rank, S)
  PROVE  /\ HasEachOnce(f, S)
         /\ \A k \in 1 .. Cardinality(S) : rank[f[k]] = k - 1
<1> USE DEF Ranks, ByRank
<1> DEFINE n == Cardinality(S)
           g == [x \in S |-> rank[x] + 1]
<1>1. n \in Nat
  BY FS_CardinalityType
<1>2. IsFiniteSet(1 .. n) /\ Cardinality(1 .. n) = n
  BY <1>1, FS_Interval
<1>3. g \in Injection(S, 1 .. n)
  <2>1. g \in [S -> 1 .. n]
    BY <1>1
  <2>2. IsInjective(g)
    BY DEF IsInjective
  <2>3. QED  BY <2>1, <2>2 DEF Injection
<1>4. g \in Surjection(S, 1 .. n)
  <2> HIDE DEF g
  <2>1. QED  BY <1>2, <1>3, FS_Injection DEF n
<1>5. \A k \in 1 .. n : \E x \in S : rank[x] = k - 1
  <2>1. ASSUME NEW k \in 1 .. n PROVE \E x \in S : rank[x] = k - 1
    <3>1. PICK x \in S : g[x] = k
      BY <1>4 DEF Surjection
    <3>2. rank[x] \in Nat /\ rank[x] + 1 = k
      BY <3>1
    <3>3. QED  BY <1>1, <3>2
  <2>2. QED  BY <2>1
<1>6. \A k \in 1 .. n : f[k] \in S /\ rank[f[k]] = k - 1
  BY <1>5
<1>7. \A i, j \in 1 .. n : f[i] = f[j] => i = j
  <2>1. ASSUME NEW i \in 1 .. n, NEW j \in 1 .. n, f[i] = f[j] PROVE i = j
    <3>1. i - 1 = j - 1
      BY <1>6, <2>1
    <3>2. QED  BY <1>1, <3>1
  <2>2. QED  BY <2>1
<1>8. \A x \in S : \E k \in 1 .. n : f[k] = x
  <2>1. ASSUME NEW x \in S PROVE \E k \in 1 .. n : f[k] = x
    <3>1. rank[x] + 1 \in 1 .. n /\ (rank[x] + 1) - 1 = rank[x]
      BY <1>1
    <3>2. f[rank[x] + 1] \in S /\ rank[f[rank[x] + 1]] = rank[x]
      BY <1>6, <3>1
    <3>3. QED  BY <3>1, <3>2
  <2>2. QED  BY <2>1
<1>9. QED  BY <1>1, <1>6, <1>7, <1>8 DEF HasEachOnce

-----------------------------------------------------------------------------
(***************************************************************************)
(* Counts.                                                                 *)
(***************************************************************************)
\* A function that takes every value once counts them.
OneToOne(f, S, T) ==
  /\ f \in [S -> T]
  /\ \A x, y \in S : f[x] = f[y] => x = y
  /\ \A t \in T : \E x \in S : f[x] = t

LEMMA CountedBy ==
  ASSUME NEW S, NEW T, IsFiniteSet(S), NEW f, OneToOne(f, S, T)
  PROVE  IsFiniteSet(T) /\ Cardinality(T) = Cardinality(S)
<1>1. f \in Bijection(S, T)
  BY DEF OneToOne, Bijection, Injection, Surjection, IsInjective
<1>2. QED  BY <1>1, FS_Bijection DEF ExistsBijection

\* Two sets that have equally many members of every class have equally many members.
SameCounts(f, S, g, T) ==
  \A k : Cardinality({x \in S : f[x] = k}) = Cardinality({y \in T : g[y] = k})

LEMMA SameClasses ==
  ASSUME NEW S, IsFiniteSet(S), NEW T, IsFiniteSet(T), NEW f, NEW g, SameCounts(f, S, g, T)
  PROVE  Cardinality(S) = Cardinality(T)
<1> DEFINE In(k) == {x \in S : f[x] = k}
           Out(k) == {y \in T : g[y] = k}
           Classes == {f[x] : x \in S} \cup {g[y] : y \in T}
           Bij(k) == CHOOSE h : h \in Bijection(In(k), Out(k))
           whole == [x \in S |-> Bij(f[x])[x]]
<1>1. \A k : Bij(k) \in Bijection(In(k), Out(k))
  <2> TAKE k
  <2>1. IsFiniteSet(In(k)) /\ IsFiniteSet(Out(k))
    BY FS_Subset
  <2>2. ExistsBijection(In(k), Out(k))
    BY <2>1, FS_SameCardinalityBij DEF SameCounts
  <2>3. QED  BY <2>2 DEF ExistsBijection
<1> HIDE DEF Bij
<1>2. \A k : /\ Bij(k) \in [In(k) -> Out(k)]
             /\ \A x, y \in In(k) : Bij(k)[x] = Bij(k)[y] => x = y
             /\ \A t \in Out(k) : \E x \in In(k) : Bij(k)[x] = t
  BY <1>1, Zenon DEF Bijection, Injection, Surjection, IsInjective
<1>3. \A x \in S : x \in In(f[x]) /\ whole[x] \in Out(f[x])
  <2>1. \A k : \A x \in In(k) : Bij(k)[x] \in Out(k)
    <3> HIDE DEF In, Out
    <3>1. QED  BY <1>2
  <2>2. \A x \in S : x \in In(f[x])
    OBVIOUS
  <2>3. \A x \in S : Bij(f[x])[x] \in Out(f[x])
    <3> HIDE DEF In, Out
    <3>1. QED  BY <2>1, <2>2
  <2>4. QED  BY <2>2, <2>3
<1>4. \A x \in S : whole[x] \in T /\ g[whole[x]] = f[x]
  BY <1>3
<1>5. ASSUME NEW x \in S, NEW y \in S, whole[x] = whole[y] PROVE x = y
  <2>1. f[x] = f[y]
    BY <1>4, <1>5
  <2>2. x \in In(f[x]) /\ y \in In(f[x]) /\ Bij(f[x])[x] = Bij(f[x])[y]
    BY <1>5, <2>1
  <2>3. QED  BY <1>2, <2>2
<1>6. ASSUME NEW t \in T PROVE \E x \in S : whole[x] = t
  <2>1. t \in Out(g[t])
    OBVIOUS
  <2>2. PICK x \in In(g[t]) : Bij(g[t])[x] = t
    BY <1>2, <2>1
  <2>3. QED  BY <2>2
<1>7. whole \in [S -> T]
  BY <1>4
<1> HIDE DEF whole
<1>8. OneToOne(whole, S, T)
  BY <1>5, <1>6, <1>7 DEF OneToOne
<1>9. QED  BY <1>8, CountedBy
================================================================================
