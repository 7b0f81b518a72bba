--------------------------- MODULE InductionLemmas ---------------------------
(***************************************************************************)
(* Induction without operator parameters.  The library's induction rules   *)
(* take the predicate as an operator, which the provers at hand cannot     *)
(* instantiate; its WFMin takes a set.  So here an induction is over the   *)
(* set of the numbers that have the property, and what follows for finite  *)
(* sets: a greatest and a least element, and what a sum over one is.       *)
(***************************************************************************)
EXTENDS Integers, FiniteSets, FiniteSetsExt, FiniteSetTheorems,
        WellFoundedInduction, TLAPS

NatOrder == {ss \in Nat \X Nat : ss[1] < ss[2]}

(* The order of the natural numbers is well founded.                       *)
LEMMA NatOrderIsWellFounded == IsWellFoundedOn(NatOrder, Nat)
BY NatLessThanWellFounded DEF OpToRel, NatOrder

(* Every set of natural numbers that is not empty has a least element.     *)
LEMMA NatIsWellOrdered ==
  ASSUME NEW T \in SUBSET Nat, T # {}
  PROVE  \E n \in T : \A m \in T : n <= m
<1>1. PICK n \in T : \A m \in T : ~ (<<m, n>> \in NatOrder)
  BY NatOrderIsWellFounded, WFMin, Zenon
<1>2. \A m \in T : ~ (m < n)
  BY <1>1 DEF NatOrder
<1> QED BY <1>2, SMT

(* A set with 0 and, with a number, the next, has every natural number.    *)
LEMMA NatInductionOnSets ==
  ASSUME NEW S, 0 \in S, \A n \in Nat : n \in S => n + 1 \in S
  PROVE  Nat \subseteq S
<1> SUFFICES ASSUME Nat \ S # {} PROVE FALSE
  OBVIOUS
<1>1. PICK n \in Nat \ S : \A m \in Nat \ S : n <= m
  BY NatIsWellOrdered
<1>2. n # 0 /\ n - 1 \in Nat
  BY <1>1
<1>3. n - 1 \in S
  BY <1>1, <1>2
<1> QED BY <1>1, <1>2, <1>3

(* A finite set of integers that is not empty has a greatest and a least   *)
(* element, so that Max and Min choose them.                               *)
LEMMA FiniteHasExtremes ==
  ASSUME NEW T, IsFiniteSet(T), T \subseteq Int, T # {}
  PROVE  (\E x \in T : \A y \in T : x >= y) /\ (\E x \in T : \A y \in T : x <= y)
<1> DEFINE Good(U) == (\E x \in U : \A y \in U : x >= y) /\ (\E x \in U : \A y \in U : x <= y)
           S == {n \in Nat : \A U \in SUBSET Int :
                               IsFiniteSet(U) /\ Cardinality(U) = n /\ U # {} => Good(U)}
<1>1. 0 \in S
  BY FS_EmptySet
<1>2. ASSUME NEW n \in Nat, n \in S PROVE n + 1 \in S
  <2> SUFFICES ASSUME NEW U \in SUBSET Int, IsFiniteSet(U), Cardinality(U) = n + 1, U # {}
               PROVE  Good(U)
    OBVIOUS
  <2>1. PICK u \in U : TRUE
    OBVIOUS
  <2> DEFINE V == U \ {u}
  <2>2. IsFiniteSet(V) /\ Cardinality(V) = n
    <3>1. IsFiniteSet(V) /\ Cardinality(V) = Cardinality(U) - 1
      BY FS_RemoveElement
    <3> QED BY <3>1
  <2>3. CASE V = {}
    BY <2>3
  <2>4. CASE V # {}
    <3>1. Good(V)
      BY <2>2, <2>4, <1>2
    <3>2. PICK x \in V : \A y \in V : x >= y
      BY <3>1
    <3>3. PICK z \in V : \A y \in V : z <= y
      BY <3>1
    <3>4. \E w \in U : \A y \in U : w >= y
      <4>1. CASE x >= u  BY <3>2, <4>1
      <4>2. CASE ~ (x >= u)  BY <3>2, <4>2
      <4> QED BY <4>1, <4>2
    <3>5. \E w \in U : \A y \in U : w <= y
      <4>1. CASE z <= u  BY <3>3, <4>1
      <4>2. CASE ~ (z <= u)  BY <3>3, <4>2
      <4> QED BY <4>1, <4>2
    <3> QED BY <3>4, <3>5
  <2> QED BY <2>3, <2>4
<1>3. Nat \subseteq S
  <2> HIDE DEF S
  <2> QED BY <1>1, <1>2, NatInductionOnSets
<1>4. Cardinality(T) \in Nat
  BY FS_CardinalityType
<1> QED BY <1>3, <1>4

(* Max of a finite set of integers is in it, and nothing is above.         *)
LEMMA MaxOfFinite ==
  ASSUME NEW T, IsFiniteSet(T), T \subseteq Int, T # {}
  PROVE  Max(T) \in T /\ \A y \in T : y <= Max(T)
<1>1. \E x \in T : \A y \in T : x >= y
  BY FiniteHasExtremes
<1> QED BY <1>1 DEF Max

(* Min of a finite set of integers is in it, and nothing is below.         *)
LEMMA MinOfFinite ==
  ASSUME NEW T, IsFiniteSet(T), T \subseteq Int, T # {}
  PROVE  Min(T) \in T /\ \A y \in T : Min(T) <= y
<1>1. \E x \in T : \A y \in T : x <= y
  BY FiniteHasExtremes
<1> QED BY <1>1 DEF Min

(* What a function makes of a finite set is finite.                        *)
LEMMA ImageIsFinite ==
  ASSUME NEW S, IsFiniteSet(S), NEW f
  PROVE  IsFiniteSet({f[x] : x \in S})
<1> DEFINE T == {f[x] : x \in S}
           g == [x \in S |-> f[x]]
<1>1. g \in Surjection(S, T)
  BY DEF Surjection
<1> HIDE DEF T, g
<1>2. IsFiniteSet(T)
  BY <1>1, FS_Surjection
<1> QED BY <1>2 DEF T

(* Of finitely many pairs of integers one comes last in the dictionary.    *)
LEMMA LastInDictionary ==
  ASSUME NEW T, IsFiniteSet(T), T \subseteq Int \X Int, T # {}
  PROVE  \E m \in T : \A x \in T : x[1] < m[1] \/ (x[1] = m[1] /\ x[2] <= m[2])
<1> DEFINE P == {x[1] : x \in T}
           p == Max(P)
           Q == {x[2] : x \in {y \in T : y[1] = p}}
           q == Max(Q)
<1>1. IsFiniteSet(P) /\ P \subseteq Int /\ P # {}
  <2> DEFINE f == [x \in T |-> x[1]]
  <2>1. IsFiniteSet({f[x] : x \in T})
    <3> HIDE DEF f
    <3> QED BY ImageIsFinite
  <2>2. P = {f[x] : x \in T}
    OBVIOUS
  <2> HIDE DEF P
  <2>3. IsFiniteSet(P)
    BY <2>1, <2>2
  <2> QED BY <2>3 DEF P
<1>2. p \in P /\ \A y \in P : y <= p
  <2> HIDE DEF P
  <2> QED BY <1>1, MaxOfFinite
<1> HIDE DEF p
<1>3. IsFiniteSet(Q) /\ Q \subseteq Int /\ Q # {}
  <2> DEFINE U == {y \in T : y[1] = p}
  <2>1. IsFiniteSet(U)
    BY FS_Subset
  <2> DEFINE f == [x \in U |-> x[2]]
  <2>2. IsFiniteSet({f[x] : x \in U})
    <3> HIDE DEF f, U
    <3> QED BY <2>1, ImageIsFinite
  <2>3. Q = {f[x] : x \in U}
    OBVIOUS
  <2> HIDE DEF f, U
  <2>4. IsFiniteSet(Q)
    <3> HIDE DEF Q
    <3> QED BY <2>2, <2>3
  <2> QED BY <1>2, <2>4
<1>4. q \in Q /\ \A y \in Q : y <= q
  <2> HIDE DEF Q
  <2> QED BY <1>3, MaxOfFinite
<1> HIDE DEF q
<1>5. PICK m \in T : m[1] = p /\ m[2] = q
  BY <1>4
<1>6. \A x \in T : x[1] < p \/ (x[1] = p /\ x[2] <= q)
  <2> SUFFICES ASSUME NEW x \in T PROVE x[1] < p \/ (x[1] = p /\ x[2] <= q)
    OBVIOUS
  <2>1. x[1] \in P /\ x[1] \in Int /\ p \in Int
    BY <1>1, <1>2
  <2>2. x[1] <= p
    BY <1>2, <2>1
  <2>3. CASE x[1] = p
    <3>1. x[2] \in Q
      BY <2>3
    <3> QED BY <1>4, <2>3, <3>1
  <2> HIDE DEF P, Q
  <2> QED BY <2>1, <2>2, <2>3
<1> QED BY <1>5, <1>6

-----------------------------------------------------------------------------
(* A sum over a finite set is defined by a function that takes an element  *)
(* at a time, the one CHOOSE picks.                                        *)
Chosen(s) == CHOOSE x \in s : TRUE
SumsOn(g, f, D) == g = [s \in D |-> IF s = {} THEN 0 ELSE f[Chosen(s)] + g[s \ {Chosen(s)}]]

(* SumFunctionOnSet is the value of such a function at the whole set.      *)
LEMMA SumUnfold ==
  ASSUME NEW f, NEW S
  PROVE  SumFunctionOnSet(f, S) = (CHOOSE g : SumsOn(g, f, SUBSET S))[S]
BY DEF SumFunctionOnSet, FoldFunctionOnSet, MapThenFoldSet, SumsOn, Chosen

(* There is such a function on the subsets with at most n elements, for    *)
(* every n, hence on all subsets.                                          *)
LEMMA SumExists ==
  ASSUME NEW f, NEW S, IsFiniteSet(S)
  PROVE  \E g : SumsOn(g, f, SUBSET S)
<1> DEFINE Small(n) == {s \in SUBSET S : Cardinality(s) <= n}
           Has(n) == \E g : SumsOn(g, f, Small(n))
           N == {n \in Nat : Has(n)}
<1>1. \A s \in SUBSET S : IsFiniteSet(s) /\ Cardinality(s) \in Nat
  BY FS_Subset, FS_CardinalityType
<1>2. \A s \in SUBSET S : s # {} => /\ Chosen(s) \in s
                                    /\ Cardinality(s \ {Chosen(s)}) = Cardinality(s) - 1
  BY <1>1, FS_RemoveElement DEF Chosen
<1>3. 0 \in N
  <2>1. \A s \in Small(0) : s = {}
    BY <1>1, FS_EmptySet
  <2>2. SumsOn([s \in Small(0) |-> 0], f, Small(0))
    BY <2>1 DEF SumsOn
  <2> QED BY <2>2
<1>4. ASSUME NEW n \in Nat, n \in N PROVE n + 1 \in N
  <2>1. PICK g : SumsOn(g, f, Small(n))
    BY <1>4
  <2> DEFINE h == [s \in Small(n + 1) |-> IF s = {} THEN 0 ELSE f[Chosen(s)] + g[s \ {Chosen(s)}]]
  <2>2. \A s \in Small(n) : g[s] = IF s = {} THEN 0 ELSE f[Chosen(s)] + g[s \ {Chosen(s)}]
    BY <2>1 DEF SumsOn
  <2>3. \A s \in Small(n) : s \in Small(n + 1) /\ h[s] = g[s]
    BY <2>2, <1>1
  <2>4. \A s \in Small(n + 1) : s # {} => s \ {Chosen(s)} \in Small(n)
    BY <1>1, <1>2
  <2>5. \A s \in Small(n + 1) : h[s] = IF s = {} THEN 0 ELSE f[Chosen(s)] + h[s \ {Chosen(s)}]
    BY <2>3, <2>4
  <2>6. h = [s \in Small(n + 1) |-> h[s]]
    OBVIOUS
  <2> DEFINE D == Small(n + 1)
  <2>7. SumsOn(h, f, D)
    <3>1. \A s \in D : h[s] = IF s = {} THEN 0 ELSE f[Chosen(s)] + h[s \ {Chosen(s)}]
      BY <2>5
    <3>2. h = [s \in D |-> h[s]]
      BY <2>6
    <3> HIDE DEF h, D
    <3>3. [s \in D |-> h[s]] = [s \in D |-> IF s = {} THEN 0 ELSE f[Chosen(s)] + h[s \ {Chosen(s)}]]
      BY <3>1
    <3> QED BY <3>2, <3>3 DEF SumsOn
  <2>8. Has(n + 1)
    <3> HIDE DEF h
    <3> QED BY <2>7
  <2> HIDE DEF Has
  <2> QED BY <2>8
<1>5. Nat \subseteq N
  <2> HIDE DEF N
  <2> QED BY <1>3, <1>4, NatInductionOnSets
<1>6. Cardinality(S) \in Nat /\ Small(Cardinality(S)) = SUBSET S
  BY <1>1, FS_Subset
<1> QED BY <1>5, <1>6

SumFcn(f, S) == CHOOSE g : SumsOn(g, f, SUBSET S)

(* What such a function is: 0 for no element, and otherwise the value at   *)
(* the element chosen plus the sum of the rest.                            *)
LEMMA SumStep ==
  ASSUME NEW f, NEW S, IsFiniteSet(S)
  PROVE  /\ SumFcn(f, S)[{}] = 0
         /\ \A s \in SUBSET S : s # {} =>
              /\ Chosen(s) \in s
              /\ SumFcn(f, S)[s] = f[Chosen(s)] + SumFcn(f, S)[s \ {Chosen(s)}]
<1>1. SumsOn(SumFcn(f, S), f, SUBSET S)
  BY SumExists DEF SumFcn
<1> QED BY <1>1 DEF SumsOn, Chosen

(* What a property of all subsets needs: the induction on their size.      *)
(* Sums are integers, and do not depend on the order nor on the set around.*)
LEMMA SumIsInt ==
  ASSUME NEW f, NEW S, IsFiniteSet(S), \A x \in S : f[x] \in Int
  PROVE  \A s \in SUBSET S : SumFcn(f, S)[s] \in Int
<1> DEFINE N == {n \in Nat : \A s \in SUBSET S : Cardinality(s) = n => SumFcn(f, S)[s] \in Int}
<1>1. \A s \in SUBSET S : IsFiniteSet(s) /\ Cardinality(s) \in Nat
  BY FS_Subset, FS_CardinalityType
<1>2. 0 \in N
  <2>1. \A s \in SUBSET S : Cardinality(s) = 0 => s = {}
    BY <1>1, FS_EmptySet
  <2>2. SumFcn(f, S)[{}] = 0
    BY SumStep
  <2> QED BY <2>1, <2>2
<1>3. ASSUME NEW n \in Nat, n \in N PROVE n + 1 \in N
  <2> SUFFICES ASSUME NEW s \in SUBSET S, Cardinality(s) = n + 1 PROVE SumFcn(f, S)[s] \in Int
    OBVIOUS
  <2>1. s # {}
    BY FS_EmptySet
  <2>2. Chosen(s) \in s /\ SumFcn(f, S)[s] = f[Chosen(s)] + SumFcn(f, S)[s \ {Chosen(s)}]
    BY <2>1, SumStep
  <2>3. Cardinality(s \ {Chosen(s)}) = Cardinality(s) - 1
    BY <1>1, <2>2, FS_RemoveElement
  <2>4. SumFcn(f, S)[s \ {Chosen(s)}] \in Int
    BY <2>3, <1>3
  <2> QED BY <2>2, <2>4
<1>4. Nat \subseteq N
  <2> HIDE DEF N
  <2> QED BY <1>2, <1>3, NatInductionOnSets
<1> QED BY <1>1, <1>4

(* The sum of some elements does not depend on the set they are taken of.  *)
LEMMA SumSame ==
  ASSUME NEW f, NEW g, NEW S, NEW T, IsFiniteSet(S), IsFiniteSet(T),
         \A x \in S \cap T : f[x] = g[x]
  PROVE  \A s \in SUBSET (S \cap T) : SumFcn(f, S)[s] = SumFcn(g, T)[s]
<1> DEFINE Unfolds(h, U) == /\ SumFcn(h, U)[{}] = 0
                            /\ \A s \in SUBSET U : s # {} =>
                                 /\ Chosen(s) \in s
                                 /\ SumFcn(h, U)[s] = h[Chosen(s)] + SumFcn(h, U)[s \ {Chosen(s)}]
<1>0. Unfolds(f, S) /\ Unfolds(g, T)
  <2>1. \A h, U : IsFiniteSet(U) => Unfolds(h, U)
    BY SumStep
  <2> HIDE DEF Unfolds
  <2> QED BY <2>1
<1> DEFINE N == {n \in Nat : \A s \in SUBSET (S \cap T) :
                    Cardinality(s) = n => SumFcn(f, S)[s] = SumFcn(g, T)[s]}
<1>1. \A s \in SUBSET (S \cap T) : /\ IsFiniteSet(s) /\ Cardinality(s) \in Nat
                                   /\ s \in SUBSET S /\ s \in SUBSET T
  BY FS_Subset, FS_CardinalityType
<1>2. 0 \in N
  <2>1. \A s \in SUBSET (S \cap T) : Cardinality(s) = 0 => s = {}
    BY <1>1, FS_EmptySet
  <2>2. SumFcn(f, S)[{}] = 0 /\ SumFcn(g, T)[{}] = 0
    BY SumStep
  <2> QED BY <2>1, <2>2
<1>3. ASSUME NEW n \in Nat, n \in N PROVE n + 1 \in N
  <2> SUFFICES ASSUME NEW s \in SUBSET (S \cap T), Cardinality(s) = n + 1
               PROVE  SumFcn(f, S)[s] = SumFcn(g, T)[s]
    OBVIOUS
  <2>1. s # {}
    BY FS_EmptySet
  <2>2. /\ Chosen(s) \in s
        /\ SumFcn(f, S)[s] = f[Chosen(s)] + SumFcn(f, S)[s \ {Chosen(s)}]
        /\ SumFcn(g, T)[s] = g[Chosen(s)] + SumFcn(g, T)[s \ {Chosen(s)}]
    <3>1. s \in SUBSET S /\ s \in SUBSET T
      BY <1>1
    <3>2. \A z \in SUBSET S : z # {} =>
             Chosen(z) \in z /\ SumFcn(f, S)[z] = f[Chosen(z)] + SumFcn(f, S)[z \ {Chosen(z)}]
      BY <1>0
    <3>3. \A z \in SUBSET T : z # {} =>
             Chosen(z) \in z /\ SumFcn(g, T)[z] = g[Chosen(z)] + SumFcn(g, T)[z \ {Chosen(z)}]
      BY <1>0
    <3> QED BY <2>1, <3>1, <3>2, <3>3
  <2>3. Cardinality(s \ {Chosen(s)}) = Cardinality(s) - 1
    BY <1>1, <2>2, FS_RemoveElement
  <2>4. SumFcn(f, S)[s \ {Chosen(s)}] = SumFcn(g, T)[s \ {Chosen(s)}]
    BY <2>3, <1>3
  <2>5. f[Chosen(s)] = g[Chosen(s)]
    BY <2>2
  <2> QED BY <2>2, <2>4, <2>5
<1>4. Nat \subseteq N
  <2> HIDE DEF N
  <2> QED BY <1>2, <1>3, NatInductionOnSets
<1> QED BY <1>1, <1>4

(* The element taken out first need not be the one the fold chooses.       *)
LEMMA SumAnyOrder ==
  ASSUME NEW f, NEW S, IsFiniteSet(S), \A x \in S : f[x] \in Int
  PROVE  \A s \in SUBSET S : \A x \in s : SumFcn(f, S)[s] = f[x] + SumFcn(f, S)[s \ {x}]
<1> DEFINE N == {n \in Nat : \A s \in SUBSET S : Cardinality(s) = n =>
                    \A x \in s : SumFcn(f, S)[s] = f[x] + SumFcn(f, S)[s \ {x}]}
<1>1. \A s \in SUBSET S : IsFiniteSet(s) /\ Cardinality(s) \in Nat
  BY FS_Subset, FS_CardinalityType
<1>2. 0 \in N
  BY <1>1, FS_EmptySet
<1>3. ASSUME NEW n \in Nat, n \in N PROVE n + 1 \in N
  <2> SUFFICES ASSUME NEW s \in SUBSET S, Cardinality(s) = n + 1, NEW x \in s
               PROVE  SumFcn(f, S)[s] = f[x] + SumFcn(f, S)[s \ {x}]
    OBVIOUS
  <2> DEFINE y == Chosen(s)
  <2>2. y \in s /\ SumFcn(f, S)[s] = f[y] + SumFcn(f, S)[s \ {y}]
    BY SumStep
  <2>3. CASE x = y
    BY <2>2, <2>3
  <2>4. CASE x # y
    <3>1. Cardinality(s \ {x}) = n /\ Cardinality(s \ {y}) = n
      <4>1. Cardinality(s \ {x}) = Cardinality(s) - 1 /\ Cardinality(s \ {y}) = Cardinality(s) - 1
        BY <1>1, <2>2, FS_RemoveElement
      <4> QED BY <4>1
    <3>2. SumFcn(f, S)[s \ {y}] = f[x] + SumFcn(f, S)[(s \ {y}) \ {x}]
      BY <1>3, <3>1, <2>4
    <3>3. SumFcn(f, S)[s \ {x}] = f[y] + SumFcn(f, S)[(s \ {x}) \ {y}]
      BY <1>3, <3>1, <2>4, <2>2
    <3>4. (s \ {y}) \ {x} = (s \ {x}) \ {y}
      OBVIOUS
    <3>5. SumFcn(f, S)[(s \ {x}) \ {y}] \in Int /\ f[x] \in Int /\ f[y] \in Int
      BY <2>2, SumIsInt
    <3> QED
      <4> DEFINE r == SumFcn(f, S)[(s \ {x}) \ {y}]
                 p == SumFcn(f, S)[s \ {y}]
                 q == SumFcn(f, S)[s \ {x}]
      <4>1. p = f[x] + r /\ q = f[y] + r /\ r \in Int /\ f[x] \in Int /\ f[y] \in Int
        BY <3>2, <3>3, <3>4, <3>5
      <4>2. SumFcn(f, S)[s] = f[y] + p
        BY <2>2
      <4> HIDE DEF p, q, r
      <4>3. f[y] + p = f[x] + q
        BY <4>1
      <4> QED BY <4>2, <4>3 DEF q
  <2> QED BY <2>3, <2>4
<1>4. Nat \subseteq N
  <2> HIDE DEF N
  <2> QED BY <1>2, <1>3, NatInductionOnSets
<1> QED BY <1>1, <1>4

(* The rules of a sum over a finite set, whatever the order.               *)
LEMMA SumOfNone ==
  ASSUME NEW f
  PROVE  SumFunctionOnSet(f, {}) = 0
BY SumUnfold, SumStep, FS_EmptySet DEF SumFcn

(* An element more adds its value.                                         *)
LEMMA SumOfOneMore ==
  ASSUME NEW f, NEW S, IsFiniteSet(S), NEW x, x \notin S, \A y \in S \cup {x} : f[y] \in Int
  PROVE  SumFunctionOnSet(f, S \cup {x}) = SumFunctionOnSet(f, S) + f[x]
<1> DEFINE T == S \cup {x}
<1>1. IsFiniteSet(T)
  BY FS_AddElement
<1>2. SumFcn(f, T)[T] = f[x] + SumFcn(f, T)[T \ {x}]
  BY <1>1, SumAnyOrder
<1>3. T \ {x} = S
  OBVIOUS
<1>4. SumFcn(f, T)[S] = SumFcn(f, S)[S]
  BY <1>1, SumSame
<1>5. SumFcn(f, S)[S] \in Int
  BY SumIsInt
<1>6. /\ SumFunctionOnSet(f, T) = SumFcn(f, T)[T]
      /\ SumFunctionOnSet(f, S) = SumFcn(f, S)[S]
  BY SumUnfold DEF SumFcn
<1>7. SumFcn(f, T)[T] = f[x] + SumFcn(f, S)[S] /\ f[x] \in Int
  BY <1>2, <1>3, <1>4
<1> QED BY <1>5, <1>6, <1>7

(* A sum of integers is an integer.                                        *)
LEMMA SumOfInts ==
  ASSUME NEW f, NEW S, IsFiniteSet(S), \A x \in S : f[x] \in Int
  PROVE  SumFunctionOnSet(f, S) \in Int
BY SumIsInt, SumUnfold DEF SumFcn

(* Functions that agree on a set have one sum on it.                       *)
LEMMA SumOfEquals ==
  ASSUME NEW f, NEW g, NEW S, IsFiniteSet(S), \A x \in S : f[x] = g[x]
  PROVE  SumFunctionOnSet(f, S) = SumFunctionOnSet(g, S)
<1>1. SumFcn(f, S)[S] = SumFcn(g, S)[S]
  BY SumSame
<1> QED BY <1>1, SumUnfold DEF SumFcn

(* The sum of one value is that value.                                     *)
LEMMA SumOfSingle ==
  ASSUME NEW f, NEW x, f[x] \in Int
  PROVE  SumFunctionOnSet(f, {x}) = f[x]
<1>1. {} \cup {x} = {x} /\ x \notin {} /\ IsFiniteSet({})
  BY FS_EmptySet
<1>2. SumFunctionOnSet(f, {} \cup {x}) = SumFunctionOnSet(f, {}) + f[x]
  BY <1>1, SumOfOneMore
<1> QED BY <1>1, <1>2, SumOfNone

(* What is taken away from a set is taken away from its sum.               *)
LEMMA SumOfRest ==
  ASSUME NEW f, NEW S, IsFiniteSet(S), \A x \in S : f[x] \in Int, NEW I \in SUBSET S
  PROVE  SumFunctionOnSet(f, S \ I) = SumFunctionOnSet(f, S) - SumFunctionOnSet(f, I)
<1> DEFINE Sum(U) == SumFunctionOnSet(f, U)
           N == {n \in Nat : \A J \in SUBSET S :
                               Cardinality(J) = n => Sum(S \ J) = Sum(S) - Sum(J)}
<1>1. \A J \in SUBSET S : /\ IsFiniteSet(J) /\ Cardinality(J) \in Nat
                          /\ \A x \in J : f[x] \in Int
  BY FS_Subset, FS_CardinalityType
<1>2. \A J \in SUBSET S : Sum(J) \in Int
  BY <1>1, SumOfInts
<1>3. 0 \in N
  <2>1. \A J \in SUBSET S : Cardinality(J) = 0 => J = {}
    BY <1>1, FS_EmptySet
  <2>2. S \ {} = S /\ Sum({}) = 0 /\ Sum(S) \in Int
    BY <1>2, SumOfNone
  <2> HIDE DEF Sum
  <2> QED BY <2>1, <2>2
<1>4. ASSUME NEW n \in Nat, n \in N PROVE n + 1 \in N
  <2> SUFFICES ASSUME NEW J \in SUBSET S, Cardinality(J) = n + 1
               PROVE  Sum(S \ J) = Sum(S) - Sum(J)
    OBVIOUS
  <2>1. PICK x \in J : TRUE
    BY FS_EmptySet
  <2> DEFINE K == J \ {x}
  <2>2. Cardinality(K) = n
    <3>1. Cardinality(K) = Cardinality(J) - 1
      BY <1>1, FS_RemoveElement
    <3> QED BY <3>1
  <2>3. Sum(S \ K) = Sum(S) - Sum(K)
    BY <1>4, <2>2
  <2>4. Sum(J) = Sum(K) + f[x]
    <3>1. J = K \cup {x} /\ x \notin K /\ IsFiniteSet(K) /\ \A y \in K \cup {x} : f[y] \in Int
      BY <1>1
    <3> HIDE DEF K
    <3> QED BY <3>1, SumOfOneMore
  <2>5. Sum(S \ K) = Sum(S \ J) + f[x]
    <3> DEFINE R == S \ J
    <3>1. S \ K = R \cup {x} /\ x \notin R /\ IsFiniteSet(R) /\ \A y \in R \cup {x} : f[y] \in Int
      BY <1>1
    <3> HIDE DEF K, R
    <3>2. Sum(R \cup {x}) = Sum(R) + f[x]
      BY <3>1, SumOfOneMore
    <3> QED BY <3>1, <3>2 DEF R
  <2>6. /\ Sum(S) \in Int /\ Sum(K) \in Int /\ Sum(J) \in Int /\ Sum(S \ J) \in Int
        /\ f[x] \in Int
    BY <1>2
  <2> HIDE DEF Sum, K
  <2> QED BY <2>3, <2>4, <2>5, <2>6
<1>5. Nat \subseteq N
  <2> HIDE DEF N
  <2> QED BY <1>3, <1>4, NatInductionOnSets
<1> QED BY <1>1, <1>5

\* On 1..m, f is by how much g falls.
Differences(f, g, m) == /\ \A n \in 0..m : g[n] \in Int
                        /\ \A n \in 1..m : f[n] = g[n - 1] - g[n]
(* Differences of neighbours add up to the difference of the ends.         *)
LEMMA SumTelescopes ==
  ASSUME NEW f, NEW g, NEW m \in Nat, Differences(f, g, m)
  PROVE  SumFunctionOnSet(f, 1..m) = g[0] - g[m]
<1> USE DEF Differences
<1> DEFINE N == {n \in Nat : n <= m => SumFunctionOnSet(f, 1..n) = g[0] - g[n]}
<1>1. 0 \in N
  <2>1. 1..0 = {} /\ g[0] \in Int
    OBVIOUS
  <2>2. SumFunctionOnSet(f, 1..0) = 0
    BY <2>1, SumOfNone
  <2> QED BY <2>1, <2>2
<1>2. ASSUME NEW n \in Nat, n \in N PROVE n + 1 \in N
  <2> SUFFICES ASSUME n + 1 <= m PROVE SumFunctionOnSet(f, 1..(n + 1)) = g[0] - g[n + 1]
    OBVIOUS
  <2> DEFINE S == 1..n
             x == n + 1
  <2>1. 1..(n + 1) = S \cup {x} /\ x \notin S
    OBVIOUS
  <2>2. IsFiniteSet(S)
    BY FS_Interval
  <2>3. ASSUME NEW y \in S \cup {x} PROVE f[y] \in Int
    <3>1. y \in 1..m /\ y \in 0..m /\ y - 1 \in 0..m
      OBVIOUS
    <3>2. g[y] \in Int /\ g[y - 1] \in Int
      BY <3>1
    <3> QED BY <3>1, <3>2
  <2>4. f[x] = g[n] - g[n + 1] /\ g[0] \in Int /\ g[n] \in Int /\ g[n + 1] \in Int
    <3>1. n + 1 \in 1..m /\ (n + 1) - 1 = n
      OBVIOUS
    <3>2. f[n + 1] = g[(n + 1) - 1] - g[n + 1]
      BY <3>1
    <3>3. 0 \in 0..m /\ n \in 0..m /\ n + 1 \in 0..m
      OBVIOUS
    <3> QED BY <3>1, <3>2, <3>3
  <2>5. SumFunctionOnSet(f, S) = g[0] - g[n]
    BY <1>2
  <2> HIDE DEF S, x
  <2>6. SumFunctionOnSet(f, S \cup {x}) = SumFunctionOnSet(f, S) + f[x]
    BY <2>1, <2>2, <2>3, SumOfOneMore
  <2>7. SumFunctionOnSet(f, 1..(n + 1)) = SumFunctionOnSet(f, S) + f[x]
    BY <2>1, <2>6, Zenon
  <2> QED BY <2>4, <2>5, <2>7
<1>3. m \in N
  <2>1. Nat \subseteq N
    <3> HIDE DEF N
    <3> QED BY <1>1, <1>2, NatInductionOnSets
  <2> QED BY <2>1
<1> QED BY <1>3
=============================================================================
