------------------------------- MODULE SetSums -------------------------------
(***************************************************************************)
(* Sums over finite sets: what MapThenSumSet computes, and how it changes  *)
(* with the set and with the values added.                                 *)
(*                                                                         *)
(* The fold of the library is a recursive function on the subsets of a     *)
(* set, which removes an arbitrary element at each step.  That it exists,  *)
(* and that the order does not matter, are inductions on the size of the   *)
(* set; the library's induction rules take a predicate, so they are stated *)
(* here for sets.                                                          *)
(***************************************************************************)
EXTENDS Integers, FiniteSets, FiniteSetsExt, FiniteSetTheorems, WellFoundedInduction, TLAPS

\* A set of natural numbers has a least element.
LEMMA LeastNatural ==
    ASSUME NEW T \in SUBSET Nat, T # {}
    PROVE  \E x \in T : \A y \in T : x <= y
<1> DEFINE R == OpToRel(<, Nat)
<1>1. IsWellFoundedOn(R, Nat)
  BY NatLessThanWellFounded
<1>2. \A x, y \in Nat : y < x => <<y, x>> \in R
  BY DEF OpToRel
<1> HIDE DEF R
<1>3. PICK x \in T : \A y \in T : ~ (<<y, x>> \in R)
  BY <1>1, WFMin
<1>4. ASSUME NEW y \in T PROVE x <= y
  <2>1. x \in Nat /\ y \in Nat /\ ~ (y < x)
    BY <1>2, <1>3
  <2> QED
    BY <2>1
<1> QED
  BY <1>4

\* Induction on the natural numbers, for a set of them.
LEMMA NaturalSet ==
    ASSUME NEW T \in SUBSET Nat, 0 \in T, \A n \in T : n + 1 \in T
    PROVE  T = Nat
<1> SUFFICES ASSUME Nat \ T # {} PROVE FALSE
  OBVIOUS
<1>1. PICK x \in Nat \ T : \A y \in Nat \ T : x <= y
  BY LeastNatural
<1>2. x # 0 /\ x - 1 \in Nat /\ ~ (x <= x - 1)
  OBVIOUS
<1>3. x - 1 \in T
  BY <1>1, <1>2
<1>4. (x - 1) + 1 = x
  OBVIOUS
<1> QED
  BY <1>3, <1>4

\* Induction on the subsets of a finite set, for a set of them.
LEMMA SubsetInduction ==
    ASSUME NEW S, IsFiniteSet(S), NEW P \in SUBSET (SUBSET S), {} \in P,
           \A s \in P : \A x \in S \ s : s \cup {x} \in P
    PROVE  P = SUBSET S
<1> DEFINE T == {n \in Nat : \A s \in SUBSET S : Cardinality(s) = n => s \in P}
<1>1. 0 \in T
  BY FS_Subset, FS_EmptySet
<1>2. ASSUME NEW n \in T, NEW s \in SUBSET S, Cardinality(s) = n + 1 PROVE s \in P
  <2>1. IsFiniteSet(s) /\ n \in Nat
    BY FS_Subset
  <2>2. s # {}
    BY <1>2, <2>1, FS_EmptySet
  <2>3. PICK x \in s : TRUE
    BY <2>2
  <2>4. Cardinality(s \ {x}) = (n + 1) - 1
    BY <1>2, <2>1, <2>3, FS_RemoveElement
  <2>5. (n + 1) - 1 = n
    BY <2>1
  <2>6. s \ {x} \in SUBSET S
    OBVIOUS
  <2>7. s \ {x} \in P
    BY <2>4, <2>5, <2>6
  <2>8. x \in S \ (s \ {x}) /\ (s \ {x}) \cup {x} = s
    BY <2>3
  <2> QED
    BY <2>7, <2>8
<1>3. \A n \in T : n + 1 \in T
  BY <1>2
<1>4. T = Nat
  <2> HIDE DEF T
  <2>1. T \in SUBSET Nat
    BY DEF T
  <2> QED
    BY <1>1, <1>3, <2>1, NaturalSet
<1>5. ASSUME NEW s \in SUBSET S PROVE s \in P
  <2>1. Cardinality(s) \in Nat
    BY FS_Subset, FS_CardinalityType
  <2> QED
    BY <1>4, <2>1
<1> QED
  BY <1>5

\* The same, with every smaller subset as the hypothesis.
LEMMA SubsetDescent ==
    ASSUME NEW S, IsFiniteSet(S), NEW P \in SUBSET (SUBSET S),
           \A s \in SUBSET S :
               (\A t \in SUBSET S : Cardinality(t) < Cardinality(s) => t \in P) => s \in P
    PROVE  P = SUBSET S
<1> DEFINE T == {n \in Nat : \E s \in SUBSET S : s \notin P /\ Cardinality(s) = n}
<1>0. \A s \in SUBSET S : Cardinality(s) \in Nat
  BY FS_Subset, FS_CardinalityType
<1> SUFFICES ASSUME T # {} PROVE FALSE
  BY <1>0
<1>1. PICK n \in T : \A k \in T : n <= k
  BY LeastNatural
<1>2. PICK s \in SUBSET S : s \notin P /\ Cardinality(s) = n
  OBVIOUS
<1>3. ASSUME NEW t \in SUBSET S, Cardinality(t) < Cardinality(s) PROVE t \in P
  <2>1. Cardinality(t) \in Nat /\ n \in Nat /\ ~ (n <= Cardinality(t))
    BY <1>0, <1>2, <1>3
  <2> QED
    BY <1>1, <2>1
<1> QED
  BY <1>2, <1>3

-----------------------------------------------------------------------------
(* The recursive function *)

\* The sum of the values of f on S, as the fold of the library
Total(f, S) == MapThenSumSet(LAMBDA x : f[x], S)

Some(s) == CHOOSE x \in s : TRUE

Step(f, g, s) == IF s = {} THEN 0 ELSE f[Some(s)] + g[s \ {Some(s)}]

\* g is the function that the fold over S defines
Adds(f, S, g) == g = [s \in SUBSET S |-> Step(f, g, s)]

\* The recursion has a solution: it is built for ever larger subsets.
LEMMA Solvable ==
    ASSUME NEW f, NEW S, IsFiniteSet(S)
    PROVE  \E g : Adds(f, S, g)
<1> DEFINE Upto(n) == {s \in SUBSET S : Cardinality(s) <= n}
           Solves(g, n) == \A s \in Upto(n) : g[s] = Step(f, g, s)
           T == {n \in Nat : \E g : Solves(g, n)}
<1>0. \A s \in SUBSET S : IsFiniteSet(s) /\ Cardinality(s) \in Nat
  BY FS_Subset, FS_CardinalityType
<1>1. 0 \in T
  <2>1. \A s \in Upto(0) : s = {}
    BY <1>0, FS_EmptySet
  <2>2. \A s \in Upto(0) : [x \in SUBSET S |-> 0][s] = 0
    OBVIOUS
  <2>3. Solves([x \in SUBSET S |-> 0], 0)
    BY <2>1, <2>2 DEF Step
  <2> QED
    BY <2>3
<1>2. ASSUME NEW n \in T PROVE n + 1 \in T
  <2>0. n \in Nat
    OBVIOUS
  <2>1. PICK g : Solves(g, n)
    OBVIOUS
  <2> DEFINE h == [s \in SUBSET S |-> Step(f, g, s)]
  <2>2. ASSUME NEW s \in Upto(n) PROVE h[s] = g[s]
    BY <2>1
  <2>3. ASSUME NEW s \in Upto(n + 1), s # {} PROVE s \ {Some(s)} \in Upto(n)
    <3>1. Some(s) \in s
      BY <2>3 DEF Some
    <3>2. Cardinality(s \ {Some(s)}) = Cardinality(s) - 1
      BY <1>0, <3>1, FS_RemoveElement
    <3>3. Cardinality(s) \in Nat /\ Cardinality(s) <= n + 1
      BY <1>0
    <3>4. Cardinality(s) - 1 <= n
      BY <2>0, <3>3
    <3> QED
      BY <3>2, <3>4
  <2>4. ASSUME NEW s \in Upto(n + 1) PROVE h[s] = Step(f, h, s)
    <3>1. h[s] = Step(f, g, s)
      OBVIOUS
    <3>2. CASE s = {}
      BY <3>1, <3>2 DEF Step
    <3>3. CASE s # {}
      <4> HIDE DEF h, Upto
      <4>1. h[s \ {Some(s)}] = g[s \ {Some(s)}]
        BY <2>2, <2>3, <3>3
      <4> QED
        BY <3>1, <3>3, <4>1 DEF Step
    <3> QED
      BY <3>2, <3>3
  <2>5. Solves(h, n + 1)
    <3> HIDE DEF h, Upto
    <3> QED
      BY <2>4
  <2>6. n + 1 \in Nat
    BY <2>0
  <2>7. \E k : Solves(k, n + 1)
    <3> HIDE DEF h, Solves
    <3> QED
      BY <2>5
  <2> HIDE DEF Solves, h
  <2> QED
    BY <2>6, <2>7
<1>3. T = Nat
  <2> HIDE DEF T
  <2>1. T \in SUBSET Nat
    BY DEF T
  <2> QED
    BY <1>1, <1>2, <2>1, NaturalSet
<1>4. PICK g : Solves(g, Cardinality(S))
  <2>1. Cardinality(S) \in Nat
    BY FS_CardinalityType
  <2> QED
    BY <1>3, <2>1
<1>5. ASSUME NEW s \in SUBSET S PROVE g[s] = Step(f, g, s)
  <2>1. s \in Upto(Cardinality(S))
    BY FS_Subset
  <2> QED
    BY <1>4, <2>1
<1> DEFINE h == [s \in SUBSET S |-> g[s]]
<1>6. ASSUME NEW s \in SUBSET S PROVE Step(f, g, s) = Step(f, h, s)
  <2>1. CASE s # {}
    <3>1. s \ {Some(s)} \in SUBSET S
      OBVIOUS
    <3>2. h[s \ {Some(s)}] = g[s \ {Some(s)}]
      BY <3>1
    <3> QED
      BY <2>1, <3>2 DEF Step
  <2>2. CASE s = {}
    BY <2>2 DEF Step
  <2> QED
    BY <2>1, <2>2
<1>7. h = [s \in SUBSET S |-> Step(f, h, s)]
  <2> DEFINE k == [s \in SUBSET S |-> Step(f, h, s)]
  <2>1. \A s \in SUBSET S : h[s] = k[s]
    <3>1. \A s \in SUBSET S : k[s] = Step(f, h, s)
      <4> HIDE DEF h
      <4> QED
        OBVIOUS
    <3> QED
      BY <1>5, <1>6, <3>1
  <2> QED
    BY <2>1
<1>8. Adds(f, S, h)
  BY <1>7 DEF Adds
<1> QED
  BY <1>8

\* The fold is a solution's value.
LEMMA TotalSolves ==
    ASSUME NEW f, NEW S, IsFiniteSet(S)
    PROVE  \E g : Adds(f, S, g) /\ Total(f, S) = g[S]
<1> DEFINE it == CHOOSE g : g = [s \in SUBSET S |->
                   IF s = {} THEN 0
                   ELSE f[CHOOSE x \in s : TRUE] + g[s \ {CHOOSE x \in s : TRUE}]]
<1>1. Total(f, S) = it[S]
  BY DEF Total, MapThenSumSet, MapThenFoldSet
<1>2. \E g : Adds(f, S, g)
  BY Solvable
<1>3. Adds(f, S, it)
  BY <1>2 DEF Adds, Step, Some
<1> QED
  BY <1>1, <1>3

\* Which element goes first does not matter.
LEMMA AnyOrder ==
    ASSUME NEW D, NEW f \in [D -> Int], NEW S \in SUBSET D, IsFiniteSet(S),
           NEW g, Adds(f, S, g)
    PROVE  \A s \in SUBSET S :
               /\ g[s] \in Int
               /\ \A x \in s : g[s] = f[x] + g[s \ {x}]
<1> DEFINE P == {s \in SUBSET S : /\ g[s] \in Int
                                  /\ \A x \in s : g[s] = f[x] + g[s \ {x}]}
<1>0. \A s \in SUBSET S : IsFiniteSet(s) /\ Cardinality(s) \in Nat
  BY FS_Subset, FS_CardinalityType
<1>1. g[{}] = 0
  BY DEF Adds, Step
<1>2. \A s \in SUBSET S : s # {} =>
          Some(s) \in s /\ g[s] = f[Some(s)] + g[s \ {Some(s)}]
  BY DEF Adds, Step, Some
<1>3. ASSUME NEW s \in SUBSET S,
             \A t \in SUBSET S : Cardinality(t) < Cardinality(s) => t \in P
      PROVE  s \in P
  <2>1. CASE s = {}
    BY <1>1, <2>1
  <2>2. CASE s # {}
    <3> DEFINE c == Some(s)
    <3>1. c \in s /\ g[s] = f[c] + g[s \ {c}]
      BY <1>2, <2>2
    <3> HIDE DEF c
    <3>2. ASSUME NEW x \in s PROVE s \ {x} \in P
      <4>1. Cardinality(s \ {x}) = Cardinality(s) - 1 /\ Cardinality(s) \in Nat
        BY <1>0, FS_RemoveElement
      <4>2. Cardinality(s \ {x}) < Cardinality(s)
        BY <4>1
      <4>3. s \ {x} \in SUBSET S
        OBVIOUS
      <4> QED
        BY <1>3, <4>2, <4>3
    <3>3. ASSUME NEW x \in s, x # c PROVE g[s] = f[x] + g[s \ {x}]
      <4>1. g[s \ {c}] = f[x] + g[(s \ {c}) \ {x}]
        BY <3>1, <3>2, <3>3
      <4>2. g[s \ {x}] = f[c] + g[(s \ {x}) \ {c}]
        BY <3>1, <3>2, <3>3
      <4>3. (s \ {c}) \ {x} = (s \ {x}) \ {c}
        OBVIOUS
      <4>4. (s \ {c}) \ {x} \in P
        <5>1. Cardinality((s \ {c}) \ {x}) <= Cardinality(s \ {c})
          BY <1>0, FS_Subset
        <5>2. Cardinality(s \ {c}) = Cardinality(s) - 1 /\ Cardinality(s) \in Nat
          BY <1>0, <3>1, FS_RemoveElement
        <5>3. (s \ {c}) \ {x} \in SUBSET S
          OBVIOUS
        <5>4. Cardinality((s \ {c}) \ {x}) < Cardinality(s)
          BY <1>0, <5>1, <5>2, <5>3
        <5> QED
          BY <1>3, <5>3, <5>4
      <4>5. g[(s \ {c}) \ {x}] \in Int /\ f[c] \in Int /\ f[x] \in Int
        BY <3>1, <4>4
      <4>6. \A a, b, r \in Int : a + (b + r) = b + (a + r)
        OBVIOUS
      <4>7. g[s] = f[c] + (f[x] + g[(s \ {c}) \ {x}])
        BY <3>1, <4>1
      <4>8. f[x] + g[s \ {x}] = f[x] + (f[c] + g[(s \ {c}) \ {x}])
        BY <4>2, <4>3
      <4> HIDE DEF P
      <4> QED
        BY <4>5, <4>6, <4>7, <4>8
    <3>4. g[s] \in Int
      <4>1. f[c] \in Int /\ g[s \ {c}] \in Int
        BY <3>1, <3>2
      <4> QED
        BY <3>1, <4>1
    <3> QED
      BY <3>1, <3>3, <3>4
  <2> QED
    BY <2>1, <2>2
<1>4. P = SUBSET S
  <2> HIDE DEF P
  <2>1. P \in SUBSET (SUBSET S)
    BY DEF P
  <2> QED
    BY <1>3, <2>1, SubsetDescent
<1> QED
  BY <1>4

Agree(f, h, S) == \A x \in S : f[x] = h[x]

\* Two solutions, for functions that agree on a set, agree on its sum.
LEMMA SameSolution ==
    ASSUME NEW f, NEW h, NEW S, NEW R, NEW U, U \subseteq S, U \subseteq R, IsFiniteSet(U),
           Agree(f, h, U),
           NEW g, Adds(f, S, g), NEW k, Adds(h, R, k)
    PROVE  g[U] = k[U]
<1> DEFINE P == {s \in SUBSET U : g[s] = k[s]}
<1>1. ASSUME NEW s \in SUBSET U,
             \A t \in SUBSET U : Cardinality(t) < Cardinality(s) => t \in P
      PROVE  s \in P
  <2>1. g[s] = Step(f, g, s) /\ k[s] = Step(h, k, s)
    BY DEF Adds
  <2>2. CASE s = {}
    BY <2>1, <2>2 DEF Step
  <2>3. CASE s # {}
    <3>1. Some(s) \in s
      BY <2>3 DEF Some
    <3>2. IsFiniteSet(s) /\ Cardinality(s) \in Nat
      BY FS_Subset, FS_CardinalityType
    <3>3. Cardinality(s \ {Some(s)}) = Cardinality(s) - 1
      BY <3>1, <3>2, FS_RemoveElement
    <3>4. Cardinality(s \ {Some(s)}) < Cardinality(s)
      BY <3>2, <3>3
    <3>5. g[s \ {Some(s)}] = k[s \ {Some(s)}]
      BY <1>1, <3>4
    <3>6. f[Some(s)] = h[Some(s)]
      BY <3>1 DEF Agree
    <3> QED
      BY <2>1, <2>3, <3>5, <3>6 DEF Step
  <2> QED
    BY <2>2, <2>3
<1>2. P = SUBSET U
  <2> HIDE DEF P
  <2>1. P \in SUBSET (SUBSET U)
    BY DEF P
  <2> QED
    BY <1>1, <2>1, SubsetDescent
<1> QED
  BY <1>2

\* So the sum of a set does not depend on the fold it is taken in.
LEMMA OneSolution ==
    ASSUME NEW f, NEW S, NEW R, NEW U, U \subseteq S, U \subseteq R, IsFiniteSet(U),
           NEW g, Adds(f, S, g), NEW k, Adds(f, R, k)
    PROVE  g[U] = k[U]
<1>1. Agree(f, f, U)
  BY DEF Agree
<1> QED
  BY <1>1, SameSolution

-----------------------------------------------------------------------------
(* What the sums are *)

\* Any function that satisfies the recursion gives the sum.
LEMMA TotalIs ==
    ASSUME NEW f, NEW S, IsFiniteSet(S), NEW g, Adds(f, S, g)
    PROVE  Total(f, S) = g[S]
<1>1. PICK k : Adds(f, S, k) /\ Total(f, S) = k[S]
  BY TotalSolves
<1> QED
  BY <1>1, OneSolution

\* The sum of nothing is zero.
LEMMA TotalEmpty == \A f : Total(f, {}) = 0
<1> TAKE f
<1>1. PICK g : Adds(f, {}, g) /\ Total(f, {}) = g[{}]
  BY TotalSolves, FS_EmptySet
<1> QED
  BY <1>1 DEF Adds, Step

\* The sum depends on the values in the set only.
LEMMA TotalSame ==
    ASSUME NEW S, IsFiniteSet(S), NEW f, NEW h, Agree(f, h, S)
    PROVE  Total(f, S) = Total(h, S)
<1>1. PICK g : Adds(f, S, g) /\ Total(f, S) = g[S]
  BY TotalSolves
<1>2. PICK k : Adds(h, S, k) /\ Total(h, S) = k[S]
  BY TotalSolves
<1>3. Adds(f, S, g) /\ Adds(h, S, k)
  BY <1>1, <1>2
<1>4. g[S] = k[S]
  BY <1>3, SameSolution
<1> QED
  BY <1>1, <1>2, <1>4

\* The sum of integers is an integer.
LEMMA TotalType ==
    ASSUME NEW D, NEW f \in [D -> Int], NEW S \in SUBSET D, IsFiniteSet(S)
    PROVE  Total(f, S) \in Int
<1>1. PICK g : Adds(f, S, g) /\ Total(f, S) = g[S]
  BY TotalSolves
<1>2. g[S] \in Int
  BY <1>1, AnyOrder
<1> QED
  BY <1>1, <1>2

\* One more element adds its value.
LEMMA TotalAdd ==
    ASSUME NEW D, NEW f \in [D -> Int], NEW S \in SUBSET D, IsFiniteSet(S), NEW x \in D \ S
    PROVE  Total(f, S \cup {x}) = Total(f, S) + f[x]
<1>1. S \cup {x} \in SUBSET D /\ IsFiniteSet(S \cup {x})
  BY FS_AddElement
<1>2. PICK g : Adds(f, S, g) /\ Total(f, S) = g[S]
  BY TotalSolves
<1>3. PICK h : Adds(f, S \cup {x}, h) /\ Total(f, S \cup {x}) = h[S \cup {x}]
  BY <1>1, TotalSolves
<1>4. h[S \cup {x}] = f[x] + h[(S \cup {x}) \ {x}]
  <2> DEFINE T == S \cup {x}
  <2>1. T \in SUBSET D /\ IsFiniteSet(T) /\ Adds(f, T, h) /\ x \in T
    BY <1>1, <1>3
  <2> HIDE DEF T
  <2>2. \A s \in SUBSET T : h[s] \in Int /\ \A y \in s : h[s] = f[y] + h[s \ {y}]
    BY <2>1, AnyOrder
  <2>3. h[T] = f[x] + h[T \ {x}]
    BY <2>1, <2>2
  <2> QED
    BY <2>3 DEF T
<1>5. (S \cup {x}) \ {x} = S
  OBVIOUS
<1>7. h[S] = g[S]
  <2> DEFINE T == S \cup {x}
  <2>1. Adds(f, S, g) /\ Adds(f, T, h) /\ S \subseteq T
    BY <1>2, <1>3
  <2> HIDE DEF T
  <2> QED
    BY <2>1, OneSolution
<1>8. g[S] \in Int /\ f[x] \in Int
  BY <1>2, AnyOrder
<1>9. Total(f, S \cup {x}) = f[x] + Total(f, S)
  BY <1>2, <1>3, <1>4, <1>5, <1>7
<1>10. \A a, b \in Int : a + b = b + a
  OBVIOUS
<1> QED
  BY <1>2, <1>8, <1>9, <1>10

\* One element less subtracts its value.
LEMMA TotalRemove ==
    ASSUME NEW D, NEW f \in [D -> Int], NEW S \in SUBSET D, IsFiniteSet(S), NEW x \in S
    PROVE  Total(f, S) = Total(f, S \ {x}) + f[x]
<1>1. S \ {x} \in SUBSET D /\ IsFiniteSet(S \ {x}) /\ x \in D \ (S \ {x})
  BY FS_RemoveElement
<1>2. (S \ {x}) \cup {x} = S
  OBVIOUS
<1> QED
  BY <1>1, <1>2, TotalAdd

\* The sum of naturals is one.
LEMMA TotalNatural ==
    ASSUME NEW D, NEW f \in [D -> Nat], NEW S \in SUBSET D, IsFiniteSet(S)
    PROVE  Total(f, S) \in Nat
<1> DEFINE P == {s \in SUBSET S : Total(f, s) \in Nat}
<1>1. {} \in P
  BY TotalEmpty
<1>2. ASSUME NEW s \in P, NEW x \in S \ s PROVE s \cup {x} \in P
  <2>1. f \in [D -> Int] /\ s \in SUBSET D /\ IsFiniteSet(s) /\ x \in D \ s
    BY FS_Subset
  <2>2. Total(f, s \cup {x}) = Total(f, s) + f[x]
    BY <2>1, TotalAdd
  <2> QED
    BY <2>2
<1>3. P = SUBSET S
  <2> HIDE DEF P
  <2>1. P \in SUBSET (SUBSET S)
    BY DEF P
  <2> QED
    BY <1>1, <1>2, <2>1, SubsetInduction
<1> QED
  BY <1>3

\* The sum of zeros is zero.
LEMMA TotalZero ==
    ASSUME NEW D, NEW S \in SUBSET D, IsFiniteSet(S)
    PROVE  Total([x \in D |-> 0], S) = 0
<1> DEFINE f == [x \in D |-> 0]
           P == {s \in SUBSET S : Total(f, s) = 0}
<1>1. {} \in P
  BY TotalEmpty
<1>2. ASSUME NEW s \in P, NEW x \in S \ s PROVE s \cup {x} \in P
  <2>1. f \in [D -> Int] /\ s \in SUBSET D /\ IsFiniteSet(s) /\ x \in D \ s
    BY FS_Subset
  <2>2. f[x] = 0
    BY <2>1
  <2> HIDE DEF f
  <2>3. Total(f, s \cup {x}) = Total(f, s) + f[x]
    BY <2>1, TotalAdd
  <2> QED
    BY <2>2, <2>3
<1>3. P = SUBSET S
  <2> HIDE DEF P
  <2>1. P \in SUBSET (SUBSET S)
    BY DEF P
  <2> QED
    BY <1>1, <1>2, <2>1, SubsetInduction
<1> QED
  BY <1>3

\* Changing one value changes the sum by the difference.
LEMMA TotalChange ==
    ASSUME NEW D, NEW f \in [D -> Int], NEW h \in [D -> Int], NEW S \in SUBSET D, IsFiniteSet(S),
           NEW x \in S, Agree(f, h, S \ {x})
    PROVE  Total(h, S) = Total(f, S) - f[x] + h[x]
<1>1. IsFiniteSet(S \ {x})
  BY FS_RemoveElement
<1>2. Total(f, S \ {x}) = Total(h, S \ {x})
  BY <1>1, TotalSame
<1>3. Total(f, S \ {x}) \in Int
  BY <1>1, TotalType
<1>4. Total(f, S) = Total(f, S \ {x}) + f[x] /\ Total(h, S) = Total(h, S \ {x}) + h[x]
  BY TotalRemove
<1>5. f[x] \in Int /\ h[x] \in Int
  OBVIOUS
<1> QED
  BY <1>2, <1>3, <1>4, <1>5

\* The sum over two disjoint sets is the sum of their sums.
LEMMA TotalUnion ==
    ASSUME NEW D, NEW f \in [D -> Int], NEW S \in SUBSET D, IsFiniteSet(S),
           NEW R \in SUBSET D, IsFiniteSet(R), S \cap R = {}
    PROVE  Total(f, S \cup R) = Total(f, S) + Total(f, R)
<1> DEFINE P == {s \in SUBSET R : Total(f, S \cup s) = Total(f, S) + Total(f, s)}
<1>0. Total(f, S) \in Int
  BY TotalType
<1>1. {} \in P
  <2>1. S \cup {} = S
    OBVIOUS
  <2> QED
    BY <1>0, <2>1, TotalEmpty
<1>2. ASSUME NEW s \in P, NEW x \in R \ s PROVE s \cup {x} \in P
  <2>1. s \in SUBSET D /\ IsFiniteSet(s) /\ x \in D \ s
    BY FS_Subset
  <2>2. S \cup s \in SUBSET D /\ IsFiniteSet(S \cup s) /\ x \in D \ (S \cup s)
    BY <2>1, FS_Union
  <2>3. Total(f, s \cup {x}) = Total(f, s) + f[x]
    BY <2>1, TotalAdd
  <2>4. Total(f, (S \cup s) \cup {x}) = Total(f, S \cup s) + f[x]
    BY <2>2, TotalAdd
  <2>5. (S \cup s) \cup {x} = S \cup (s \cup {x})
    OBVIOUS
  <2>6. Total(f, s) \in Int /\ f[x] \in Int
    BY <2>1, TotalType
  <2>7. Total(f, S \cup s) = Total(f, S) + Total(f, s)
    OBVIOUS
  <2>8. \A a, b, c \in Int : (a + b) + c = a + (b + c)
    OBVIOUS
  <2>9. Total(f, S \cup (s \cup {x})) = (Total(f, S) + Total(f, s)) + f[x]
    BY <2>4, <2>5, <2>7
  <2>10. Total(f, S \cup (s \cup {x})) = Total(f, S) + Total(f, s \cup {x})
    BY <1>0, <2>3, <2>6, <2>8, <2>9
  <2> QED
    BY <2>10
<1>3. P = SUBSET R
  <2> HIDE DEF P
  <2>1. P \in SUBSET (SUBSET R)
    BY DEF P
  <2> QED
    BY <1>1, <1>2, <2>1, SubsetInduction
<1> QED
  BY <1>3

Below(f, h, S) == \A x \in S : f[x] <= h[x]

\* Greater values have no smaller sum.
LEMMA TotalGrows ==
    ASSUME NEW D, NEW f \in [D -> Int], NEW h \in [D -> Int], NEW S \in SUBSET D, IsFiniteSet(S),
           Below(f, h, S)
    PROVE  Total(f, S) <= Total(h, S)
<1> DEFINE P == {s \in SUBSET S : Total(f, s) <= Total(h, s)}
<1>1. {} \in P
  BY TotalEmpty
<1>2. ASSUME NEW s \in P, NEW x \in S \ s PROVE s \cup {x} \in P
  <2>1. s \in SUBSET D /\ IsFiniteSet(s) /\ x \in D \ s
    BY FS_Subset
  <2>2. Total(f, s \cup {x}) = Total(f, s) + f[x] /\ Total(h, s \cup {x}) = Total(h, s) + h[x]
    BY <2>1, TotalAdd
  <2>3. Total(f, s) \in Int /\ Total(h, s) \in Int
    BY <2>1, TotalType
  <2>4. f[x] \in Int /\ h[x] \in Int /\ f[x] <= h[x] /\ Total(f, s) <= Total(h, s)
    BY DEF Below
  <2>5. Total(f, s \cup {x}) <= Total(h, s \cup {x})
    BY <2>2, <2>3, <2>4
  <2> QED
    BY <2>5
<1>3. P = SUBSET S
  <2> HIDE DEF P
  <2>1. P \in SUBSET (SUBSET S)
    BY DEF P
  <2> QED
    BY <1>1, <1>2, <2>1, SubsetInduction
<1> QED
  BY <1>3

\* More elements, of natural values, have no smaller sum.
LEMMA TotalOfPart ==
    ASSUME NEW D, NEW f \in [D -> Nat], NEW S \in SUBSET D, IsFiniteSet(S), NEW R \in SUBSET S
    PROVE  Total(f, R) <= Total(f, S)
<1>1. /\ f \in [D -> Int] /\ R \in SUBSET D /\ S \ R \in SUBSET D
      /\ IsFiniteSet(R) /\ IsFiniteSet(S \ R) /\ R \cap (S \ R) = {}
  BY FS_Subset
<1>2. R \cup (S \ R) = S
  OBVIOUS
<1>3. Total(f, S) = Total(f, R) + Total(f, S \ R)
  BY <1>1, <1>2, TotalUnion
<1>4. Total(f, R) \in Nat /\ Total(f, S \ R) \in Nat
  BY <1>1, TotalNatural
<1> QED
  BY <1>3, <1>4

\* What is no greater but for one value, and there by d, has a sum no greater
\* but for d.
LEMMA TotalRises ==
    ASSUME NEW D, NEW f \in [D -> Int], NEW h \in [D -> Int], NEW S \in SUBSET D, IsFiniteSet(S),
           NEW x \in S, NEW d \in Int
    PROVE  /\ Below(h, f, S \ {x}) /\ h[x] <= f[x] + d => Total(h, S) <= Total(f, S) + d
           /\ Below(f, h, S \ {x}) /\ f[x] + d <= h[x] => Total(f, S) + d <= Total(h, S)
<1> DEFINE k == [y \in D |-> IF y = x THEN f[x] + d ELSE f[y]]
<1>1. k \in [D -> Int] /\ k[x] = f[x] + d /\ Agree(f, k, S \ {x}) /\ x \in D
  BY DEF Agree
<1>2. \A y \in S \ {x} : k[y] = f[y]
  OBVIOUS
<1> HIDE DEF k
<1>3. Total(k, S) = Total(f, S) - f[x] + k[x]
  BY <1>1, TotalChange
<1>4. Total(f, S) \in Int /\ Total(k, S) \in Int /\ Total(h, S) \in Int /\ f[x] \in Int
  BY <1>1, TotalType
<1>5. Total(k, S) = Total(f, S) + d
  BY <1>1, <1>3, <1>4
<1>6. ASSUME Below(h, f, S \ {x}), h[x] <= f[x] + d PROVE Total(h, S) <= Total(f, S) + d
  <2>1. Below(h, k, S)
    BY <1>1, <1>2, <1>6 DEF Below
  <2> QED
    BY <1>1, <1>5, <2>1, TotalGrows
<1>7. ASSUME Below(f, h, S \ {x}), f[x] + d <= h[x] PROVE Total(f, S) + d <= Total(h, S)
  <2>1. Below(k, h, S)
    BY <1>1, <1>2, <1>7 DEF Below
  <2> QED
    BY <1>1, <1>5, <2>1, TotalGrows
<1> QED
  BY <1>6, <1>7
=============================================================================
