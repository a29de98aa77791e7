---------------------------- MODULE ScoresProofs ----------------------------
(***************************************************************************)
(* Theorems about Scores, for every list of questions.  First what the     *)
(* operators of the scripts return: recursive functions, the edit          *)
(* distances, the string and regular-expression operations, the \boxed     *)
(* extractors, the graders.  Then the inductive invariant, that a recorded *)
(* score is one the script gives what the response says, and its           *)
(* consequences.  Last the bound on the scores of connections, by counting *)
(* the words of the truth in a response and in what is taken out of it.    *)
(***************************************************************************)
EXTENDS Scores, SetSums, SequenceTheorems

-----------------------------------------------------------------------------
(* Recursion over numbers, least and greatest elements                     *)

\* What holds of 0 and of the next number up to n, holds up to n.
LEMMA UpTo ==
    ASSUME NEW n \in Nat, NEW T, 0 \in T, \A i \in 0 .. n - 1 : i \in T => i + 1 \in T
    PROVE  0 .. n \subseteq T
<1> DEFINE S == {i \in Nat : i <= n => i \in T}
<1>1. 0 \in S
  OBVIOUS
<1>2. \A i \in S : i + 1 \in S
  OBVIOUS
<1>3. S \in SUBSET Nat
  OBVIOUS
<1>4. S = Nat
  <2> HIDE DEF S
  <2> QED
    BY <1>1, <1>2, <1>3, NaturalSet
<1> QED
  BY <1>4

\* What holds of n and of the number before, holds of all numbers from 1 on.
LEMMA DownFrom ==
    ASSUME NEW n \in Nat, NEW T, n \in T, \A i \in 1 .. n - 1 : i + 1 \in T => i \in T
    PROVE  1 .. n \subseteq T
<1> DEFINE S == {k \in Nat : k < n => n - k \in T}
<1>1. 0 \in S
  OBVIOUS
<1>2. ASSUME NEW k \in S PROVE k + 1 \in S
  <2> SUFFICES ASSUME k + 1 < n PROVE n - (k + 1) \in T
    OBVIOUS
  <2>1. n - (k + 1) \in 1 .. n - 1 /\ n - (k + 1) + 1 = n - k
    OBVIOUS
  <2>2. n - k \in T
    OBVIOUS
  <2> QED
    BY <2>1, <2>2
<1>3. S \in SUBSET Nat
  OBVIOUS
<1>4. S = Nat
  <2> HIDE DEF S
  <2> QED
    BY <1>1, <1>2, <1>3, NaturalSet
<1>5. ASSUME NEW i \in 1 .. n PROVE i \in T
  <2>1. n - i \in Nat /\ n - i < n /\ n - (n - i) = i
    OBVIOUS
  <2>2. n - i \in S
    BY <1>4, <2>1
  <2> QED
    BY <2>1, <2>2
<1> QED
  BY <1>5

\* The right-hand side h[x] of a recursive definition uses only the values at
\* places of a lower rank.
Grounded(h, D, S, rank, N) ==
    /\ S # {} /\ N \in Nat /\ rank \in [D -> 0 .. N] /\ h \in [D -> [[D -> S] -> S]]
    /\ \A x \in D : \A f, g \in [D -> S] :
          (\A y \in D : rank[y] < rank[x] => f[y] = g[y]) => h[x][f] = h[x][g]

\* Such a definition has a solution.
LEMMA RankedRecursion ==
    ASSUME NEW D, NEW S, NEW N, NEW rank, NEW h, Grounded(h, D, S, rank, N)
    PROVE  \E f \in [D -> S] : \A x \in D : f[x] = h[x][f]
<1>0. /\ S # {} /\ N \in Nat /\ rank \in [D -> 0 .. N] /\ h \in [D -> [[D -> S] -> S]]
      /\ \A x \in D : \A f, g \in [D -> S] :
            (\A y \in D : rank[y] < rank[x] => f[y] = g[y]) => h[x][f] = h[x][g]
  BY DEF Grounded
<1> DEFINE upTo(n) == \E f \in [D -> S] : \A x \in D : rank[x] < n => f[x] = h[x][f]
           T == {n \in 0 .. N + 1 : upTo(n)}
<1>1. upTo(0)
  <2> PICK a \in S : TRUE
    BY <1>0
  <2>1. [x \in D |-> a] \in [D -> S]
    OBVIOUS
  <2>2. \A x \in D : ~ (rank[x] < 0)
    BY <1>0
  <2> QED
    BY <2>1, <2>2
<1>2. ASSUME NEW n \in 0 .. N, upTo(n) PROVE upTo(n + 1)
  <2>1. PICK f \in [D -> S] : \A x \in D : rank[x] < n => f[x] = h[x][f]
    BY <1>2
  <2> DEFINE g == [x \in D |-> h[x][f]]
  <2>2. g \in [D -> S] /\ \A x \in D : g[x] = h[x][f]
    BY <1>0
  <2>3. \A x \in D : rank[x] < n => g[x] = f[x]
    BY <2>1
  <2> HIDE DEF g
  <2>4. ASSUME NEW x \in D, rank[x] < n + 1 PROVE g[x] = h[x][g]
    <3>1. \A y \in D : rank[y] < rank[x] => f[y] = g[y]
      BY <1>0, <2>3, <2>4
    <3>2. h[x][f] = h[x][g]
      BY <1>0, <2>2, <3>1
    <3> QED
      BY <2>2, <3>2
  <2> QED
    BY <2>2, <2>4
<1> HIDE DEF upTo
<1>3. 0 .. N + 1 \subseteq T
  <2>1. 0 \in T
    BY <1>0, <1>1
  <2>2. \A i \in 0 .. (N + 1) - 1 : i \in T => i + 1 \in T
    <3> SUFFICES ASSUME NEW i \in 0 .. (N + 1) - 1, i \in T PROVE i + 1 \in T
      OBVIOUS
    <3>1. i \in 0 .. N /\ upTo(i)
      BY <1>0
    <3> QED
      BY <1>0, <1>2, <3>1
  <2>3. N + 1 \in Nat
    BY <1>0
  <2> HIDE DEF T
  <2> QED
    BY <2>1, <2>2, <2>3, UpTo
<1>4. upTo(N + 1)
  <2>1. N + 1 \in 0 .. N + 1
    BY <1>0
  <2> QED
    BY <1>3, <2>1
<1>5. \A x \in D : rank[x] < N + 1
  BY <1>0
<1> QED
  BY <1>4, <1>5 DEF upTo

\* The recursion of a loop: a first value, and each from the one before.
Loop(h, a, S, n) == n \in Nat /\ a \in S /\ h \in [1 .. n -> [S -> S]]

LEMMA LoopRecursion ==
    ASSUME NEW n, NEW S, NEW a, NEW h, Loop(h, a, S, n)
    PROVE  \E f \in [0 .. n -> S] : f[0] = a /\ \A i \in 1 .. n : f[i] = h[i][f[i - 1]]
<1> USE DEF Loop
<1> DEFINE D == 0 .. n
           rank == [i \in D |-> i]
           k == [i \in D |-> [f \in [D -> S] |-> IF i = 0 THEN a ELSE h[i][f[i - 1]]]]
<1>1. \A i \in D : \A f \in [D -> S] :
         /\ k[i][f] = IF i = 0 THEN a ELSE h[i][f[i - 1]]
         /\ k[i][f] \in S
  <2> TAKE i \in D
  <2> TAKE f \in [D -> S]
  <2>1. CASE i = 0
    BY <2>1
  <2>2. CASE i # 0
    <3>1. i \in 1 .. n /\ i - 1 \in D
      BY <2>2
    <3> QED
      BY <2>2, <3>1
  <2> QED
    BY <2>1, <2>2
<1>2. k \in [D -> [[D -> S] -> S]]
  BY <1>1
<1>3. rank \in [D -> 0 .. n] /\ \A i \in D : rank[i] = i
  OBVIOUS
<1> HIDE DEF k, rank
<1>4. ASSUME NEW i \in D, NEW f \in [D -> S], NEW g \in [D -> S],
             \A y \in D : rank[y] < rank[i] => f[y] = g[y]
      PROVE  k[i][f] = k[i][g]
  <2>1. CASE i = 0
    BY <1>1, <2>1
  <2>2. CASE i # 0
    <3>1. i - 1 \in D /\ i - 1 < i
      BY <2>2
    <3>2. f[i - 1] = g[i - 1]
      BY <1>3, <1>4, <3>1
    <3> QED
      BY <1>1, <2>2, <3>2
  <2> QED
    BY <2>1, <2>2
<1>5. PICK f \in [D -> S] : \A i \in D : f[i] = k[i][f]
  <2> HIDE DEF D
  <2>1. Grounded(k, D, S, rank, n)
    BY <1>2, <1>3, <1>4 DEF Grounded
  <2> QED
    BY <2>1, RankedRecursion
<1>6. f[0] = a
  <2>1. 0 \in D
    OBVIOUS
  <2> QED
    BY <1>1, <1>5, <2>1
<1>7. ASSUME NEW i \in 1 .. n PROVE f[i] = h[i][f[i - 1]]
  <2>1. i \in D /\ i # 0
    OBVIOUS
  <2> QED
    BY <1>1, <1>5, <2>1
<1> QED
  BY <1>6, <1>7

\* The least and the greatest of a finite set of integers.
LEMMA LeastOf ==
    ASSUME NEW S, S # {}, S \subseteq Nat
    PROVE  Min(S) \in S /\ \A x \in S : Min(S) <= x
<1>1. \E x \in S : \A y \in S : x <= y
  BY LeastNatural
<1> QED
  BY <1>1 DEF Min

LEMMA GreatestOf ==
    ASSUME NEW S, S # {}, NEW n \in Nat, S \subseteq 0 .. n
    PROVE  Max(S) \in S /\ \A x \in S : x <= Max(S)
<1> DEFINE T == {n - x : x \in S}
<1>1. T \in SUBSET Nat /\ T # {}
  <2>1. \A x \in S : n - x \in Nat
    OBVIOUS
  <2> QED
    BY <2>1
<1>2. PICK y \in T : \A z \in T : y <= z
  BY <1>1, LeastNatural
<1>3. PICK x \in S : y = n - x
  OBVIOUS
<1>4. \A z \in S : x >= z
  <2> TAKE z \in S
  <2>1. n - z \in T /\ n - x <= n - z
    BY <1>2, <1>3
  <2>2. x \in Int /\ z \in Int
    OBVIOUS
  <2> QED
    BY <2>1, <2>2
<1>5. \E m \in S : \A z \in S : m >= z
  BY <1>4
<1>6. Max(S) \in S /\ \A z \in S : Max(S) >= z
  BY <1>5 DEF Max
<1> QED
  BY <1>6

LEMMA LeastOfThree ==
    ASSUME NEW a \in Nat, NEW b \in Nat, NEW c \in Nat
    PROVE  LET m == Min({a, b, c})
           IN  m \in Nat /\ m \in {a, b, c} /\ m <= a /\ m <= b /\ m <= c
  BY LeastOf

LEMMA GreatestOfTwo ==
    ASSUME NEW a \in Nat, NEW b \in Nat
    PROVE  LET m == Max({a, b}) IN m \in Nat /\ m \in {a, b} /\ a <= m /\ b <= m
<1>1. \E x \in {a, b} : \A y \in {a, b} : x >= y
  OBVIOUS
<1>2. Max({a, b}) \in {a, b} /\ \A y \in {a, b} : Max({a, b}) >= y
  BY <1>1 DEF Max
<1> QED
  BY <1>2

-----------------------------------------------------------------------------
(* The edit distances                                                      *)

Cells(s, t) == (0 .. Len(s)) \X (0 .. Len(t))

\* What the distance of the first i elements of s and the first j of t is, from
\* the distances d of shorter ones.
Entry(d, s, t, i, j) ==
    IF i = 0 THEN j
    ELSE IF j = 0 THEN i
    ELSE IF s[i] = t[j] THEN d[<<i - 1, j - 1>>]
    ELSE 1 + Min({d[<<i - 1, j>>], d[<<i, j - 1>>], d[<<i - 1, j - 1>>]})

IsTable(d, s, t) ==
    /\ d \in [Cells(s, t) -> Nat]
    /\ \A i \in 0 .. Len(s), j \in 0 .. Len(t) : d[<<i, j>>] = Entry(d, s, t, i, j)

\* An entry is a natural number if those above, before and diagonal to it are.
LEMMA EntryType ==
    ASSUME NEW d, NEW s, NEW t, NEW i \in Nat, NEW j \in Nat,
           i > 0 /\ j > 0 => /\ d[<<i - 1, j - 1>>] \in Nat
                             /\ d[<<i - 1, j>>] \in Nat /\ d[<<i, j - 1>>] \in Nat
    PROVE  Entry(d, s, t, i, j) \in Nat
<1>1. CASE i = 0 \/ j = 0
  BY <1>1 DEF Entry
<1>2. CASE i > 0 /\ j > 0
  <2> DEFINE a == d[<<i - 1, j>>]
             b == d[<<i, j - 1>>]
             c == d[<<i - 1, j - 1>>]
  <2>1. a \in Nat /\ b \in Nat /\ c \in Nat
    BY <1>2
  <2>2. Entry(d, s, t, i, j) = IF s[i] = t[j] THEN c ELSE 1 + Min({a, b, c})
    BY <1>2 DEF Entry
  <2> HIDE DEF a, b, c
  <2>3. Min({a, b, c}) \in Nat
    BY <2>1, LeastOfThree
  <2> QED
    BY <2>1, <2>2, <2>3
<1> QED
  BY <1>1, <1>2

\* score-language.py fills such a table and returns its last entry.
LEMMA TableFilled ==
    ASSUME NEW s, NEW t, Len(s) \in Nat, Len(t) \in Nat
    PROVE  \E d : IsTable(d, s, t) /\ TableDistance(s, t) = d[<<Len(s), Len(t)>>]
<1> DEFINE D == Cells(s, t)
           m == Len(s)
           n == Len(t)
           N == m + n
           rank == [c \in D |-> c[1] + c[2]]
           h == [c \in D |-> [f \in [D -> Nat] |-> Entry(f, s, t, c[1], c[2])]]
           dp == CHOOSE f : f = [c \in D |-> Entry(f, s, t, c[1], c[2])]
           before(i, j) == i \in 1 .. m /\ j \in 1 .. n
<1>1. m \in Nat /\ n \in Nat /\ N \in Nat
  OBVIOUS
<1>2. \A i \in 0 .. m, j \in 0 .. n : <<i, j>> \in D
  BY DEF Cells
<1>3. \A c \in D : \E i \in 0 .. m, j \in 0 .. n : c = <<i, j>>
  BY DEF Cells
<1> HIDE DEF D, m, n, N
<1>4. \A i \in 0 .. m, j \in 0 .. n : i # 0 /\ j # 0 =>
         <<i - 1, j - 1>> \in D /\ <<i - 1, j>> \in D /\ <<i, j - 1>> \in D
  BY <1>1, <1>2
<1>5. /\ DOMAIN rank = D /\ \A i \in 0 .. m, j \in 0 .. n : rank[<<i, j>>] = i + j
      /\ rank \in [D -> 0 .. N]
  <2>1. \A i \in 0 .. m, j \in 0 .. n : i + j \in 0 .. N
    BY <1>1 DEF N
  <2>2. ASSUME NEW c \in D PROVE c[1] + c[2] \in 0 .. N
    <3>1. PICK i \in 0 .. m, j \in 0 .. n : c = <<i, j>>
      BY <1>3
    <3> QED
      BY <2>1, <3>1
  <2>3. \A i \in 0 .. m, j \in 0 .. n : rank[<<i, j>>] = i + j
    BY <1>2
  <2> QED
    BY <2>2, <2>3
<1>6. ASSUME NEW f \in [D -> Nat], NEW i \in 0 .. m, NEW j \in 0 .. n
      PROVE  Entry(f, s, t, i, j) \in Nat /\ h[<<i, j>>][f] = Entry(f, s, t, i, j)
  <2>1. i > 0 /\ j > 0 => /\ f[<<i - 1, j - 1>>] \in Nat
                          /\ f[<<i - 1, j>>] \in Nat /\ f[<<i, j - 1>>] \in Nat
    BY <1>1, <1>4
  <2>2. Entry(f, s, t, i, j) \in Nat
    <3>1. i \in Nat /\ j \in Nat
      BY <1>1
    <3> QED
      BY <2>1, <3>1, EntryType
  <2>3. h[<<i, j>>][f] = Entry(f, s, t, i, j)
    BY <1>2
  <2> QED
    BY <2>2, <2>3
<1>7. h \in [D -> [[D -> Nat] -> Nat]]
  <2>1. \A c \in D : \A f \in [D -> Nat] : Entry(f, s, t, c[1], c[2]) \in Nat
    <3> SUFFICES ASSUME NEW i \in 0 .. m, NEW j \in 0 .. n, NEW f \in [D -> Nat]
                 PROVE  Entry(f, s, t, <<i, j>>[1], <<i, j>>[2]) \in Nat
      BY <1>3
    <3> QED
      BY <1>6
  <2> QED
    BY <2>1
<1> HIDE DEF h, rank
<1>8. ASSUME NEW i \in 0 .. m, NEW j \in 0 .. n, NEW f \in [D -> Nat], NEW g \in [D -> Nat],
             \A y \in D : rank[y] < rank[<<i, j>>] => f[y] = g[y]
      PROVE  h[<<i, j>>][f] = h[<<i, j>>][g]
  <2>1. CASE i = 0 \/ j = 0
    <3>1. Entry(f, s, t, i, j) = Entry(g, s, t, i, j)
      BY <2>1 DEF Entry
    <3> QED
      BY <1>6, <3>1
  <2>2. CASE i # 0 /\ j # 0
    <3>1. i - 1 \in 0 .. m /\ j - 1 \in 0 .. n
      BY <1>1, <2>2
    <3>2. /\ rank[<<i - 1, j - 1>>] < rank[<<i, j>>] /\ rank[<<i - 1, j>>] < rank[<<i, j>>]
          /\ rank[<<i, j - 1>>] < rank[<<i, j>>]
      BY <1>1, <1>5, <3>1
    <3>3. /\ f[<<i - 1, j - 1>>] = g[<<i - 1, j - 1>>] /\ f[<<i - 1, j>>] = g[<<i - 1, j>>]
          /\ f[<<i, j - 1>>] = g[<<i, j - 1>>]
      BY <1>4, <1>8, <2>2, <3>2
    <3>4. Entry(f, s, t, i, j) = Entry(g, s, t, i, j)
      BY <3>3 DEF Entry
    <3> QED
      BY <1>6, <3>4
  <2> QED
    BY <2>1, <2>2
<1>9. PICK f \in [D -> Nat] : \A c \in D : f[c] = h[c][f]
  <2>1. \A c \in D : \A f, g \in [D -> Nat] :
           (\A y \in D : rank[y] < rank[c] => f[y] = g[y]) => h[c][f] = h[c][g]
    <3> SUFFICES ASSUME NEW c \in D, NEW f \in [D -> Nat], NEW g \in [D -> Nat],
                        \A y \in D : rank[y] < rank[c] => f[y] = g[y]
                 PROVE  h[c][f] = h[c][g]
      OBVIOUS
    <3>1. PICK i \in 0 .. m, j \in 0 .. n : c = <<i, j>>
      BY <1>3
    <3>2. \A y \in D : rank[y] < rank[<<i, j>>] => f[y] = g[y]
      BY <3>1
    <3>3. h[<<i, j>>][f] = h[<<i, j>>][g]
      BY <1>8, <3>2
    <3> QED
      BY <3>1, <3>3
  <2>2. Grounded(h, D, Nat, rank, N)
    <3>1. Nat # {}
      OBVIOUS
    <3> QED
      BY <1>1, <1>5, <1>7, <2>1, <3>1 DEF Grounded
  <2> QED
    BY <2>2, RankedRecursion
<1>10. f = [c \in D |-> Entry(f, s, t, c[1], c[2])]
  <2>1. \A c \in D : f[c] = Entry(f, s, t, c[1], c[2])
    <3> SUFFICES ASSUME NEW i \in 0 .. m, NEW j \in 0 .. n
                 PROVE  f[<<i, j>>] = Entry(f, s, t, <<i, j>>[1], <<i, j>>[2])
      BY <1>3
    <3> QED
      BY <1>2, <1>6, <1>9
  <2> QED
    BY <2>1
<1>11. dp = [c \in D |-> Entry(dp, s, t, c[1], c[2])]
  BY <1>10
<1>12. TableDistance(s, t) = dp[<<m, n>>]
  BY DEF TableDistance, Entry, Cells, D, m, n
<1> HIDE DEF dp
<1>13. \A i \in 0 .. m, j \in 0 .. n : dp[<<i, j>>] = Entry(dp, s, t, i, j)
  BY <1>2, <1>11
<1>14. \A i \in 0 .. m, j \in 0 .. n : dp[<<i, j>>] \in Nat
  <2> DEFINE T == {k \in 0 .. N : \A i \in 0 .. m, j \in 0 .. n : i + j <= k => dp[<<i, j>>] \in Nat}
  <2>1. 0 \in T
    <3>1. \A i \in 0 .. m, j \in 0 .. n : i + j <= 0 => i = 0
      BY <1>1
    <3>2. \A j \in 0 .. n : dp[<<0, j>>] \in Nat
      <4> SUFFICES ASSUME NEW j \in 0 .. n PROVE dp[<<0, j>>] \in Nat
        OBVIOUS
      <4>1. dp[<<0, j>>] = Entry(dp, s, t, 0, j)
        BY <1>1, <1>13
      <4>2. Entry(dp, s, t, 0, j) = j
        BY DEF Entry
      <4> QED
        BY <1>1, <4>1, <4>2
    <3> QED
      BY <1>1, <3>1, <3>2
  <2>2. ASSUME NEW k \in 0 .. N - 1, k \in T PROVE k + 1 \in T
    <3>1. ASSUME NEW i \in 0 .. m, NEW j \in 0 .. n, i + j <= k + 1 PROVE dp[<<i, j>>] \in Nat
      <4>1. ASSUME i > 0, j > 0
            PROVE  /\ dp[<<i - 1, j - 1>>] \in Nat
                   /\ dp[<<i - 1, j>>] \in Nat /\ dp[<<i, j - 1>>] \in Nat
        <5>1. i - 1 \in 0 .. m /\ j - 1 \in 0 .. n
          BY <1>1, <4>1
        <5>2. k \in Int /\ (i - 1) + (j - 1) <= k /\ (i - 1) + j <= k /\ i + (j - 1) <= k
          BY <1>1, <3>1, <5>1
        <5> QED
          BY <2>2, <5>1, <5>2
      <4>2. dp[<<i, j>>] = Entry(dp, s, t, i, j)
        BY <1>13
      <4>3. i \in Nat /\ j \in Nat
        BY <1>1
      <4>4. Entry(dp, s, t, i, j) \in Nat
        BY <4>1, <4>3, EntryType
      <4> QED
        BY <4>2, <4>4
    <3>2. k + 1 \in 0 .. N
      BY <1>1
    <3> QED
      BY <3>1, <3>2
  <2>3. 0 .. N \subseteq T
    <3> HIDE DEF T
    <3> QED
      BY <1>1, <2>1, <2>2, UpTo
  <2>4. N \in T
    BY SMTT(30), <1>1, <2>3
  <2>5. \A i \in 0 .. m, j \in 0 .. n : i + j <= N
    BY <1>1 DEF N
  <2> QED
    BY <2>4, <2>5
<1>15. dp \in [D -> Nat]
  <2>1. \A c \in D : dp[c] \in Nat
    BY <1>3, <1>14
  <2> QED
    BY <1>11, <2>1
<1> QED
  BY <1>12, <1>13, <1>15 DEF IsTable, D, m, n


\* Read the other way round, a table of s and t is one of t and s.
LEMMA TableTurned ==
    ASSUME NEW d, NEW s, NEW t, Len(s) \in Nat, Len(t) \in Nat, IsTable(d, s, t)
    PROVE  \E e : /\ IsTable(e, t, s)
                  /\ \A i \in 0 .. Len(t), j \in 0 .. Len(s) : e[<<i, j>>] = d[<<j, i>>]
<1> DEFINE D == Cells(t, s)
           e == [c \in D |-> d[<<c[2], c[1]>>]]
           m == Len(s)
           n == Len(t)
<1>1. \A i \in 0 .. n, j \in 0 .. m : <<i, j>> \in D
  BY DEF Cells
<1>2. \A c \in D : \E i \in 0 .. n, j \in 0 .. m : c = <<i, j>>
  BY DEF Cells
<1>3. \A i \in 0 .. n, j \in 0 .. m : d[<<j, i>>] \in Nat /\ d[<<j, i>>] = Entry(d, s, t, j, i)
  BY DEF IsTable, Cells
<1>4. m \in Nat /\ n \in Nat
  OBVIOUS
<1>5. DOMAIN e = D
  OBVIOUS
<1> HIDE DEF D, m, n
<1>6. \A i \in 0 .. n, j \in 0 .. m : e[<<i, j>>] = d[<<j, i>>]
  BY <1>1
<1>7. e \in [D -> Nat]
  <2>1. \A c \in D : e[c] \in Nat
    BY <1>2, <1>3, <1>6
  <2> QED
    BY <1>5, <2>1
<1> HIDE DEF e
<1>8. ASSUME NEW i \in 0 .. n, NEW j \in 0 .. m PROVE e[<<i, j>>] = Entry(e, t, s, i, j)
  <2>1. e[<<i, j>>] = Entry(d, s, t, j, i)
    BY <1>3, <1>6
  <2>2. CASE i = 0 \/ j = 0
    BY <2>1, <2>2 DEF Entry
  <2>3. CASE i # 0 /\ j # 0
    <3>1. i - 1 \in 0 .. n /\ j - 1 \in 0 .. m
      BY <1>4, <2>3
    <3> DEFINE a == d[<<j - 1, i>>]
               b == d[<<j, i - 1>>]
               c == d[<<j - 1, i - 1>>]
    <3>2. e[<<i - 1, j - 1>>] = c /\ e[<<i - 1, j>>] = b /\ e[<<i, j - 1>>] = a
      BY <1>6, <3>1
    <3>3. Entry(d, s, t, j, i) = IF s[j] = t[i] THEN c ELSE 1 + Min({a, b, c})
      BY <2>3 DEF Entry
    <3>4. Entry(e, t, s, i, j) = IF t[i] = s[j] THEN c ELSE 1 + Min({b, a, c})
      BY <2>3, <3>2 DEF Entry
    <3> HIDE DEF a, b, c
    <3>5. {a, b, c} = {b, a, c}
      OBVIOUS
    <3> QED
      BY <2>1, <3>3, <3>4, <3>5
  <2> QED
    BY <2>2, <2>3
<1> QED
  BY <1>6, <1>7, <1>8 DEF IsTable, D, m, n

\* The row of score-math.py after j cells of line i: the new distances up to j,
\* the old ones behind.
PartRow(d, i, j, n) ==
    [dp |-> [k \in 0 .. n |-> IF k <= j THEN d[<<i, k>>] ELSE d[<<i - 1, k>>]],
     diagonal |-> d[<<i - 1, j>>]]

Line(d, i, n) == [k \in 0 .. n |-> d[<<i, k>>]]

\* One step of the row fills in the next distance.
LEMMA NextCellIs ==
    ASSUME NEW d, NEW s, NEW t, Len(s) \in Nat, Len(t) \in Nat, IsTable(d, s, t),
           NEW i \in 1 .. Len(s), NEW j \in 1 .. Len(t),
           NEW part, part = PartRow(d, i, j - 1, Len(t))
    PROVE  NextCell(part.dp, part.diagonal, j, s[i] = t[j]) = PartRow(d, i, j, Len(t))
<1> DEFINE n == Len(t)
           row == part.dp
           a == d[<<i - 1, j>>]
           b == d[<<i, j - 1>>]
           c == d[<<i - 1, j - 1>>]
           value == IF s[i] = t[j] THEN c ELSE 1 + Min({c, a, b})
<1>1. /\ i \in 0 .. Len(s) /\ j \in 0 .. n /\ j - 1 \in 0 .. n /\ ~ (j <= j - 1)
      /\ j - 1 <= j - 1 /\ i # 0 /\ j # 0 /\ j \in Int
  OBVIOUS
<1>2. /\ row = [k \in 0 .. n |-> IF k <= j - 1 THEN d[<<i, k>>] ELSE d[<<i - 1, k>>]]
      /\ part.diagonal = c
  BY DEF PartRow
<1>3. row[j] = a /\ row[j - 1] = b
  BY <1>1, <1>2
<1>4. d[<<i, j>>] = value
  <2>1. d[<<i, j>>] = Entry(d, s, t, i, j)
    BY <1>1 DEF IsTable
  <2>2. {c, a, b} = {a, b, c}
    OBVIOUS
  <2> QED
    BY <1>1, <2>1, <2>2 DEF Entry
<1>5. NextCell(row, part.diagonal, j, s[i] = t[j]) =
         [dp |-> [row EXCEPT ![j] = value], diagonal |-> a]
  BY <1>2, <1>3 DEF NextCell
<1> HIDE DEF value
<1>6. [row EXCEPT ![j] = value] = [k \in 0 .. n |-> IF k <= j THEN d[<<i, k>>] ELSE d[<<i - 1, k>>]]
  <2>1. [row EXCEPT ![j] = value] = [k \in 0 .. n |-> IF k = j THEN value ELSE row[k]]
    BY <1>1, <1>2
  <2>2. \A k \in 0 .. n : (IF k = j THEN value ELSE row[k]) =
                          (IF k <= j THEN d[<<i, k>>] ELSE d[<<i - 1, k>>])
    <3> TAKE k \in 0 .. n
    <3>1. k \in Int /\ (k # j => (k <= j <=> k <= j - 1)) /\ (k = j => k <= j)
      BY <1>1
    <3>2. row[k] = IF k <= j - 1 THEN d[<<i, k>>] ELSE d[<<i - 1, k>>]
      BY <1>2
    <3>3. CASE k = j
      BY <1>4, <3>1, <3>3
    <3>4. CASE k # j
      BY <3>1, <3>2, <3>4
    <3> QED
      BY <3>3, <3>4
  <2> QED
    BY <2>1, <2>2
<1> QED
  BY <1>5, <1>6 DEF PartRow

\* A whole line of the table from the line above it.
LEMMA NextRowIs ==
    ASSUME NEW d, NEW s, NEW t, Len(s) \in Nat, Len(t) \in Nat, IsTable(d, s, t),
           NEW i \in 1 .. Len(s), NEW above, above = Line(d, i - 1, Len(t))
    PROVE  NextRow(above, i, s, t) = Line(d, i, Len(t))
<1> DEFINE n == Len(t)
           first == [dp |-> [above EXCEPT ![0] = i], diagonal |-> above[0]]
           cell(f, j) == IF j = 0 THEN first
                         ELSE NextCell(f[j - 1].dp, f[j - 1].diagonal, j, s[i] = t[j])
           g == [j \in 0 .. n |-> PartRow(d, i, j, n)]
           cells == CHOOSE f : f = [j \in 0 .. n |-> cell(f, j)]
<1>1. first = PartRow(d, i, 0, n)
  <2>1. above = [k \in 0 .. n |-> d[<<i - 1, k>>]] /\ n \in Nat
    BY DEF Line
  <2>2. 0 \in 0 .. n /\ i \in 0 .. Len(s)
    BY <2>1
  <2>3. d[<<i, 0>>] = i
    <3>1. d[<<i, 0>>] = Entry(d, s, t, i, 0)
      BY <2>2 DEF IsTable
    <3> QED
      BY <3>1 DEF Entry
  <2>4. [above EXCEPT ![0] = i] = [k \in 0 .. n |-> IF k = 0 THEN i ELSE above[k]]
    BY <2>1, <2>2
  <2>5. \A k \in 0 .. n : (IF k = 0 THEN i ELSE above[k]) =
                          (IF k <= 0 THEN d[<<i, k>>] ELSE d[<<i - 1, k>>])
    <3> TAKE k \in 0 .. n
    <3>1. k <= 0 <=> k = 0
      BY <2>1
    <3> QED
      BY <2>1, <2>3, <3>1
  <2>6. above[0] = d[<<i - 1, 0>>]
    BY <2>1, <2>2
  <2> HIDE DEF n
  <2>7. [above EXCEPT ![0] = i] = [k \in 0 .. n |-> IF k <= 0 THEN d[<<i, k>>] ELSE d[<<i - 1, k>>]]
    BY <2>4, <2>5
  <2> QED
    BY <2>6, <2>7 DEF PartRow
<1>2. ASSUME NEW f, NEW j \in 1 .. n, f[j - 1] = PartRow(d, i, j - 1, n)
      PROVE  cell(f, j) = PartRow(d, i, j, n)
  <2>1. j # 0
    OBVIOUS
  <2>2. cell(f, j) = NextCell(f[j - 1].dp, f[j - 1].diagonal, j, s[i] = t[j])
    BY <2>1
  <2> QED
    BY <1>2, <2>2, NextCellIs
<1>3. n \in Nat
  OBVIOUS
<1>4. NextRow(above, i, s, t) = cells[n].dp
  BY DEF NextRow
<1> HIDE DEF n, first
<1>5. g = [j \in 0 .. n |-> cell(g, j)]
  <2>1. ASSUME NEW j \in 0 .. n PROVE cell(g, j) = PartRow(d, i, j, n)
    <3>1. CASE j = 0
      BY <1>1, <3>1
    <3>2. CASE j # 0
      <4>1. j \in 1 .. n /\ j - 1 \in 0 .. n
        BY <1>3, <3>2
      <4>2. g[j - 1] = PartRow(d, i, j - 1, n)
        BY <4>1
      <4> HIDE DEF g, cell
      <4> QED
        BY <1>2, <4>1, <4>2
    <3> QED
      BY <3>1, <3>2
  <2> HIDE DEF cell
  <2> QED
    BY <2>1
<1>6. cells = [j \in 0 .. n |-> cell(cells, j)]
  <2> HIDE DEF g, cell
  <2>1. \E f : f = [j \in 0 .. n |-> cell(f, j)]
    BY <1>5
  <2> QED
    BY <2>1
<1> HIDE DEF cells, g
<1> DEFINE T == {j \in 0 .. n : cells[j] = PartRow(d, i, j, n)}
<1>7. 0 \in T
  <2>1. 0 \in 0 .. n
    BY <1>3
  <2>2. cells[0] = cell(cells, 0)
    <3> HIDE DEF cell
    <3> QED
      BY <1>6, <2>1
  <2> QED
    BY <1>1, <2>1, <2>2
<1>8. ASSUME NEW j \in 0 .. n - 1, j \in T PROVE j + 1 \in T
  <2>1. j + 1 \in 1 .. n /\ j + 1 \in 0 .. n /\ (j + 1) - 1 = j
    BY <1>3
  <2>2. cells[j + 1] = cell(cells, j + 1)
    <3> HIDE DEF cell
    <3> QED
      BY <1>6, <2>1
  <2>3. cells[(j + 1) - 1] = PartRow(d, i, (j + 1) - 1, n)
    BY <1>8, <2>1
  <2> HIDE DEF cell
  <2>4. cell(cells, j + 1) = PartRow(d, i, j + 1, n)
    BY <1>2, <2>1, <2>3
  <2> QED
    BY <2>1, <2>2, <2>4
<1>9. n \in T
  <2> HIDE DEF T
  <2>1. 0 .. n \subseteq T
    BY <1>3, <1>7, <1>8, UpTo
  <2> QED
    BY <1>3, <2>1
<1>10. cells[n].dp = [k \in 0 .. n |-> IF k <= n THEN d[<<i, k>>] ELSE d[<<i - 1, k>>]]
  <2>1. cells[n] = PartRow(d, i, n, n)
    BY <1>9
  <2> HIDE DEF T
  <2> QED
    BY <2>1 DEF PartRow
<1>11. cells[n].dp = Line(d, i, n)
  BY <1>3, <1>10 DEF Line
<1> QED
  BY <1>4, <1>11 DEF n

\* The one row of score-math.py ends with the last entry of the table.
LEMMA RowIsTable ==
    ASSUME NEW s, NEW t, Len(s) \in Nat, Len(t) \in Nat, NEW d, IsTable(d, s, t)
    PROVE  RowDistance(s, t) = d[<<Len(s), Len(t)>>]
<1> DEFINE m == Len(s)
           n == Len(t)
           row(f, i) == IF i = 0 THEN [j \in 0 .. n |-> j] ELSE NextRow(f[i - 1], i, s, t)
           g == [i \in 0 .. m |-> Line(d, i, n)]
           rows == CHOOSE f : f = [i \in 0 .. m |-> row(f, i)]
<1>0. m \in Nat /\ n \in Nat /\ 0 \in 0 .. m /\ 0 \in 0 .. n /\ m \in 0 .. m /\ n \in 0 .. n
  OBVIOUS
<1>1. \A i \in 0 .. m, j \in 0 .. n : d[<<i, j>>] = Entry(d, s, t, i, j)
  BY DEF IsTable
<1>2. [j \in 0 .. n |-> j] = Line(d, 0, n)
  <2>1. \A j \in 0 .. n : d[<<0, j>>] = j
    BY <1>0, <1>1 DEF Entry
  <2> HIDE DEF n
  <2> QED
    BY <2>1 DEF Line
<1>3. ASSUME NEW f, NEW i \in 1 .. m, f[i - 1] = Line(d, i - 1, n)
      PROVE  row(f, i) = Line(d, i, n)
  <2>1. row(f, i) = NextRow(f[i - 1], i, s, t)
    OBVIOUS
  <2> QED
    BY <1>3, <2>1, NextRowIs
<1>4. RowDistance(s, t) = IF s = <<>> THEN n ELSE IF t = <<>> THEN m ELSE rows[m][n]
  BY DEF RowDistance
<1>5. (s = <<>> => m = 0) /\ (t = <<>> => n = 0)
  OBVIOUS
<1> HIDE DEF m, n
<1>6. g = [i \in 0 .. m |-> row(g, i)]
  <2>1. ASSUME NEW i \in 0 .. m PROVE row(g, i) = Line(d, i, n)
    <3>1. CASE i = 0
      BY <1>2, <3>1
    <3>2. CASE i # 0
      <4>1. i \in 1 .. m /\ i - 1 \in 0 .. m
        BY <1>0, <3>2
      <4>2. g[i - 1] = Line(d, i - 1, n)
        BY <4>1
      <4> HIDE DEF g, row
      <4> QED
        BY <1>3, <4>1, <4>2
    <3> QED
      BY <3>1, <3>2
  <2> HIDE DEF row
  <2> QED
    BY <2>1
<1>7. rows = [i \in 0 .. m |-> row(rows, i)]
  <2> HIDE DEF g, row
  <2>1. \E f : f = [i \in 0 .. m |-> row(f, i)]
    BY <1>6
  <2> QED
    BY <2>1
<1> HIDE DEF rows, g
<1> DEFINE T == {i \in 0 .. m : rows[i] = Line(d, i, n)}
<1>8. 0 \in T
  <2>1. rows[0] = row(rows, 0)
    <3> HIDE DEF row
    <3> QED
      BY <1>0, <1>7
  <2> QED
    BY <1>0, <1>2, <2>1
<1>9. ASSUME NEW i \in 0 .. m - 1, i \in T PROVE i + 1 \in T
  <2>1. i + 1 \in 1 .. m /\ i + 1 \in 0 .. m /\ (i + 1) - 1 = i
    BY <1>0
  <2> HIDE DEF row
  <2>2. rows[i + 1] = row(rows, i + 1)
    BY <1>7, <2>1
  <2>3. rows[(i + 1) - 1] = Line(d, (i + 1) - 1, n)
    BY <1>9, <2>1
  <2>4. row(rows, i + 1) = Line(d, i + 1, n)
    BY <1>3, <2>1, <2>3
  <2> QED
    BY <2>1, <2>2, <2>4
<1>10. rows[m] = Line(d, m, n)
  <2> HIDE DEF T
  <2>1. 0 .. m \subseteq T
    BY <1>0, <1>8, <1>9, UpTo
  <2>2. m \in T
    BY <1>0, <2>1
  <2> QED
    BY <2>2 DEF T
<1>11. rows[m][n] = d[<<m, n>>]
  BY <1>0, <1>10 DEF Line
<1>12. m = 0 => d[<<m, n>>] = n
  BY <1>0, <1>1 DEF Entry
<1>13. n = 0 => d[<<m, n>>] = m
  BY <1>0, <1>1 DEF Entry
<1> QED
  BY <1>4, <1>5, <1>11, <1>12, <1>13 DEF m, n

\* Both scripts compute the same distance.
LEMMA DistancesAgree ==
    ASSUME NEW s, NEW t, Len(s) \in Nat, Len(t) \in Nat
    PROVE  \E e : /\ IsTable(e, s, t)
                  /\ TableDistance(t, s) = e[<<Len(s), Len(t)>>]
                  /\ RowDistance(s, t) = e[<<Len(s), Len(t)>>]
<1>1. PICK d : IsTable(d, t, s) /\ TableDistance(t, s) = d[<<Len(t), Len(s)>>]
  BY TableFilled
<1>2. PICK e : /\ IsTable(e, s, t)
               /\ \A i \in 0 .. Len(s), j \in 0 .. Len(t) : e[<<i, j>>] = d[<<j, i>>]
  BY <1>1, TableTurned
<1>3. Len(s) \in 0 .. Len(s) /\ Len(t) \in 0 .. Len(t)
  OBVIOUS
<1> QED
  BY <1>1, <1>2, <1>3, RowIsTable

\* What an entry of a table says of those around it.
LEMMA EntryIs ==
    ASSUME NEW s, NEW t, Len(s) \in Nat, Len(t) \in Nat, NEW d, IsTable(d, s, t),
           NEW i \in 1 .. Len(s), NEW j \in 1 .. Len(t)
    PROVE  LET x == d[<<i, j>>]
               a == d[<<i - 1, j>>]
               b == d[<<i, j - 1>>]
               c == d[<<i - 1, j - 1>>]
           IN  /\ x \in Nat /\ a \in Nat /\ b \in Nat /\ c \in Nat
               /\ s[i] = t[j] => x = c
               /\ s[i] # t[j] => /\ x <= a + 1 /\ x <= b + 1 /\ x <= c + 1
                                 /\ x = a + 1 \/ x = b + 1 \/ x = c + 1
<1> DEFINE x == d[<<i, j>>]
           a == d[<<i - 1, j>>]
           b == d[<<i, j - 1>>]
           c == d[<<i - 1, j - 1>>]
<1>1. /\ i \in 0 .. Len(s) /\ i - 1 \in 0 .. Len(s) /\ j \in 0 .. Len(t) /\ j - 1 \in 0 .. Len(t)
      /\ i # 0 /\ j # 0
  OBVIOUS
<1>2. \A k \in 0 .. Len(s), l \in 0 .. Len(t) : d[<<k, l>>] \in Nat
  BY DEF IsTable, Cells
<1>3. x \in Nat /\ a \in Nat /\ b \in Nat /\ c \in Nat
  BY <1>1, <1>2
<1>4. x = Entry(d, s, t, i, j)
  BY <1>1 DEF IsTable
<1>5. x = IF s[i] = t[j] THEN c ELSE 1 + Min({a, b, c})
  BY <1>1, <1>4 DEF Entry
<1> HIDE DEF x, a, b, c
<1> DEFINE least == Min({a, b, c})
<1>6. least \in Nat /\ least \in {a, b, c} /\ least <= a /\ least <= b /\ least <= c
  BY <1>3, LeastOfThree
<1> HIDE DEF least
<1>7. x = IF s[i] = t[j] THEN c ELSE 1 + least
  BY <1>5 DEF least
<1>8. s[i] # t[j] => x = 1 + least
  BY <1>7
<1>9. s[i] # t[j] => /\ x <= a + 1 /\ x <= b + 1 /\ x <= c + 1
                     /\ x = a + 1 \/ x = b + 1 \/ x = c + 1
  BY <1>3, <1>6, <1>8
<1> QED
  BY <1>3, <1>7, <1>9 DEF x, a, b, c

LEMMA BorderIs ==
    ASSUME NEW s, NEW t, Len(s) \in Nat, Len(t) \in Nat, NEW d, IsTable(d, s, t)
    PROVE  /\ \A j \in 0 .. Len(t) : d[<<0, j>>] = j
           /\ \A i \in 0 .. Len(s) : d[<<i, 0>>] = i
           /\ \A i \in 0 .. Len(s), j \in 0 .. Len(t) : d[<<i, j>>] \in Nat
<1>1. 0 \in 0 .. Len(s) /\ 0 \in 0 .. Len(t)
  OBVIOUS
<1>2. \A i \in 0 .. Len(s), j \in 0 .. Len(t) : d[<<i, j>>] = Entry(d, s, t, i, j)
  BY DEF IsTable
<1>3. \A j \in 0 .. Len(t) : Entry(d, s, t, 0, j) = j
  BY DEF Entry
<1>4. \A i \in 0 .. Len(s) : Entry(d, s, t, i, 0) = i
  BY DEF Entry
<1>5. \A i \in 0 .. Len(s), j \in 0 .. Len(t) : d[<<i, j>>] \in Nat
  BY DEF IsTable, Cells
<1> QED
  BY <1>1, <1>2, <1>3, <1>4, <1>5

\* One element more on either side changes a distance by at most one.
LEMMA Neighbours ==
    ASSUME NEW s, NEW t, Len(s) \in Nat, Len(t) \in Nat, NEW d, IsTable(d, s, t)
    PROVE  /\ \A i \in 0 .. Len(s), j \in 1 .. Len(t) : d[<<i, j - 1>>] <= d[<<i, j>>] + 1
           /\ \A i \in 1 .. Len(s), j \in 0 .. Len(t) : d[<<i, j>>] <= d[<<i - 1, j>>] + 1
<1> DEFINE m == Len(s)
           n == Len(t)
           left(i) == \A j \in 1 .. n : d[<<i, j - 1>>] <= d[<<i, j>>] + 1
           up(i) == \A j \in 0 .. n : d[<<i, j>>] <= d[<<i - 1, j>>] + 1
           T == {i \in 0 .. m : left(i)}
<1>1. m \in Nat /\ n \in Nat /\ 0 \in 0 .. m
  OBVIOUS
<1>0. /\ \A j \in 0 .. Len(t) : d[<<0, j>>] = j
      /\ \A i \in 0 .. Len(s) : d[<<i, 0>>] = i
  <2> HIDE DEF m, n
  <2> QED
    BY BorderIs
<1>2. \A j \in 0 .. n : d[<<0, j>>] = j
  BY <1>0
<1>3. \A i \in 0 .. m : d[<<i, 0>>] = i
  BY <1>0
<1>4. ASSUME NEW i \in 1 .. m, left(i - 1) PROVE up(i)
  <2> SUFFICES ASSUME NEW j \in 0 .. n PROVE d[<<i, j>>] <= d[<<i - 1, j>>] + 1
    OBVIOUS
  <2>1. CASE j = 0
    <3>1. i \in 0 .. m /\ i - 1 \in 0 .. m /\ i <= (i - 1) + 1
      BY <1>1
    <3>2. d[<<i, 0>>] = i /\ d[<<i - 1, 0>>] = i - 1
      BY <1>3, <3>1
    <3> QED
      BY <2>1, <3>1, <3>2
  <2>2. CASE j # 0
    <3>1. j \in 1 .. n
      BY <1>1, <2>2
    <3> DEFINE x == d[<<i, j>>]
               a == d[<<i - 1, j>>]
               b == d[<<i, j - 1>>]
               c == d[<<i - 1, j - 1>>]
    <3>2. /\ x \in Nat /\ a \in Nat /\ b \in Nat /\ c \in Nat
          /\ s[i] = t[j] => x = c
          /\ s[i] # t[j] => /\ x <= a + 1 /\ x <= b + 1 /\ x <= c + 1
                            /\ x = a + 1 \/ x = b + 1 \/ x = c + 1
      BY <3>1, EntryIs
    <3>3. c <= a + 1
      BY <1>4, <3>1
    <3> HIDE DEF x, a, b, c
    <3>4. x <= a + 1
      BY <3>2, <3>3
    <3> QED
      BY <3>4 DEF x, a
  <2> QED
    BY <2>1, <2>2
<1>5. ASSUME NEW i \in 1 .. m, left(i - 1) PROVE left(i)
  <2>1. up(i)
    BY <1>4, <1>5
  <2> SUFFICES ASSUME NEW j \in 1 .. n PROVE d[<<i, j - 1>>] <= d[<<i, j>>] + 1
    OBVIOUS
  <2> DEFINE x == d[<<i, j>>]
             a == d[<<i - 1, j>>]
             b == d[<<i, j - 1>>]
             c == d[<<i - 1, j - 1>>]
  <2>2. /\ x \in Nat /\ a \in Nat /\ b \in Nat /\ c \in Nat
        /\ s[i] = t[j] => x = c
        /\ s[i] # t[j] => /\ x <= a + 1 /\ x <= b + 1 /\ x <= c + 1
                          /\ x = a + 1 \/ x = b + 1 \/ x = c + 1
    BY EntryIs
  <2>3. c <= a + 1
    BY <1>5
  <2>4. b <= c + 1
    <3>1. j - 1 \in 0 .. n
      BY <1>1
    <3> QED
      BY <2>1, <3>1
  <2> HIDE DEF x, a, b, c
  <2>5. b <= x + 1
    BY <2>2, <2>3, <2>4
  <2> QED
    BY <2>5 DEF x, b
<1>6. left(0)
  <2> SUFFICES ASSUME NEW j \in 1 .. n PROVE d[<<0, j - 1>>] <= d[<<0, j>>] + 1
    OBVIOUS
  <2>1. j \in 0 .. n /\ j - 1 \in 0 .. n /\ j - 1 <= j + 1
    BY <1>1
  <2>2. d[<<0, j>>] = j /\ d[<<0, j - 1>>] = j - 1
    BY <1>2, <2>1
  <2> QED
    BY <2>1, <2>2
<1> HIDE DEF m, n, left, up
<1>7. 0 .. m \subseteq T
  <2>1. 0 \in T
    BY <1>1, <1>6
  <2>2. \A i \in 0 .. m - 1 : i \in T => i + 1 \in T
    <3> SUFFICES ASSUME NEW i \in 0 .. m - 1, i \in T PROVE i + 1 \in T
      OBVIOUS
    <3>1. i + 1 \in 1 .. m /\ i + 1 \in 0 .. m /\ (i + 1) - 1 = i
      BY <1>1
    <3>2. left((i + 1) - 1)
      BY <3>1
    <3> QED
      BY <1>5, <3>1, <3>2
  <2> HIDE DEF T
  <2> QED
    BY <1>1, <2>1, <2>2, UpTo
<1>8. \A i \in 1 .. m : up(i)
  <2> TAKE i \in 1 .. m
  <2>1. i - 1 \in 0 .. m
    BY <1>1
  <2>2. left(i - 1)
    BY <1>7, <2>1
  <2> QED
    BY <1>4, <2>2
<1>9. \A i \in 0 .. m : left(i)
  BY <1>7
<1> QED
  BY <1>8, <1>9 DEF m, n, left, up

\* So a distance is at most one more than the one without either last element.
LEMMA OneMore ==
    ASSUME NEW s, NEW t, Len(s) \in Nat, Len(t) \in Nat, NEW d, IsTable(d, s, t)
    PROVE  /\ \A i \in 1 .. Len(s), j \in 0 .. Len(t) : d[<<i, j>>] <= d[<<i - 1, j>>] + 1
           /\ \A i \in 0 .. Len(s), j \in 1 .. Len(t) : d[<<i, j>>] <= d[<<i, j - 1>>] + 1
<1>1. PICK e : /\ IsTable(e, t, s)
               /\ \A i \in 0 .. Len(t), j \in 0 .. Len(s) : e[<<i, j>>] = d[<<j, i>>]
  BY TableTurned
<1>2. \A i \in 1 .. Len(s), j \in 0 .. Len(t) : d[<<i, j>>] <= d[<<i - 1, j>>] + 1
  BY Neighbours
<1>3. \A i \in 1 .. Len(t), j \in 0 .. Len(s) : e[<<i, j>>] <= e[<<i - 1, j>>] + 1
  BY <1>1, Neighbours
<1>4. ASSUME NEW i \in 0 .. Len(s), NEW j \in 1 .. Len(t)
      PROVE  d[<<i, j>>] <= d[<<i, j - 1>>] + 1
  <2>1. j \in 0 .. Len(t) /\ j - 1 \in 0 .. Len(t)
    OBVIOUS
  <2>2. e[<<j, i>>] = d[<<i, j>>] /\ e[<<j - 1, i>>] = d[<<i, j - 1>>]
    BY <1>1, <2>1
  <2> QED
    BY <1>3, <2>2
<1> QED
  BY <1>2, <1>4

-----------------------------------------------------------------------------
(* Alignments                                                              *)

\* The k-th element of a set of positions, as CheapestAlignment has it.
UpToHere(S, x) == {y \in S : y <= x}
Nth(S, k) == CHOOSE x \in S : Cardinality({y \in S : y <= x}) = k

\* The pairs of an alignment that differ, and what the alignment costs.
Differences(s, t, I, J) == {k \in 1 .. Cardinality(I) : s[Nth(I, k)] # t[Nth(J, k)]}
Price(s, t, i, j, I, J) ==
    i + j - 2 * Cardinality(I) + Cardinality(Differences(s, t, I, J))

\* A later position is the last, and changes none of the others.
LEMMA NthOfMore ==
    ASSUME NEW n \in Nat, NEW I \in SUBSET (1 .. n)
    PROVE  LET S == I \cup {n + 1}
           IN  /\ IsFiniteSet(I) /\ Cardinality(I) \in Nat
               /\ IsFiniteSet(S) /\ Cardinality(S) = Cardinality(I) + 1
               /\ Nth(S, Cardinality(I) + 1) = n + 1
               /\ \A k \in 1 .. Cardinality(I) : Nth(S, k) = Nth(I, k)
<1> DEFINE S == I \cup {n + 1}
           c == Cardinality(I)
           here(T, x) == {y \in T : y <= x}
<1>1. IsFiniteSet(I) /\ c \in Nat
  <2>1. IsFiniteSet(1 .. n)
    BY FS_Interval
  <2> QED
    BY <2>1, FS_Subset, FS_CardinalityType
<1>2. n + 1 \notin I /\ \A x \in I : x \in Int /\ x <= n
  OBVIOUS
<1>3. IsFiniteSet(S) /\ Cardinality(S) = c + 1
  BY <1>1, <1>2, FS_AddElement
<1>4. here(S, n + 1) = S
  <2>1. \A x \in S : x <= n + 1
    BY <1>2
  <2> QED
    BY <2>1
<1>5. \A x \in I : here(S, x) = here(I, x) /\ Cardinality(here(I, x)) <= c
                   /\ Cardinality(here(I, x)) \in Nat
  <2> TAKE x \in I
  <2>1. here(S, x) = here(I, x)
    BY <1>2
  <2>2. here(I, x) \in SUBSET I
    OBVIOUS
  <2> QED
    BY <1>1, <2>1, <2>2, FS_Subset, FS_CardinalityType
<1>6. Nth(S, c + 1) = n + 1
  <2>1. n + 1 \in S /\ Cardinality(here(S, n + 1)) = c + 1
    BY <1>3, <1>4
  <2>2. \A x \in S : Cardinality(here(S, x)) = c + 1 => x = n + 1
    <3> SUFFICES ASSUME NEW x \in I PROVE Cardinality(here(S, x)) # c + 1
      OBVIOUS
    <3>1. Cardinality(here(S, x)) <= c /\ Cardinality(here(S, x)) \in Nat
      BY <1>5
    <3> QED
      BY <1>1, <3>1
  <2> QED
    BY <2>1, <2>2 DEF Nth
<1>7. ASSUME NEW k \in 1 .. c PROVE Nth(S, k) = Nth(I, k)
  <2>1. \A x : (x \in S /\ Cardinality(here(S, x)) = k) <=> (x \in I /\ Cardinality(here(I, x)) = k)
    <3> TAKE x
    <3>1. CASE x \in I
      BY <1>5, <3>1
    <3>2. CASE x = n + 1
      <4>1. here(S, x) = S
        BY <1>4, <3>2
      <4>2. c + 1 # k
        BY <1>1
      <4>3. Cardinality(here(S, x)) # k
        BY <1>3, <4>1, <4>2
      <4> QED
        BY <1>2, <3>2, <4>3
    <3> QED
      BY <3>1, <3>2
  <2> QED
    BY <2>1 DEF Nth
<1> QED
  BY <1>1, <1>3, <1>6, <1>7

\* What a pair of later positions adds to the price.
LEMMA PriceOfMore ==
    ASSUME NEW s, NEW t, NEW i \in Nat, NEW j \in Nat, NEW I \in SUBSET (1 .. i),
           NEW J \in SUBSET (1 .. j), Cardinality(I) = Cardinality(J)
    PROVE  LET K == I \cup {i + 1}
               L == J \cup {j + 1}
           IN  /\ Price(s, t, i, j, I, J) \in Int
               /\ Price(s, t, i + 1, j + 1, K, L) =
                     Price(s, t, i, j, I, J) + (IF s[i + 1] = t[j + 1] THEN 0 ELSE 1)
<1> DEFINE K == I \cup {i + 1}
           L == J \cup {j + 1}
           c == Cardinality(I)
           D == Differences(s, t, I, J)
           E == Differences(s, t, K, L)
<1>1. /\ c \in Nat /\ Cardinality(K) = c + 1 /\ Nth(K, c + 1) = i + 1
      /\ \A k \in 1 .. c : Nth(K, k) = Nth(I, k)
  BY NthOfMore
<1>2. /\ Cardinality(L) = c + 1 /\ Nth(L, c + 1) = j + 1
      /\ \A k \in 1 .. c : Nth(L, k) = Nth(J, k)
  BY NthOfMore
<1> HIDE DEF K, L
<1>3. E = IF s[i + 1] = t[j + 1] THEN D ELSE D \cup {c + 1}
  <2>1. E = {k \in 1 .. c + 1 : s[Nth(K, k)] # t[Nth(L, k)]}
    BY <1>1 DEF Differences
  <2>2. D = {k \in 1 .. c : s[Nth(I, k)] # t[Nth(J, k)]}
    BY DEF Differences
  <2>3. \A k : k \in 1 .. c + 1 <=> k \in 1 .. c \/ k = c + 1
    BY <1>1
  <2>4. c + 1 \notin 1 .. c
    BY <1>1
  <2> HIDE DEF D, E, c
  <2>5. \A k : k \in E <=> \/ k \in D
                           \/ k = c + 1 /\ s[i + 1] # t[j + 1]
    BY <1>1, <1>2, <2>1, <2>2, <2>3, <2>4
  <2> QED
    BY <2>5
<1>4. D \subseteq 1 .. c /\ IsFiniteSet(D) /\ Cardinality(D) \in Nat /\ c + 1 \notin D
  <2>1. D \in SUBSET (1 .. c)
    BY DEF Differences
  <2>2. IsFiniteSet(1 .. c)
    BY <1>1, FS_Interval
  <2>3. c + 1 \notin 1 .. c
    BY <1>1
  <2> QED
    BY <2>1, <2>2, <2>3, FS_Subset, FS_CardinalityType
<1>5. Cardinality(D \cup {c + 1}) = Cardinality(D) + 1
  BY <1>4, FS_AddElement
<1>6. Price(s, t, i, j, I, J) = i + j - 2 * c + Cardinality(D)
  BY DEF Price
<1>7. Price(s, t, i + 1, j + 1, K, L) = (i + 1) + (j + 1) - 2 * (c + 1) + Cardinality(E)
  BY <1>1 DEF Price
<1> HIDE DEF D, E, c
<1>8. Cardinality(E) = Cardinality(D) + (IF s[i + 1] = t[j + 1] THEN 0 ELSE 1)
  BY <1>3, <1>4, <1>5
<1>9. Price(s, t, i, j, I, J) \in Int
  BY <1>1, <1>4, <1>6
<1>10. Price(s, t, i + 1, j + 1, K, L) =
          Price(s, t, i, j, I, J) + (IF s[i + 1] = t[j + 1] THEN 0 ELSE 1)
  <2> DEFINE w == IF s[i + 1] = t[j + 1] THEN 0 ELSE 1
  <2>1. w \in Int /\ Cardinality(E) = Cardinality(D) + w
    BY <1>8
  <2> HIDE DEF w
  <2>2. Price(s, t, i + 1, j + 1, K, L) = Price(s, t, i, j, I, J) + w
    BY <1>1, <1>4, <1>6, <1>7, <2>1
  <2> QED
    BY <2>2 DEF w
<1> QED
  BY <1>9, <1>10 DEF K, L

\* What a price is made of.
LEMMA PriceParts ==
    ASSUME NEW s, NEW t, NEW i \in Nat, NEW j \in Nat, NEW I \in SUBSET (1 .. i), NEW J
    PROVE  /\ IsFiniteSet(I) /\ Cardinality(I) \in Nat
           /\ Cardinality(Differences(s, t, I, J)) \in Nat
           /\ Price(s, t, i, j, I, J) \in Int
           /\ Cardinality(I) = 0 => Price(s, t, i, j, I, J) = i + j
           /\ Price(s, t, i + 1, j, I, J) = Price(s, t, i, j, I, J) + 1
           /\ Price(s, t, i, j + 1, I, J) = Price(s, t, i, j, I, J) + 1
<1> DEFINE c == Cardinality(I)
           D == Differences(s, t, I, J)
<1>1. IsFiniteSet(I) /\ c \in Nat
  BY NthOfMore
<1>2. D \in SUBSET (1 .. c)
  BY DEF Differences
<1>3. IsFiniteSet(D) /\ Cardinality(D) \in Nat
  <2>1. IsFiniteSet(1 .. c)
    BY <1>1, FS_Interval
  <2> QED
    BY <1>2, <2>1, FS_Subset, FS_CardinalityType
<1>4. c = 0 => Cardinality(D) = 0
  <2>1. c = 0 => D = {}
    BY <1>2
  <2> QED
    BY <2>1, FS_EmptySet
<1>5. /\ Price(s, t, i, j, I, J) = i + j - 2 * c + Cardinality(D)
      /\ Price(s, t, i + 1, j, I, J) = (i + 1) + j - 2 * c + Cardinality(D)
      /\ Price(s, t, i, j + 1, I, J) = i + (j + 1) - 2 * c + Cardinality(D)
  BY DEF Price
<1> DEFINE diff == Cardinality(D)
<1> HIDE DEF c, diff
<1>6. diff \in Nat
  BY <1>3 DEF diff
<1>7. /\ Price(s, t, i, j, I, J) \in Int
      /\ c = 0 => Price(s, t, i, j, I, J) = i + j
      /\ Price(s, t, i + 1, j, I, J) = Price(s, t, i, j, I, J) + 1
      /\ Price(s, t, i, j + 1, I, J) = Price(s, t, i, j, I, J) + 1
  <2>1. /\ Price(s, t, i, j, I, J) = i + j - 2 * c + diff
        /\ Price(s, t, i + 1, j, I, J) = (i + 1) + j - 2 * c + diff
        /\ Price(s, t, i, j + 1, I, J) = i + (j + 1) - 2 * c + diff
    BY <1>5 DEF diff
  <2>2. c = 0 => diff = 0
    BY <1>4 DEF diff
  <2> HIDE DEF D
  <2> QED
    BY <1>1, <1>6, <2>1, <2>2
<1> QED
  BY <1>1, <1>3, <1>7 DEF c

Aligned(i, j, I, J) ==
    I \in SUBSET (1 .. i) /\ J \in SUBSET (1 .. j) /\ Cardinality(I) = Cardinality(J)

NoneCheaper(d, s, t, i, j) ==
    \A I, J : Aligned(i, j, I, J) => d[<<i, j>>] <= Price(s, t, i, j, I, J)

SomeAsCheap(d, s, t, i, j) ==
    \E I, J : Aligned(i, j, I, J) /\ Price(s, t, i, j, I, J) = d[<<i, j>>]

\* At the border there is only the empty alignment.
LEMMA AlignedAtBorder ==
    ASSUME NEW s, NEW t, Len(s) \in Nat, Len(t) \in Nat, NEW d, IsTable(d, s, t),
           NEW i \in 0 .. Len(s), NEW j \in 0 .. Len(t), i = 0 \/ j = 0
    PROVE  NoneCheaper(d, s, t, i, j) /\ SomeAsCheap(d, s, t, i, j)
<1>1. i \in Nat /\ j \in Nat
  OBVIOUS
<1>2. d[<<i, j>>] = i + j
  <2>1. (i = 0 => d[<<i, j>>] = j) /\ (j = 0 => d[<<i, j>>] = i)
    BY BorderIs
  <2> QED
    BY <1>1, <2>1
<1>3. ASSUME NEW I, NEW J, Aligned(i, j, I, J) PROVE Price(s, t, i, j, I, J) = i + j
  <2>1. I \in SUBSET (1 .. i) /\ J \in SUBSET (1 .. j) /\ Cardinality(I) = Cardinality(J)
    BY <1>3 DEF Aligned
  <2>2. I = {} \/ J = {}
    BY <2>1
  <2>3. Cardinality(I) = 0
    BY <2>1, <2>2, FS_EmptySet
  <2> QED
    BY <1>1, <2>1, <2>3, PriceParts
<1>4. Aligned(i, j, {}, {})
  BY DEF Aligned
<1>5. i + j <= i + j
  BY <1>1
<1> QED
  BY <1>2, <1>3, <1>4, <1>5 DEF NoneCheaper, SomeAsCheap

\* No alignment of more elements is cheaper than the table says, if none of fewer is.
LEMMA NoneCheaperNext ==
    ASSUME NEW s, NEW t, Len(s) \in Nat, Len(t) \in Nat, NEW d, IsTable(d, s, t),
           NEW i \in 1 .. Len(s), NEW j \in 1 .. Len(t),
           NoneCheaper(d, s, t, i - 1, j), NoneCheaper(d, s, t, i, j - 1),
           NoneCheaper(d, s, t, i - 1, j - 1)
    PROVE  NoneCheaper(d, s, t, i, j)
<1> SUFFICES ASSUME NEW I, NEW J, Aligned(i, j, I, J)
             PROVE  d[<<i, j>>] <= Price(s, t, i, j, I, J)
  BY DEF NoneCheaper
<1>1. I \in SUBSET (1 .. i) /\ J \in SUBSET (1 .. j) /\ Cardinality(I) = Cardinality(J)
  BY DEF Aligned
<1>2. /\ i - 1 \in Nat /\ j - 1 \in Nat /\ i \in Nat /\ j \in Nat
      /\ (i - 1) + 1 = i /\ (j - 1) + 1 = j
      /\ i \in 0 .. Len(s) /\ j \in 0 .. Len(t)
      /\ i - 1 \in 0 .. Len(s) /\ j - 1 \in 0 .. Len(t)
  OBVIOUS
<1> DEFINE x == d[<<i, j>>]
           a == d[<<i - 1, j>>]
           b == d[<<i, j - 1>>]
           c == d[<<i - 1, j - 1>>]
<1>3. /\ x \in Nat /\ a \in Nat /\ b \in Nat /\ c \in Nat
      /\ s[i] = t[j] => x = c
      /\ s[i] # t[j] => /\ x <= a + 1 /\ x <= b + 1 /\ x <= c + 1
                        /\ x = a + 1 \/ x = b + 1 \/ x = c + 1
  BY EntryIs
<1>4. x <= a + 1 /\ x <= b + 1
  BY <1>2, OneMore
<1>5. CASE i \notin I
  <2>1. I \in SUBSET (1 .. i - 1)
    BY <1>1, <1>2, <1>5
  <2>2. a <= Price(s, t, i - 1, j, I, J)
    BY <1>1, <2>1 DEF NoneCheaper, Aligned
  <2>3. /\ Price(s, t, i - 1, j, I, J) \in Int
        /\ Price(s, t, i, j, I, J) = Price(s, t, i - 1, j, I, J) + 1
    BY <1>2, <2>1, PriceParts
  <2> HIDE DEF x, a
  <2>4. x <= Price(s, t, i, j, I, J)
    BY <1>3, <1>4, <2>2, <2>3
  <2> QED
    BY <2>4 DEF x
<1>6. CASE j \notin J
  <2>1. J \in SUBSET (1 .. j - 1)
    BY <1>1, <1>2, <1>6
  <2>2. b <= Price(s, t, i, j - 1, I, J)
    BY <1>1, <2>1 DEF NoneCheaper, Aligned
  <2>3. /\ Price(s, t, i, j - 1, I, J) \in Int
        /\ Price(s, t, i, j, I, J) = Price(s, t, i, j - 1, I, J) + 1
    BY <1>1, <1>2, PriceParts
  <2> HIDE DEF x, b
  <2>4. x <= Price(s, t, i, j, I, J)
    BY <1>3, <1>4, <2>2, <2>3
  <2> QED
    BY <2>4 DEF x
<1>7. CASE i \in I /\ j \in J
  <2> DEFINE K == I \ {i}
             L == J \ {j}
             w == IF s[i] = t[j] THEN 0 ELSE 1
  <2>1. /\ K \in SUBSET (1 .. i - 1) /\ L \in SUBSET (1 .. j - 1)
        /\ K \cup {i} = I /\ L \cup {j} = J
    BY <1>1, <1>2, <1>7
  <2> HIDE DEF K, L
  <2>2. Cardinality(I) = Cardinality(K) + 1 /\ Cardinality(J) = Cardinality(L) + 1
    <3>1. Cardinality(K \cup {(i - 1) + 1}) = Cardinality(K) + 1
      BY <1>2, <2>1, NthOfMore
    <3>2. Cardinality(L \cup {(j - 1) + 1}) = Cardinality(L) + 1
      BY <1>2, <2>1, NthOfMore
    <3> QED
      BY <1>2, <2>1, <3>1, <3>2
  <2>3. Cardinality(K) = Cardinality(L)
    <3>1. Cardinality(K) \in Nat /\ Cardinality(L) \in Nat
      BY <1>2, <2>1, NthOfMore
    <3>2. Cardinality(K) + 1 = Cardinality(L) + 1
      BY <1>1, <2>2
    <3> QED
      BY <3>1, <3>2
  <2>4. c <= Price(s, t, i - 1, j - 1, K, L)
    BY <2>1, <2>3 DEF NoneCheaper, Aligned
  <2>5. /\ Price(s, t, i - 1, j - 1, K, L) \in Int
        /\ Price(s, t, i, j, I, J) = Price(s, t, i - 1, j - 1, K, L) + w
    <3> DEFINE ii == i - 1
               jj == j - 1
    <3>1. /\ ii \in Nat /\ jj \in Nat /\ ii + 1 = i /\ jj + 1 = j
          /\ K \in SUBSET (1 .. ii) /\ L \in SUBSET (1 .. jj)
      BY <1>2, <2>1
    <3> HIDE DEF ii, jj
    <3>2. /\ Price(s, t, ii, jj, K, L) \in Int
          /\ Price(s, t, ii + 1, jj + 1, K \cup {ii + 1}, L \cup {jj + 1}) =
                Price(s, t, ii, jj, K, L) + (IF s[ii + 1] = t[jj + 1] THEN 0 ELSE 1)
      BY <2>3, <3>1, PriceOfMore
    <3>3. /\ Price(s, t, ii, jj, K, L) \in Int
          /\ Price(s, t, i, j, I, J) = Price(s, t, ii, jj, K, L) + w
      BY <2>1, <3>1, <3>2
    <3> QED
      BY <3>3 DEF ii, jj
  <2>6. w \in Int /\ x <= c + w
    BY <1>3
  <2> HIDE DEF x, c, w
  <2>7. x <= Price(s, t, i, j, I, J)
    BY <1>3, <2>4, <2>5, <2>6
  <2> QED
    BY <2>7 DEF x
<1> QED
  BY <1>5, <1>6, <1>7

\* Some alignment of more elements is as cheap as the table says, if some of fewer is.
LEMMA SomeAsCheapNext ==
    ASSUME NEW s, NEW t, Len(s) \in Nat, Len(t) \in Nat, NEW d, IsTable(d, s, t),
           NEW i \in 1 .. Len(s), NEW j \in 1 .. Len(t),
           SomeAsCheap(d, s, t, i - 1, j), SomeAsCheap(d, s, t, i, j - 1),
           SomeAsCheap(d, s, t, i - 1, j - 1)
    PROVE  SomeAsCheap(d, s, t, i, j)
<1>2. /\ i - 1 \in Nat /\ j - 1 \in Nat /\ i \in Nat /\ j \in Nat
      /\ (i - 1) + 1 = i /\ (j - 1) + 1 = j
  OBVIOUS
<1> DEFINE x == d[<<i, j>>]
           a == d[<<i - 1, j>>]
           b == d[<<i, j - 1>>]
           c == d[<<i - 1, j - 1>>]
           w == IF s[i] = t[j] THEN 0 ELSE 1
<1>3. /\ x \in Nat /\ a \in Nat /\ b \in Nat /\ c \in Nat
      /\ s[i] = t[j] => x = c
      /\ s[i] # t[j] => /\ x <= a + 1 /\ x <= b + 1 /\ x <= c + 1
                        /\ x = a + 1 \/ x = b + 1 \/ x = c + 1
  BY EntryIs
<1>4. CASE x = c + w
  <2>1. PICK I, J : Aligned(i - 1, j - 1, I, J) /\ Price(s, t, i - 1, j - 1, I, J) = c
    BY DEF SomeAsCheap
  <2>2. /\ I \in SUBSET (1 .. i - 1) /\ J \in SUBSET (1 .. j - 1)
        /\ Cardinality(I) = Cardinality(J)
    BY <2>1 DEF Aligned
  <2> DEFINE K == I \cup {i}
             L == J \cup {j}
  <2>3. Price(s, t, i, j, K, L) = x
    <3> DEFINE ii == i - 1
               jj == j - 1
    <3>1. /\ ii \in Nat /\ jj \in Nat /\ ii + 1 = i /\ jj + 1 = j
          /\ I \in SUBSET (1 .. ii) /\ J \in SUBSET (1 .. jj)
      BY <1>2, <2>2
    <3> HIDE DEF ii, jj
    <3>2. Price(s, t, ii + 1, jj + 1, I \cup {ii + 1}, J \cup {jj + 1}) =
             Price(s, t, ii, jj, I, J) + (IF s[ii + 1] = t[jj + 1] THEN 0 ELSE 1)
      BY <2>2, <3>1, PriceOfMore
    <3>3. Price(s, t, i, j, K, L) = Price(s, t, ii, jj, I, J) + w
      BY <3>1, <3>2
    <3> QED
      BY <1>4, <2>1, <3>3 DEF ii, jj
  <2>4. Aligned(i, j, K, L)
    <3>1. K \in SUBSET (1 .. i) /\ L \in SUBSET (1 .. j)
      BY <1>2, <2>2
    <3>2. Cardinality(K) = Cardinality(I) + 1 /\ Cardinality(L) = Cardinality(J) + 1
      <4>1. Cardinality(I \cup {(i - 1) + 1}) = Cardinality(I) + 1
        BY <1>2, <2>2, NthOfMore
      <4>2. Cardinality(J \cup {(j - 1) + 1}) = Cardinality(J) + 1
        BY <1>2, <2>2, NthOfMore
      <4> QED
        BY <1>2, <4>1, <4>2
    <3> QED
      BY <2>2, <3>1, <3>2 DEF Aligned
  <2> HIDE DEF K, L
  <2> QED
    BY <2>3, <2>4 DEF SomeAsCheap
<1>5. CASE x = a + 1
  <2>1. PICK I, J : Aligned(i - 1, j, I, J) /\ Price(s, t, i - 1, j, I, J) = a
    BY DEF SomeAsCheap
  <2>2. /\ I \in SUBSET (1 .. i - 1) /\ J \in SUBSET (1 .. j)
        /\ Cardinality(I) = Cardinality(J)
    BY <2>1 DEF Aligned
  <2>3. Price(s, t, i, j, I, J) = x
    <3>1. Price(s, t, (i - 1) + 1, j, I, J) = Price(s, t, i - 1, j, I, J) + 1
      BY <1>2, <2>2, PriceParts
    <3> QED
      BY <1>2, <1>5, <2>1, <3>1
  <2>4. Aligned(i, j, I, J)
    BY <1>2, <2>2 DEF Aligned
  <2> QED
    BY <2>3, <2>4 DEF SomeAsCheap
<1>6. CASE x = b + 1
  <2>1. PICK I, J : Aligned(i, j - 1, I, J) /\ Price(s, t, i, j - 1, I, J) = b
    BY DEF SomeAsCheap
  <2>2. /\ I \in SUBSET (1 .. i) /\ J \in SUBSET (1 .. j - 1)
        /\ Cardinality(I) = Cardinality(J)
    BY <2>1 DEF Aligned
  <2>3. Price(s, t, i, j, I, J) = x
    <3>1. Price(s, t, i, (j - 1) + 1, I, J) = Price(s, t, i, j - 1, I, J) + 1
      BY <1>2, <2>2, PriceParts
    <3> QED
      BY <1>2, <1>6, <2>1, <3>1
  <2>4. Aligned(i, j, I, J)
    BY <1>2, <2>2 DEF Aligned
  <2> QED
    BY <2>3, <2>4 DEF SomeAsCheap
<1>7. x = c + w \/ x = a + 1 \/ x = b + 1
  <2> HIDE DEF x, a, b, c
  <2> QED
    BY <1>3
<1> QED
  BY <1>4, <1>5, <1>6, <1>7

\* An entry of the table is what the cheapest alignment costs.
LEMMA TableIsCheapest ==
    ASSUME NEW s, NEW t, Len(s) \in Nat, Len(t) \in Nat, NEW d, IsTable(d, s, t)
    PROVE  \A i \in 0 .. Len(s), j \in 0 .. Len(t) :
               NoneCheaper(d, s, t, i, j) /\ SomeAsCheap(d, s, t, i, j)
<1> DEFINE m == Len(s)
           n == Len(t)
           N == m + n
           good(i, j) == NoneCheaper(d, s, t, i, j) /\ SomeAsCheap(d, s, t, i, j)
           T == {k \in 0 .. N : \A i \in 0 .. m, j \in 0 .. n : i + j <= k => good(i, j)}
<1>1. m \in Nat /\ n \in Nat /\ N \in Nat
  OBVIOUS
<1>2. \A i \in 0 .. m, j \in 0 .. n : i = 0 \/ j = 0 => good(i, j)
  BY AlignedAtBorder
<1>3. \A i \in 1 .. m, j \in 1 .. n :
         good(i - 1, j) /\ good(i, j - 1) /\ good(i - 1, j - 1) => good(i, j)
  BY NoneCheaperNext, SomeAsCheapNext
<1>4. \A i \in 0 .. m, j \in 0 .. n : i + j <= N
  BY <1>1
<1> HIDE DEF m, n, N, good
<1>5. 0 \in T
  <2>1. \A i \in 0 .. m, j \in 0 .. n : i + j <= 0 => i = 0
    BY <1>1
  <2> QED
    BY <1>1, <1>2, <2>1
<1>6. ASSUME NEW k \in 0 .. N - 1, k \in T PROVE k + 1 \in T
  <2>1. ASSUME NEW i \in 0 .. m, NEW j \in 0 .. n, i + j <= k + 1 PROVE good(i, j)
    <3>1. CASE i = 0 \/ j = 0
      BY <1>2, <3>1
    <3>2. CASE i # 0 /\ j # 0
      <4>1. i \in 1 .. m /\ j \in 1 .. n /\ i - 1 \in 0 .. m /\ j - 1 \in 0 .. n
        BY <1>1, <3>2
      <4>2. k \in Int /\ (i - 1) + (j - 1) <= k /\ (i - 1) + j <= k /\ i + (j - 1) <= k
        BY <1>1, <2>1, <4>1
      <4>3. good(i - 1, j) /\ good(i, j - 1) /\ good(i - 1, j - 1)
        BY <1>6, <4>1, <4>2
      <4> QED
        BY <1>3, <4>1, <4>3
    <3> QED
      BY <3>1, <3>2
  <2>2. k + 1 \in 0 .. N
    BY <1>1
  <2> QED
    BY <2>1, <2>2
<1>7. N \in T
  <2> HIDE DEF T
  <2>1. 0 .. N \subseteq T
    BY <1>1, <1>5, <1>6, UpTo
  <2> QED
    BY <1>1, <2>1
<1> QED
  BY <1>4, <1>7 DEF m, n, good

\* The reference definition of the distance has the same value.
LEMMA CheapestIsTable ==
    ASSUME NEW S, NEW s \in Seq(S), NEW R, NEW t \in Seq(R), NEW d, IsTable(d, s, t)
    PROVE  CheapestAlignment(s, t) = d[<<Len(s), Len(t)>>]
<1> DEFINE m == Len(s)
           n == Len(t)
           least == d[<<m, n>>]
           costs == {Price(s, t, m, n, a[1], a[2]) : a \in Alignments(s, t)}
<1>1. m \in Nat /\ n \in Nat /\ DOMAIN s = 1 .. m /\ DOMAIN t = 1 .. n
  OBVIOUS
<1>2. CheapestAlignment(s, t) = Min(costs)
  BY DEF CheapestAlignment, Price, Differences, Nth
<1>3. \A I, J : Aligned(m, n, I, J) <=> <<I, J>> \in Alignments(s, t)
  BY <1>1 DEF Aligned, Alignments
<1>4. \A a \in Alignments(s, t) : Aligned(m, n, a[1], a[2])
  BY <1>1 DEF Aligned, Alignments
<1>5. NoneCheaper(d, s, t, m, n) /\ SomeAsCheap(d, s, t, m, n)
  <2>1. m \in 0 .. m /\ n \in 0 .. n
    BY <1>1
  <2> QED
    BY <1>1, <2>1, TableIsCheapest
<1>6. least \in Nat
  BY <1>1, BorderIs
<1> HIDE DEF m, n
<1>7. \A x \in costs : x \in Nat /\ least <= x
  <2> SUFFICES ASSUME NEW a \in Alignments(s, t)
               PROVE  /\ Price(s, t, m, n, a[1], a[2]) \in Nat
                      /\ least <= Price(s, t, m, n, a[1], a[2])
    OBVIOUS
  <2>1. Aligned(m, n, a[1], a[2])
    BY <1>4
  <2>2. least <= Price(s, t, m, n, a[1], a[2])
    BY <1>5, <2>1 DEF NoneCheaper
  <2>3. Price(s, t, m, n, a[1], a[2]) \in Int
    BY <1>1, <2>1, PriceParts DEF Aligned
  <2> HIDE DEF least
  <2> QED
    BY <1>6, <2>2, <2>3
<1>8. least \in costs
  <2>1. PICK I, J : Aligned(m, n, I, J) /\ Price(s, t, m, n, I, J) = least
    BY <1>5 DEF SomeAsCheap
  <2>2. <<I, J>> \in Alignments(s, t) /\ <<I, J>>[1] = I /\ <<I, J>>[2] = J
    BY <1>3, <2>1
  <2> HIDE DEF least
  <2> QED
    BY <2>1, <2>2
<1> HIDE DEF least, costs
<1>9. Min(costs) \in costs /\ \A x \in costs : Min(costs) <= x
  <2>1. costs # {} /\ costs \subseteq Nat
    BY <1>7, <1>8
  <2> QED
    BY <2>1, LeastOf
<1>10. Min(costs) = least
  <2> DEFINE x == Min(costs)
  <2>1. x \in Nat /\ least <= x /\ x <= least
    BY <1>7, <1>8, <1>9
  <2> HIDE DEF x
  <2>2. x = least
    BY <1>6, <2>1
  <2> QED
    BY <2>2 DEF x
<1> QED
  BY <1>2, <1>10 DEF least, m, n

-----------------------------------------------------------------------------
(* Texts                                                                   *)

\* The loop of Without: what is kept of the first i elements.
IsKept(kept, S, text, tokens) ==
    /\ kept \in [0 .. Len(text) -> Seq(S \ tokens)] /\ kept[0] = <<>>
    /\ \A i \in 1 .. Len(text) :
          kept[i] = IF text[i] \in tokens THEN kept[i - 1] ELSE Append(kept[i - 1], text[i])

LEMMA WithoutIs ==
    ASSUME NEW S, NEW text \in Seq(S), NEW tokens
    PROVE  \E kept : IsKept(kept, S, text, tokens) /\ Without(text, tokens) = kept[Len(text)]
<1> DEFINE n == Len(text)
           Q == Seq(S \ tokens)
           next(x, i) == IF text[i] \in tokens THEN x ELSE Append(x, text[i])
           body(f, i) == IF i = 0 THEN <<>>
                         ELSE IF text[i] \in tokens THEN f[i - 1] ELSE Append(f[i - 1], text[i])
           h == [i \in 1 .. n |-> [x \in Q |-> next(x, i)]]
           kept == CHOOSE f : f = [i \in 0 .. n |-> body(f, i)]
<1>1. n \in Nat /\ <<>> \in Q /\ 0 \in 0 .. n /\ n \in 0 .. n
  OBVIOUS
<1>2. \A i \in 1 .. n, x \in Q : next(x, i) \in Q
  <2> TAKE i \in 1 .. n, x \in Q
  <2>1. text[i] \in S
    OBVIOUS
  <2>2. CASE text[i] \in tokens
    BY <2>2
  <2>3. CASE text[i] \notin tokens
    <3>1. text[i] \in S \ tokens
      BY <2>1, <2>3
    <3>2. Append(x, text[i]) \in Seq(S \ tokens)
      BY <3>1, AppendProperties
    <3> QED
      BY <2>3, <3>2
  <2> QED
    BY <2>2, <2>3
<1>3. Without(text, tokens) = kept[n]
  BY DEF Without
<1>4. \A f : \A i \in 1 .. n : body(f, i) = next(f[i - 1], i)
  <2> TAKE f
  <2> TAKE i \in 1 .. n
  <2>1. i # 0
    OBVIOUS
  <2> QED
    BY <2>1
<1>5. \A f : body(f, 0) = <<>>
  OBVIOUS
<1> HIDE DEF n, Q, next, body
<1>6. \E f : f = [i \in 0 .. n |-> body(f, i)]
  <2>1. Loop(h, <<>>, Q, n)
    BY <1>1, <1>2 DEF Loop
  <2>2. \A i \in 1 .. n, x \in Q : h[i][x] = next(x, i)
    OBVIOUS
  <2> HIDE DEF h
  <2>3. PICK f \in [0 .. n -> Q] : f[0] = <<>> /\ \A i \in 1 .. n : f[i] = h[i][f[i - 1]]
    BY <2>1, LoopRecursion
  <2>4. ASSUME NEW i \in 0 .. n PROVE f[i] = body(f, i)
    <3>1. CASE i = 0
      BY <1>5, <2>3, <3>1
    <3>2. CASE i # 0
      <4>1. i \in 1 .. n /\ i - 1 \in 0 .. n
        BY <1>1, <3>2
      <4>2. f[i - 1] \in Q
        BY <2>3, <4>1
      <4> QED
        BY <1>4, <2>2, <2>3, <4>1, <4>2
    <3> QED
      BY <3>1, <3>2
  <2> QED
    BY <2>3, <2>4
<1>7. kept = [i \in 0 .. n |-> body(kept, i)]
  BY <1>6
<1> HIDE DEF kept, h
<1>8. kept[0] = <<>>
  BY <1>1, <1>5, <1>7
<1>9. \A i \in 1 .. n : kept[i] = next(kept[i - 1], i)
  <2> TAKE i \in 1 .. n
  <2>1. i \in 0 .. n
    BY <1>1
  <2> QED
    BY <1>4, <1>7, <2>1
<1> DEFINE T == {i \in 0 .. n : kept[i] \in Q}
<1>10. 0 .. n \subseteq T
  <2>1. 0 \in T
    BY <1>1, <1>8
  <2>2. \A i \in 0 .. n - 1 : i \in T => i + 1 \in T
    <3> SUFFICES ASSUME NEW i \in 0 .. n - 1, i \in T PROVE i + 1 \in T
      OBVIOUS
    <3>1. i + 1 \in 1 .. n /\ i + 1 \in 0 .. n /\ (i + 1) - 1 = i
      BY <1>1
    <3>2. kept[i + 1] = next(kept[i], i + 1)
      BY <1>9, <3>1
    <3> QED
      BY <1>2, <3>1, <3>2
  <2> HIDE DEF T
  <2> QED
    BY <1>1, <2>1, <2>2, UpTo
<1>11. kept \in [0 .. n -> Q]
  <2>1. DOMAIN kept = 0 .. n
    BY <1>7
  <2>2. kept = [i \in 0 .. n |-> kept[i]]
    BY <1>7
  <2> QED
    BY <1>10, <2>2
<1> QED
  BY <1>3, <1>8, <1>9, <1>11 DEF IsKept, n, Q, next

LEMMA WithoutType ==
    ASSUME NEW S, NEW text \in Seq(S), NEW tokens
    PROVE  Without(text, tokens) \in Seq(S \ tokens) /\ Without(text, tokens) \in Seq(S)
<1>1. PICK kept : IsKept(kept, S, text, tokens) /\ Without(text, tokens) = kept[Len(text)]
  BY WithoutIs
<1>2. Len(text) \in 0 .. Len(text)
  OBVIOUS
<1>3. Without(text, tokens) \in Seq(S \ tokens)
  BY <1>1, <1>2 DEF IsKept
<1> QED
  BY <1>3, SeqMonotonic

\* What is taken out makes a sequence shorter, of nothing nothing is left.
LEMMA WithoutLen ==
    ASSUME NEW S, NEW text \in Seq(S), NEW tokens
    PROVE  Len(Without(text, tokens)) \in 0 .. Len(text)
<1>1. PICK kept : IsKept(kept, S, text, tokens) /\ Without(text, tokens) = kept[Len(text)]
  BY WithoutIs
<1> DEFINE n == Len(text)
           T == {i \in 0 .. n : Len(kept[i]) \in 0 .. i}
<1>2. n \in Nat
  OBVIOUS
<1>3. /\ kept \in [0 .. n -> Seq(S \ tokens)] /\ kept[0] = <<>>
      /\ \A i \in 1 .. n :
            kept[i] = IF text[i] \in tokens THEN kept[i - 1] ELSE Append(kept[i - 1], text[i])
  BY <1>1 DEF IsKept
<1>4. \A i \in 1 .. n : text[i] \in S
  OBVIOUS
<1> HIDE DEF n
<1>5. 0 \in T
  BY <1>2, <1>3, EmptySeq
<1>6. \A i \in 0 .. n - 1 : i \in T => i + 1 \in T
  <2> SUFFICES ASSUME NEW i \in 0 .. n - 1, i \in T PROVE i + 1 \in T
    OBVIOUS
  <2>1. i + 1 \in 1 .. n /\ i + 1 \in 0 .. n /\ (i + 1) - 1 = i /\ i \in 0 .. n
    BY <1>2
  <2>2. kept[i] \in Seq(S \ tokens) /\ Len(kept[i]) \in 0 .. i /\ text[i + 1] \in S
    BY <1>3, <1>4, <2>1
  <2>3. kept[i + 1] = IF text[i + 1] \in tokens THEN kept[i] ELSE Append(kept[i], text[i + 1])
    BY <1>3, <2>1
  <2>4. text[i + 1] \notin tokens => Len(Append(kept[i], text[i + 1])) = Len(kept[i]) + 1
    BY <2>2, AppendProperties
  <2> DEFINE k == Len(kept[i])
             l == Len(kept[i + 1])
  <2>5. k \in 0 .. i /\ (l = k \/ l = k + 1)
    BY <2>2, <2>3, <2>4
  <2> HIDE DEF k, l
  <2>6. l \in 0 .. i + 1
    BY <1>2, <2>5
  <2> QED
    BY <2>1, <2>6 DEF l
<1>7. 0 .. n \subseteq T
  <2> HIDE DEF T
  <2> QED
    BY <1>2, <1>5, <1>6, UpTo
<1>8. n \in T
  BY <1>2, <1>7
<1> QED
  BY <1>1, <1>8 DEF n

LEMMA WithoutOfNone == \A tokens : Without(<<>>, tokens) = <<>>
<1> TAKE tokens
<1>1. <<>> \in Seq({}) /\ Len(<<>>) = 0
  OBVIOUS
<1>2. PICK kept : IsKept(kept, {}, <<>>, tokens) /\ Without(<<>>, tokens) = kept[Len(<<>>)]
  BY <1>1, WithoutIs
<1> QED
  BY <1>1, <1>2 DEF IsKept

LEMMA OnlyType ==
    ASSUME NEW S, NEW text \in Seq(S), NEW tokens
    PROVE  Only(text, tokens) \in Seq(S) /\ Len(Only(text, tokens)) \in 0 .. Len(text)
  BY WithoutType, WithoutLen DEF Only

\* A stretch of a text is a text.
LEMMA PartType ==
    ASSUME NEW S, NEW text \in Seq(S), NEW a \in Int, NEW b \in Int, 1 <= a, b <= Len(text)
    PROVE  SubSeq(text, a, b) \in Seq(S)
<1>1. \A i \in a .. b : text[i] \in S
  OBVIOUS
<1> QED
  BY <1>1, SubSeqProperties

LEMMA LastType ==
    ASSUME NEW S, NEW s \in Seq(S), s # <<>>
    PROVE  Last(s) \in S /\ Front(s) \in Seq(S) /\ Len(s) \in Nat \ {0} /\ s[1] \in S
<1>1. Len(s) \in Nat \ {0}
  OBVIOUS
<1>2. s[Len(s)] \in S /\ s[1] \in S
  BY <1>1, ElementOfSeq
<1>3. SubSeq(s, 1, Len(s) - 1) \in Seq(S)
  BY <1>1, PartType
<1> QED
  BY <1>1, <1>2, <1>3 DEF Last, Front

LEMMA AtType ==
    ASSUME NEW S, NEW text \in Seq(S), NEW t
    PROVE  At(text, t) \subseteq 1 .. Len(text)
  BY DEF At

\* The least and the greatest of some positions.
LEMMA EndsOf ==
    ASSUME NEW n \in Nat, NEW P, P \subseteq 1 .. n, P # {}
    PROVE  /\ Min(P) \in P /\ Min(P) \in 1 .. n /\ \A x \in P : Min(P) <= x
           /\ Max(P) \in P /\ Max(P) \in 1 .. n /\ \A x \in P : x <= Max(P)
<1>1. P \subseteq Nat /\ P \subseteq 0 .. n
  OBVIOUS
<1>2. Min(P) \in P /\ \A x \in P : Min(P) <= x
  BY <1>1, LeastOf
<1>3. Max(P) \in P /\ \A x \in P : x <= Max(P)
  BY <1>1, GreatestOf
<1> QED
  BY <1>2, <1>3

LEMMA StripType ==
    ASSUME NEW S, NEW text \in Seq(S), NEW tokens
    PROVE  StripOf(text, tokens) \in Seq(S) /\ Strip(text) \in Seq(S)
<1>1. ASSUME NEW ts PROVE StripOf(text, ts) \in Seq(S)
  <2> DEFINE kept == {i \in DOMAIN text : text[i] \notin ts}
  <2>1. kept \subseteq 1 .. Len(text) /\ Len(text) \in Nat
    OBVIOUS
  <2>2. StripOf(text, ts) = IF kept = {} THEN <<>> ELSE SubSeq(text, Min(kept), Max(kept))
    BY DEF StripOf
  <2> HIDE DEF kept
  <2>3. kept # {} => Min(kept) \in 1 .. Len(text) /\ Max(kept) \in 1 .. Len(text)
    BY <2>1, EndsOf
  <2>4. kept # {} => SubSeq(text, Min(kept), Max(kept)) \in Seq(S)
    BY <2>1, <2>3, PartType
  <2> QED
    BY <2>2, <2>4
<1> QED
  BY <1>1 DEF Strip

\* The loop of Split: the pieces of the first i elements.
NextPieces(before, e, sep) ==
    IF e = sep THEN Append(before, <<>>) ELSE Append(Front(before), Append(Last(before), e))

IsPieces(cuts, S, text, sep) ==
    /\ cuts \in [0 .. Len(text) -> Seq(Seq(S)) \ {<<>>}] /\ cuts[0] = << <<>> >>
    /\ \A i \in 1 .. Len(text) : cuts[i] = NextPieces(cuts[i - 1], text[i], sep)

LEMMA NextPiecesType ==
    ASSUME NEW S, NEW before \in Seq(Seq(S)) \ {<<>>}, NEW e \in S, NEW sep
    PROVE  NextPieces(before, e, sep) \in Seq(Seq(S)) \ {<<>>}
<1>1. Last(before) \in Seq(S) /\ Front(before) \in Seq(Seq(S))
  BY LastType
<1>2. <<>> \in Seq(S)
  OBVIOUS
<1>3. Append(before, <<>>) \in Seq(Seq(S)) /\ Append(before, <<>>) # <<>>
  BY <1>2, AppendProperties
<1>4. Append(Last(before), e) \in Seq(S)
  BY <1>1, AppendProperties
<1>5. /\ Append(Front(before), Append(Last(before), e)) \in Seq(Seq(S))
      /\ Append(Front(before), Append(Last(before), e)) # <<>>
  <2> DEFINE w == Append(Last(before), e)
             v == Front(before)
  <2>1. w \in Seq(S) /\ v \in Seq(Seq(S))
    BY <1>1, <1>4
  <2> HIDE DEF w, v
  <2>2. Append(v, w) \in Seq(Seq(S)) /\ Append(v, w) # <<>>
    BY <2>1, AppendProperties
  <2> QED
    BY <2>2 DEF w, v
<1> QED
  BY <1>3, <1>5 DEF NextPieces

LEMMA SplitIs ==
    ASSUME NEW S, NEW text \in Seq(S), NEW sep
    PROVE  \E cuts : IsPieces(cuts, S, text, sep) /\ Split(text, sep) = cuts[Len(text)]
<1> DEFINE n == Len(text)
           Q == Seq(Seq(S)) \ {<<>>}
           next(x, i) == NextPieces(x, text[i], sep)
           body(f, i) == IF i = 0 THEN << <<>> >>
                         ELSE LET before == f[i - 1]
                              IN  IF text[i] = sep THEN Append(before, <<>>)
                                  ELSE Append(Front(before), Append(Last(before), text[i]))
           h == [i \in 1 .. n |-> [x \in Q |-> next(x, i)]]
           cuts == CHOOSE f : f = [i \in 0 .. n |-> body(f, i)]
<1>1. n \in Nat /\ 0 \in 0 .. n /\ n \in 0 .. n
  OBVIOUS
<1>2. << <<>> >> \in Q
  <2>1. <<>> \in Seq(S)
    OBVIOUS
  <2> QED
    BY <2>1
<1>3. \A i \in 1 .. n, x \in Q : next(x, i) \in Q
  <2> TAKE i \in 1 .. n, x \in Q
  <2>1. text[i] \in S
    OBVIOUS
  <2> QED
    BY <2>1, NextPiecesType
<1>4. Split(text, sep) = cuts[n]
  BY DEF Split
<1>5. \A f : \A i \in 1 .. n : body(f, i) = next(f[i - 1], i)
  <2> TAKE f
  <2> TAKE i \in 1 .. n
  <2>1. i # 0
    OBVIOUS
  <2> QED
    BY <2>1 DEF NextPieces
<1>6. \A f : body(f, 0) = << <<>> >>
  OBVIOUS
<1> HIDE DEF n, Q, next, body
<1>7. \E f : f = [i \in 0 .. n |-> body(f, i)]
  <2>1. Loop(h, << <<>> >>, Q, n)
    BY <1>1, <1>2, <1>3 DEF Loop
  <2>2. \A i \in 1 .. n, x \in Q : h[i][x] = next(x, i)
    OBVIOUS
  <2> HIDE DEF h
  <2>3. PICK f \in [0 .. n -> Q] :
           f[0] = << <<>> >> /\ \A i \in 1 .. n : f[i] = h[i][f[i - 1]]
    BY <2>1, LoopRecursion
  <2>4. ASSUME NEW i \in 0 .. n PROVE f[i] = body(f, i)
    <3>1. CASE i = 0
      BY <1>6, <2>3, <3>1
    <3>2. CASE i # 0
      <4>1. i \in 1 .. n /\ i - 1 \in 0 .. n
        BY <1>1, <3>2
      <4>2. f[i - 1] \in Q
        BY <2>3, <4>1
      <4> QED
        BY <1>5, <2>2, <2>3, <4>1, <4>2
    <3> QED
      BY <3>1, <3>2
  <2> QED
    BY <2>3, <2>4
<1>8. cuts = [i \in 0 .. n |-> body(cuts, i)]
  BY <1>7
<1> HIDE DEF cuts, h
<1>9. cuts[0] = << <<>> >>
  BY <1>1, <1>6, <1>8
<1>10. \A i \in 1 .. n : cuts[i] = next(cuts[i - 1], i)
  <2> TAKE i \in 1 .. n
  <2>1. i \in 0 .. n
    BY <1>1
  <2> QED
    BY <1>5, <1>8, <2>1
<1> DEFINE T == {i \in 0 .. n : cuts[i] \in Q}
<1>11. 0 .. n \subseteq T
  <2>1. 0 \in T
    BY <1>1, <1>2, <1>9
  <2>2. \A i \in 0 .. n - 1 : i \in T => i + 1 \in T
    <3> SUFFICES ASSUME NEW i \in 0 .. n - 1, i \in T PROVE i + 1 \in T
      OBVIOUS
    <3>1. i + 1 \in 1 .. n /\ i + 1 \in 0 .. n /\ (i + 1) - 1 = i
      BY <1>1
    <3>2. cuts[i + 1] = next(cuts[i], i + 1)
      BY <1>10, <3>1
    <3> QED
      BY <1>3, <3>1, <3>2
  <2> HIDE DEF T
  <2> QED
    BY <1>1, <2>1, <2>2, UpTo
<1>12. cuts \in [0 .. n -> Q]
  <2>1. cuts = [i \in 0 .. n |-> cuts[i]]
    BY <1>8
  <2> QED
    BY <1>11, <2>1
<1> QED
  BY <1>4, <1>9, <1>10, <1>12 DEF IsPieces, n, Q, next

LEMMA SplitType ==
    ASSUME NEW S, NEW text \in Seq(S), NEW sep
    PROVE  Split(text, sep) \in Seq(Seq(S)) /\ Split(text, sep) # <<>>
<1>1. PICK cuts : IsPieces(cuts, S, text, sep) /\ Split(text, sep) = cuts[Len(text)]
  BY SplitIs
<1>2. Len(text) \in 0 .. Len(text)
  OBVIOUS
<1> QED
  BY <1>1, <1>2 DEF IsPieces

\* Delimiters that do not overlap: what Spans is called with.
Spannable(text, open, close, ends) ==
    /\ open \in Nat \ {0} /\ close \in 1 .. 2
    /\ DOMAIN ends \subseteq 1 .. Len(text)
    /\ \A s \in DOMAIN ends : ends[s] \subseteq s + open .. Len(text)

StartsFrom(ends, i) == {s \in DOMAIN ends : s >= i /\ ends[s] # {}}

\* The texts found from position i on.
IsFound(found, S, text, open, close, ends) ==
    /\ found \in [1 .. Len(text) + 2 -> Seq(Seq(S))]
    /\ \A i \in 1 .. Len(text) + 2 :
          LET s == Min(StartsFrom(ends, i))
              e == Min(ends[s])
          IN  found[i] = IF StartsFrom(ends, i) = {} THEN <<>>
                         ELSE <<SubSeq(text, s + open, e - 1)>> \o found[e + close]

\* The first of the texts, and where the search goes on.
LEMMA FirstSpan ==
    ASSUME NEW S, NEW text \in Seq(S), NEW open, NEW close, NEW ends,
           Spannable(text, open, close, ends), NEW i \in Nat, StartsFrom(ends, i) # {}
    PROVE  LET s == Min(StartsFrom(ends, i))
               e == Min(ends[s])
           IN  /\ s \in DOMAIN ends /\ e \in ends[s]
               /\ s \in 1 .. Len(text) /\ i <= s /\ e \in s + open .. Len(text) /\ open \in Nat \ {0}
               /\ close \in 1 .. 2 /\ e + close \in 1 .. Len(text) + 2 /\ i < e + close
               /\ SubSeq(text, s + open, e - 1) \in Seq(S)
<1> DEFINE H == StartsFrom(ends, i)
           s == Min(H)
           e == Min(ends[s])
<1>1. H \subseteq 1 .. Len(text) /\ Len(text) \in Nat /\ H # {}
  BY DEF StartsFrom, Spannable
<1>2. s \in H
  <2> HIDE DEF H
  <2> QED
    BY <1>1, EndsOf
<1>3. s \in 1 .. Len(text) /\ s >= i /\ ends[s] # {} /\ s \in DOMAIN ends
  BY <1>1, <1>2 DEF StartsFrom
<1> HIDE DEF s, H
<1>4. open \in Nat \ {0} /\ close \in 1 .. 2 /\ ends[s] \subseteq s + open .. Len(text)
  BY <1>3 DEF Spannable
<1>5. e \in ends[s]
  <2>1. ends[s] \subseteq 1 .. Len(text)
    BY <1>1, <1>3, <1>4
  <2> DEFINE P == ends[s]
             n == Len(text)
  <2>2. n \in Nat /\ P \subseteq 1 .. n /\ P # {}
    BY <1>1, <1>3, <2>1
  <2> HIDE DEF P, n
  <2>3. Min(P) \in P
    BY <2>2, EndsOf
  <2> QED
    BY <2>3 DEF P
<1>6. e \in s + open .. Len(text)
  BY <1>4, <1>5
<1> HIDE DEF e
<1>7. e + close \in 1 .. Len(text) + 2 /\ i < e + close /\ 1 <= s + open
      /\ s + open \in Int /\ e - 1 \in Int /\ e - 1 <= Len(text)
  BY <1>1, <1>3, <1>4, <1>6
<1>8. SubSeq(text, s + open, e - 1) \in Seq(S)
  BY <1>7, PartType
<1> QED
  BY <1>1, <1>3, <1>4, <1>5, <1>6, <1>7, <1>8 DEF e, s, H

LEMMA SpansIs ==
    ASSUME NEW S, NEW text \in Seq(S), NEW open, NEW close, NEW ends,
           Spannable(text, open, close, ends)
    PROVE  \E found : /\ IsFound(found, S, text, open, close, ends)
                      /\ Spans(text, open, close, ends) = found[1]
<1> DEFINE n == Len(text)
           D == 1 .. n + 2
           Q == Seq(Seq(S))
           s(i) == Min(StartsFrom(ends, i))
           e(i) == Min(ends[s(i)])
           none(i) == StartsFrom(ends, i) = {}
           part(i) == SubSeq(text, s(i) + open, e(i) - 1)
           body(f, i) == IF none(i) THEN <<>> ELSE <<part(i)>> \o f[e(i) + close]
           h == [i \in D |-> [f \in [D -> Q] |-> body(f, i)]]
           rank == [i \in D |-> n + 2 - i]
           found == CHOOSE f : f = [i \in D |-> body(f, i)]
<1>1. n \in Nat /\ 1 \in D
  OBVIOUS
<1>2. \A i \in D : ~ none(i) => /\ part(i) \in Seq(S) /\ e(i) + close \in D
                                /\ i < e(i) + close /\ e(i) + close \in Nat
  <2> TAKE i \in D
  <2> HAVE ~ none(i)
  <2>1. i \in Nat
    OBVIOUS
  <2>2. /\ part(i) \in Seq(S) /\ e(i) + close \in 1 .. Len(text) + 2 /\ i < e(i) + close
    <3>1. StartsFrom(ends, i) # {}
      OBVIOUS
    <3> QED
      BY <2>1, <3>1, FirstSpan
  <2> HIDE DEF e, part
  <2> QED
    BY <1>1, <2>2
<1>3. Spans(text, open, close, ends) = found[1]
  BY DEF Spans, StartsFrom
<1>4. \A i \in D : n + 2 - i \in 0 .. n + 2
  BY <1>1
<1> HIDE DEF none, part, e, s
<1>5. \A i \in D : \A f \in [D -> Q] : body(f, i) \in Q
  <2> TAKE i \in D
  <2> TAKE f \in [D -> Q]
  <2>1. CASE none(i)
    BY <2>1
  <2>2. CASE ~ none(i)
    <3>1. part(i) \in Seq(S) /\ f[e(i) + close] \in Q
      BY <1>2, <2>2
    <3>2. <<part(i)>> \in Q
      BY <3>1
    <3> DEFINE x == <<part(i)>>
               y == f[e(i) + close]
    <3>3. x \in Seq(Seq(S)) /\ y \in Seq(Seq(S))
      BY <3>1, <3>2
    <3> HIDE DEF x, y
    <3>4. x \o y \in Seq(Seq(S))
      BY <3>3, ConcatProperties
    <3> QED
      BY <2>2, <3>4 DEF x, y
  <2> QED
    BY <2>1, <2>2
<1>6. ASSUME NEW i \in D, NEW f, NEW g, ~ none(i) => f[e(i) + close] = g[e(i) + close]
      PROVE  body(f, i) = body(g, i)
  BY <1>6
<1>7. /\ h \in [D -> [[D -> Q] -> Q]] /\ \A i \in D, f \in [D -> Q] : h[i][f] = body(f, i)
      /\ rank \in [D -> 0 .. n + 2] /\ \A i \in D : rank[i] = n + 2 - i
  <2> HIDE DEF body
  <2> QED
    BY <1>4, <1>5
<1>8. D \subseteq Nat
  BY <1>1
<1> HIDE DEF n, D, Q, body, h, rank, found
<1>9. \E f : f = [i \in D |-> body(f, i)]
  <2>1. ASSUME NEW i \in D, NEW f \in [D -> Q], NEW g \in [D -> Q],
               \A y \in D : rank[y] < rank[i] => f[y] = g[y]
        PROVE  h[i][f] = h[i][g]
    <3>1. ~ none(i) => f[e(i) + close] = g[e(i) + close]
      <4> SUFFICES ASSUME ~ none(i) PROVE f[e(i) + close] = g[e(i) + close]
        OBVIOUS
      <4> DEFINE y == e(i) + close
      <4>1. y \in D /\ i < y /\ y \in Nat
        BY <1>2
      <4> HIDE DEF y
      <4>2. rank[y] < rank[i]
        BY <1>1, <1>7, <1>8, <4>1
      <4> QED
        BY <2>1, <4>1, <4>2 DEF y
    <3>2. body(f, i) = body(g, i)
      BY <1>6, <3>1
    <3> QED
      BY <1>7, <3>2
  <2>2. Grounded(h, D, Q, rank, n + 2)
    <3>1. Q # {} /\ n + 2 \in Nat
      <4>1. <<>> \in Q
        BY DEF Q
      <4> QED
        BY <1>1, <4>1
    <3> QED
      BY <1>7, <2>1, <3>1 DEF Grounded
  <2>3. PICK f \in [D -> Q] : \A i \in D : f[i] = h[i][f]
    BY <2>2, RankedRecursion
  <2> QED
    BY <1>7, <2>3
<1>10. found = [i \in D |-> body(found, i)]
  BY <1>9 DEF found
<1>11. \A i \in D : found[i] \in Q
  <2> DEFINE T == {i \in D : found[i] \in Q}
             U == {i \in D : \A j \in D : j >= i => j \in T}
             N == n + 2
  <2>1. \A i \in D : (\A j \in D : i < j => j \in T) => i \in T
    <3> SUFFICES ASSUME NEW i \in D, \A j \in D : i < j => j \in T PROVE found[i] \in Q
      OBVIOUS
    <3>1. found[i] = body(found, i)
      BY <1>10
    <3> DEFINE f == [j \in D |-> IF j \in T THEN found[j] ELSE <<>>]
    <3>2. f \in [D -> Q]
      BY DEF Q
    <3>3. ~ none(i) => f[e(i) + close] = found[e(i) + close]
      BY <1>2
    <3>4. body(f, i) = body(found, i)
      BY <1>6, <3>3
    <3>5. body(f, i) \in Q
      BY <1>5, <3>2
    <3> QED
      BY <3>1, <3>4, <3>5
  <2>2. N \in U
    <3>1. N \in D /\ \A j \in D : ~ (N < j)
      BY <1>1 DEF D
    <3>2. \A j \in D : j >= N => j = N
      BY <1>1 DEF D
    <3> HIDE DEF N, T
    <3>3. N \in T
      BY <2>1, <3>1
    <3> QED
      BY <3>1, <3>2, <3>3
  <2>3. \A i \in 1 .. N - 1 : i + 1 \in U => i \in U
    <3> SUFFICES ASSUME NEW i \in 1 .. N - 1, i + 1 \in U PROVE i \in U
      OBVIOUS
    <3>1. i \in D /\ \A j \in D : (i < j => j >= i + 1) /\ (j >= i => i < j \/ j = i)
      BY <1>1 DEF D
    <3> HIDE DEF T
    <3>2. i \in T
      BY <2>1, <3>1
    <3> QED
      BY <3>1, <3>2
  <2>4. 1 .. N \subseteq U
    <3>1. N \in Nat
      BY <1>1
    <3> HIDE DEF U, N
    <3> QED
      BY <2>2, <2>3, <3>1, DownFrom
  <2> QED
    <3> SUFFICES ASSUME NEW i \in D PROVE i \in T
      OBVIOUS
    <3>1. i \in 1 .. N /\ i >= i
      BY <1>1 DEF D
    <3> HIDE DEF T
    <3> QED
      BY <2>4, <3>1
<1>12. found \in [D -> Q]
  <2>1. found = [i \in D |-> found[i]]
    BY <1>10
  <2> QED
    BY <1>11, <2>1
<1>13. \A i \in D : found[i] = body(found, i)
  BY <1>10
<1>14. IsFound(found, S, text, open, close, ends)
  BY <1>12, <1>13 DEF IsFound, n, D, Q, body, none, part, e, s
<1> QED
  BY <1>3, <1>14

LEMMA SpansType ==
    ASSUME NEW S, NEW text \in Seq(S), NEW open, NEW close, NEW ends,
           Spannable(text, open, close, ends)
    PROVE  Spans(text, open, close, ends) \in Seq(Seq(S))
<1>1. PICK found : /\ IsFound(found, S, text, open, close, ends)
                   /\ Spans(text, open, close, ends) = found[1]
  BY SpansIs
<1>2. 1 \in 1 .. Len(text) + 2
  OBVIOUS
<1> QED
  BY <1>1, <1>2 DEF IsFound

LEMMA BetweenSpans ==
    ASSUME NEW S, NEW text \in Seq(S), NEW open, NEW close, NEW barrier
    PROVE  \E ends : Spannable(text, 1, 1, ends)
                     /\ Between(text, open, close, barrier) = Spans(text, 1, 1, ends)
                     /\ \A s \in DOMAIN ends : text[s] = open /\ \A e \in ends[s] : text[e] = close
<1> DEFINE reach(s) == {e \in At(text, close) : s < e /\ \A k \in s + 1 .. e - 1 : text[k] \notin barrier}
           ends == [s \in At(text, open) |-> reach(s)]
<1>1. DOMAIN ends = At(text, open) /\ \A s \in At(text, open) : ends[s] = reach(s)
  OBVIOUS
<1>2. At(text, open) \subseteq 1 .. Len(text) /\ At(text, close) \subseteq 1 .. Len(text)
  BY AtType
<1>3. \A s \in At(text, open) : reach(s) \subseteq s + 1 .. Len(text)
  <2> SUFFICES ASSUME NEW s \in At(text, open), NEW e \in reach(s) PROVE e \in s + 1 .. Len(text)
    OBVIOUS
  <2>1. s \in 1 .. Len(text) /\ e \in 1 .. Len(text) /\ s < e /\ Len(text) \in Nat
    BY <1>2
  <2> QED
    BY <2>1
<1>4. \A s \in At(text, open) : text[s] = open /\ \A e \in reach(s) : text[e] = close
  BY DEF At
<1>5. Between(text, open, close, barrier) = Spans(text, 1, 1, ends)
  BY DEF Between
<1> HIDE DEF ends, reach
<1>6. Spannable(text, 1, 1, ends)
  <2>1. 1 \in Nat \ {0} /\ 1 \in 1 .. 2
    OBVIOUS
  <2> QED
    BY <1>1, <1>2, <1>3, <2>1 DEF Spannable
<1> QED
  BY <1>1, <1>4, <1>5, <1>6

LEMMA BetweenType ==
    ASSUME NEW S, NEW text \in Seq(S), NEW open, NEW close, NEW barrier
    PROVE  Between(text, open, close, barrier) \in Seq(Seq(S))
  BY BetweenSpans, SpansType

\* The loop of strip_think_tags: what is left from i on is the token there and
\* what is left after it, or what is left from a later token on.
IsUnthought(kept, S, text) ==
    /\ kept \in [1 .. Len(text) + 1 -> Seq(S)] /\ kept[Len(text) + 1] = <<>>
    /\ \A i \in 1 .. Len(text) :
          \/ kept[i] = <<text[i]>> \o kept[i + 1]
          \/ \E j \in i + 1 .. Len(text) + 1 : kept[i] = kept[j]

LEMMA StripThinkIs ==
    ASSUME NEW S, NEW text \in Seq(S)
    PROVE  \E kept : IsUnthought(kept, S, text) /\ StripThink(text) = kept[1]
<1> DEFINE n == Len(text)
           D == 1 .. n + 1
           Q == Seq(S)
           ends(i) == {e \in At(text, "</think>") : i < e}
           over(i) == text[i] = "<think>" /\ ends(i) # {}
           past(i) == Min(ends(i)) + 1
           body(f, i) == IF i > n THEN <<>>
                         ELSE IF over(i) THEN f[past(i)] ELSE <<text[i]>> \o f[i + 1]
           h == [i \in D |-> [f \in [D -> Q] |-> body(f, i)]]
           rank == [i \in D |-> n + 1 - i]
           kept == CHOOSE f : f = [i \in D |-> body(f, i)]
<1>1. n \in Nat /\ 1 \in D
  OBVIOUS
<1>2. \A i \in D : over(i) => past(i) \in D /\ i < past(i) /\ past(i) \in Nat
  <2> TAKE i \in D
  <2> HAVE over(i)
  <2> DEFINE P == ends(i)
  <2>1. P \subseteq 1 .. n /\ P # {}
    BY AtType
  <2>2. \A e \in P : i < e
    OBVIOUS
  <2>3. past(i) = Min(P) + 1
    OBVIOUS
  <2> HIDE DEF P, n
  <2>4. Min(P) \in P /\ Min(P) \in 1 .. n
    BY <1>1, <2>1, EndsOf
  <2>5. i < Min(P)
    BY <2>2, <2>4
  <2> QED
    BY <1>1, <2>3, <2>4, <2>5
<1>3. \A i \in D : ~ (i > n) => text[i] \in S /\ <<text[i]>> \in Q /\ i + 1 \in D
  <2> TAKE i \in D
  <2> HAVE ~ (i > n)
  <2>1. i \in 1 .. n /\ i + 1 \in D
    BY <1>1
  <2>2. text[i] \in S
    BY <2>1, ElementOfSeq
  <2> QED
    BY <2>1, <2>2
<1>4. StripThink(text) = kept[1]
  BY DEF StripThink
<1>5. \A i \in D : n + 1 - i \in 0 .. n + 1
  BY <1>1
<1> HIDE DEF over, past, ends
<1>6. \A i \in D : \A f \in [D -> Q] : body(f, i) \in Q
  <2> TAKE i \in D
  <2> TAKE f \in [D -> Q]
  <2>1. CASE i > n
    BY <2>1
  <2>2. CASE ~ (i > n) /\ over(i)
    BY <1>2, <2>2
  <2>3. CASE ~ (i > n) /\ ~ over(i)
    <3> DEFINE x == <<text[i]>>
               y == f[i + 1]
    <3>1. x \in Seq(S) /\ y \in Seq(S)
      BY <1>3, <2>3
    <3>2. body(f, i) = x \o y
      BY <2>3
    <3> HIDE DEF x, y, body
    <3>3. x \o y \in Seq(S)
      BY <3>1, ConcatProperties
    <3> QED
      BY <3>2, <3>3
  <2> QED
    BY <2>1, <2>2, <2>3
<1>7. ASSUME NEW i \in D, NEW f, NEW g, ~ (i > n) => f[i + 1] = g[i + 1],
             over(i) => f[past(i)] = g[past(i)]
      PROVE  body(f, i) = body(g, i)
  BY <1>7
<1>8. /\ h \in [D -> [[D -> Q] -> Q]] /\ \A i \in D, f \in [D -> Q] : h[i][f] = body(f, i)
      /\ rank \in [D -> 0 .. n + 1] /\ \A i \in D : rank[i] = n + 1 - i
  <2> HIDE DEF body
  <2> QED
    BY <1>5, <1>6
<1>9. D \subseteq Nat
  BY <1>1
<1> HIDE DEF body, h, rank, kept
<1>10. \E f : f = [i \in D |-> body(f, i)]
  <2>1. ASSUME NEW i \in D, NEW f \in [D -> Q], NEW g \in [D -> Q],
               \A y \in D : rank[y] < rank[i] => f[y] = g[y]
        PROVE  h[i][f] = h[i][g]
    <3>1. \A y \in D : i < y => f[y] = g[y]
      <4> SUFFICES ASSUME NEW y \in D, i < y PROVE rank[y] < rank[i]
        BY <2>1
      <4>1. rank[y] = n + 1 - y /\ rank[i] = n + 1 - i
        BY <1>8
      <4> QED
        BY <1>1, <4>1
    <3>2. ~ (i > n) => f[i + 1] = g[i + 1]
      BY <1>3, <3>1
    <3>3. over(i) => f[past(i)] = g[past(i)]
      BY <1>2, <3>1
    <3>4. body(f, i) = body(g, i)
      BY <1>7, <3>2, <3>3
    <3> QED
      BY <1>8, <3>4
  <2>2. Grounded(h, D, Q, rank, n + 1)
    <3>1. Q # {} /\ n + 1 \in Nat
      <4>1. <<>> \in Q
        OBVIOUS
      <4> QED
        BY <1>1, <4>1
    <3> HIDE DEF D, Q
    <3> QED
      BY <1>8, <2>1, <3>1 DEF Grounded
  <2> HIDE DEF D, Q
  <2>3. PICK f \in [D -> Q] : \A i \in D : f[i] = h[i][f]
    BY <2>2, RankedRecursion
  <2> QED
    BY <1>8, <2>3
<1> HIDE DEF Q, D
<1>11. kept = [i \in D |-> body(kept, i)]
  BY <1>10 DEF kept
<1>12. \A i \in D : kept[i] \in Q
  <2> DEFINE T == {i \in D : kept[i] \in Q}
             U == {i \in D : \A j \in D : j >= i => j \in T}
             N == n + 1
  <2>1. \A i \in D : (\A j \in D : i < j => j \in T) => i \in T
    <3> SUFFICES ASSUME NEW i \in D, \A j \in D : i < j => j \in T PROVE kept[i] \in Q
      OBVIOUS
    <3>1. kept[i] = body(kept, i)
      BY <1>11
    <3> DEFINE f == [j \in D |-> IF j \in T THEN kept[j] ELSE <<>>]
    <3>2. f \in [D -> Q]
      BY DEF Q
    <3>3. \A j \in D : i < j => f[j] = kept[j]
      OBVIOUS
    <3> HIDE DEF f, T
    <3>4. ~ (i > n) => f[i + 1] = kept[i + 1]
      <4>1. i \in Nat /\ i < i + 1
        BY <1>9
      <4>2. ~ (i > n) => i + 1 \in D
        BY <1>3
      <4> QED
        BY <3>3, <4>1, <4>2
    <3>5. over(i) => f[past(i)] = kept[past(i)]
      BY <1>2, <3>3
    <3>6. body(f, i) = body(kept, i)
      BY <1>7, <3>4, <3>5
    <3>7. body(f, i) \in Q
      BY <1>6, <3>2
    <3> QED
      BY <3>1, <3>6, <3>7
  <2>2. N \in U
    <3>1. N \in D /\ \A j \in D : ~ (N < j)
      BY <1>1 DEF D
    <3>2. \A j \in D : j >= N => j = N
      BY <1>1 DEF D
    <3> HIDE DEF N, T
    <3>3. N \in T
      BY <2>1, <3>1
    <3> QED
      BY <3>1, <3>2, <3>3
  <2>3. \A i \in 1 .. N - 1 : i + 1 \in U => i \in U
    <3> SUFFICES ASSUME NEW i \in 1 .. N - 1, i + 1 \in U PROVE i \in U
      OBVIOUS
    <3>1. i \in D /\ \A j \in D : (i < j => j >= i + 1) /\ (j >= i => i < j \/ j = i)
      BY <1>1 DEF D
    <3> HIDE DEF T
    <3>2. i \in T
      BY <2>1, <3>1
    <3> QED
      BY <3>1, <3>2
  <2>4. 1 .. N \subseteq U
    <3>1. N \in Nat
      BY <1>1
    <3> HIDE DEF U, N
    <3> QED
      BY <2>2, <2>3, <3>1, DownFrom
  <2> QED
    <3> SUFFICES ASSUME NEW i \in D PROVE i \in T
      OBVIOUS
    <3>1. i \in 1 .. N /\ i >= i
      BY <1>1 DEF D
    <3> HIDE DEF T
    <3> QED
      BY <2>4, <3>1
<1>13. kept[n + 1] = <<>>
  <2>1. n + 1 \in D /\ n + 1 > n
    BY <1>1 DEF D
  <2> QED
    BY <1>11, <2>1 DEF body
<1>14. ASSUME NEW i \in 1 .. n
       PROVE  \/ kept[i] = <<text[i]>> \o kept[i + 1]
              \/ \E j \in i + 1 .. n + 1 : kept[i] = kept[j]
  <2>1. i \in D /\ ~ (i > n) /\ i \in Nat
    BY <1>1 DEF D
  <2>2. kept[i] = IF over(i) THEN kept[past(i)] ELSE <<text[i]>> \o kept[i + 1]
    BY <1>11, <2>1 DEF body
  <2>3. over(i) => past(i) \in i + 1 .. n + 1
    <3>1. over(i) => past(i) \in D /\ i < past(i) /\ past(i) \in Nat
      BY <1>2, <2>1
    <3> HIDE DEF past
    <3> QED
      BY <1>1, <2>1, <3>1 DEF D
  <2> QED
    BY <2>2, <2>3
<1>15. kept \in [D -> Q]
  <2> HIDE DEF body
  <2> QED
    BY <1>11, <1>12
<1>16. IsUnthought(kept, S, text)
  BY <1>13, <1>14, <1>15 DEF IsUnthought, D, Q
<1> QED
  BY <1>4, <1>16

LEMMA StripThinkType ==
    ASSUME NEW S, NEW text \in Seq(S)
    PROVE  StripThink(text) \in Seq(S)
<1>1. PICK kept : IsUnthought(kept, S, text) /\ StripThink(text) = kept[1]
  BY StripThinkIs
<1>2. 1 \in 1 .. Len(text) + 1
  OBVIOUS
<1> QED
  BY <1>1, <1>2 DEF IsUnthought

\* Lines, stripped pieces and the last of them are texts.
LEMMA PiecesTypes ==
    ASSUME NEW S, NEW text \in Seq(S), NEW sep
    PROVE  /\ StrippedPieces(text, sep) \in Seq(Seq(S))
           /\ Lines(text) \in Seq(Seq(S))
           /\ LastLine(text) \in Seq(S)
<1>1. \A by : StrippedPieces(text, by) \in Seq(Seq(S))
  <2> TAKE by
  <2> DEFINE cuts == Split(text, by)
  <2>1. cuts \in Seq(Seq(S))
    BY SplitType
  <2> HIDE DEF cuts
  <2>2. \A i \in DOMAIN cuts : Strip(cuts[i]) \in Seq(S)
    <3> TAKE i \in DOMAIN cuts
    <3>1. cuts[i] \in Seq(S)
      BY <2>1
    <3> QED
      BY <3>1, StripType
  <2>3. [i \in DOMAIN cuts |-> Strip(cuts[i])] \in Seq(Seq(S))
    BY <2>1, <2>2
  <2> QED
    BY <2>3 DEF StrippedPieces, cuts
<1>2. Lines(text) \in Seq(Seq(S))
  BY <1>1, WithoutType DEF Lines, NonEmpty
<1>3. LastLine(text) \in Seq(S)
  <2>1. Lines(text) # <<>> => Last(Lines(text)) \in Seq(S)
    BY <1>2, LastType
  <2> QED
    BY <2>1 DEF LastLine
<1> QED
  BY <1>1, <1>2, <1>3

LEMMA NonEmptyType ==
    ASSUME NEW S, NEW texts \in Seq(S)
    PROVE  NonEmpty(texts) \in Seq(S \ {<<>>}) /\ NonEmpty(texts) \in Seq(S)
  BY WithoutType DEF NonEmpty

LEMMA LastSolutionType ==
    ASSUME NEW S, NEW text \in Seq(S)
    PROVE  LastSolution(text) \in Seq(S)
<1> DEFINE matches == Between(text, "<solution>", "</solution>", {})
<1>1. matches \in Seq(Seq(S))
  BY BetweenType
<1>2. LastSolution(text) = IF matches = <<>> THEN text ELSE Strip(Last(matches))
  BY DEF LastSolution
<1> HIDE DEF matches
<1>3. matches # <<>> => Strip(Last(matches)) \in Seq(S)
  BY <1>1, LastType, StripType
<1> QED
  BY <1>2, <1>3

LEMMA LastTokensType ==
    ASSUME NEW S, NEW text \in Seq(S), NEW n \in Nat
    PROVE  LastTokens(text, n) \in Seq(S)
<1>1. n < Len(text) => SubSeq(text, Len(text) - n + 1, Len(text)) \in Seq(S)
  <2> SUFFICES ASSUME n < Len(text) PROVE SubSeq(text, Len(text) - n + 1, Len(text)) \in Seq(S)
    OBVIOUS
  <2>1. Len(text) \in Int /\ Len(text) - n + 1 \in Int /\ 1 <= Len(text) - n + 1
    OBVIOUS
  <2> QED
    BY <2>1, PartType
<1> QED
  BY <1>1 DEF LastTokens

-----------------------------------------------------------------------------
(* \boxed                                                                  *)

\* Tokens by name: the proofs use that they differ, and nothing else of them.
OpenBrace == "{"
CloseBrace == "}"
Space == " "
Comma == ","

LEMMA TokensDiffer ==
    /\ OpenBrace # CloseBrace /\ OpenBrace # Space /\ OpenBrace \notin Blank
    /\ "boxed" # OpenBrace /\ "boxed" # CloseBrace
  BY Zenon DEF OpenBrace, CloseBrace, Space, Blank

LEMMA ClosingsAre ==
    \A text, i : Closings(text, i) =
        {e \in At(text, CloseBrace) :
            i <= e /\ Count(SubSeq(text, i, e), OpenBrace) = Count(SubSeq(text, i, e), CloseBrace)}
  BY Zenon DEF Closings, OpenBrace, CloseBrace

LEMMA LastBoxedIs ==
    \A text :
        LET boxes == At(text, "boxed")
            braces == {i \in At(text, OpenBrace) : i > Max(boxes)}
            closings == Closings(text, Min(braces))
        IN  LastBoxed(text) =
                IF boxes = {} \/ braces = {} \/ closings = {} THEN <<>>
                ELSE <<SubSeq(text, Min(braces) + 1, Min(closings) - 1)>>
  BY Zenon DEF LastBoxed, OpenBrace

LEMMA BoxedTextIs ==
    \A text :
        LET boxes == At(text, "boxed")
            spaced == {p \in boxes : p + 1 \in At(text, Space)}
            last == Max(boxes)
            closings == Closings(text, last)
        IN  BoxedText(text) =
                IF spaced # {} THEN <<Split(SubSeq(text, Max(spaced) + 2, Len(text)), "$")[1]>>
                ELSE IF boxes # {} /\ closings # {} /\ last + 1 \in At(text, OpenBrace)
                THEN <<Without(SubSeq(text, last + 2, Min(closings) - 1), {"$"})>> ELSE <<>>
  BY Zenon DEF BoxedText, OpenBrace, Space

LEMMA ExtractBoxedIs ==
    \A text :
        LET open(p) == {i \in At(text, OpenBrace) : p < i /\ \A k \in p + 1 .. i - 1 : text[k] \in Blank}
            boxes == {p \in At(text, "boxed") : open(p) # {}}
            brace == Min(open(Max(boxes)))
            closings == Closings(text, brace)
        IN  ExtractBoxed(text) =
                IF boxes = {} \/ closings = {} THEN <<>>
                ELSE NonEmpty(<<Strip(SubSeq(text, brace + 1, Min(closings) - 1))>>)
  BY Zenon DEF ExtractBoxed, OpenBrace

LEMMA ClosingsType ==
    ASSUME NEW S, NEW text \in Seq(S), NEW i \in Nat
    PROVE  /\ Closings(text, i) \subseteq 1 .. Len(text)
           /\ \A e \in Closings(text, i) : i <= e /\ text[e] = CloseBrace
  BY ClosingsAre DEF At

\* What is boxed between a brace and the first that closes it.
LEMMA InBracesType ==
    ASSUME NEW S, NEW text \in Seq(S), NEW brace \in 1 .. Len(text), Closings(text, brace) # {}
    PROVE  /\ Min(Closings(text, brace)) \in brace .. Len(text)
           /\ SubSeq(text, brace + 1, Min(Closings(text, brace)) - 1) \in Seq(S)
<1> DEFINE n == Len(text)
           P == Closings(text, brace)
<1>1. n \in Nat /\ P \subseteq 1 .. n /\ P # {} /\ \A e \in P : brace <= e
  BY ClosingsType
<1> HIDE DEF P, n
<1>2. Min(P) \in 1 .. n /\ brace <= Min(P)
  BY <1>1, EndsOf
<1> DEFINE e == Min(P)
<1>3. e \in 1 .. n /\ brace <= e
  BY <1>2
<1> HIDE DEF e
<1>4. brace + 1 \in Int /\ e - 1 \in Int /\ 1 <= brace + 1 /\ e - 1 <= n /\ e \in brace .. n
  BY <1>1, <1>3 DEF n
<1>5. SubSeq(text, brace + 1, e - 1) \in Seq(S)
  BY <1>4, PartType DEF n
<1> QED
  BY <1>4, <1>5 DEF e, P, n

LEMMA LastBoxedType ==
    ASSUME NEW S, NEW text \in Seq(S)
    PROVE  LastBoxed(text) \in Seq(Seq(S))
<1> DEFINE boxes == At(text, "boxed")
           braces == {i \in At(text, OpenBrace) : i > Max(boxes)}
           brace == Min(braces)
           closings == Closings(text, brace)
           inside == SubSeq(text, brace + 1, Min(closings) - 1)
<1>1. LastBoxed(text) = IF boxes = {} \/ braces = {} \/ closings = {} THEN <<>> ELSE <<inside>>
  BY LastBoxedIs
<1>2. braces # {} => brace \in 1 .. Len(text)
  <2> SUFFICES ASSUME braces # {} PROVE brace \in 1 .. Len(text)
    OBVIOUS
  <2>1. braces \subseteq 1 .. Len(text) /\ Len(text) \in Nat
    BY DEF At
  <2> HIDE DEF braces
  <2> QED
    BY <2>1, EndsOf
<1> HIDE DEF brace, braces, boxes
<1>3. brace \in 1 .. Len(text) /\ closings # {} => inside \in Seq(S)
  BY InBracesType
<1> HIDE DEF inside, closings
<1> QED
  BY <1>1, <1>2, <1>3

LEMMA ExtractBoxedType ==
    ASSUME NEW S, NEW text \in Seq(S)
    PROVE  ExtractBoxed(text) \in Seq(Seq(S))
<1> DEFINE open(p) == {i \in At(text, OpenBrace) : p < i /\ \A k \in p + 1 .. i - 1 : text[k] \in Blank}
           boxes == {p \in At(text, "boxed") : open(p) # {}}
           brace == Min(open(Max(boxes)))
           closings == Closings(text, brace)
           inside == SubSeq(text, brace + 1, Min(closings) - 1)
<1>1. ExtractBoxed(text) = IF boxes = {} \/ closings = {} THEN <<>> ELSE NonEmpty(<<Strip(inside)>>)
  BY ExtractBoxedIs
<1>2. boxes # {} => brace \in 1 .. Len(text)
  <2> SUFFICES ASSUME boxes # {} PROVE brace \in 1 .. Len(text)
    OBVIOUS
  <2> DEFINE n == Len(text)
             P == open(Max(boxes))
  <2>1. boxes \subseteq 1 .. n /\ n \in Nat
    BY DEF At
  <2>2. \A p : open(p) \subseteq 1 .. n
    BY DEF At
  <2>3. \A p \in boxes : open(p) # {}
    OBVIOUS
  <2> HIDE DEF boxes, n, open
  <2>4. Max(boxes) \in boxes
    BY <2>1, EndsOf
  <2>5. P # {} /\ P \subseteq 1 .. n
    BY <2>2, <2>3, <2>4
  <2> HIDE DEF P
  <2>6. Min(P) \in 1 .. n
    BY <2>1, <2>5, EndsOf
  <2> QED
    BY <2>6 DEF P, n
<1> HIDE DEF brace, boxes
<1>3. brace \in 1 .. Len(text) /\ closings # {} => inside \in Seq(S)
  BY InBracesType
<1> HIDE DEF inside, closings
<1>4. inside \in Seq(S) => NonEmpty(<<Strip(inside)>>) \in Seq(Seq(S))
  <2> SUFFICES ASSUME inside \in Seq(S) PROVE NonEmpty(<<Strip(inside)>>) \in Seq(Seq(S))
    OBVIOUS
  <2>1. Strip(inside) \in Seq(S)
    BY StripType
  <2>2. <<Strip(inside)>> \in Seq(Seq(S))
    BY <2>1
  <2> DEFINE x == <<Strip(inside)>>
  <2>3. x \in Seq(Seq(S))
    BY <2>2
  <2> HIDE DEF x
  <2>4. NonEmpty(x) \in Seq(Seq(S))
    BY <2>3, NonEmptyType
  <2> QED
    BY <2>4 DEF x
<1> QED
  BY <1>1, <1>2, <1>3, <1>4

LEMMA BoxedTextType ==
    ASSUME NEW S, NEW text \in Seq(S)
    PROVE  BoxedText(text) \in Seq(Seq(S))
<1> DEFINE boxes == At(text, "boxed")
           spaced == {p \in boxes : p + 1 \in At(text, Space)}
           last == Max(boxes)
           closings == Closings(text, last)
           behind == SubSeq(text, Max(spaced) + 2, Len(text))
           inside == SubSeq(text, last + 2, Min(closings) - 1)
           n == Len(text)
<1>1. BoxedText(text) = IF spaced # {} THEN <<Split(behind, "$")[1]>>
                        ELSE IF boxes # {} /\ closings # {} /\ last + 1 \in At(text, OpenBrace)
                        THEN <<Without(inside, {"$"})>> ELSE <<>>
  BY BoxedTextIs
<1>2. boxes \subseteq 1 .. n /\ spaced \subseteq 1 .. n /\ n \in Nat
  BY DEF At
<1>3. spaced # {} => Split(behind, "$")[1] \in Seq(S)
  <2> SUFFICES ASSUME spaced # {} PROVE Split(behind, "$")[1] \in Seq(S)
    OBVIOUS
  <2> DEFINE m == Max(spaced)
  <2>1. m \in 1 .. n
    <3> HIDE DEF spaced, n
    <3> QED
      BY <1>2, EndsOf
  <2> HIDE DEF m, spaced
  <2>2. m + 2 \in Int /\ 1 <= m + 2
    BY <1>2, <2>1
  <2>3. SubSeq(text, m + 2, Len(text)) \in Seq(S)
    BY <1>2, <2>2, PartType
  <2>4. behind \in Seq(S)
    BY <2>3 DEF m
  <2> HIDE DEF behind
  <2>5. Split(behind, "$") \in Seq(Seq(S)) /\ Split(behind, "$") # <<>>
    BY <2>4, SplitType
  <2> QED
    BY <2>5, LastType
<1>4. boxes # {} /\ closings # {} => inside \in Seq(S)
  <2> SUFFICES ASSUME boxes # {}, closings # {} PROVE inside \in Seq(S)
    OBVIOUS
  <2>1. last \in 1 .. n
    <3> HIDE DEF boxes, n
    <3> QED
      BY <1>2, EndsOf
  <2> HIDE DEF last, boxes
  <2>2. Min(closings) \in last .. Len(text)
    BY <2>1, InBracesType
  <2> DEFINE e == Min(closings)
  <2>3. e \in last .. n
    BY <2>2
  <2> HIDE DEF e, n, closings
  <2>4. last + 2 \in Int /\ e - 1 \in Int /\ 1 <= last + 2 /\ e - 1 <= n
    BY <1>2, <2>1, <2>3
  <2>5. SubSeq(text, last + 2, e - 1) \in Seq(S)
    BY <2>4, PartType DEF n
  <2> QED
    BY <2>5 DEF e
<1> HIDE DEF inside, behind, closings, last, boxes, spaced
<1>5. inside \in Seq(S) => Without(inside, {"$"}) \in Seq(S)
  BY WithoutType
<1> QED
  BY <1>1, <1>3, <1>4, <1>5

\* A token in front of a text counts only as itself.
LEMMA CountBehind ==
    ASSUME NEW S, NEW s \in Seq(S), NEW x \in S, NEW t, x # t
    PROVE  Count(<<x>> \o s, t) = Count(s, t)
<1> DEFINE A == At(s, t)
           B == At(<<x>> \o s, t)
           f == [i \in A |-> i + 1]
           n == Len(s)
<1>1. n \in Nat /\ A = {i \in 1 .. n : s[i] = t} /\ DOMAIN f = A
  BY DEF At
<1>2. B = {i \in 1 .. n + 1 : i # 1 /\ s[i - 1] = t}
  <2>1. /\ <<x>> \in Seq(S) /\ Len(<<x>>) = 1 /\ <<x>>[1] = x
    OBVIOUS
  <2> DEFINE w == <<x>>
  <2>2. w \in Seq(S) /\ Len(w) = 1 /\ w[1] = x
    BY <2>1
  <2> HIDE DEF w
  <2>3. /\ w \o s \in Seq(S) /\ Len(w \o s) = 1 + n
        /\ \A i \in 1 .. 1 + n : (w \o s)[i] = IF i <= 1 THEN w[i] ELSE s[i - 1]
    <3>1. /\ w \o s \in Seq(S) /\ Len(w \o s) = Len(w) + Len(s)
          /\ \A i \in 1 .. Len(w) + Len(s) :
                (w \o s)[i] = IF i <= Len(w) THEN w[i] ELSE s[i - Len(w)]
      BY <2>2, ConcatProperties
    <3> QED
      BY <2>2, <3>1
  <2>4. DOMAIN (w \o s) = 1 .. n + 1
    BY <1>1, <2>3
  <2>5. \A i \in 1 .. n + 1 : (w \o s)[i] = IF i = 1 THEN x ELSE s[i - 1]
    <3> TAKE i \in 1 .. n + 1
    <3>1. i \in 1 .. 1 + n /\ (i <= 1 <=> i = 1)
      BY <1>1
    <3> QED
      BY <2>2, <2>3, <3>1
  <2>6. At(w \o s, t) = {i \in 1 .. n + 1 : i # 1 /\ s[i - 1] = t}
    BY <2>4, <2>5 DEF At
  <2> QED
    BY <2>6 DEF w
<1> HIDE DEF A, B, n
<1>3. \A i \in A : f[i] = i + 1 /\ f[i] \in B /\ i \in Int
  <2> TAKE i \in A
  <2>1. i \in 1 .. n /\ s[i] = t
    BY <1>1
  <2>2. i + 1 \in 1 .. n + 1 /\ i + 1 # 1 /\ (i + 1) - 1 = i
    BY <1>1, <2>1
  <2> QED
    BY <1>2, <2>1, <2>2
<1>4. \A j \in B : j - 1 \in A /\ f[j - 1] = j
  <2> TAKE j \in B
  <2>1. j \in 1 .. n + 1 /\ j # 1 /\ s[j - 1] = t
    BY <1>2
  <2>2. j - 1 \in 1 .. n /\ (j - 1) + 1 = j
    BY <1>1, <2>1
  <2> QED
    BY <1>1, <2>1, <2>2
<1>5. f \in Bijection(A, B)
  <2> HIDE DEF f
  <2>1. f \in [A -> B]
    <3>1. f = [i \in A |-> f[i]]
      BY <1>1 DEF f
    <3> QED
      BY <1>3, <3>1
  <2>2. f \in Injection(A, B)
    BY <1>3, <2>1 DEF Injection, IsInjective
  <2>3. f \in Surjection(A, B)
    BY <1>4, <2>1 DEF Surjection
  <2> QED
    BY <2>2, <2>3 DEF Bijection
<1>6. IsFiniteSet(A)
  <2>1. A \in SUBSET (1 .. n) /\ IsFiniteSet(1 .. n)
    BY <1>1, FS_Interval
  <2> QED
    BY <2>1, FS_Subset
<1>7. Cardinality(B) = Cardinality(A)
  BY <1>5, <1>6, FS_Bijection DEF ExistsBijection
<1> QED
  BY <1>7 DEF Count, A, B

\* The braces may as well be counted from \boxed on.
LEMMA ClosingsBehind ==
    ASSUME NEW S, NEW text \in Seq(S), NEW p \in 1 .. Len(text), text[p] \notin {OpenBrace, CloseBrace}
    PROVE  Closings(text, p) = Closings(text, p + 1)
<1> DEFINE cnt(i, e, t) == Count(SubSeq(text, i, e), t)
           n == Len(text)
<1>1. ASSUME NEW e \in p + 1 .. n, NEW t, t \in {OpenBrace, CloseBrace}
      PROVE  cnt(p, e, t) = cnt(p + 1, e, t)
  <2>1. p \in 1 .. n /\ e \in p .. n /\ n \in Nat
    OBVIOUS
  <2>2. SubSeq(text, p, e) = <<text[p]>> \o SubSeq(text, p + 1, e)
    BY <2>1, SubSeqRecursiveFirst
  <2> DEFINE w == SubSeq(text, p + 1, e)
  <2>3. w \in Seq(S)
    <3>1. p + 1 \in Int /\ e \in Int /\ 1 <= p + 1 /\ e <= Len(text)
      BY <2>1
    <3> QED
      BY <3>1, PartType
  <2>4. text[p] \in S /\ text[p] # t
    BY <1>1, ElementOfSeq
  <2> HIDE DEF w
  <2>5. Count(<<text[p]>> \o w, t) = Count(w, t)
    BY <2>3, <2>4, CountBehind
  <2> QED
    BY <2>2, <2>5 DEF w
<1>2. \A e \in At(text, CloseBrace) : e \in 1 .. n /\ text[e] = CloseBrace /\ e # p
  BY DEF At
<1>3. \A e \in At(text, CloseBrace) : (p <= e <=> e \in p + 1 .. n) /\ (p + 1 <= e <=> e \in p + 1 .. n)
  <2> TAKE e \in At(text, CloseBrace)
  <2>1. e \in 1 .. n /\ e # p /\ n \in Nat
    BY <1>2
  <2> QED
    BY <2>1
<1>4. /\ Closings(text, p) = {e \in At(text, CloseBrace) : p <= e /\ cnt(p, e, OpenBrace) = cnt(p, e, CloseBrace)}
      /\ Closings(text, p + 1) = {e \in At(text, CloseBrace) : p + 1 <= e /\ cnt(p + 1, e, OpenBrace) = cnt(p + 1, e, CloseBrace)}
  BY ClosingsAre
<1>5. \A e \in p + 1 .. n : cnt(p, e, OpenBrace) = cnt(p + 1, e, OpenBrace) /\ cnt(p, e, CloseBrace) = cnt(p + 1, e, CloseBrace)
  BY <1>1
<1> HIDE DEF cnt, n
<1> QED
  BY <1>3, <1>4, <1>5

\* The three extractors find the same text if every \boxed has its brace.
LEMMA BoxedAgree ==
    ASSUME NEW text \in Texts, \A i \in At(text, "boxed") : i + 1 \in At(text, OpenBrace)
    PROVE  LET box == LastBoxed(text)
           IN  /\ BoxedText(text) = [i \in DOMAIN box |-> Without(box[i], {"$"})]
               /\ ExtractBoxed(text) = NonEmpty([i \in DOMAIN box |-> Strip(box[i])])
<1> DEFINE n == Len(text)
           boxes == At(text, "boxed")
           last == Max(boxes)
           braces == {i \in At(text, OpenBrace) : i > last}
           spaced == {p \in boxes : p + 1 \in At(text, Space)}
           open(p) == {i \in At(text, OpenBrace) : p < i /\ \A k \in p + 1 .. i - 1 : text[k] \in Blank}
           opened == {p \in boxes : open(p) # {}}
<1>1. text \in Seq(STRING) /\ n \in Nat /\ DOMAIN text = 1 .. n
  BY DEF Texts
<1>2. \A t : At(text, t) \subseteq 1 .. n /\ \A i \in At(text, t) : text[i] = t
  BY <1>1 DEF At
<1>3. spaced = {}
  <2>1. \A p \in boxes : text[p + 1] = OpenBrace
    BY <1>2
  <2>2. \A p : p + 1 \in At(text, Space) => text[p + 1] = Space
    BY <1>2
  <2> QED
    BY <2>1, <2>2, TokensDiffer
<1>4. opened = boxes
  <2> SUFFICES ASSUME NEW p \in boxes PROVE p + 1 \in open(p)
    OBVIOUS
  <2>1. p \in 1 .. n /\ p + 1 \in At(text, OpenBrace)
    BY <1>2
  <2>2. p < p + 1 /\ p + 1 .. (p + 1) - 1 = {}
    BY <1>1, <2>1
  <2> QED
    BY <2>1, <2>2
<1>5. /\ LastBoxed(text) = IF boxes = {} \/ braces = {} \/ Closings(text, Min(braces)) = {} THEN <<>>
                           ELSE <<SubSeq(text, Min(braces) + 1, Min(Closings(text, Min(braces))) - 1)>>
      /\ BoxedText(text) = IF spaced # {} THEN <<Split(SubSeq(text, Max(spaced) + 2, Len(text)), "$")[1]>>
                           ELSE IF boxes # {} /\ Closings(text, last) # {} /\ last + 1 \in At(text, OpenBrace)
                           THEN <<Without(SubSeq(text, last + 2, Min(Closings(text, last)) - 1), {"$"})>>
                           ELSE <<>>
      /\ ExtractBoxed(text) = LET brace == Min(open(Max(opened)))
                                  closings == Closings(text, brace)
                              IN  IF opened = {} \/ closings = {} THEN <<>>
                                  ELSE NonEmpty(<<Strip(SubSeq(text, brace + 1, Min(closings) - 1))>>)
  BY LastBoxedIs, BoxedTextIs, ExtractBoxedIs
<1>6. CASE boxes = {}
  <2>1. LastBoxed(text) = <<>> /\ BoxedText(text) = <<>> /\ ExtractBoxed(text) = <<>>
    <3> HIDE DEF boxes, spaced, opened, open, braces, last
    <3> QED
      BY <1>3, <1>4, <1>5, <1>6
  <2>2. NonEmpty(<<>>) = <<>>
    BY WithoutOfNone DEF NonEmpty
  <2>3. [i \in DOMAIN <<>> |-> Without(<<>>[i], {"$"})] = <<>>
    OBVIOUS
  <2>4. [i \in DOMAIN <<>> |-> Strip(<<>>[i])] = <<>>
    OBVIOUS
  <2> QED
    BY <2>1, <2>2, <2>3, <2>4
<1>7. CASE boxes # {}
  <2>1. last \in boxes /\ last \in 1 .. n
    <3>1. boxes \subseteq 1 .. n
      BY <1>2
    <3> HIDE DEF boxes, n
    <3> QED
      BY <1>1, <1>7, <3>1, EndsOf
  <2>2. last + 1 \in At(text, OpenBrace) /\ text[last] = "boxed" /\ text[last + 1] = OpenBrace /\ last + 1 \in 1 .. n
    BY <1>2, <2>1
  <2> HIDE DEF last
  <2>3. Min(braces) = last + 1
    <3>1. braces \subseteq 1 .. n /\ last + 1 \in braces /\ \A i \in braces : i >= last + 1
      BY <1>1, <1>2, <2>1, <2>2
    <3> HIDE DEF braces, n
    <3>2. Min(braces) \in braces /\ Min(braces) \in 1 .. n /\ Min(braces) <= last + 1
      BY <1>1, <3>1, EndsOf
    <3> DEFINE m == Min(braces)
    <3>3. m \in 1 .. n /\ m <= last + 1 /\ m >= last + 1
      BY <3>1, <3>2
    <3> HIDE DEF m
    <3>4. m = last + 1
      BY <1>1, <2>1, <3>3
    <3> QED
      BY <3>4 DEF m
  <2>4. last + 1 \in braces
    BY <1>1, <2>1, <2>2
  <2>5. Closings(text, last) = Closings(text, last + 1)
    BY <1>1, <2>1, <2>2, TokensDiffer, ClosingsBehind
  <2>6. Min(open(last)) = last + 1
    <3>1. open(last) = {last + 1}
      <4>1. last + 1 \in open(last)
        <5>1. last < last + 1 /\ last + 1 .. (last + 1) - 1 = {}
          BY <1>1, <2>1
        <5> QED
          BY <2>2, <5>1
      <4>2. ASSUME NEW i \in open(last), i # last + 1 PROVE FALSE
        <5>1. i \in 1 .. n /\ last < i
          BY <1>2
        <5>2. last + 1 \in last + 1 .. i - 1
          BY <1>1, <2>1, <4>2, <5>1
        <5>3. text[last + 1] \in Blank
          BY <5>2
        <5> QED
          BY <2>2, <5>3, TokensDiffer
      <4> QED
        BY <4>1, <4>2
    <3> DEFINE P == {last + 1}
    <3>2. P \subseteq 1 .. n /\ P # {}
      BY <2>2
    <3>3. Min(P) \in P
      <4> HIDE DEF P, n
      <4> QED
        BY <1>1, <3>2, EndsOf
    <3> QED
      BY <3>1, <3>3
  <2> DEFINE closings == Closings(text, last + 1)
             inside == SubSeq(text, last + 2, Min(closings) - 1)
  <2>7. (last + 1) + 1 = last + 2
    BY <2>1
  <2> HIDE DEF boxes, braces, spaced, open, opened, n
  <2>8. LastBoxed(text) = IF closings = {} THEN <<>> ELSE <<inside>>
    BY <1>5, <1>7, <2>3, <2>4, <2>7
  <2>9. BoxedText(text) = IF closings = {} THEN <<>> ELSE <<Without(inside, {"$"})>>
    BY <1>3, <1>5, <1>7, <2>2, <2>5
  <2>10. ExtractBoxed(text) = IF closings = {} THEN <<>> ELSE NonEmpty(<<Strip(inside)>>)
    <3>1. Min(open(Max(opened))) = last + 1
      BY <1>4, <2>6 DEF last
    <3> QED
      BY <1>4, <1>5, <1>7, <2>7, <3>1
  <2> HIDE DEF closings, inside
  <2>11. CASE closings = {}
    <3>1. LastBoxed(text) = <<>> /\ BoxedText(text) = <<>> /\ ExtractBoxed(text) = <<>>
      BY <2>8, <2>9, <2>10, <2>11
    <3>2. NonEmpty(<<>>) = <<>>
      BY WithoutOfNone DEF NonEmpty
    <3>3. [i \in DOMAIN <<>> |-> Without(<<>>[i], {"$"})] = <<>>
      OBVIOUS
    <3>4. [i \in DOMAIN <<>> |-> Strip(<<>>[i])] = <<>>
      OBVIOUS
    <3> QED
      BY <3>1, <3>2, <3>3, <3>4
  <2>12. CASE closings # {}
    <3>1. LastBoxed(text) = <<inside>>
      BY <2>8, <2>12
    <3>2. [i \in DOMAIN <<inside>> |-> Without(<<inside>>[i], {"$"})] = <<Without(inside, {"$"})>>
      OBVIOUS
    <3>3. [i \in DOMAIN <<inside>> |-> Strip(<<inside>>[i])] = <<Strip(inside)>>
      OBVIOUS
    <3> QED
      BY <2>9, <2>10, <2>12, <3>1, <3>2, <3>3
  <2> QED
    BY <2>11, <2>12
<1> QED
  BY <1>6, <1>7

-----------------------------------------------------------------------------
(* Scores                                                                  *)

LEMMA QuotientBound ==
    ASSUME NEW x \in Nat, NEW y \in Nat, y > 0, NEW k \in Nat, x < (k + 1) * y
    PROVE  x \div y \in Nat /\ x \div y <= k
<1> DEFINE q == x \div y
           r == x % y
<1>1. q \in Int /\ r \in 0 .. y - 1 /\ x = y * q + r
  OBVIOUS
<1> HIDE DEF q, r
<1>2. y * q <= x
  BY <1>1
<1>3. q <= k
  <2> SUFFICES ASSUME q >= k + 1 PROVE FALSE
    BY <1>1
  <2>1. y * q >= y * (k + 1)
    BY <1>1
  <2> QED
    BY <1>1, <1>2, <2>1
<1>4. q >= 0
  <2> SUFFICES ASSUME q <= -1 PROVE FALSE
    BY <1>1
  <2>1. y * q <= y * (-1)
    BY <1>1
  <2> QED
    BY <1>1, <2>1
<1> QED
  BY <1>1, <1>3, <1>4 DEF q

LEMMA QuotientAtLeast ==
    ASSUME NEW x \in Nat, NEW y \in Nat, y > 0, NEW k \in Nat, k * y <= x
    PROVE  k <= x \div y
<1> DEFINE q == x \div y
           r == x % y
<1>1. q \in Int /\ r \in 0 .. y - 1 /\ x = y * q + r
  OBVIOUS
<1> HIDE DEF q, r
<1>2. k <= q
  <2> SUFFICES ASSUME q <= k - 1 PROVE FALSE
    BY <1>1
  <2>1. y * q <= y * (k - 1)
    BY <1>1
  <2>2. y * (k - 1) = k * y - y
    OBVIOUS
  <2> QED
    BY <1>1, <2>1, <2>2
<1> QED
  BY <1>2 DEF q

LEMMA QuotientType ==
    ASSUME NEW x \in Nat, NEW y \in Nat, y > 0
    PROVE  /\ x \div y \in Nat
           /\ (x \div y) % 2 = 1 => x \div y > 0
<1>1. x < (x + 1) * y
  <2>1. (x + 1) * 1 <= (x + 1) * y
    OBVIOUS
  <2> QED
    BY <2>1
<1>2. x \div y \in Nat
  BY <1>1, QuotientBound
<1> DEFINE q == x \div y
<1> HIDE DEF q
<1>3. q \in Nat /\ (q % 2 = 1 => q > 0)
  <2>1. q \in Nat
    BY <1>2 DEF q
  <2> QED
    BY <2>1
<1> QED
  BY <1>3 DEF q

\* round() of a share: the quotient, or of a tie with an odd one the number below.
LEMMA NearestBound ==
    ASSUME NEW n \in Nat, NEW d \in Nat, d > 0
    PROVE  /\ Nearest(n, d) \in Nat
           /\ \A k \in Nat : 2 * n + d < (k + 1) * (2 * d) => Nearest(n, d) <= k
<1> DEFINE x == 2 * n + d
           y == 2 * d
           up == x \div y
<1>1. x \in Nat /\ y \in Nat /\ y > 0
  OBVIOUS
<1>2. Nearest(n, d) = IF x % y = 0 /\ up % 2 = 1 THEN up - 1 ELSE up
  BY DEF Nearest
<1> HIDE DEF x, y
<1>3. up \in Nat /\ Nearest(n, d) \in Nat /\ Nearest(n, d) <= up
  <2>1. up \in Nat /\ (up % 2 = 1 => up > 0)
    BY <1>1, QuotientType
  <2> HIDE DEF up
  <2> QED
    BY <1>2, <2>1
<1> HIDE DEF up
<1>4. ASSUME NEW k \in Nat, x < (k + 1) * y PROVE Nearest(n, d) <= k
  <2>1. up <= k
    BY <1>1, <1>4, QuotientBound DEF up
  <2> QED
    BY <1>3, <2>1
<1> QED
  BY <1>3, <1>4 DEF x, y

LEMMA NearestExact ==
    ASSUME NEW n \in Nat, NEW d \in Nat, d > 0, NEW k \in Nat, n = k * d
    PROVE  Nearest(n, d) = k
<1> DEFINE x == 2 * n + d
           y == 2 * d
           up == x \div y
<1>1. x \in Nat /\ y \in Nat /\ y > 0 /\ x = k * y + d
  OBVIOUS
<1>2. Nearest(n, d) = IF x % y = 0 /\ up % 2 = 1 THEN up - 1 ELSE up
  BY DEF Nearest
<1>3. d < y /\ (k + 1) * y = k * y + y /\ k * y \in Nat
  OBVIOUS
<1> HIDE DEF x, y
<1>4. up <= k
  BY <1>1, <1>3, QuotientBound
<1>5. k <= up
  BY <1>1, <1>3, QuotientAtLeast
<1>6. up \in Nat
  BY <1>1, QuotientType
<1> HIDE DEF up
<1>7. up = k
  BY <1>4, <1>5, <1>6
<1>8. x % y # 0
  <2> DEFINE r == x % y
  <2>1. r \in 0 .. y - 1 /\ x = y * up + r
    BY <1>1 DEF up
  <2> HIDE DEF r
  <2>2. y * up = k * y
    BY <1>1, <1>7
  <2>3. r = d
    BY <1>1, <1>3, <2>1, <2>2
  <2> QED
    BY <2>3 DEF r
<1> QED
  BY <1>2, <1>7, <1>8

\* A share rounded to four decimals is a natural number, and at most Full.
LEMMA RoundType ==
    ASSUME NEW n \in Nat, NEW d \in Nat, d > 0
    PROVE  Round4(n, d) \in Nat /\ (n <= d => Round4(n, d) <= Full)
<1> DEFINE m == 10000 * n
<1>1. m \in Nat /\ (n <= d => 2 * m + d < (10000 + 1) * (2 * d))
  OBVIOUS
<1>2. Round4(n, d) = Nearest(m, d)
  BY DEF Round4, Full
<1> HIDE DEF m
<1> QED
  BY <1>1, <1>2, NearestBound DEF Full

\* Half of the score for all parts and half for the share of those that are right:
\* anything but all of them is below half, or rounded to it.
LEMMA HalfCredit ==
    ASSUME NEW n \in Nat, n > 0, NEW c \in 0 .. n
    PROVE  LET r == Round4((IF c = n THEN n ELSE 0) + c, 2 * n)
           IN  /\ r \in Nat /\ r <= Full
               /\ r = Full \/ 2 * r < Full \/ (2 * r = Full /\ n >= Full)
<1> DEFINE a == (IF c = n THEN n ELSE 0) + c
           r == Round4(a, 2 * n)
           m == 10000 * a
           d == 2 * n
<1>1. a \in Nat /\ a <= d /\ m \in Nat /\ d \in Nat /\ d > 0
  OBVIOUS
<1>2. r = Nearest(m, d)
  BY DEF Round4, Full
<1>3. r \in Nat /\ r <= Full
  <2> HIDE DEF a, m, d
  <2> QED
    BY <1>1, RoundType DEF d
<1> HIDE DEF r
<1>4. CASE c = n
  <2>1. m = 10000 * d
    BY <1>4
  <2> HIDE DEF m, d
  <2>2. r = Full
    BY <1>1, <1>2, <2>1, NearestExact DEF Full
  <2> QED
    BY <1>3, <2>2 DEF r
<1>5. CASE c # n /\ n < 10000
  <2>1. 2 * m + d < (4999 + 1) * (2 * d)
    BY <1>5
  <2> HIDE DEF m, d
  <2>2. r <= 4999
    BY <1>1, <1>2, <2>1, NearestBound
  <2>3. 2 * r < Full
    BY <1>3, <2>2 DEF Full
  <2> QED
    BY <1>3, <2>3 DEF r
<1>6. CASE c # n /\ n >= 10000
  <2>1. 2 * m + d < (5000 + 1) * (2 * d)
    BY <1>6
  <2> HIDE DEF m, d
  <2>2. r <= 5000
    BY <1>1, <1>2, <2>1, NearestBound
  <2>3. 2 * r < Full \/ (2 * r = Full /\ n >= Full)
    BY <1>3, <1>6, <2>2 DEF Full
  <2> QED
    BY <1>3, <2>3 DEF r
<1> QED
  BY <1>4, <1>5, <1>6

LEMMA InstructionCredit ==
    ASSUME NEW text, NEW list, Len(list) \in Nat, NEW detected
    PROVE  LET r == ScoreInstructionFollowing(text, list, detected)
           IN  /\ r \in Nat /\ r <= Full
               /\ r = Full \/ 2 * r < Full \/ (2 * r = Full /\ Len(list) >= Full)
<1> DEFINE n == Len(list)
           followed == {i \in 1 .. n : Followed(text, list[i], detected)}
           c == Cardinality(followed)
<1>1. n \in Nat /\ c \in 0 .. n
  <2>1. followed \in SUBSET (1 .. n)
    OBVIOUS
  <2>2. IsFiniteSet(1 .. n) /\ Cardinality(1 .. n) = n
    <3>1. n \in Nat /\ n \in Int /\ 1 \in Int /\ n - 1 + 1 = n /\ (1 > n => n = 0)
      OBVIOUS
    <3> HIDE DEF n
    <3>2. IsFiniteSet(1 .. n) /\ Cardinality(1 .. n) = IF 1 > n THEN 0 ELSE n - 1 + 1
      BY <3>1, FS_Interval
    <3> QED
      BY <3>1, <3>2
  <2> HIDE DEF followed
  <2>3. IsFiniteSet(followed) /\ c <= n
    BY <2>1, <2>2, FS_Subset
  <2> QED
    BY <2>3, FS_CardinalityType
<1>2. ScoreInstructionFollowing(text, list, detected) =
         IF n = 0 THEN Full ELSE Round4((IF c = n THEN n ELSE 0) + c, 2 * n)
  BY DEF ScoreInstructionFollowing
<1> HIDE DEF n, c
<1>3. CASE n = 0
  BY <1>2, <1>3 DEF Full
<1>4. CASE n # 0
  <2> DEFINE r == Round4((IF c = n THEN n ELSE 0) + c, 2 * n)
  <2>1. n > 0
    BY <1>1, <1>4
  <2>2. r \in Nat /\ r <= Full /\ (r = Full \/ 2 * r < Full \/ (2 * r = Full /\ n >= Full))
    BY <1>1, <2>1, HalfCredit
  <2>3. ScoreInstructionFollowing(text, list, detected) = r
    BY <1>2, <1>4
  <2> HIDE DEF r
  <2> QED
    BY <2>2, <2>3 DEF n
<1> QED
  BY <1>3, <1>4

LEMMA ZebraCredit ==
    ASSUME NEW text, NEW S, NEW truth \in Seq(S), truth # <<>>
    PROVE  LET r == ScoreZebra(text, truth)
           IN  /\ r \in Nat /\ r <= Full
               /\ r = Full \/ 2 * r < Full \/ (2 * r = Full /\ Len(truth) >= Full)
<1> DEFINE n == Len(truth)
           answer == ZebraAnswer(text, Len(truth))
           correct == {i \in DOMAIN truth : i <= Len(answer) /\ Occurs(<<truth[i]>>, answer[i])}
           c == Cardinality(correct)
<1>1. n \in Nat /\ n > 0 /\ c \in 0 .. n
  <2>1. correct \in SUBSET (1 .. n) /\ n \in Nat /\ n > 0
    OBVIOUS
  <2>2. IsFiniteSet(1 .. n) /\ Cardinality(1 .. n) = n
    BY <2>1, FS_Interval
  <2> HIDE DEF correct, n
  <2>3. IsFiniteSet(correct) /\ c <= n
    BY <2>1, <2>2, FS_Subset
  <2> QED
    BY <2>1, <2>3, FS_CardinalityType
<1>2. ScoreZebra(text, truth) =
         IF answer = <<>> THEN 0 ELSE Round4((IF c = n THEN n ELSE 0) + c, 2 * n)
  BY DEF ScoreZebra, ZebraFormula
<1> HIDE DEF n, c, answer
<1>3. CASE answer = <<>>
  BY <1>2, <1>3 DEF Full
<1>4. CASE answer # <<>>
  <2> DEFINE r == Round4((IF c = n THEN n ELSE 0) + c, 2 * n)
  <2>1. r \in Nat /\ r <= Full /\ (r = Full \/ 2 * r < Full \/ (2 * r = Full /\ n >= Full))
    BY <1>1, HalfCredit
  <2>2. ScoreZebra(text, truth) = r
    BY <1>2, <1>4
  <2> HIDE DEF r
  <2> QED
    BY <2>1, <2>2 DEF n
<1> QED
  BY <1>3, <1>4

\* A distance is at most the length of the longer sequence.
LEMMA DistanceBound ==
    ASSUME NEW s, NEW t, Len(s) \in Nat, Len(t) \in Nat, NEW d, IsTable(d, s, t),
           NEW k \in Nat, Len(s) <= k, Len(t) <= k
    PROVE  d[<<Len(s), Len(t)>>] \in 0 .. k
<1> DEFINE m == Len(s)
           n == Len(t)
           low(i) == \A j \in 0 .. n : i <= j => d[<<i, j>>] <= j
           high(i) == \A j \in 0 .. n : j <= i => d[<<i, j>>] <= i
           T == {i \in 0 .. m : low(i) /\ high(i)}
<1>1. m \in Nat /\ n \in Nat /\ m \in 0 .. m /\ n \in 0 .. n /\ 0 \in 0 .. m
  OBVIOUS
<1>2. /\ \A j \in 0 .. n : d[<<0, j>>] = j
      /\ \A i \in 0 .. m : d[<<i, 0>>] = i
      /\ \A i \in 0 .. m, j \in 0 .. n : d[<<i, j>>] \in Nat
  BY BorderIs
<1>3. \A i \in 1 .. m, j \in 1 .. n : d[<<i, j>>] <= d[<<i - 1, j - 1>>] + 1
  <2> TAKE i \in 1 .. m, j \in 1 .. n
  <2> DEFINE x == d[<<i, j>>]
             a == d[<<i - 1, j>>]
             b == d[<<i, j - 1>>]
             c == d[<<i - 1, j - 1>>]
  <2>1. /\ x \in Nat /\ a \in Nat /\ b \in Nat /\ c \in Nat
        /\ s[i] = t[j] => x = c
        /\ s[i] # t[j] => /\ x <= a + 1 /\ x <= b + 1 /\ x <= c + 1
                          /\ x = a + 1 \/ x = b + 1 \/ x = c + 1
    BY EntryIs
  <2> HIDE DEF x, a, b, c
  <2>2. x <= c + 1
    BY <2>1
  <2> QED
    BY <2>2 DEF x, c
<1> HIDE DEF m, n
<1>4. low(0) /\ high(0)
  <2>1. \A j \in 0 .. n : j <= j /\ (j <= 0 => j <= 0)
    BY <1>1
  <2> QED
    BY <1>2, <2>1
<1>5. ASSUME NEW i \in 1 .. m, low(i - 1), high(i - 1) PROVE low(i) /\ high(i)
  <2>1. i \in Nat /\ i \in 0 .. m /\ i - 1 \in 0 .. m /\ i # 0
    BY <1>1
  <2>2. ASSUME NEW j \in 0 .. n
        PROVE  (i <= j => d[<<i, j>>] <= j) /\ (j <= i => d[<<i, j>>] <= i)
    <3>1. CASE j = 0
      <4>1. d[<<i, 0>>] = i
        BY <1>2, <2>1
      <4> QED
        BY <2>1, <3>1, <4>1
    <3>2. CASE j # 0
      <4>1. j \in 1 .. n /\ j - 1 \in 0 .. n /\ j \in Nat
        BY <1>1, <3>2
      <4> DEFINE x == d[<<i, j>>]
                 c == d[<<i - 1, j - 1>>]
      <4>2. x \in Nat /\ c \in Nat /\ x <= c + 1
        BY <1>2, <1>3, <2>1, <4>1
      <4>3. (i - 1 <= j - 1 => c <= j - 1) /\ (j - 1 <= i - 1 => c <= i - 1)
        BY <1>5, <4>1
      <4> HIDE DEF x, c
      <4>4. (i <= j => x <= j) /\ (j <= i => x <= i)
        BY <2>1, <4>1, <4>2, <4>3
      <4> QED
        BY <4>4 DEF x
    <3> QED
      BY <3>1, <3>2
  <2> QED
    BY <2>2
<1> HIDE DEF low, high
<1>6. m \in T
  <2>1. 0 \in T
    BY <1>1, <1>4
  <2>2. \A i \in 0 .. m - 1 : i \in T => i + 1 \in T
    <3> SUFFICES ASSUME NEW i \in 0 .. m - 1, i \in T PROVE i + 1 \in T
      OBVIOUS
    <3>1. i + 1 \in 1 .. m /\ i + 1 \in 0 .. m /\ (i + 1) - 1 = i
      BY <1>1
    <3>2. low((i + 1) - 1) /\ high((i + 1) - 1)
      BY <3>1
    <3> QED
      BY <1>5, <3>1, <3>2
  <2> HIDE DEF T
  <2>3. 0 .. m \subseteq T
    BY <1>1, <2>1, <2>2, UpTo
  <2> QED
    BY <1>1, <2>3
<1>7. (m <= n => d[<<m, n>>] <= n) /\ (n <= m => d[<<m, n>>] <= m)
  BY <1>1, <1>6 DEF low, high
<1>8. d[<<m, n>>] \in Nat /\ m <= k /\ n <= k
  BY <1>1, <1>2 DEF m, n
<1> DEFINE x == d[<<m, n>>]
<1> HIDE DEF x
<1>9. x \in 0 .. k
  <2>1. x \in Nat /\ (m <= n => x <= n) /\ (n <= m => x <= m)
    BY <1>7, <1>8 DEF x
  <2> QED
    BY <1>1, <1>8, <2>1
<1> QED
  BY <1>9 DEF x, m, n

\* The share of an order that a plot answer gets right.
LEMMA PlotCredit ==
    ASSUME NEW text, NEW S, NEW truth \in Seq(S)
    PROVE  \A r \in PlotScores(text, truth) : r \in Nat /\ r <= Full
<1> DEFINE n == Len(truth)
           inOrder == [i \in DOMAIN truth |-> i]
           answer == Sentences(PlotSummary(text))
           score(o) == Round4(n - TableDistance(inOrder, o), n)
<1>1. n \in Nat /\ DOMAIN truth = 1 .. n
  OBVIOUS
<1>2. PlotScores(text, truth) = IF n = 0 THEN {0} ELSE {score(o) : o \in Orderings(truth, answer)}
  BY DEF PlotScores
<1>3. inOrder \in Seq(1 .. n) /\ Len(inOrder) = n
  <2>1. inOrder \in [1 .. n -> 1 .. n]
    BY <1>1
  <2> HIDE DEF inOrder, n
  <2> QED
    BY <1>1, <2>1
<1>4. \A o \in Orderings(truth, answer) : Len(o) \in Nat /\ Len(o) <= n
  <2> SUFFICES ASSUME NEW o \in Orderings(truth, answer) PROVE Len(o) \in Nat /\ Len(o) <= n
    OBVIOUS
  <2>1. o = <<>> \/ o \in [DOMAIN truth -> DOMAIN answer]
    BY DEF Orderings
  <2> HIDE DEF answer
  <2>2. CASE o = <<>>
    BY <1>1, <2>2
  <2>3. CASE o \in [DOMAIN truth -> DOMAIN answer]
    <3>1. o \in [1 .. n -> DOMAIN answer]
      BY <1>1, <2>3
    <3> HIDE DEF n
    <3>2. o \in Seq(DOMAIN answer) /\ Len(o) = n
      BY <1>1, <3>1
    <3> QED
      BY <1>1, <3>2
  <2> QED
    BY <2>1, <2>2, <2>3
<1> HIDE DEF n, inOrder, answer
<1>5. ASSUME NEW o \in Orderings(truth, answer), n # 0 PROVE score(o) \in Nat /\ score(o) <= Full
  <2>1. Len(inOrder) \in Nat /\ Len(o) \in Nat /\ Len(inOrder) <= n /\ Len(o) <= n
    BY <1>1, <1>3, <1>4
  <2>2. PICK d : IsTable(d, inOrder, o)
                 /\ TableDistance(inOrder, o) = d[<<Len(inOrder), Len(o)>>]
    BY <2>1, TableFilled
  <2>3. TableDistance(inOrder, o) \in 0 .. n
    BY <1>1, <2>1, <2>2, DistanceBound
  <2> DEFINE k == n - TableDistance(inOrder, o)
  <2>4. k \in Nat /\ k <= n /\ n > 0
    BY <1>1, <1>5, <2>3
  <2> HIDE DEF k
  <2>5. Round4(k, n) \in Nat /\ Round4(k, n) <= Full
    BY <1>1, <2>4, RoundType
  <2> QED
    BY <2>5 DEF k
<1>6. 0 \in Nat /\ 0 <= Full
  BY DEF Full
<1> HIDE DEF score
<1> QED
  BY <1>2, <1>5, <1>6

\* The scores that are all or nothing.
LEMMA AllOrNothing ==
    \A text, truth, x :
        /\ ScoreAmpsHard(text, truth, x) \in {0, Full}
        /\ ScoreAmc(text, truth, x) \in {0, Full}
        /\ ScoreAime(text, truth) \in {0, Full}
        /\ ScoreTypos(text, truth) \in {0, Full}
        /\ ScoreSpatial(text, truth) \in {0, Full}
        /\ ScoreWebOfLies(text, truth) \in {0, Full}
        /\ ScoreCta(text, truth) \in {0, Full}
        /\ ScoreTableReformat(text, truth, x) \in {0, Full}
<1> TAKE text, truth, x
<1>1. ScoreAmpsHard(text, truth, x) \in {0, Full}
  BY Zenon DEF ScoreAmpsHard
<1>2. ScoreAmc(text, truth, x) \in {0, Full}
  BY Zenon DEF ScoreAmc
<1>3. ScoreAime(text, truth) \in {0, Full}
  BY Zenon DEF ScoreAime
<1>4. ScoreTypos(text, truth) \in {0, Full}
  BY Zenon DEF ScoreTypos
<1>5. ScoreSpatial(text, truth) \in {0, Full}
  BY Zenon DEF ScoreSpatial
<1>6. ScoreWebOfLies(text, truth) \in {0, Full}
  BY Zenon DEF ScoreWebOfLies
<1>7. ScoreCta(text, truth) \in {0, Full}
  BY Zenon DEF ScoreCta
<1>8. ScoreTableReformat(text, truth, x) \in {0, Full}
  BY Zenon DEF ScoreTableReformat
<1> QED
  BY <1>1, <1>2, <1>3, <1>4, <1>5, <1>6, <1>7, <1>8

LEMMA MathCompAllOrNothing ==
    \A text, truth, value : ScoreMathComp(text, truth, value) \in {0, Full}
  BY Zenon, AllOrNothing DEF ScoreMathComp

-----------------------------------------------------------------------------
(* olympiad                                                                *)

LEMMA ParseIntegersIs ==
    \A text :
        LET parts == Split(text, Comma)
            numbers == NonEmpty([i \in DOMAIN parts |-> Only(parts[i], Digits)])
        IN  ParseIntegers(text) = [i \in DOMAIN numbers |-> numbers[i][1]]
  BY Zenon DEF ParseIntegers, Comma

\* The numbers read from a text are tokens of it.
LEMMA ParseIntegersType ==
    ASSUME NEW S, NEW text \in Seq(S)
    PROVE  ParseIntegers(text) \in Seq(S)
<1> DEFINE parts == Split(text, Comma)
           digits == [i \in DOMAIN parts |-> Only(parts[i], Digits)]
           numbers == NonEmpty(digits)
<1>1. ParseIntegers(text) = [i \in DOMAIN numbers |-> numbers[i][1]]
  BY ParseIntegersIs
<1>2. parts \in Seq(Seq(S))
  BY SplitType
<1>3. digits \in Seq(Seq(S))
  <2>1. \A i \in DOMAIN parts : Only(parts[i], Digits) \in Seq(S)
    <3> TAKE i \in DOMAIN parts
    <3> HIDE DEF parts
    <3>1. parts[i] \in Seq(S)
      BY <1>2
    <3> QED
      BY <3>1, OnlyType
  <2> HIDE DEF parts
  <2> QED
    BY <1>2, <2>1
<1> HIDE DEF digits
<1>4. numbers \in Seq(Seq(S) \ {<<>>})
  BY <1>3, NonEmptyType
<1> HIDE DEF numbers
<1>5. \A i \in DOMAIN numbers : numbers[i] \in Seq(S) /\ numbers[i] # <<>>
  BY <1>4
<1>6. \A i \in DOMAIN numbers : numbers[i][1] \in S
  BY <1>5
<1> QED
  BY <1>1, <1>4, <1>6

LEMMA LastSequenceIs ==
    \A text :
        LET s == Without(text, {"nl"})
            IsRun(a, b) == /\ b - a \in {2 * k : k \in 1 .. Len(s)}
                           /\ \A i \in a .. b : IF (i - a) % 2 = 0 THEN s[i] \in Digits
                                                                   ELSE s[i] = Comma
            ends == {b \in DOMAIN s : \E a \in 1 .. b : IsRun(a, b)}
            starts == {a \in DOMAIN s : IsRun(a, Max(ends))}
        IN  LastSequence(text) = IF ends = {} THEN <<>>
                                 ELSE ParseIntegers(SubSeq(s, Min(starts), Max(ends)))
  BY Zenon DEF LastSequence, Comma

LEMMA LastSequenceType ==
    ASSUME NEW S, NEW text \in Seq(S)
    PROVE  LastSequence(text) \in Seq(S)
<1> DEFINE s == Without(text, {"nl"})
           IsRun(a, b) == /\ b - a \in {2 * k : k \in 1 .. Len(s)}
                          /\ \A i \in a .. b : IF (i - a) % 2 = 0 THEN s[i] \in Digits
                                                                  ELSE s[i] = Comma
           ends == {b \in DOMAIN s : \E a \in 1 .. b : IsRun(a, b)}
           starts == {a \in DOMAIN s : IsRun(a, Max(ends))}
<1>1. LastSequence(text) = IF ends = {} THEN <<>>
                           ELSE ParseIntegers(SubSeq(s, Min(starts), Max(ends)))
  BY LastSequenceIs
<1>2. s \in Seq(S)
  BY WithoutType
<1> HIDE DEF s
<1> DEFINE n == Len(s)
<1>3. n \in Nat /\ DOMAIN s = 1 .. n
  BY <1>2
<1>4. ends \subseteq 1 .. n /\ starts \subseteq 1 .. n
  BY <1>3
<1>5. ASSUME ends # {} PROVE starts # {}
  <2> HIDE DEF n, IsRun
  <2>1. Max(ends) \in ends
    <3> HIDE DEF ends
    <3> QED
      BY <1>3, <1>4, <1>5, EndsOf
  <2>2. PICK a \in 1 .. Max(ends) : IsRun(a, Max(ends))
    BY <2>1
  <2>3. Max(ends) \in 1 .. n
    BY <1>4, <2>1
  <2> HIDE DEF ends
  <2>4. a \in DOMAIN s
    BY <1>3, <2>3
  <2> QED
    BY <2>2, <2>4
<1> HIDE DEF ends, starts, n
<1>6. ASSUME ends # {} PROVE SubSeq(s, Min(starts), Max(ends)) \in Seq(S)
  <2>1. Max(ends) \in 1 .. n /\ Min(starts) \in 1 .. n
    BY <1>3, <1>4, <1>5, <1>6, EndsOf
  <2> QED
    BY <1>2, <1>3, <2>1, PartType DEF n
<1>7. CASE ends = {}
  BY <1>1, <1>7
<1>8. CASE ends # {}
  BY <1>1, <1>6, <1>8, ParseIntegersType
<1> QED
  BY <1>7, <1>8

LEMMA AfterAnswerType ==
    ASSUME NEW S, NEW text \in Seq(S)
    PROVE  AfterAnswer(text) \in Seq(S)
<1> DEFINE marks == At(text, "answer:")
           rest == SubSeq(text, Max(marks) + 1, Len(text))
<1>1. AfterAnswer(text) = IF marks = {} THEN <<>> ELSE ParseIntegers(Split(rest, "nl")[1])
  BY DEF AfterAnswer
<1>2. marks \subseteq 1 .. Len(text) /\ Len(text) \in Nat
  BY AtType
<1> HIDE DEF marks
<1>3. ASSUME marks # {} PROVE rest \in Seq(S)
  <2>1. Max(marks) \in 1 .. Len(text)
    BY <1>2, <1>3, EndsOf
  <2> QED
    BY <1>2, <2>1, PartType
<1> HIDE DEF rest
<1>4. ASSUME marks # {} PROVE Split(rest, "nl")[1] \in Seq(S)
  <2>1. Split(rest, "nl") \in Seq(Seq(S)) /\ Split(rest, "nl") # <<>>
    BY <1>3, <1>4, SplitType
  <2> QED
    BY <2>1, LastType
<1>5. CASE marks = {}
  BY <1>1, <1>5
<1>6. CASE marks # {}
  BY <1>1, <1>4, <1>6, ParseIntegersType
<1> QED
  BY <1>5, <1>6

LEMMA ExtractedIntegersType ==
    ASSUME NEW S, NEW text \in Seq(S)
    PROVE  ExtractedIntegers(text) \in Seq(S)
<1> DEFINE boxed == ExtractBoxed(text)
           inBox == IF boxed = <<>> THEN <<>> ELSE ParseIntegers(boxed[1])
           tried == <<AfterAnswer(text), inBox, ParseIntegers(LastLine(text)), LastSequence(text)>>
           found == NonEmpty(tried)
<1>1. ExtractedIntegers(text) = IF found = <<>> THEN <<>> ELSE found[1]
  BY DEF ExtractedIntegers
<1>2. inBox \in Seq(S)
  <2>1. boxed \in Seq(Seq(S))
    BY ExtractBoxedType
  <2> HIDE DEF boxed
  <2>2. CASE boxed # <<>>
    BY <2>1, <2>2, LastType, ParseIntegersType
  <2>3. CASE boxed = <<>>
    BY <2>3
  <2> QED
    BY <2>2, <2>3
<1>3. AfterAnswer(text) \in Seq(S) /\ LastSequence(text) \in Seq(S)
  BY AfterAnswerType, LastSequenceType
<1>4. ParseIntegers(LastLine(text)) \in Seq(S)
  BY PiecesTypes, ParseIntegersType
<1> HIDE DEF inBox
<1>5. tried \in Seq(Seq(S))
  BY <1>2, <1>3, <1>4
<1> HIDE DEF tried
<1>6. found \in Seq(Seq(S))
  BY <1>5, NonEmptyType
<1> HIDE DEF found
<1> QED
  BY <1>1, <1>6

LEMMA OlympiadCredit ==
    ASSUME NEW S, NEW text \in Seq(S), NEW R, NEW truth \in Seq(R)
    PROVE  ScoreOlympiad(text, truth) \in Nat /\ ScoreOlympiad(text, truth) <= Full
<1> DEFINE answer == ExtractedIntegers(text)
           longest == Max({Len(answer), Len(truth)})
           away == RowDistance(answer, truth)
<1>1. ScoreOlympiad(text, truth) = IF answer = <<>> THEN 0 ELSE Round4(longest - away, longest)
  BY DEF ScoreOlympiad
<1>2. answer \in Seq(S)
  BY ExtractedIntegersType
<1> HIDE DEF answer
<1>3. Len(answer) \in Nat /\ Len(truth) \in Nat
  BY <1>2
<1>4. longest \in Nat /\ Len(answer) <= longest /\ Len(truth) <= longest
  BY <1>3, GreatestOfTwo
<1> HIDE DEF longest
<1>5. away \in 0 .. longest
  <2>1. PICK d : IsTable(d, answer, truth) /\ away = d[<<Len(answer), Len(truth)>>]
    BY <1>3, DistancesAgree
  <2> HIDE DEF away
  <2> QED
    BY <1>3, <1>4, <2>1, DistanceBound
<1> HIDE DEF away
<1>6. CASE answer = <<>>
  BY <1>1, <1>6 DEF Full
<1>7. CASE answer # <<>>
  <2> DEFINE k == longest - away
  <2>1. Len(answer) > 0
    BY <1>2, <1>7
  <2>2. k \in Nat /\ k <= longest /\ longest > 0
    BY <1>3, <1>4, <1>5, <2>1
  <2> HIDE DEF k
  <2>3. Round4(k, longest) \in Nat /\ Round4(k, longest) <= Full
    BY <1>4, <2>2, RoundType
  <2> QED
    BY <1>1, <1>7, <2>3 DEF k
<1> QED
  BY <1>6, <1>7

-----------------------------------------------------------------------------
(* connections                                                             *)

\* The loop of FlattenSeq: the first i sequences in one.
IsFlat(flat, S, seqs) ==
    /\ flat \in [0 .. Len(seqs) -> Seq(S)] /\ flat[0] = <<>>
    /\ \A i \in 1 .. Len(seqs) : flat[i] = flat[i - 1] \o seqs[i]

LEMMA FlattenIs ==
    ASSUME NEW S, NEW seqs \in Seq(Seq(S))
    PROVE  \E flat : IsFlat(flat, S, seqs) /\ FlattenSeq(seqs) = flat[Len(seqs)]
<1> DEFINE n == Len(seqs)
           Q == Seq(S)
           h == [i \in 1 .. n |-> [x \in Q |-> x \o seqs[i]]]
           body(f, i) == IF i = 1 THEN seqs[i] ELSE f[i - 1] \o seqs[i]
           flatten == CHOOSE f : f = [i \in 1 .. n |-> body(f, i)]
           flat == [i \in 0 .. n |-> IF i = 0 THEN <<>> ELSE flatten[i]]
<1>1. n \in Nat /\ <<>> \in Q /\ 0 \in 0 .. n /\ n \in 0 .. n
  OBVIOUS
<1>2. \A i \in 1 .. n, x \in Q : seqs[i] \in Q /\ x \o seqs[i] \in Q /\ <<>> \o seqs[i] = seqs[i]
  <2> TAKE i \in 1 .. n, x \in Q
  <2>1. seqs[i] \in Q
    OBVIOUS
  <2> QED
    BY <2>1, ConcatProperties, ConcatEmptySeq
<1>3. FlattenSeq(seqs) = IF n = 0 THEN seqs ELSE flatten[n]
  BY DEF FlattenSeq
<1>4. n = 0 => seqs = <<>>
  OBVIOUS
<1> HIDE DEF n, Q, body
<1>6. \E f : f = [i \in 1 .. n |-> body(f, i)]
  <2>1. Loop(h, <<>>, Q, n)
    BY <1>1, <1>2 DEF Loop
  <2>2. \A i \in 1 .. n, x \in Q : h[i][x] = x \o seqs[i]
    OBVIOUS
  <2> HIDE DEF h
  <2>3. PICK f \in [0 .. n -> Q] : f[0] = <<>> /\ \A i \in 1 .. n : f[i] = h[i][f[i - 1]]
    BY <2>1, LoopRecursion
  <2> DEFINE g == [i \in 1 .. n |-> f[i]]
  <2>4. ASSUME NEW i \in 1 .. n PROVE f[i] = body(g, i)
    <3>1. i - 1 \in 0 .. n /\ f[i - 1] \in Q
      BY <1>1, <2>3
    <3>2. f[i] = f[i - 1] \o seqs[i]
      BY <2>2, <2>3, <3>1
    <3>3. CASE i = 1
      <4>1. i - 1 = 0
        BY <3>3
      <4>2. f[i] = <<>> \o seqs[i]
        BY <2>3, <3>2, <4>1
      <4>3. body(g, i) = seqs[i]
        BY <3>3 DEF body
      <4> QED
        BY <1>1, <1>2, <4>2, <4>3
    <3>4. CASE i # 1
      <4>1. i - 1 \in 1 .. n
        BY <1>1, <3>4
      <4>2. g[i - 1] = f[i - 1]
        BY <4>1
      <4> QED
        BY <3>2, <3>4, <4>2 DEF body
    <3> QED
      BY <3>3, <3>4
  <2> QED
    BY <2>4
<1>7. flatten = [i \in 1 .. n |-> body(flatten, i)]
  BY <1>6
<1> HIDE DEF flatten, h
<1>8. flat[0] = <<>>
  BY <1>1
<1> DEFINE T == {i \in 0 .. n : flat[i] \in Q /\ (i > 0 => flat[i] = flat[i - 1] \o seqs[i])}
<1>9. 0 .. n \subseteq T
  <2>1. 0 \in T
    BY <1>1, <1>8
  <2>2. \A i \in 0 .. n - 1 : i \in T => i + 1 \in T
    <3> SUFFICES ASSUME NEW i \in 0 .. n - 1, i \in T PROVE i + 1 \in T
      OBVIOUS
    <3>1. /\ i + 1 \in 1 .. n /\ i + 1 \in 0 .. n /\ (i + 1) - 1 = i /\ i + 1 # 0
          /\ i \in 0 .. n /\ i \in Nat
      BY <1>1
    <3>2. flat[i + 1] = flatten[i + 1] /\ flatten[i + 1] = body(flatten, i + 1) /\ flat[i] \in Q
      BY <1>7, <3>1
    <3>3. CASE i = 0
      <4>1. body(flatten, i + 1) = seqs[i + 1]
        BY <3>1, <3>3 DEF body
      <4>2. flat[i + 1] = flat[i] \o seqs[i + 1]
        BY <1>2, <1>8, <3>1, <3>2, <3>3, <4>1
      <4>3. flat[i + 1] \in Q
        BY <1>2, <3>1, <3>2, <4>1
      <4> HIDE DEF flat
      <4> QED
        BY <3>1, <4>2, <4>3
    <3>4. CASE i # 0
      <4>1. flat[i] = flatten[i]
        BY <3>1, <3>4
      <4>2. body(flatten, i + 1) = flatten[i] \o seqs[i + 1]
        <5>1. i + 1 # 1
          BY <3>1, <3>4
        <5>2. body(flatten, i + 1) = flatten[(i + 1) - 1] \o seqs[i + 1]
          BY <5>1 DEF body
        <5> QED
          BY <3>1, <5>2
      <4>3. flat[i + 1] = flat[i] \o seqs[i + 1]
        BY <3>2, <4>1, <4>2
      <4>4. flat[i + 1] \in Q
        BY <1>2, <3>1, <3>2, <4>3
      <4> HIDE DEF flat
      <4> QED
        BY <3>1, <4>3, <4>4
    <3> QED
      BY <3>3, <3>4
  <2> HIDE DEF T
  <2> QED
    BY <1>1, <2>1, <2>2, UpTo
<1>10. \A i \in 0 .. n : flat[i] \in Q /\ (i > 0 => flat[i] = flat[i - 1] \o seqs[i])
  BY <1>9
<1>11. flat \in [0 .. n -> Q]
  <2>1. flat = [i \in 0 .. n |-> flat[i]]
    OBVIOUS
  <2> QED
    BY <1>10, <2>1
<1>12. FlattenSeq(seqs) = flat[n]
  BY <1>1, <1>3, <1>4
<1> HIDE DEF flat
<1>13. \A i \in 1 .. n : flat[i] = flat[i - 1] \o seqs[i]
  <2> TAKE i \in 1 .. n
  <2>1. i \in 0 .. n /\ i > 0
    BY <1>1
  <2> QED
    BY <1>10, <2>1
<1> QED
  BY <1>8, <1>11, <1>12, <1>13 DEF IsFlat, n, Q

LEMMA FlattenType ==
    ASSUME NEW S, NEW seqs \in Seq(Seq(S))
    PROVE  FlattenSeq(seqs) \in Seq(S)
<1>1. PICK flat : IsFlat(flat, S, seqs) /\ FlattenSeq(seqs) = flat[Len(seqs)]
  BY FlattenIs
<1>2. Len(seqs) \in 0 .. Len(seqs)
  OBVIOUS
<1> QED
  BY <1>1, <1>2 DEF IsFlat

\* The loop of GroupWords: the groups of the first i words.
NextGroups(g, w) ==
    IF Cardinality(Last(g)) = GroupSize THEN Append(g, {w}) ELSE Append(Front(g), Last(g) \cup {w})

IsGroups(groups, S, words) ==
    /\ groups \in [0 .. Len(words) -> Seq(SUBSET S) \ {<<>>}] /\ groups[0] = << {} >>
    /\ \A i \in 1 .. Len(words) : groups[i] = NextGroups(groups[i - 1], Strip(words[i]))

LEMMA NextGroupsType ==
    ASSUME NEW S, NEW g \in Seq(SUBSET S) \ {<<>>}, NEW w \in S
    PROVE  NextGroups(g, w) \in Seq(SUBSET S) \ {<<>>}
<1>1. Last(g) \in SUBSET S /\ Front(g) \in Seq(SUBSET S)
  BY LastType
<1>2. {w} \in SUBSET S /\ Last(g) \cup {w} \in SUBSET S
  BY <1>1
<1>3. Append(g, {w}) \in Seq(SUBSET S) /\ Append(g, {w}) # <<>>
  BY <1>2, AppendProperties
<1>4. /\ Append(Front(g), Last(g) \cup {w}) \in Seq(SUBSET S)
      /\ Append(Front(g), Last(g) \cup {w}) # <<>>
  <2> DEFINE x == Last(g) \cup {w}
             v == Front(g)
  <2>1. x \in SUBSET S /\ v \in Seq(SUBSET S)
    BY <1>1, <1>2
  <2> HIDE DEF x, v
  <2>2. Append(v, x) \in Seq(SUBSET S) /\ Append(v, x) # <<>>
    BY <2>1, AppendProperties
  <2> QED
    BY <2>2 DEF x, v
<1> QED
  BY <1>3, <1>4 DEF NextGroups

LEMMA GroupWordsIs ==
    ASSUME NEW S, NEW words \in Seq(Seq(S))
    PROVE  \E groups : IsGroups(groups, Seq(S), words) /\ GroupWords(words) = groups[Len(words)]
<1> DEFINE n == Len(words)
           Q == Seq(SUBSET Seq(S)) \ {<<>>}
           next(x, i) == NextGroups(x, Strip(words[i]))
           body(f, i) == IF i = 0 THEN << {} >>
                         ELSE LET g == f[i - 1]
                                  w == Strip(words[i])
                              IN  IF Cardinality(Last(g)) = GroupSize THEN Append(g, {w})
                                  ELSE Append(Front(g), Last(g) \cup {w})
           h == [i \in 1 .. n |-> [x \in Q |-> next(x, i)]]
           groups == CHOOSE f : f = [i \in 0 .. n |-> body(f, i)]
<1>1. n \in Nat /\ 0 \in 0 .. n /\ n \in 0 .. n
  OBVIOUS
<1>2. << {} >> \in Q
  <2>1. {} \in SUBSET Seq(S)
    OBVIOUS
  <2> QED
    BY <2>1
<1>3. \A i \in 1 .. n, x \in Q : next(x, i) \in Q
  <2> TAKE i \in 1 .. n, x \in Q
  <2>1. words[i] \in Seq(S)
    OBVIOUS
  <2>2. Strip(words[i]) \in Seq(S)
    BY <2>1, StripType
  <2> QED
    BY <2>2, NextGroupsType
<1>4. GroupWords(words) = groups[n]
  BY DEF GroupWords
<1>5. \A f : \A i \in 1 .. n : body(f, i) = next(f[i - 1], i)
  <2> TAKE f
  <2> TAKE i \in 1 .. n
  <2>1. i # 0
    OBVIOUS
  <2> QED
    BY <2>1 DEF NextGroups
<1>6. \A f : body(f, 0) = << {} >>
  OBVIOUS
<1> HIDE DEF n, Q, next, body
<1>7. \E f : f = [i \in 0 .. n |-> body(f, i)]
  <2>1. Loop(h, << {} >>, Q, n)
    BY <1>1, <1>2, <1>3 DEF Loop
  <2>2. \A i \in 1 .. n, x \in Q : h[i][x] = next(x, i)
    OBVIOUS
  <2> HIDE DEF h
  <2>3. PICK f \in [0 .. n -> Q] :
           f[0] = << {} >> /\ \A i \in 1 .. n : f[i] = h[i][f[i - 1]]
    BY <2>1, LoopRecursion
  <2>4. ASSUME NEW i \in 0 .. n PROVE f[i] = body(f, i)
    <3>1. CASE i = 0
      BY <1>6, <2>3, <3>1
    <3>2. CASE i # 0
      <4>1. i \in 1 .. n /\ i - 1 \in 0 .. n
        BY <1>1, <3>2
      <4>2. f[i - 1] \in Q
        BY <2>3, <4>1
      <4> QED
        BY <1>5, <2>2, <2>3, <4>1, <4>2
    <3> QED
      BY <3>1, <3>2
  <2> QED
    BY <2>3, <2>4
<1>8. groups = [i \in 0 .. n |-> body(groups, i)]
  BY <1>7
<1> HIDE DEF groups, h
<1>9. groups[0] = << {} >>
  BY <1>1, <1>6, <1>8
<1>10. \A i \in 1 .. n : groups[i] = next(groups[i - 1], i)
  <2> TAKE i \in 1 .. n
  <2>1. i \in 0 .. n
    BY <1>1
  <2> QED
    BY <1>5, <1>8, <2>1
<1> DEFINE T == {i \in 0 .. n : groups[i] \in Q}
<1>11. 0 .. n \subseteq T
  <2>1. 0 \in T
    BY <1>1, <1>2, <1>9
  <2>2. \A i \in 0 .. n - 1 : i \in T => i + 1 \in T
    <3> SUFFICES ASSUME NEW i \in 0 .. n - 1, i \in T PROVE i + 1 \in T
      OBVIOUS
    <3>1. i + 1 \in 1 .. n /\ i + 1 \in 0 .. n /\ (i + 1) - 1 = i
      BY <1>1
    <3>2. groups[i + 1] = next(groups[i], i + 1)
      BY <1>10, <3>1
    <3> QED
      BY <1>3, <3>1, <3>2
  <2> HIDE DEF T
  <2> QED
    BY <1>1, <2>1, <2>2, UpTo
<1>12. groups \in [0 .. n -> Q]
  <2>1. groups = [i \in 0 .. n |-> groups[i]]
    BY <1>8
  <2> QED
    BY <1>11, <2>1
<1> QED
  BY <1>4, <1>9, <1>10, <1>12 DEF IsGroups, n, Q, next

LEMMA GroupWordsType ==
    ASSUME NEW S, NEW words \in Seq(Seq(S))
    PROVE  GroupWords(words) \in Seq(SUBSET Seq(S)) /\ GroupWords(words) # <<>>
<1>1. PICK groups : IsGroups(groups, Seq(S), words) /\ GroupWords(words) = groups[Len(words)]
  BY GroupWordsIs
<1>2. Len(words) \in 0 .. Len(words)
  OBVIOUS
<1> QED
  BY <1>1, <1>2 DEF IsGroups

LEMMA ListOf ==
    ASSUME NEW R, NEW n \in Nat, NEW f \in [1 .. n -> R]
    PROVE  f \in Seq(R)
  OBVIOUS

LEMMA SolutionMatchesIs ==
    \A text :
        LET joined == Without(text, {"nl"})
            attempts == NonEmpty(<<Between(text, "<solution>", "</solution>", {"nl"}),
                                   Between(joined, "<solution>", "</solution>", {}),
                                   Between(text, "</solution>", "</solution>", {"nl"}),
                                   Between(joined, "</solution>", "</solution>", {})>>)
            boxed == BoxedText(text)
        IN  SolutionMatches(text) =
                IF attempts # <<>> THEN attempts[1]
                ELSE [i \in DOMAIN boxed |-> Without(boxed[i], {CloseBrace})]
  BY Zenon DEF SolutionMatches, CloseBrace

LEMMA SolutionMatchesType ==
    ASSUME NEW S, NEW text \in Seq(S)
    PROVE  SolutionMatches(text) \in Seq(Seq(S))
<1> DEFINE joined == Without(text, {"nl"})
           tried == <<Between(text, "<solution>", "</solution>", {"nl"}),
                      Between(joined, "<solution>", "</solution>", {}),
                      Between(text, "</solution>", "</solution>", {"nl"}),
                      Between(joined, "</solution>", "</solution>", {})>>
           attempts == NonEmpty(tried)
           boxed == BoxedText(text)
           piece(i) == Without(boxed[i], {CloseBrace})
           opened == [i \in DOMAIN boxed |-> piece(i)]
<1>1. SolutionMatches(text) = IF attempts # <<>> THEN attempts[1] ELSE opened
  BY SolutionMatchesIs
<1>2. joined \in Seq(S)
  BY WithoutType
<1> HIDE DEF joined
<1>3. /\ Between(text, "<solution>", "</solution>", {"nl"}) \in Seq(Seq(S))
      /\ Between(joined, "<solution>", "</solution>", {}) \in Seq(Seq(S))
      /\ Between(text, "</solution>", "</solution>", {"nl"}) \in Seq(Seq(S))
      /\ Between(joined, "</solution>", "</solution>", {}) \in Seq(Seq(S))
  BY <1>2, BetweenType
<1>4. tried \in Seq(Seq(Seq(S)))
  BY <1>3
<1> HIDE DEF tried
<1>5. attempts \in Seq(Seq(Seq(S)))
  BY <1>4, NonEmptyType
<1>6. boxed \in Seq(Seq(S))
  BY BoxedTextType
<1> HIDE DEF attempts, boxed
<1>7. opened \in Seq(Seq(S))
  <2>1. \A i \in DOMAIN boxed : piece(i) \in Seq(S)
    <3> TAKE i \in DOMAIN boxed
    <3>1. boxed[i] \in Seq(S)
      BY <1>6
    <3> QED
      BY <3>1, WithoutType
  <2> HIDE DEF piece
  <2>2. opened = [i \in DOMAIN boxed |-> opened[i]] /\ \A i \in DOMAIN boxed : opened[i] = piece(i)
    OBVIOUS
  <2>3. \A i \in DOMAIN boxed : opened[i] \in Seq(S)
    BY <2>1, <2>2
  <2> HIDE DEF opened
  <2> QED
    <3>1. Len(boxed) \in Nat /\ DOMAIN boxed = 1 .. Len(boxed)
      BY <1>6
    <3>2. opened \in [1 .. Len(boxed) -> Seq(S)]
      BY <2>2, <2>3, <3>1
    <3> QED
      BY <3>1, <3>2, ListOf, Zenon
<1> HIDE DEF opened
<1> QED
  BY <1>1, <1>5, <1>7

LEMMA SolutionWordsIs ==
    \A matches, expected :
        LET words == FlattenSeq([i \in DOMAIN matches |-> Split(Without(matches[i], {"nl"}), Comma)])
        IN  SolutionWords(matches, expected) =
                IF Len(matches) > 1 THEN LastTokens(words, expected) ELSE words
  BY Zenon DEF SolutionWords, Comma

LEMMA SolutionWordsType ==
    ASSUME NEW S, NEW matches \in Seq(Seq(S)), NEW expected \in Nat
    PROVE  SolutionWords(matches, expected) \in Seq(Seq(S))
<1> DEFINE piece(i) == Split(Without(matches[i], {"nl"}), Comma)
           split == [i \in DOMAIN matches |-> piece(i)]
           words == FlattenSeq(split)
<1>1. SolutionWords(matches, expected) =
         IF Len(matches) > 1 THEN LastTokens(words, expected) ELSE words
  BY SolutionWordsIs
<1>2. split \in Seq(Seq(Seq(S)))
  <2>1. \A i \in DOMAIN matches : piece(i) \in Seq(Seq(S))
    <3> TAKE i \in DOMAIN matches
    <3>1. matches[i] \in Seq(S)
      OBVIOUS
    <3>2. Without(matches[i], {"nl"}) \in Seq(S)
      BY <3>1, WithoutType
    <3> QED
      BY <3>2, SplitType
  <2> HIDE DEF piece
  <2>2. /\ split = [i \in DOMAIN matches |-> split[i]]
        /\ \A i \in DOMAIN matches : split[i] = piece(i)
    OBVIOUS
  <2>3. \A i \in DOMAIN matches : split[i] \in Seq(Seq(S))
    BY <2>1, <2>2
  <2> HIDE DEF split
  <2> QED
    <3>1. Len(matches) \in Nat /\ DOMAIN matches = 1 .. Len(matches)
      OBVIOUS
    <3>2. split \in [1 .. Len(matches) -> Seq(Seq(S))]
      BY <2>2, <2>3, <3>1
    <3> QED
      BY <3>1, <3>2, ListOf, Zenon
<1> HIDE DEF split
<1>3. words \in Seq(Seq(S))
  BY <1>2, FlattenType
<1> HIDE DEF words
<1>4. LastTokens(words, expected) \in Seq(Seq(S))
  BY <1>3, LastTokensType
<1> QED
  BY <1>1, <1>3, <1>4

LEMMA ScoreBoldIs ==
    \A text, groups :
        LET bold == Between(Without(text, {"nl"}), "**", "**", {})
            correct(b) == {i \in DOMAIN groups :
                              \E g \in ToSet(GroupWords(Split(b, Comma))) : groups[i] \subseteq g}
        IN  ScoreBold(text, groups) =
                IF bold = <<>> THEN 0
                ELSE Round4(Max({Cardinality(correct(b)) : b \in ToSet(bold)}), Len(groups))
  BY Zenon DEF ScoreBold, Comma

\* Without tags and boxes no group counts twice.
LEMMA BoldCredit ==
    ASSUME NEW S, NEW text \in Seq(S), NEW R, NEW groups \in Seq(R), groups # <<>>
    PROVE  ScoreBold(text, groups) \in Nat /\ ScoreBold(text, groups) <= Full
<1> DEFINE bold == Between(Without(text, {"nl"}), "**", "**", {})
           correct(b) == {i \in DOMAIN groups :
                             \E g \in ToSet(GroupWords(Split(b, Comma))) : groups[i] \subseteq g}
           counts == {Cardinality(correct(b)) : b \in ToSet(bold)}
           n == Len(groups)
           best == Max(counts)
<1>1. ScoreBold(text, groups) = IF bold = <<>> THEN 0 ELSE Round4(best, n)
  BY ScoreBoldIs
<1>2. n \in Nat /\ n > 0 /\ DOMAIN groups = 1 .. n
  OBVIOUS
<1>3. \A b : Cardinality(correct(b)) \in 0 .. n
  <2> TAKE b
  <2>1. correct(b) \in SUBSET (1 .. n)
    BY <1>2
  <2>2. IsFiniteSet(1 .. n) /\ Cardinality(1 .. n) = n
    BY <1>2, FS_Interval
  <2> HIDE DEF correct, n
  <2>3. IsFiniteSet(correct(b)) /\ Cardinality(correct(b)) <= n
    BY <2>1, <2>2, FS_Subset
  <2> QED
    BY <1>2, <2>3, FS_CardinalityType
<1>4. counts \subseteq 0 .. n
  <2> HIDE DEF correct, n, bold
  <2> QED
    BY <1>3
<1>5. bold \in Seq(Seq(S))
  BY WithoutType, BetweenType
<1>6. ASSUME bold # <<>> PROVE counts # {}
  <2> HIDE DEF bold, correct
  <2>1. bold[1] \in ToSet(bold)
    BY <1>5, <1>6 DEF ToSet
  <2> QED
    BY <2>1
<1> HIDE DEF bold, correct, counts, n
<1>7. ASSUME bold # <<>> PROVE best \in 0 .. n
  BY <1>2, <1>4, <1>6, <1>7, GreatestOf
<1> HIDE DEF best
<1>8. CASE bold = <<>>
  BY <1>1, <1>8 DEF Full
<1>9. CASE bold # <<>>
  <2>1. best \in Nat /\ best <= n
    BY <1>2, <1>7, <1>9
  <2>2. Round4(best, n) \in Nat /\ Round4(best, n) <= Full
    BY <1>2, <2>1, RoundType
  <2> QED
    BY <1>1, <1>9, <2>2
<1> QED
  BY <1>8, <1>9

LEMMA ConnectionsType ==
    ASSUME NEW S, NEW text \in Seq(S), NEW truth \in Seq(Seq(S))
    PROVE  ScoreConnections(text, truth) \in Nat
<1> DEFINE groups == GroupWords(truth)
           matches == SolutionMatches(text)
           words == SolutionWords(matches, Len(truth))
           answer == GroupWords(words)
           correct == Only(answer, ToSet(groups))
<1>1. ScoreConnections(text, truth) =
         IF matches = <<>> THEN ScoreBold(text, groups) ELSE Round4(Len(correct), Len(groups))
  BY DEF ScoreConnections
<1>2. groups \in Seq(SUBSET Seq(S)) /\ groups # <<>>
  BY GroupWordsType
<1>3. matches \in Seq(Seq(S))
  BY SolutionMatchesType
<1> HIDE DEF groups, matches
<1>4. words \in Seq(Seq(S))
  BY <1>3, SolutionWordsType
<1> HIDE DEF words
<1>5. answer \in Seq(SUBSET Seq(S))
  BY <1>4, GroupWordsType
<1> HIDE DEF answer
<1>6. correct \in Seq(SUBSET Seq(S))
  BY <1>5, OnlyType
<1> HIDE DEF correct
<1>7. Len(correct) \in Nat /\ Len(groups) \in Nat /\ Len(groups) > 0
  BY <1>2, <1>6
<1>8. Round4(Len(correct), Len(groups)) \in Nat
  BY <1>7, RoundType
<1>9. ScoreBold(text, groups) \in Nat
  BY <1>2, BoldCredit
<1> QED
  BY <1>1, <1>8, <1>9

-----------------------------------------------------------------------------
(* tablejoin                                                               *)

LEMMA DictOfIs ==
    \A text :
        LET s == Strip(text)
            entries == Split(SubSeq(s, 2, Len(s) - 1), Comma)
            Given(k) == {i \in DOMAIN entries : Strip(entries[i])[1] = k}
            keys == {Strip(entries[i])[1] : i \in DOMAIN entries}
        IN  DictOf(text) =
                IF Len(s) < 2 \/ s[1] # OpenBrace \/ s[Len(s)] # CloseBrace THEN <<>>
                ELSE IF Strip(SubSeq(s, 2, Len(s) - 1)) = <<>> THEN << [k \in {} |-> ""] >>
                ELSE IF \A i \in DOMAIN entries :
                            /\ Len(Strip(entries[i])) = 3 /\ Strip(entries[i])[2] = ":"
                            /\ ToSet(entries[i]) \cap {OpenBrace, CloseBrace} = {}
                THEN << [k \in keys |-> Strip(entries[Max(Given(k))])[3]] >>
                ELSE <<>>
  BY Zenon DEF DictOf, Comma, OpenBrace, CloseBrace

\* A dictionary: a function with finitely many keys.
IsDict(d) == d = [k \in DOMAIN d |-> d[k]] /\ IsFiniteSet(DOMAIN d)

LEMMA NoKeys == IsDict([k \in {} |-> ""])
<1>1. IsFiniteSet({})
  BY FS_EmptySet
<1> QED
  BY <1>1 DEF IsDict

LEMMA KeysFinite ==
    ASSUME NEW S, NEW s \in Seq(S), NEW f, f = [i \in DOMAIN s |-> f[i]]
    PROVE  IsFiniteSet({f[i] : i \in DOMAIN s})
<1> DEFINE D == DOMAIN s
           T == {f[i] : i \in D}
<1>1. IsFiniteSet(D)
  <2> DEFINE n == Len(s)
  <2>1. D = 1 .. n /\ n \in Int /\ 1 \in Int
    OBVIOUS
  <2> HIDE DEF D, n
  <2>2. IsFiniteSet(1 .. n)
    BY <2>1, FS_Interval
  <2> QED
    BY <2>1, <2>2
<1>2. f \in Surjection(D, T)
  BY DEF Surjection
<1> HIDE DEF T, D
<1>3. IsFiniteSet(T)
  BY <1>1, <1>2, FS_Surjection
<1> QED
  BY <1>3 DEF T, D

LEMMA DictOfType ==
    ASSUME NEW S, NEW text \in Seq(S)
    PROVE  DictOf(text) = <<>> \/ \E d : DictOf(text) = <<d>> /\ IsDict(d)
<1> DEFINE s == Strip(text)
           inner == SubSeq(s, 2, Len(s) - 1)
           entries == Split(inner, Comma)
           first(i) == Strip(entries[i])[1]
           value(k) == Strip(entries[Max({i \in DOMAIN entries : first(i) = k})])[3]
           keys == {first(i) : i \in DOMAIN entries}
           empty == [k \in {} |-> ""]
           full == [k \in keys |-> value(k)]
           other == Len(s) < 2 \/ s[1] # OpenBrace \/ s[Len(s)] # CloseBrace
           fine == \A i \in DOMAIN entries :
                      /\ Len(Strip(entries[i])) = 3 /\ Strip(entries[i])[2] = ":"
                      /\ ToSet(entries[i]) \cap {OpenBrace, CloseBrace} = {}
<1>1. DictOf(text) = IF other THEN <<>> ELSE IF Strip(inner) = <<>> THEN <<empty>>
                     ELSE IF fine THEN <<full>> ELSE <<>>
  BY Zenon, DictOfIs
<1>2. IsDict(empty)
  BY NoKeys
<1>3. s \in Seq(S)
  BY StripType
<1> HIDE DEF s, fine, empty
<1>4. ASSUME ~other PROVE IsDict(full)
  <2>1. Len(s) >= 2 /\ Len(s) \in Nat
    BY <1>3, <1>4
  <2>2. inner \in Seq(S)
    BY <1>3, <2>1, PartType
  <2> HIDE DEF inner
  <2>3. entries \in Seq(Seq(S))
    BY <2>2, SplitType
  <2> HIDE DEF entries, first, value
  <2> DEFINE f == [i \in DOMAIN entries |-> first(i)]
  <2>4. f = [i \in DOMAIN entries |-> f[i]] /\ \A i \in DOMAIN entries : f[i] = first(i)
    OBVIOUS
  <2>5. keys = {f[i] : i \in DOMAIN entries}
    BY <2>4
  <2> HIDE DEF f
  <2>6. IsFiniteSet({f[i] : i \in DOMAIN entries})
    BY <2>3, <2>4, KeysFinite
  <2>7. IsFiniteSet(keys)
    BY <2>5, <2>6
  <2> HIDE DEF keys
  <2>8. DOMAIN full = keys /\ full = [k \in DOMAIN full |-> full[k]]
    OBVIOUS
  <2> QED
    BY <2>7, <2>8 DEF IsDict
<1> HIDE DEF full, other
<1>5. CASE other
  BY <1>1, <1>5
<1>6. CASE ~other /\ Strip(inner) = <<>>
  BY <1>1, <1>2, <1>6
<1>7. CASE ~other /\ Strip(inner) # <<>> /\ fine
  BY <1>1, <1>4, <1>7
<1>8. CASE ~other /\ Strip(inner) # <<>> /\ ~fine
  BY <1>1, <1>8
<1> QED
  BY <1>5, <1>6, <1>7, <1>8

\* The texts in fences that open in one way.
LEMMA FencedType ==
    ASSUME NEW S, NEW text \in Seq(S), NEW opening, Len(opening) \in Nat \ {0}
    PROVE  Fenced(text, opening) \in Seq(Seq(S))
<1> DEFINE width == Len(opening)
           starts == {i \in 1 .. Len(text) - width + 1 : SubSeq(text, i, i + width - 1) = opening}
           upTo(i) == {e \in At(text, "fence") : i + width <= e}
           ends == [i \in starts |-> upTo(i)]
           found == Spans(text, width, 1, ends)
<1>1. Fenced(text, opening) = IF found = <<>> THEN <<>> ELSE <<Last(found)>>
  BY DEF Fenced
<1>2. width \in Nat \ {0} /\ Len(text) \in Nat
  OBVIOUS
<1> HIDE DEF width
<1>3. starts \subseteq 1 .. Len(text)
  BY <1>2
<1>4. \A i \in starts : upTo(i) \subseteq i + width .. Len(text)
  <2> TAKE i \in starts
  <2>1. At(text, "fence") \subseteq 1 .. Len(text)
    BY AtType
  <2>2. i \in Nat
    BY <1>3
  <2> QED
    BY <1>2, <2>1, <2>2
<1> HIDE DEF starts, upTo
<1>5. Spannable(text, width, 1, ends)
  <2>1. DOMAIN ends = starts /\ \A i \in starts : ends[i] = upTo(i)
    OBVIOUS
  <2> QED
    BY <1>2, <1>3, <1>4, <2>1 DEF Spannable
<1> HIDE DEF ends
<1>6. found \in Seq(Seq(S))
  BY <1>5, SpansType
<1> HIDE DEF found
<1> QED
  BY <1>1, <1>6, LastType

LEMMA CleanJoinIs ==
    \A text :
        LET s == LastSolution(text)
            flat == Without(s, {"nl"})
            attempts == Fenced(flat, <<"fence", "python">>) \o Fenced(flat, <<"fence", "json">>)
                        \o Fenced(flat, <<"fence">>) \o LastBoxed(flat) \o <<s>>
            dicts == IF DictOf(s) # <<>> THEN DictOf(s) ELSE DictOf(attempts[1])
        IN  CleanJoin(text) =
                IF dicts = <<>> THEN [k \in {} |-> ""]
                ELSE LET d == dicts[1] IN [k \in {j \in DOMAIN d : d[j] # "None"} |-> d[k]]
  BY Zenon DEF CleanJoin

LEMMA CleanJoinType ==
    ASSUME NEW S, NEW text \in Seq(S)
    PROVE  IsDict(CleanJoin(text))
<1> DEFINE s == LastSolution(text)
           flat == Without(s, {"nl"})
           python == Fenced(flat, <<"fence", "python">>)
           json == Fenced(flat, <<"fence", "json">>)
           plain == Fenced(flat, <<"fence">>)
           boxed == LastBoxed(flat)
           attempts == python \o json \o plain \o boxed \o <<s>>
           dicts == IF DictOf(s) # <<>> THEN DictOf(s) ELSE DictOf(attempts[1])
           cleaned(d) == [k \in {j \in DOMAIN d : d[j] # "None"} |-> d[k]]
<1>1. CleanJoin(text) = IF dicts = <<>> THEN [k \in {} |-> ""] ELSE cleaned(dicts[1])
  BY Zenon, CleanJoinIs
<1>2. s \in Seq(S)
  BY LastSolutionType
<1> HIDE DEF s
<1>3. flat \in Seq(S)
  BY <1>2, WithoutType
<1> HIDE DEF flat
<1>4. python \in Seq(Seq(S)) /\ json \in Seq(Seq(S)) /\ plain \in Seq(Seq(S))
  <2>1. /\ Len(<<"fence", "python">>) \in Nat \ {0} /\ Len(<<"fence", "json">>) \in Nat \ {0}
        /\ Len(<<"fence">>) \in Nat \ {0}
    OBVIOUS
  <2> QED
    BY <1>3, <2>1, FencedType
<1>5. boxed \in Seq(Seq(S))
  BY <1>3, LastBoxedType
<1> HIDE DEF python, json, plain, boxed
<1>6. attempts[1] \in Seq(S)
  <2>1. <<s>> \in Seq(Seq(S)) /\ <<s>> # <<>>
    BY <1>2
  <2> DEFINE others == python \o json \o plain \o boxed
  <2>2. others \in Seq(Seq(S))
    BY <1>4, <1>5, ConcatProperties
  <2> HIDE DEF others
  <2>3. others \o <<s>> \in Seq(Seq(S)) /\ others \o <<s>> # <<>>
    BY <2>1, <2>2
  <2>4. attempts = others \o <<s>>
    BY DEF others
  <2> HIDE DEF attempts
  <2> QED
    BY <2>3, <2>4, LastType
<1> HIDE DEF attempts
<1>7. dicts = <<>> \/ \E d : dicts = <<d>> /\ IsDict(d)
  BY <1>2, <1>6, DictOfType
<1> HIDE DEF dicts
<1>8. CASE dicts = <<>>
  BY <1>1, <1>8, NoKeys
<1>9. CASE dicts # <<>>
  <2>1. PICK d : dicts = <<d>> /\ IsDict(d)
    BY <1>7, <1>9
  <2>2. dicts[1] = d
    BY <2>1
  <2> DEFINE K == {j \in DOMAIN d : d[j] # "None"}
  <2>3. IsFiniteSet(K)
    <3>1. K \in SUBSET (DOMAIN d) /\ IsFiniteSet(DOMAIN d)
      BY <2>1 DEF IsDict
    <3> HIDE DEF K
    <3> QED
      BY <3>1, FS_Subset
  <2>4. IsDict(cleaned(d))
    <3>1. DOMAIN cleaned(d) = K /\ cleaned(d) = [k \in DOMAIN cleaned(d) |-> cleaned(d)[k]]
      OBVIOUS
    <3> HIDE DEF K, cleaned
    <3> QED
      BY <2>3, <3>1 DEF IsDict
  <2> QED
    BY <1>1, <1>9, <2>2, <2>4
<1> QED
  BY <1>8, <1>9

\* The counts of a join's score: d is never below n, and the score is a
\* percentage in hundredths.
LEMMA JoinCredit ==
    ASSUME NEW llm, IsDict(llm), NEW truth, IsDict(truth)
    PROVE  JoinScore(llm, truth) \in Nat /\ JoinScore(llm, truth) <= Full
<1> DEFINE known == {k \in DOMAIN llm : k \in DOMAIN truth /\ truth[k] \notin Falsy}
           tp == {k \in known : llm[k] = truth[k]}
           missing == {k \in DOMAIN truth : k \notin DOMAIN llm \/ llm[k] \in Falsy}
           a == Cardinality(DOMAIN llm \ tp)
           b == Cardinality(known \ tp)
           c == Cardinality(missing)
           t == Cardinality(tp)
           n == 2 * t
           d == n + a + b + c
           share == Nearest(100 * n, d)
<1>1. JoinScore(llm, truth) = IF tp = {} THEN 0 ELSE 100 * share
  BY DEF JoinScore
<1>2. a \in Nat /\ b \in Nat /\ c \in Nat /\ t \in Nat /\ (tp # {} => t > 0)
  <2>1. IsFiniteSet(DOMAIN llm) /\ IsFiniteSet(DOMAIN truth)
    BY DEF IsDict
  <2>2. /\ tp \in SUBSET (DOMAIN llm) /\ DOMAIN llm \ tp \in SUBSET (DOMAIN llm)
        /\ known \ tp \in SUBSET (DOMAIN llm) /\ missing \in SUBSET (DOMAIN truth)
    OBVIOUS
  <2> HIDE DEF tp, missing, known
  <2>3. /\ IsFiniteSet(tp) /\ IsFiniteSet(DOMAIN llm \ tp)
        /\ IsFiniteSet(known \ tp) /\ IsFiniteSet(missing)
    BY <2>1, <2>2, FS_Subset
  <2> QED
    BY <2>3, FS_CardinalityType, FS_EmptySet
<1> HIDE DEF tp, a, b, c, t
<1>3. CASE tp = {}
  BY <1>1, <1>3 DEF Full
<1>4. CASE tp # {}
  <2>1. n \in Nat /\ d \in Nat /\ n <= d /\ d > 0
    BY <1>2, <1>4
  <2> HIDE DEF n, d
  <2> DEFINE m == 100 * n
  <2>2. m \in Nat /\ 2 * m + d < (100 + 1) * (2 * d)
    BY <2>1
  <2>3. share = Nearest(m, d)
    OBVIOUS
  <2> HIDE DEF m, share
  <2>4. share \in Nat /\ share <= 100
    BY <2>1, <2>2, <2>3, NearestBound
  <2> QED
    BY <1>1, <1>4, <2>4 DEF Full
<1> QED
  BY <1>3, <1>4

\* A dictionary has as many pairs as keys.
LEMMA PairsCount ==
    ASSUME NEW d, NEW K \in SUBSET (DOMAIN d), IsFiniteSet(K)
    PROVE  LET P == {<<k, d[k]>> : k \in K}
           IN  IsFiniteSet(P) /\ Cardinality(P) = Cardinality(K)
<1> DEFINE P == {<<k, d[k]>> : k \in K}
           f == [k \in K |-> <<k, d[k]>>]
<1>1. f \in Surjection(K, P)
  BY DEF Surjection
<1>2. f \in Injection(K, P)
  <2>1. \A j, k \in K : f[j] = f[k] => j = k
    OBVIOUS
  <2> QED
    BY <1>1, <2>1 DEF Injection, IsInjective, Surjection
<1> HIDE DEF f, P
<1>3. IsFiniteSet(P) /\ Cardinality(P) = Cardinality(K)
  BY <1>1, <1>2, FS_Surjection
<1> QED
  BY <1>3 DEF P

LEMMA JoinIsDice ==
    ASSUME NEW llm, IsDict(llm), NEW truth, IsDict(truth),
           \A p \in Pairs(llm) \cup Pairs(truth) : p[2] \notin Falsy,
           Cardinality(Pairs(llm)) + Cardinality(Pairs(truth)) > 0
    PROVE  LET both == Cardinality(Pairs(llm)) + Cardinality(Pairs(truth))
               common == Cardinality(Pairs(llm) \cap Pairs(truth))
           IN  JoinScore(llm, truth) = 100 * Nearest(200 * common, both)
<1> DEFINE A == DOMAIN llm
           B == DOMAIN truth
           known == {k \in A : k \in B /\ truth[k] \notin Falsy}
           tp == {k \in known : llm[k] = truth[k]}
           missing == {k \in B : k \notin A \/ llm[k] \in Falsy}
           n == 2 * Cardinality(tp)
           d == n + Cardinality(A \ tp) + Cardinality(known \ tp) + Cardinality(missing)
           both == Cardinality(Pairs(llm)) + Cardinality(Pairs(truth))
           common == Cardinality(Pairs(llm) \cap Pairs(truth))
<1>1. JoinScore(llm, truth) = IF tp = {} THEN 0 ELSE 100 * Nearest(100 * n, d)
  BY DEF JoinScore
<1>2. IsFiniteSet(A) /\ IsFiniteSet(B)
  BY DEF IsDict
<1>3. (\A k \in A : llm[k] \notin Falsy) /\ (\A k \in B : truth[k] \notin Falsy)
  <2>1. ASSUME NEW k \in A PROVE llm[k] \notin Falsy
    <3>1. <<k, llm[k]>> \in Pairs(llm)
      BY DEF Pairs
    <3>2. <<k, llm[k]>>[2] = llm[k]
      OBVIOUS
    <3> QED
      BY <3>1, <3>2
  <2>2. ASSUME NEW k \in B PROVE truth[k] \notin Falsy
    <3>1. <<k, truth[k]>> \in Pairs(truth)
      BY DEF Pairs
    <3>2. <<k, truth[k]>>[2] = truth[k]
      OBVIOUS
    <3> QED
      BY <3>1, <3>2
  <2> QED
    BY <2>1, <2>2
<1>4. known = A \cap B /\ missing = B \ A
  BY <1>3
<1>5. tp \in SUBSET (A \cap B)
  OBVIOUS
<1>6. Pairs(llm) \cap Pairs(truth) = {<<k, llm[k]>> : k \in tp}
  BY <1>4 DEF Pairs
<1>7. Cardinality(Pairs(llm)) = Cardinality(A) /\ Cardinality(Pairs(truth)) = Cardinality(B)
  BY <1>2, PairsCount DEF Pairs
<1>8. common = Cardinality(tp)
  <2>1. tp \in SUBSET (DOMAIN llm) /\ IsFiniteSet(tp)
    BY <1>2, <1>5, FS_Subset
  <2> HIDE DEF tp
  <2>2. Cardinality({<<k, llm[k]>> : k \in tp}) = Cardinality(tp)
    BY <2>1, PairsCount
  <2> QED
    BY <1>6, <2>2
<1> HIDE DEF known, missing, tp, A, B
<1> DEFINE t == Cardinality(tp)
           a == Cardinality(A)
           b == Cardinality(B)
           ab == Cardinality(A \cap B)
<1>9. /\ a \in Nat /\ b \in Nat /\ ab \in Nat /\ t \in Nat /\ IsFiniteSet(tp) /\ IsFiniteSet(A \cap B)
      /\ Cardinality(A \ tp) = a - t /\ Cardinality((A \cap B) \ tp) = ab - t
      /\ Cardinality(B \ A) = b - ab
  <2>1. A \cap B \in SUBSET A /\ IsFiniteSet(A \cap B) /\ tp \in SUBSET A
    BY <1>2, <1>5, FS_Subset
  <2>2. IsFiniteSet(tp)
    BY <1>2, <2>1, FS_Subset
  <2>3. A \cap tp = tp /\ (A \cap B) \cap tp = tp /\ B \cap A = A \cap B
    BY <1>5
  <2>4. /\ Cardinality(A \ tp) = a - Cardinality(A \cap tp)
        /\ Cardinality((A \cap B) \ tp) = ab - Cardinality((A \cap B) \cap tp)
        /\ Cardinality(B \ A) = b - Cardinality(B \cap A)
    BY <1>2, <2>1, FS_Difference
  <2> QED
    BY <1>2, <2>1, <2>2, <2>3, <2>4, FS_CardinalityType
<1>10. d = a + b /\ both = a + b /\ common = t /\ n = 2 * t
  <2>1. d = n + (a - t) + (ab - t) + (b - ab)
    BY <1>4, <1>9
  <2> HIDE DEF a, b, ab, t, d
  <2> QED
    BY <1>7, <1>8, <1>9, <2>1 DEF a, b, t
<1>11. tp = {} => t = 0
  BY FS_EmptySet
<1> DEFINE result == 100 * Nearest(200 * common, both)
<1>12. both > 0
  OBVIOUS
<1> HIDE DEF d, n, both, common
<1>13. CASE tp # {}
  <2>1. 100 * n = 200 * common /\ d = both
    <3> HIDE DEF a, b, t
    <3> QED
      BY <1>9, <1>10
  <2>2. JoinScore(llm, truth) = result
    BY <1>1, <1>13, <2>1
  <2> QED
    BY <2>2 DEF both, common
<1>14. CASE tp = {}
  <2>1. common = 0 /\ both \in Nat
    <3> HIDE DEF a, b, t
    <3> QED
      BY <1>9, <1>10, <1>11, <1>14
  <2>2. 200 * common = 0 /\ 0 = 0 * both
    BY <2>1
  <2>3. Nearest(0, both) = 0
    BY <1>12, <2>1, <2>2, NearestExact
  <2>4. result = 0
    BY <2>2, <2>3
  <2> QED
    BY <1>1, <1>14, <2>4 DEF both, common
<1> QED
  BY <1>13, <1>14

-----------------------------------------------------------------------------
(* The grading of an answer                                                *)

LEMMA QuestionIs ==
    \A i \in DOMAIN Questions :
        LET q == Questions[i]
        IN  /\ q.size \in Nat
            /\ q.pieces \subseteq Texts
            /\ q.task = "instruction_following" => q.truth \in Seq(ToSet(q.truth))
            /\ q.task # "instruction_following" => q.truth \in Texts
            /\ q.task = "zebra_puzzle" => Without(q.truth, {Comma}) # <<>>
  BY Zenon, QuestionsAssumption DEF Comma

\* The scores that the script may give what is said in answer to a question.
MathScore(q, said, s) ==
    \/ q.task = "olympiad" /\ s = ScoreOlympiad(said, ParseIntegers(q.truth))
    \/ q.task = "AMPS_Hard" /\ \E sympy \in BOOLEAN : s = ScoreAmpsHard(said, q.truth, sympy)
    \/ q.task = "math_comp" /\ s = ScoreMathComp(said, q.truth, q.value)

LanguageScore(q, said, s) ==
    \/ q.task = "connections" /\ s = ScoreConnections(said, Split(q.truth, Comma))
    \/ q.task = "plot_unscrambling" /\ s \in PlotScores(said, q.truth)
    \/ q.task = "typos" /\ s = ScoreTypos(said, q.truth)

ReasoningScore(q, said, s) ==
    \/ q.task = "spatial" /\ s = ScoreSpatial(said, q.truth[1])
    \/ q.task = "web_of_lies_v2" /\ s = ScoreWebOfLies(said, q.truth)
    \/ q.task = "zebra_puzzle" /\ s = ScoreZebra(said, Without(q.truth, {Comma}))

TableScore(q, said, s) ==
    \/ q.task = "cta" /\ s = ScoreCta(said, q.truth)
    \/ q.task = "tablejoin" /\ s = ScoreTableJoin(said, q.truth)
    \/ q.task = "tablereformat" /\ s = ScoreTableReformat(said, q.truth, "none")

InstructionScore(q, said, s) ==
    /\ q.task = "instruction_following"
    /\ \E detected \in BOOLEAN : s = ScoreInstructionFollowing(said, q.truth, detected)

ScoreOf(q, said, s) ==
    \/ MathScore(q, said, s) \/ LanguageScore(q, said, s) \/ ReasoningScore(q, said, s)
    \/ TableScore(q, said, s) \/ InstructionScore(q, said, s)

Scored(s) == [by |-> "script", score |-> s]

\* A step that grades records one of them and leaves the answer as it is.
LEMMA GradeIs ==
    GradeMath \/ GradeLanguage \/ GradeReasoning \/ GradeTables \/ GradeInstructions =>
        /\ recorded = Unscored /\ UNCHANGED <<question, pieces, response>>
        /\ \E s : recorded' = Scored(s) /\ ScoreOf(Asked, Said, s)
<1>1. ASSUME GradeMath
      PROVE  /\ recorded = Unscored /\ UNCHANGED <<question, pieces, response>>
             /\ \E s : recorded' = Scored(s) /\ ScoreOf(Asked, Said, s)
  <2>1. CASE Asked.task = "olympiad"
    BY <1>1, <2>1, Zenon DEF GradeMath, Record, Scored, ScoreOf, MathScore
  <2>2. CASE Asked.task = "AMPS_Hard"
    BY <1>1, <2>2, Zenon DEF GradeMath, Record, Scored, ScoreOf, MathScore
  <2>3. CASE Asked.task = "math_comp"
    BY <1>1, <2>3, Zenon DEF GradeMath, Record, Scored, ScoreOf, MathScore
  <2> QED
    BY <1>1, <2>1, <2>2, <2>3 DEF GradeMath
<1>2. ASSUME GradeLanguage
      PROVE  /\ recorded = Unscored /\ UNCHANGED <<question, pieces, response>>
             /\ \E s : recorded' = Scored(s) /\ ScoreOf(Asked, Said, s)
  <2>1. CASE Asked.task = "connections"
    BY <1>2, <2>1, Zenon DEF GradeLanguage, Record, Scored, ScoreOf, LanguageScore, Comma
  <2>2. CASE Asked.task = "plot_unscrambling"
    BY <1>2, <2>2, Zenon DEF GradeLanguage, Record, Scored, ScoreOf, LanguageScore
  <2>3. CASE Asked.task = "typos"
    BY <1>2, <2>3, Zenon DEF GradeLanguage, Record, Scored, ScoreOf, LanguageScore
  <2> QED
    BY <1>2, <2>1, <2>2, <2>3, Zenon DEF GradeLanguage
<1>3. ASSUME GradeReasoning
      PROVE  /\ recorded = Unscored /\ UNCHANGED <<question, pieces, response>>
             /\ \E s : recorded' = Scored(s) /\ ScoreOf(Asked, Said, s)
  <2>1. CASE Asked.task = "spatial"
    BY <1>3, <2>1, Zenon DEF GradeReasoning, Record, Scored, ScoreOf, ReasoningScore
  <2>2. CASE Asked.task = "web_of_lies_v2"
    BY <1>3, <2>2, Zenon DEF GradeReasoning, Record, Scored, ScoreOf, ReasoningScore
  <2>3. CASE Asked.task = "zebra_puzzle"
    BY <1>3, <2>3, Zenon DEF GradeReasoning, Record, Scored, ScoreOf, ReasoningScore, Comma
  <2> QED
    BY <1>3, <2>1, <2>2, <2>3, Zenon DEF GradeReasoning
<1>4. ASSUME GradeTables
      PROVE  /\ recorded = Unscored /\ UNCHANGED <<question, pieces, response>>
             /\ \E s : recorded' = Scored(s) /\ ScoreOf(Asked, Said, s)
  <2>1. CASE Asked.task = "cta"
    BY <1>4, <2>1, Zenon DEF GradeTables, Record, Scored, ScoreOf, TableScore
  <2>2. CASE Asked.task = "tablejoin"
    BY <1>4, <2>2, Zenon DEF GradeTables, Record, Scored, ScoreOf, TableScore
  <2>3. CASE Asked.task = "tablereformat"
    BY <1>4, <2>3, Zenon DEF GradeTables, Record, Scored, ScoreOf, TableScore
  <2> QED
    BY <1>4, <2>1, <2>2, <2>3 DEF GradeTables
<1>5. ASSUME GradeInstructions
      PROVE  /\ recorded = Unscored /\ UNCHANGED <<question, pieces, response>>
             /\ \E s : recorded' = Scored(s) /\ ScoreOf(Asked, Said, s)
  BY <1>5, Zenon DEF GradeInstructions, Record, Scored, ScoreOf, InstructionScore
<1> QED
  BY <1>1, <1>2, <1>3, <1>4, <1>5, Zenon

LEMMA SaidType == \A said \in Texts : StripThink(said) \in Texts
  BY StripThinkType DEF Texts

\* A zebra puzzle's truth has a part to get right.
LEMMA ZebraTruth ==
    ASSUME NEW i \in DOMAIN Questions, Questions[i].task = "zebra_puzzle"
    PROVE  /\ Questions[i].truth \in Seq(STRING)
           /\ Without(Questions[i].truth, {Comma}) \in Seq(STRING)
           /\ Without(Questions[i].truth, {Comma}) # <<>>
<1> DEFINE truth == Questions[i].truth
<1>1. truth \in Seq(STRING) /\ Without(truth, {Comma}) # <<>>
  BY QuestionIs DEF Texts
<1> HIDE DEF truth
<1>2. Without(truth, {Comma}) \in Seq(STRING)
  BY <1>1, WithoutType
<1> QED
  BY <1>1, <1>2 DEF truth

\* Whatever is said, a score is a natural number, at most Full except in
\* connections; credit for parts is full or below half.
LEMMA ScoreOfType ==
    ASSUME NEW i \in DOMAIN Questions, NEW said \in Texts, NEW s, ScoreOf(Questions[i], said, s)
    PROVE  /\ s \in Nat
           /\ Questions[i].task # "connections" => s <= Full
           /\ Questions[i].task \in {"zebra_puzzle", "instruction_following"} =>
                 \/ s = Full \/ 2 * s < Full
                 \/ 2 * s = Full /\ Len(Questions[i].truth) >= Full
<1> DEFINE q == Questions[i]
           truth == Questions[i].truth
           task == Questions[i].task
           goal == /\ s \in Nat
                   /\ task # "connections" => s <= Full
                   /\ task \in {"zebra_puzzle", "instruction_following"} =>
                         s = Full \/ 2 * s < Full \/ (2 * s = Full /\ Len(truth) >= Full)
<1> SUFFICES goal
  OBVIOUS
<1>1. said \in Seq(STRING)
  BY DEF Texts
<1>2. task # "instruction_following" => truth \in Seq(STRING)
  BY QuestionIs DEF Texts
<1>3. task = "instruction_following" => truth \in Seq(ToSet(truth))
  BY QuestionIs
<1>4. ASSUME task \notin {"connections", "zebra_puzzle", "instruction_following"},
             s \in Nat, s <= Full
      PROVE  goal
  BY <1>4
<1>5. 0 \in Nat /\ 0 <= Full /\ Full \in Nat
  BY DEF Full
<1>6. CASE task = "olympiad" /\ s = ScoreOlympiad(said, ParseIntegers(truth))
  <2>1. ParseIntegers(truth) \in Seq(STRING)
    BY <1>2, <1>6, ParseIntegersType
  <2>2. s \in Nat /\ s <= Full
    BY <1>1, <1>6, <2>1, OlympiadCredit
  <2> QED
    BY <1>4, <1>6, <2>2
<1>7. CASE task = "AMPS_Hard" /\ \E sympy \in BOOLEAN : s = ScoreAmpsHard(said, truth, sympy)
  <2>1. s \in {0, Full}
    BY <1>7, AllOrNothing
  <2> QED
    BY <1>4, <1>5, <1>7, <2>1
<1>8. CASE task = "math_comp" /\ s = ScoreMathComp(said, truth, q.value)
  <2>1. s \in {0, Full}
    BY <1>8, MathCompAllOrNothing
  <2> QED
    BY <1>4, <1>5, <1>8, <2>1
<1>9. CASE task = "connections" /\ s = ScoreConnections(said, Split(truth, Comma))
  <2>1. Split(truth, Comma) \in Seq(Seq(STRING))
    BY <1>2, <1>9, SplitType
  <2>2. s \in Nat
    BY <1>1, <1>9, <2>1, ConnectionsType
  <2> QED
    BY <1>9, <2>2
<1>10. CASE task = "plot_unscrambling" /\ s \in PlotScores(said, truth)
  <2>1. s \in Nat /\ s <= Full
    BY <1>2, <1>10, PlotCredit
  <2> QED
    BY <1>4, <1>10, <2>1
<1>11. CASE task = "typos" /\ s = ScoreTypos(said, truth)
  <2>1. s \in {0, Full}
    BY <1>11, AllOrNothing
  <2> QED
    BY <1>4, <1>5, <1>11, <2>1
<1>12. CASE task = "spatial" /\ s = ScoreSpatial(said, truth[1])
  <2>1. s \in {0, Full}
    BY <1>12, AllOrNothing
  <2> QED
    BY <1>4, <1>5, <1>12, <2>1
<1>13. CASE task = "web_of_lies_v2" /\ s = ScoreWebOfLies(said, truth)
  <2>1. s \in {0, Full}
    BY <1>13, AllOrNothing
  <2> QED
    BY <1>4, <1>5, <1>13, <2>1
<1>14. CASE task = "zebra_puzzle" /\ s = ScoreZebra(said, Without(truth, {Comma}))
  <2> DEFINE words == Without(truth, {Comma})
  <2>1. truth \in Seq(STRING) /\ words \in Seq(STRING) /\ words # <<>>
    BY <1>14, ZebraTruth
  <2>2. Len(words) \in 0 .. Len(truth)
    BY <2>1, WithoutLen
  <2> HIDE DEF words, truth
  <2>3. /\ s \in Nat /\ s <= Full
        /\ s = Full \/ 2 * s < Full \/ (2 * s = Full /\ Len(words) >= Full)
    BY <1>14, <2>1, ZebraCredit DEF words
  <2>4. Len(words) >= Full => Len(truth) >= Full
    BY <1>5, <2>1, <2>2
  <2> QED
    BY <1>14, <2>3, <2>4 DEF truth
<1>15. CASE task = "cta" /\ s = ScoreCta(said, truth)
  <2>1. s \in {0, Full}
    BY <1>15, AllOrNothing
  <2> QED
    BY <1>4, <1>5, <1>15, <2>1
<1>16. CASE task = "tablejoin" /\ s = ScoreTableJoin(said, truth)
  <2>1. s = IF DictOf(truth) = <<>> THEN 0 ELSE JoinScore(CleanJoin(said), DictOf(truth)[1])
    BY <1>16 DEF ScoreTableJoin
  <2>2. DictOf(truth) = <<>> \/ \E d : DictOf(truth) = <<d>> /\ IsDict(d)
    BY <1>2, <1>16, DictOfType
  <2>3. IsDict(CleanJoin(said))
    BY <1>1, CleanJoinType
  <2>4. s \in Nat /\ s <= Full
    <3>1. CASE DictOf(truth) = <<>>
      BY <1>5, <2>1, <3>1
    <3>2. CASE DictOf(truth) # <<>>
      <4>1. PICK d : DictOf(truth) = <<d>> /\ IsDict(d)
        BY <2>2, <3>2
      <4>2. s = JoinScore(CleanJoin(said), d)
        BY <2>1, <3>2, <4>1
      <4> QED
        BY <2>3, <4>1, <4>2, JoinCredit
    <3> QED
      BY <3>1, <3>2
  <2> QED
    BY <1>4, <1>16, <2>4
<1>17. CASE task = "tablereformat" /\ s = ScoreTableReformat(said, truth, "none")
  <2>1. s \in {0, Full}
    BY <1>17, AllOrNothing
  <2> QED
    BY <1>4, <1>5, <1>17, <2>1
<1>18. CASE /\ task = "instruction_following"
            /\ \E detected \in BOOLEAN : s = ScoreInstructionFollowing(said, truth, detected)
  <2>1. Len(truth) \in Nat
    BY <1>3, <1>18
  <2> HIDE DEF truth
  <2>2. /\ s \in Nat /\ s <= Full
        /\ s = Full \/ 2 * s < Full \/ (2 * s = Full /\ Len(truth) >= Full)
    BY <1>18, <2>1, InstructionCredit
  <2> QED
    BY <1>18, <2>2 DEF truth
<1> HIDE DEF goal
<1>19. ASSUME MathScore(q, said, s) PROVE goal
  BY <1>6, <1>7, <1>8, <1>19 DEF MathScore
<1>20. ASSUME LanguageScore(q, said, s) PROVE goal
  BY <1>9, <1>10, <1>11, <1>20 DEF LanguageScore
<1>21. ASSUME ReasoningScore(q, said, s) PROVE goal
  BY <1>12, <1>13, <1>14, <1>21 DEF ReasoningScore
<1>22. ASSUME TableScore(q, said, s) PROVE goal
  BY <1>15, <1>16, <1>17, <1>22 DEF TableScore
<1>23. ASSUME InstructionScore(q, said, s) PROVE goal
  BY <1>18, <1>23 DEF InstructionScore
<1>24. goal
  BY <1>19, <1>20, <1>21, <1>22, <1>23, Zenon DEF ScoreOf
<1> QED
  BY <1>24

\* The inductive invariant: a recorded score is one that the script gives what
\* the response says, and none is recorded while the response is written.
ScoresInv ==
    /\ question \in DOMAIN Questions
    /\ pieces \in 0 .. Asked.size
    /\ response \in Texts
    /\ ToSet(response) \subseteq UNION {ToSet(p) : p \in Asked.pieces}
    /\ \/ recorded = Unscored
       \/ recorded = [by |-> "harness", score |-> 0]
       \/ \E s : recorded = Scored(s) /\ ScoreOf(Asked, Said, s)

LEMMA InitInv == Init => ScoresInv
<1> SUFFICES ASSUME Init PROVE ScoresInv
  OBVIOUS
<1>1. question \in DOMAIN Questions /\ pieces = 0 /\ response = <<>> /\ recorded = Unscored
  BY DEF Init
<1>2. 0 \in 0 .. Asked.size
  BY <1>1, QuestionIs DEF Asked
<1>3. <<>> \in Texts /\ ToSet(<<>>) = {}
  BY DEF Texts, ToSet
<1> QED
  BY <1>1, <1>2, <1>3 DEF ScoresInv

\* A piece more: the response stays a text made of the question's pieces.
LEMMA WriteInv == ScoresInv /\ Write => ScoresInv'
<1> SUFFICES ASSUME ScoresInv, Write PROVE ScoresInv'
  OBVIOUS
<1>1. /\ question \in DOMAIN Questions /\ pieces \in 0 .. Asked.size /\ response \in Texts
      /\ ToSet(response) \subseteq UNION {ToSet(p) : p \in Asked.pieces}
  BY DEF ScoresInv
<1>2. /\ recorded = Unscored /\ pieces < Asked.size /\ pieces' = pieces + 1
      /\ question' = question /\ recorded' = recorded
  BY DEF Write
<1>3. PICK piece \in Asked.pieces : response' = response \o piece
  BY DEF Write
<1>4. Asked' = Asked
  BY <1>2 DEF Asked
<1>5. piece \in Texts /\ Asked.size \in Nat
  BY <1>1, QuestionIs DEF Asked
<1>6. pieces' \in 0 .. Asked.size
  BY <1>1, <1>2, <1>5
<1>7. response' \in Texts
  BY <1>1, <1>3, <1>5, ConcatProperties DEF Texts
<1>8. ToSet(response') \subseteq UNION {ToSet(p) : p \in Asked.pieces}
  <2>1. ToSet(response \o piece) \subseteq ToSet(response) \cup ToSet(piece)
    <3> SUFFICES ASSUME NEW i \in DOMAIN (response \o piece)
                 PROVE  (response \o piece)[i] \in ToSet(response) \cup ToSet(piece)
      BY DEF ToSet
    <3>1. response \in Seq(STRING) /\ piece \in Seq(STRING)
      BY <1>1, <1>5 DEF Texts
    <3>2. i \in 1 .. Len(response) + Len(piece)
      BY <3>1
    <3>3. CASE i <= Len(response)
      <4>1. (response \o piece)[i] = response[i] /\ i \in DOMAIN response
        BY <3>1, <3>2, <3>3
      <4> QED
        BY <4>1 DEF ToSet
    <3>4. CASE i > Len(response)
      <4>1. /\ (response \o piece)[i] = piece[i - Len(response)]
            /\ i - Len(response) \in DOMAIN piece
        BY <3>1, <3>2, <3>4
      <4> QED
        BY <4>1 DEF ToSet
    <3> QED
      BY <3>1, <3>2, <3>3, <3>4
  <2>2. ToSet(piece) \subseteq UNION {ToSet(p) : p \in Asked.pieces}
    OBVIOUS
  <2> QED
    BY <1>1, <1>3, <2>1, <2>2
<1> QED
  BY <1>1, <1>2, <1>4, <1>6, <1>7, <1>8 DEF ScoresInv

\* A step that grades, or fails to.
LEMMA RecordInv ==
    ASSUME ScoresInv, UNCHANGED <<question, pieces, response>>,
           \/ recorded' = [by |-> "harness", score |-> 0]
           \/ \E s : recorded' = Scored(s) /\ ScoreOf(Asked, Said, s)
    PROVE  ScoresInv'
<1>1. question' = question /\ pieces' = pieces /\ response' = response
  OBVIOUS
<1>2. Asked' = Asked /\ Said' = Said
  BY <1>1 DEF Asked, Said
<1>3. /\ question \in DOMAIN Questions /\ pieces \in 0 .. Asked.size /\ response \in Texts
      /\ ToSet(response) \subseteq UNION {ToSet(p) : p \in Asked.pieces}
  BY DEF ScoresInv
<1>4. CASE recorded' = [by |-> "harness", score |-> 0]
  BY <1>1, <1>2, <1>3, <1>4 DEF ScoresInv
<1>5. CASE \E s : recorded' = Scored(s) /\ ScoreOf(Asked, Said, s)
  BY <1>1, <1>2, <1>3, <1>5 DEF ScoresInv
<1> QED
  BY <1>4, <1>5

LEMMA StutterInv == ScoresInv /\ UNCHANGED vars => ScoresInv'
<1> SUFFICES ASSUME ScoresInv, UNCHANGED vars PROVE ScoresInv'
  OBVIOUS
<1>1. question' = question /\ pieces' = pieces /\ response' = response /\ recorded' = recorded
  BY DEF vars
<1>2. Asked' = Asked /\ Said' = Said
  BY <1>1 DEF Asked, Said
<1> QED
  BY <1>1, <1>2 DEF ScoresInv

THEOREM Invariance == Spec => []ScoresInv
<1>1. Init => ScoresInv
  BY InitInv
<1>2. ScoresInv /\ [Next]_vars => ScoresInv'
  <2> SUFFICES ASSUME ScoresInv, [Next]_vars PROVE ScoresInv'
    OBVIOUS
  <2>1. CASE Write
    BY <2>1, WriteInv
  <2>2. CASE GradeMath \/ GradeLanguage \/ GradeReasoning \/ GradeTables \/ GradeInstructions
    BY <2>2, GradeIs, RecordInv
  <2>3. CASE ScriptFails
    BY <2>3, RecordInv DEF ScriptFails
  <2>4. CASE UNCHANGED vars
    BY <2>4, StutterInv
  <2> QED
    BY <2>1, <2>2, <2>3, <2>4 DEF Next
<1> QED
  BY <1>1, <1>2, PTL DEF Spec

\* What was recorded by the script is one of its scores.
LEMMA GradedScore ==
    ScoresInv /\ Graded => ScoreOf(Asked, Said, recorded.score)
<1> SUFFICES ASSUME ScoresInv, Graded PROVE ScoreOf(Asked, Said, recorded.score)
  OBVIOUS
<1>1. recorded.by = "script"
  BY DEF Graded
<1>2. PICK s : recorded = Scored(s) /\ ScoreOf(Asked, Said, s)
  BY <1>1 DEF ScoresInv, Unscored
<1>3. recorded.score = s
  BY <1>2 DEF Scored
<1> QED
  BY <1>2, <1>3

\* Types: a response is made of its question's pieces, and every score that is
\* recorded is a natural number, whatever the text that was graded.
THEOREM TypeCorrect == Spec => []TypeOK
<1>1. ScoresInv => TypeOK
  <2> SUFFICES ASSUME ScoresInv PROVE TypeOK
    OBVIOUS
  <2>1. /\ question \in DOMAIN Questions /\ pieces \in 0 .. Asked.size
        /\ ToSet(response) \subseteq UNION {ToSet(p) : p \in Asked.pieces}
        /\ response \in Texts
    BY DEF ScoresInv
  <2>2. CASE recorded = Unscored
    BY <2>1, <2>2 DEF TypeOK, Unscored
  <2>3. CASE recorded = [by |-> "harness", score |-> 0]
    BY <2>1, <2>3 DEF TypeOK
  <2>4. CASE \E s : recorded = Scored(s) /\ ScoreOf(Asked, Said, s)
    <3>1. PICK s : recorded = Scored(s) /\ ScoreOf(Asked, Said, s)
      BY <2>4
    <3>2. Said \in Texts
      BY <2>1, SaidType DEF Said
    <3>3. s \in Nat
      BY <2>1, <3>1, <3>2, ScoreOfType DEF Asked
    <3> QED
      BY <2>1, <3>1, <3>3 DEF TypeOK, Scored
  <2> QED
    BY <2>2, <2>3, <2>4 DEF ScoresInv
<1> QED
  BY <1>1, Invariance, PTL

\* Credit for parts of a puzzle or of the instructions stays below half.
THEOREM PartialCredit == Spec => []PartialCreditIsBelowHalf
<1>1. ScoresInv => PartialCreditIsBelowHalf
  <2> SUFFICES ASSUME ScoresInv, Graded, Asked.task \in {"zebra_puzzle", "instruction_following"}
               PROVE  \/ recorded.score = Full \/ 2 * recorded.score < Full
                      \/ 2 * recorded.score = Full /\ Len(Asked.truth) >= Full
    BY DEF PartialCreditIsBelowHalf
  <2>1. question \in DOMAIN Questions /\ response \in Texts
    BY DEF ScoresInv
  <2>2. Said \in Texts
    BY <2>1, SaidType DEF Said
  <2>3. ScoreOf(Asked, Said, recorded.score)
    BY GradedScore
  <2> QED
    BY <2>1, <2>2, <2>3, ScoreOfType DEF Asked
<1> QED
  BY <1>1, Invariance, PTL

\* The two edit distances, of different scripts and of different algorithms, are
\* one, and it is the least cost of an alignment.
THEOREM EditDistances == Spec => []EditDistancesAgree
<1>1. ScoresInv => EditDistancesAgree
  <2> SUFFICES ASSUME ScoresInv, Asked.task \in {"olympiad", "plot_unscrambling"}
               PROVE  /\ RowDistance(response, Asked.truth) = TableDistance(Asked.truth, response)
                      /\ RowDistance(response, Asked.truth) = CheapestAlignment(response, Asked.truth)
    BY DEF EditDistancesAgree
  <2> DEFINE truth == Asked.truth
  <2>1. response \in Seq(STRING) /\ truth \in Seq(STRING)
    BY QuestionIs DEF ScoresInv, Asked, Texts
  <2> HIDE DEF truth
  <2>2. Len(response) \in Nat /\ Len(truth) \in Nat
    BY <2>1
  <2>3. PICK e : /\ IsTable(e, response, truth)
                 /\ TableDistance(truth, response) = e[<<Len(response), Len(truth)>>]
                 /\ RowDistance(response, truth) = e[<<Len(response), Len(truth)>>]
    BY <2>2, DistancesAgree
  <2>4. CheapestAlignment(response, truth) = e[<<Len(response), Len(truth)>>]
    BY <2>1, <2>3, CheapestIsTable
  <2> QED
    BY <2>3, <2>4 DEF truth
<1> QED
  BY <1>1, Invariance, PTL

LEMMA BoxedCopiesAgreeIs ==
    BoxedCopiesAgree <=>
        ((\A i \in At(response, "boxed") : i + 1 \in At(response, OpenBrace)) /\ recorded = Unscored =>
            LET box == LastBoxed(response)
            IN  /\ BoxedText(response) = [i \in DOMAIN box |-> Without(box[i], {"$"})]
                /\ ExtractBoxed(response) = NonEmpty([i \in DOMAIN box |-> Strip(box[i])]))
  BY Zenon DEF BoxedCopiesAgree, OpenBrace

\* The three scripts' extractors of what is boxed find the same.
THEOREM BoxedCopies == Spec => []BoxedCopiesAgree
<1>1. ScoresInv => BoxedCopiesAgree
  <2>1. ScoresInv => response \in Texts
    BY DEF ScoresInv
  <2> QED
    BY <2>1, BoxedAgree, BoxedCopiesAgreeIs
<1> QED
  BY <1>1, Invariance, PTL

\* A join's score is the share of pairs that its two dictionaries have in common.
THEOREM JoinScores == Spec => []JoinScoreIsDice
<1>1. ScoresInv => JoinScoreIsDice
  <2> SUFFICES ASSUME ScoresInv, Graded, Asked.task = "tablejoin",
                      NEW dict \in ToSet(DictOf(Asked.truth))
               PROVE  LET llm == Pairs(CleanJoin(StripThink(response)))
                          true == Pairs(dict)
                          both == Cardinality(llm) + Cardinality(true)
                      IN  both > 0 /\ (\A p \in llm \cup true : p[2] \notin Falsy) =>
                             recorded.score =
                                 100 * Nearest(200 * Cardinality(llm \cap true), both)
    BY DEF JoinScoreIsDice
  <2> DEFINE truth == Asked.truth
             joined == CleanJoin(Said)
  <2>1. response \in Texts /\ truth \in Seq(STRING)
    BY QuestionIs DEF ScoresInv, Asked, Texts
  <2>2. Said \in Seq(STRING)
    BY <2>1, SaidType DEF Said, Texts
  <2>3. IsDict(joined)
    BY <2>2, CleanJoinType
  <2> HIDE DEF truth
  <2>4. PICK d : DictOf(truth) = <<d>> /\ IsDict(d)
    <3>1. DictOf(truth) # <<>>
      <4>1. DictOf(truth) = <<>> => ToSet(DictOf(truth)) = {}
        BY DEF ToSet
      <4> QED
        BY <4>1 DEF truth
    <3> QED
      BY <2>1, <3>1, DictOfType
  <2>5. dict = d
    BY <2>4 DEF ToSet, truth
  <2>6. recorded.score = JoinScore(joined, dict)
    <3>1. ScoreOf(Asked, Said, recorded.score)
      BY GradedScore
    <3>2. recorded.score = ScoreTableJoin(Said, truth)
      BY <3>1 DEF ScoreOf, MathScore, LanguageScore, ReasoningScore, TableScore, InstructionScore, truth
    <3>3. DictOf(truth) # <<>> /\ DictOf(truth)[1] = d
      BY <2>4
    <3> QED
      BY <2>5, <3>2, <3>3 DEF ScoreTableJoin
  <2>7. IsDict(dict)
    BY <2>4, <2>5
  <2> HIDE DEF joined
  <2>8. ASSUME \A p \in Pairs(joined) \cup Pairs(dict) : p[2] \notin Falsy,
               Cardinality(Pairs(joined)) + Cardinality(Pairs(dict)) > 0
        PROVE  LET both == Cardinality(Pairs(joined)) + Cardinality(Pairs(dict))
               IN  recorded.score =
                      100 * Nearest(200 * Cardinality(Pairs(joined) \cap Pairs(dict)), both)
    BY <2>3, <2>6, <2>7, <2>8, JoinIsDice
  <2> QED
    BY <2>8, Zenon DEF joined, Said
<1> QED
  BY <1>1, Invariance, PTL

-----------------------------------------------------------------------------
(* Counting tokens                                                         *)

\* How many tokens of a text between two positions are among W, and of all.
Spots(text, W, a, b) == {k \in a .. b : text[k] \in W}
Tally(text, W, a, b) == Cardinality(Spots(text, W, a, b))
Weight(text, W) == Tally(text, W, 1, Len(text))
Weighs(e, W) == IF e \in W THEN 1 ELSE 0

LEMMA SpotsFinite ==
    ASSUME NEW text, NEW W, NEW a \in Int, NEW b \in Int
    PROVE  /\ IsFiniteSet(Spots(text, W, a, b)) /\ Tally(text, W, a, b) \in Nat
           /\ b < a => Tally(text, W, a, b) = 0
<1>1. Spots(text, W, a, b) \in SUBSET (a .. b) /\ IsFiniteSet(a .. b)
  BY FS_Interval DEF Spots
<1>2. IsFiniteSet(Spots(text, W, a, b))
  BY <1>1, FS_Subset
<1>3. b < a => Spots(text, W, a, b) = {}
  BY DEF Spots
<1> QED
  BY <1>2, <1>3, FS_CardinalityType, FS_EmptySet DEF Tally

\* A stretch is the sum of its two parts, and any part of it has at most as many.
LEMMA TallyParts ==
    ASSUME NEW text, NEW W, NEW a \in Int, NEW m \in Int, NEW b \in Int, a <= m + 1, m <= b
    PROVE  Tally(text, W, a, b) = Tally(text, W, a, m) + Tally(text, W, m + 1, b)
<1> DEFINE A == Spots(text, W, a, m)
           B == Spots(text, W, m + 1, b)
<1>1. IsFiniteSet(A) /\ IsFiniteSet(B)
  BY SpotsFinite
<1>2. Spots(text, W, a, b) = A \cup B /\ A \cap B = {}
  BY DEF Spots
<1> HIDE DEF A, B
<1>3. Cardinality(A \cup B) = Cardinality(A) + Cardinality(B) - Cardinality({})
  BY <1>1, <1>2, FS_Union
<1>4. Cardinality(A) \in Nat /\ Cardinality(B) \in Nat /\ Cardinality({}) = 0
  BY <1>1, FS_CardinalityType, FS_EmptySet
<1>5. Cardinality(A \cup B) = Cardinality(A) + Cardinality(B)
  BY <1>3, <1>4
<1> QED
  BY <1>2, <1>5 DEF Tally, A, B

LEMMA TallyOne ==
    ASSUME NEW text, NEW W, NEW a \in Int
    PROVE  Tally(text, W, a, a) = Weighs(text[a], W)
<1>1. CASE text[a] \in W
  <2>1. Spots(text, W, a, a) = {a}
    BY <1>1 DEF Spots
  <2> QED
    BY <1>1, <2>1, FS_Singleton DEF Tally, Weighs
<1>2. CASE text[a] \notin W
  <2>1. Spots(text, W, a, a) = {}
    BY <1>2 DEF Spots
  <2> QED
    BY <1>2, <2>1, FS_EmptySet DEF Tally, Weighs
<1> QED
  BY <1>1, <1>2

LEMMA TallyEnds ==
    ASSUME NEW text, NEW W, NEW a \in Int, NEW b \in Int, a <= b
    PROVE  /\ Tally(text, W, a, b) = Tally(text, W, a, b - 1) + Weighs(text[b], W)
           /\ Tally(text, W, a, b) = Weighs(text[a], W) + Tally(text, W, a + 1, b)
<1>1. Tally(text, W, a, b) = Tally(text, W, a, b - 1) + Tally(text, W, b, b)
  <2> DEFINE m == b - 1
  <2>1. m \in Int /\ a <= m + 1 /\ m <= b /\ m + 1 = b
    OBVIOUS
  <2> HIDE DEF m
  <2>2. Tally(text, W, a, b) = Tally(text, W, a, m) + Tally(text, W, m + 1, b)
    BY <2>1, TallyParts
  <2> QED
    BY <2>1, <2>2 DEF m
<1>2. Tally(text, W, a, b) = Tally(text, W, a, a) + Tally(text, W, a + 1, b)
  BY TallyParts
<1> QED
  BY <1>1, <1>2, TallyOne

LEMMA TallyWithin ==
    ASSUME NEW text, NEW W, NEW a \in Int, NEW b \in Int, NEW c \in Int, NEW d \in Int,
           c <= a, b <= d
    PROVE  Tally(text, W, a, b) <= Tally(text, W, c, d)
<1>1. Spots(text, W, a, b) \in SUBSET Spots(text, W, c, d)
  BY DEF Spots
<1>2. IsFiniteSet(Spots(text, W, c, d))
  BY SpotsFinite
<1> QED
  BY <1>1, <1>2, FS_Subset DEF Tally

LEMMA TallySame ==
    ASSUME NEW s, NEW t, NEW W, NEW a \in Int, NEW b \in Int, \A k \in a .. b : s[k] = t[k]
    PROVE  Tally(s, W, a, b) = Tally(t, W, a, b)
  BY DEF Tally, Spots

\* The same tokens elsewhere.
Moved(s, t, a, b, o) == \A k \in a .. b : s[k] = t[k + o]

LEMMA TallyMoved ==
    ASSUME NEW s, NEW t, NEW W, NEW a \in Int, NEW b \in Int,
           NEW c \in Int, NEW d \in Int, NEW o \in Int, c = a + o, d = b + o,
           Moved(s, t, a, b, o)
    PROVE  Tally(s, W, a, b) = Tally(t, W, c, d)
<1> DEFINE A == Spots(s, W, a, b)
           B == Spots(t, W, c, d)
           f == [k \in A |-> k + o]
<1>1. \A k \in A : k \in Int /\ f[k] = k + o /\ f[k] \in B
  BY DEF Spots, Moved
<1>2. \A k \in B : k - o \in A /\ f[k - o] = k
  <2> TAKE k \in B
  <2>1. k \in a + o .. b + o /\ t[k] \in W
    BY DEF Spots
  <2>2. k - o \in a .. b /\ (k - o) + o = k
    BY <2>1
  <2>3. s[k - o] = t[(k - o) + o]
    BY <2>2 DEF Moved
  <2>4. k - o \in A
    BY <2>1, <2>2, <2>3 DEF Spots
  <2> QED
    BY <1>1, <2>2, <2>4
<1>3. IsFiniteSet(A)
  BY SpotsFinite
<1>4. DOMAIN f = A
  OBVIOUS
<1>5. f \in [A -> B]
  BY <1>1
<1> HIDE DEF A, B, f
<1>6. f \in Bijection(A, B)
  <2>1. \A j, k \in A : f[j] = f[k] => j = k
    <3> TAKE j \in A, k \in A
    <3>1. j \in Int /\ k \in Int /\ f[j] = j + o /\ f[k] = k + o
      BY <1>1
    <3> QED
      BY <3>1
  <2>2. \A k \in B : \E j \in A : f[j] = k
    BY <1>2
  <2> QED
    BY <1>4, <1>5, <2>1, <2>2 DEF Bijection, Injection, Surjection, IsInjective
<1>7. Cardinality(B) = Cardinality(A)
  BY <1>3, <1>6, FS_Bijection DEF ExistsBijection
<1> QED
  BY <1>7 DEF Tally, A, B

LEMMA WeightOfPart ==
    ASSUME NEW S, NEW text \in Seq(S), NEW W, NEW a \in Int, NEW b \in Int, 1 <= a, b <= Len(text)
    PROVE  Weight(SubSeq(text, a, b), W) = Tally(text, W, a, b)
<1> DEFINE part == SubSeq(text, a, b)
           n == Len(part)
<1>1. CASE b < a
  <2>1. n = 0
    BY <1>1
  <2> HIDE DEF n, part
  <2>2. Tally(part, W, 1, n) = 0
    BY <2>1, SpotsFinite
  <2>3. Tally(text, W, a, b) = 0
    BY <1>1, SpotsFinite
  <2> QED
    BY <2>2, <2>3 DEF Weight, n, part
<1>2. CASE a <= b
  <2>1. n = b - a + 1 /\ \A k \in 1 .. n : part[k] = text[k + (a - 1)]
    <3>1. n = b - a + 1
      BY <1>2
    <3>2. \A k \in 1 .. b - a + 1 : part[k] = text[k + (a - 1)]
      BY <1>2
    <3> QED
      BY <3>1, <3>2
  <2> HIDE DEF n, part
  <2> DEFINE o == a - 1
  <2>2. o \in Int /\ n \in Int /\ 1 \in Int /\ a = 1 + o /\ b = n + o
    BY <2>1
  <2>3. Moved(part, text, 1, n, o)
    BY <2>1 DEF Moved
  <2> HIDE DEF o
  <2>4. Tally(part, W, 1, n) = Tally(text, W, a, b)
    BY <2>2, <2>3, TallyMoved
  <2> QED
    BY <2>2, <2>4 DEF Weight, n, part
<1> QED
  BY <1>1, <1>2

LEMMA WeightType ==
    ASSUME NEW S, NEW text \in Seq(S), NEW W
    PROVE  Weight(text, W) \in Nat /\ Weight(<<>>, W) = 0
<1>1. Len(text) \in Int /\ Len(<<>>) = 0
  OBVIOUS
<1>2. Tally(<<>>, W, 1, 0) = 0
  BY SpotsFinite
<1> QED
  BY <1>1, <1>2, SpotsFinite DEF Weight

LEMMA WeightOfMore ==
    ASSUME NEW S, NEW s \in Seq(S), NEW e \in S, NEW W
    PROVE  /\ Weight(Append(s, e), W) = Weight(s, W) + Weighs(e, W)
           /\ Weight(<<e>> \o s, W) = Weighs(e, W) + Weight(s, W)
<1> DEFINE n == Len(s)
           more == Append(s, e)
           ahead == <<e>> \o s
<1>1. n \in Nat
  OBVIOUS
<1>2. Len(more) = n + 1 /\ more[n + 1] = e /\ \A k \in 1 .. n : more[k] = s[k]
  OBVIOUS
<1>3. Len(ahead) = n + 1 /\ ahead[1] = e /\ \A k \in 1 .. n : s[k] = ahead[k + 1]
  OBVIOUS
<1> HIDE DEF n, more, ahead
<1>4. Tally(more, W, 1, n) = Tally(s, W, 1, n)
  BY <1>1, <1>2, TallySame
<1>5. Tally(more, W, 1, n + 1) = Tally(more, W, 1, n) + Weighs(e, W)
  <2>1. n + 1 \in Int /\ 1 <= n + 1 /\ (n + 1) - 1 = n
    BY <1>1
  <2>2. Tally(more, W, 1, n + 1) = Tally(more, W, 1, (n + 1) - 1) + Weighs(more[n + 1], W)
    BY <2>1, TallyEnds
  <2> QED
    BY <1>2, <2>1, <2>2
<1>6. Tally(s, W, 1, n) = Tally(ahead, W, 2, n + 1)
  <2>1. 2 \in Int /\ n + 1 \in Int /\ n \in Int /\ 1 \in Int /\ 2 = 1 + 1
    BY <1>1
  <2>2. Moved(s, ahead, 1, n, 1)
    BY <1>3 DEF Moved
  <2> QED
    BY <2>1, <2>2, TallyMoved
<1>7. Tally(ahead, W, 1, n + 1) = Weighs(e, W) + Tally(ahead, W, 2, n + 1)
  <2>1. n + 1 \in Int /\ 1 <= n + 1 /\ 1 + 1 = 2
    BY <1>1
  <2>2. Tally(ahead, W, 1, n + 1) = Weighs(ahead[1], W) + Tally(ahead, W, 1 + 1, n + 1)
    BY <2>1, TallyEnds
  <2> QED
    BY <1>3, <2>1, <2>2
<1>8. /\ Weight(more, W) = Weight(s, W) + Weighs(e, W)
      /\ Weight(ahead, W) = Weighs(e, W) + Weight(s, W)
  BY <1>2, <1>3, <1>4, <1>5, <1>6, <1>7 DEF Weight, n
<1> QED
  BY <1>8 DEF more, ahead

LEMMA WeightAppended ==
    ASSUME NEW S, NEW s \in Seq(S), NEW e \in S, NEW W
    PROVE  Weight(Append(s, e), W) = Weight(s, W) + Weighs(e, W)
  BY ZenonT(60), WeightOfMore

LEMMA WeighsType == \A e, W : Weighs(e, W) \in Nat
  BY DEF Weighs

LEMMA TallyFewer ==
    ASSUME NEW text, NEW V, NEW W, NEW a \in Int, NEW b \in Int, V \subseteq W
    PROVE  Tally(text, V, a, b) <= Tally(text, W, a, b)
<1>1. Spots(text, V, a, b) \in SUBSET Spots(text, W, a, b)
  BY DEF Spots
<1>2. IsFiniteSet(Spots(text, W, a, b))
  BY SpotsFinite
<1> QED
  BY <1>1, <1>2, FS_Subset DEF Tally

\* Every element weighs among all.
LEMMA WeightOfAll ==
    ASSUME NEW S, NEW text \in Seq(S)
    PROVE  Weight(text, S) = Len(text)
<1> DEFINE n == Len(text)
<1>1. n \in Nat /\ \A k \in 1 .. n : text[k] \in S
  OBVIOUS
<1> HIDE DEF n
<1>2. Spots(text, S, 1, n) = 1 .. n
  BY <1>1 DEF Spots
<1>3. Cardinality(1 .. n) = n
  <2>1. n \in Int /\ 1 \in Int /\ (1 > n => n = 0)
    BY <1>1
  <2> QED
    BY <1>1, <2>1, FS_Interval
<1> QED
  BY <1>2, <1>3 DEF Weight, Tally, n

\* Among what is kept of a text, those of W are those of it that are kept.
LEMMA WithoutWeight ==
    ASSUME NEW S, NEW text \in Seq(S), NEW tokens, NEW W
    PROVE  Weight(Without(text, tokens), W) = Weight(text, W \ tokens)
<1>1. PICK kept : IsKept(kept, S, text, tokens) /\ Without(text, tokens) = kept[Len(text)]
  BY WithoutIs
<1> DEFINE n == Len(text)
           V == W \ tokens
           T == {i \in 0 .. n : Weight(kept[i], W) = Tally(text, V, 1, i)}
<1>2. n \in Nat
  OBVIOUS
<1>3. /\ kept \in [0 .. n -> Seq(S \ tokens)] /\ kept[0] = <<>>
      /\ \A i \in 1 .. n :
            kept[i] = IF text[i] \in tokens THEN kept[i - 1] ELSE Append(kept[i - 1], text[i])
  BY <1>1 DEF IsKept
<1>4. \A i \in 1 .. n : text[i] \in S
  OBVIOUS
<1>5. \A e : /\ e \in tokens => Weighs(e, V) = 0
             /\ e \notin tokens => Weighs(e, V) = Weighs(e, W)
  BY DEF Weighs
<1> HIDE DEF n, V
<1>6. 0 \in T
  <2>1. Tally(text, V, 1, 0) = 0
    BY SpotsFinite
  <2>2. Weight(<<>>, W) = 0
    <3>1. <<>> \in Seq(S)
      OBVIOUS
    <3> QED
      BY <3>1, WeightType
  <2> QED
    BY <1>2, <1>3, <2>1, <2>2
<1>7. \A i \in 0 .. n - 1 : i \in T => i + 1 \in T
  <2> SUFFICES ASSUME NEW i \in 0 .. n - 1, i \in T PROVE i + 1 \in T
    OBVIOUS
  <2> DEFINE e == text[i + 1]
             k == kept[i]
  <2>1. i + 1 \in 1 .. n /\ i + 1 \in 0 .. n /\ (i + 1) - 1 = i /\ i \in 0 .. n /\ i + 1 \in Int
    BY <1>2
  <2>2. k \in Seq(S \ tokens) /\ Weight(k, W) = Tally(text, V, 1, i) /\ e \in S
    BY <1>3, <1>4, <2>1
  <2>3. kept[i + 1] = IF e \in tokens THEN k ELSE Append(k, e)
    BY <1>3, <2>1
  <2>4. Tally(text, V, 1, i + 1) = Tally(text, V, 1, i) + Weighs(e, V)
    <3>1. 1 <= i + 1 /\ 1 \in Int
      BY <2>1
    <3>2. Tally(text, V, 1, i + 1) = Tally(text, V, 1, (i + 1) - 1) + Weighs(text[i + 1], V)
      BY <2>1, <3>1, TallyEnds
    <3> QED
      BY <2>1, <3>2
  <2>5. k \in Seq(S)
    BY <2>2, SeqMonotonic
  <2> HIDE DEF e, k
  <2>6. Weight(Append(k, e), W) = Weight(k, W) + Weighs(e, W)
    BY <2>2, <2>5, WeightAppended
  <2>7. Weight(k, W) \in Nat
    BY <2>5, WeightType
  <2>8. Weight(kept[i + 1], W) = Tally(text, V, 1, i + 1)
    <3>1. CASE e \in tokens
      BY <1>5, <2>2, <2>3, <2>4, <2>7, <3>1
    <3>2. CASE e \notin tokens
      BY <1>5, <2>2, <2>3, <2>4, <2>6, <3>2
    <3> QED
      BY <3>1, <3>2
  <2> QED
    BY <2>1, <2>8
<1>8. 0 .. n \subseteq T
  <2> HIDE DEF T
  <2> QED
    BY <1>2, <1>6, <1>7, UpTo
<1>9. n \in T
  BY <1>2, <1>8
<1> QED
  BY <1>1, <1>9 DEF Weight, n, V

LEMMA WithoutLighter ==
    ASSUME NEW S, NEW text \in Seq(S), NEW tokens, NEW W
    PROVE  Weight(Without(text, tokens), W) <= Weight(text, W)
<1>1. Weight(Without(text, tokens), W) = Weight(text, W \ tokens)
  BY WithoutWeight
<1>2. Len(text) \in Int /\ 1 \in Int /\ W \ tokens \subseteq W
  OBVIOUS
<1>3. Weight(text, W \ tokens) <= Weight(text, W)
  BY <1>2, TallyFewer DEF Weight
<1> QED
  BY <1>1, <1>3

\* Only keeps as many as there are of them.
LEMMA OnlyWeight ==
    ASSUME NEW S, NEW text \in Seq(S), NEW W
    PROVE  Len(Only(text, W)) = Weight(text, W)
<1> DEFINE others == ToSet(text) \ W
           rest == Without(text, others)
<1>1. Only(text, W) = rest
  BY DEF Only
<1>2. rest \in Seq(S)
  BY WithoutType
<1>3. Weight(rest, S) = Weight(text, S \ others)
  BY WithoutWeight
<1>4. \A k \in 1 .. Len(text) : text[k] \in S \ others <=> text[k] \in W
  BY DEF ToSet
<1> HIDE DEF others
<1>5. Spots(text, S \ others, 1, Len(text)) = Spots(text, W, 1, Len(text))
  BY <1>4 DEF Spots
<1> HIDE DEF rest
<1>6. Weight(text, S \ others) = Weight(text, W)
  BY <1>5 DEF Weight, Tally
<1>7. Weight(rest, S) = Len(rest)
  BY <1>2, WeightOfAll
<1> QED
  BY <1>1, <1>3, <1>6, <1>7

\* Without its thoughts a text has no more of any tokens.
LEMMA ThinkLighter ==
    ASSUME NEW S, NEW text \in Seq(S), NEW W
    PROVE  Weight(StripThink(text), W) <= Weight(text, W)
<1>1. PICK kept : IsUnthought(kept, S, text) /\ StripThink(text) = kept[1]
  BY StripThinkIs
<1> DEFINE n == Len(text)
           N == n + 1
           light(i) == Weight(kept[i], W) <= Tally(text, W, i, n)
           U == {i \in 1 .. N : \A j \in i .. N : light(j)}
<1>2. n \in Nat /\ N \in Nat /\ N = n + 1
  OBVIOUS
<1>3. /\ kept \in [1 .. N -> Seq(S)] /\ kept[N] = <<>>
      /\ \A i \in 1 .. n : \/ kept[i] = <<text[i]>> \o kept[i + 1]
                           \/ \E j \in i + 1 .. N : kept[i] = kept[j]
  BY <1>1 DEF IsUnthought
<1>4. \A i \in 1 .. n : text[i] \in S
  OBVIOUS
<1> HIDE DEF n, N
<1>5. light(N)
  <2>1. Tally(text, W, N, n) = 0
    BY <1>2, SpotsFinite
  <2>2. Weight(<<>>, W) = 0
    <3>1. <<>> \in Seq(S)
      OBVIOUS
    <3> QED
      BY <3>1, WeightType
  <2> QED
    BY <1>3, <2>1, <2>2
<1>6. N \in U
  <2>1. \A j \in N .. N : j = N
    BY <1>2
  <2> HIDE DEF light
  <2> QED
    BY <1>2, <1>5, <2>1
<1>7. \A i \in 1 .. N - 1 : i + 1 \in U => i \in U
  <2> SUFFICES ASSUME NEW i \in 1 .. N - 1, i + 1 \in U PROVE i \in U
    OBVIOUS
  <2>1. i \in 1 .. n /\ i \in 1 .. N /\ i + 1 \in 1 .. N /\ i \in Int /\ i + 1 \in Int /\ i <= n
    BY <1>2
  <2>2. \A j \in i + 1 .. N : light(j)
    OBVIOUS
  <2>3. /\ Tally(text, W, i, n) = Weighs(text[i], W) + Tally(text, W, i + 1, n)
        /\ Weighs(text[i], W) \in Nat
    BY <1>2, <2>1, TallyEnds, WeighsType
  <2>4. CASE kept[i] = <<text[i]>> \o kept[i + 1]
    <3> DEFINE k == kept[i + 1]
               e == text[i]
    <3>1. k \in Seq(S) /\ e \in S
      BY <1>3, <1>4, <2>1
    <3>2. light(i + 1)
      <4>1. i + 1 \in i + 1 .. N
        BY <2>1
      <4> HIDE DEF light
      <4> QED
        BY <2>2, <4>1
    <3>3. Weight(k, W) <= Tally(text, W, i + 1, n)
      BY <3>2
    <3>4. kept[i] = <<e>> \o k
      BY <2>4
    <3> HIDE DEF k, e
    <3>5. Weight(<<e>> \o k, W) = Weighs(e, W) + Weight(k, W) /\ Weight(k, W) \in Nat
      BY <3>1, WeightOfMore, WeightType
    <3>6. Tally(text, W, i + 1, n) \in Nat
      BY <1>2, <2>1, SpotsFinite
    <3>7. light(i)
      BY <2>3, <3>3, <3>4, <3>5, <3>6 DEF e
    <3> HIDE DEF light
    <3>8. \A j \in i .. N : j = i \/ j \in i + 1 .. N
      BY <1>2, <2>1
    <3> QED
      BY <2>1, <2>2, <3>7, <3>8
  <2>5. CASE \E j \in i + 1 .. N : kept[i] = kept[j]
    <3>1. PICK j \in i + 1 .. N : kept[i] = kept[j]
      BY <2>5
    <3>2. j \in Int /\ i <= j /\ j \in 1 .. N
      BY <1>2, <2>1, <3>1
    <3>3. Tally(text, W, j, n) <= Tally(text, W, i, n)
      BY <1>2, <2>1, <3>2, TallyWithin
    <3>4. /\ Tally(text, W, j, n) \in Nat /\ Tally(text, W, i, n) \in Nat
          /\ Weight(kept[j], W) \in Nat
      BY SMTT(30), <1>2, <1>3, <2>1, <3>2, SpotsFinite, WeightType
    <3>5. Weight(kept[j], W) <= Tally(text, W, j, n)
      BY <2>2
    <3>6. light(i)
      BY <3>1, <3>3, <3>4, <3>5
    <3> HIDE DEF light
    <3>7. \A k \in i .. N : k = i \/ k \in i + 1 .. N
      BY <1>2, <2>1
    <3> QED
      BY <2>1, <2>2, <3>6, <3>7
  <2> QED
    BY <1>3, <2>1, <2>4, <2>5
<1>8. 1 .. N \subseteq U
  <2> HIDE DEF U
  <2> QED
    BY <1>2, <1>6, <1>7, DownFrom
<1>9. light(1)
  <2>1. 1 \in 1 .. N
    BY <1>2
  <2>2. 1 \in U
    BY <1>8, <2>1
  <2> HIDE DEF light
  <2> QED
    BY <2>1, <2>2
<1> QED
  BY <1>1, <1>9 DEF Weight, n

-----------------------------------------------------------------------------
(* Texts that share a number of tokens                                     *)

\* The texts xs have at most b tokens of W: c[i] is a bound for the first i.
Bounds(c, xs, W, b) ==
    /\ c \in [0 .. Len(xs) -> 0 .. b]
    /\ \A i \in 1 .. Len(xs) : c[i - 1] + Weight(xs[i], W) <= c[i]

Fits(xs, W, b) == \E c : Bounds(c, xs, W, b)

LEMMA FitsNone ==
    ASSUME NEW W, NEW b \in Nat
    PROVE  Fits(<<>>, W, b)
<1> DEFINE c == [i \in {0} |-> 0]
<1>1. Len(<<>>) = 0 /\ 0 .. 0 = {0} /\ 1 .. 0 = {} /\ 0 \in 0 .. b
  OBVIOUS
<1>2. c \in [{0} -> 0 .. b]
  BY <1>1
<1> HIDE DEF c
<1>3. Bounds(c, <<>>, W, b)
  BY <1>1, <1>2 DEF Bounds
<1> QED
  BY <1>3 DEF Fits

LEMMA FitsOne ==
    ASSUME NEW S, NEW x \in Seq(S), NEW W, NEW b \in Nat, Weight(x, W) <= b
    PROVE  Fits(<<x>>, W, b)
<1> DEFINE c == [i \in 0 .. 1 |-> IF i = 0 THEN 0 ELSE b]
           w == Weight(x, W)
<1>1. w \in Nat
  BY WeightType
<1>2. c \in [0 .. 1 -> 0 .. b] /\ c[0] = 0 /\ c[1] = b
  OBVIOUS
<1>3. Len(<<x>>) = 1 /\ <<x>>[1] = x
  OBVIOUS
<1> HIDE DEF c, w
<1>4. \A i \in 1 .. 1 : c[i - 1] + Weight(<<x>>[i], W) <= c[i]
  <2>1. \A i \in 1 .. 1 : i = 1 /\ i - 1 = 0
    OBVIOUS
  <2>2. c[0] + w <= c[1]
    <3>1. w <= b /\ 0 + w = w
      BY <1>1 DEF w
    <3> QED
      BY <1>2, <3>1
  <2> QED
    BY <1>3, <2>1, <2>2 DEF w
<1>5. Bounds(c, <<x>>, W, b)
  BY <1>2, <1>3, <1>4 DEF Bounds
<1> QED
  BY <1>5 DEF Fits

LEMMA FitsWider ==
    ASSUME NEW xs, NEW W, NEW b \in Nat, NEW d \in Nat, b <= d, Fits(xs, W, b)
    PROVE  Fits(xs, W, d)
<1>1. PICK c : Bounds(c, xs, W, b)
  BY DEF Fits
<1>2. 0 .. b \subseteq 0 .. d
  OBVIOUS
<1>3. c \in [0 .. Len(xs) -> 0 .. d]
  BY <1>1, <1>2 DEF Bounds
<1>4. Bounds(c, xs, W, d)
  BY <1>1, <1>3 DEF Bounds
<1> QED
  BY <1>4 DEF Fits

LEMMA FitsBehind ==
    ASSUME NEW S, NEW xs \in Seq(Seq(S)), NEW ys \in Seq(Seq(S)), NEW W, NEW b \in Nat, NEW d \in Nat,
           NEW t \in Nat, t = b + d, Fits(xs, W, b), Fits(ys, W, d)
    PROVE  Fits(xs \o ys, W, t)
<1>1. PICK x : Bounds(x, xs, W, b)
  BY DEF Fits
<1>2. PICK y : Bounds(y, ys, W, d)
  BY DEF Fits
<1> DEFINE m == Len(xs)
           n == Len(ys)
           both == xs \o ys
           c == [i \in 0 .. m + n |-> IF i <= m THEN x[i] ELSE b + y[i - m]]
<1>3. m \in Nat /\ n \in Nat
  OBVIOUS
<1>4. /\ Len(both) = m + n /\ \A i \in 1 .. m : both[i] = xs[i]
      /\ \A i \in m + 1 .. m + n : both[i] = ys[i - m]
  OBVIOUS
<1>5. /\ x \in [0 .. m -> 0 .. b] /\ \A i \in 1 .. m : x[i - 1] + Weight(xs[i], W) <= x[i]
      /\ y \in [0 .. n -> 0 .. d] /\ \A i \in 1 .. n : y[i - 1] + Weight(ys[i], W) <= y[i]
  BY <1>1, <1>2 DEF Bounds
<1>6. \A i \in 1 .. n : Weight(ys[i], W) \in Nat
  <2> TAKE i \in 1 .. n
  <2>1. ys[i] \in Seq(S)
    OBVIOUS
  <2> QED
    BY <2>1, WeightType
<1> HIDE DEF m, n, both
<1>7. /\ \A i \in 0 .. m : c[i] = x[i]
      /\ \A i \in m + 1 .. m + n : c[i] = b + y[i - m]
  BY <1>3
<1>8. c \in [0 .. m + n -> 0 .. t]
  <2> SUFFICES ASSUME NEW i \in 0 .. m + n
               PROVE  (IF i <= m THEN x[i] ELSE b + y[i - m]) \in 0 .. t
    OBVIOUS
  <2>1. CASE i <= m
    <3>1. i \in 0 .. m
      BY <1>3, <2>1
    <3>2. x[i] \in 0 .. b
      BY <1>5, <3>1
    <3> QED
      BY <2>1, <3>2
  <2>2. CASE ~ (i <= m)
    <3>1. i - m \in 0 .. n
      BY <1>3, <2>2
    <3>2. y[i - m] \in 0 .. d
      BY <1>5, <3>1
    <3> QED
      BY <2>2, <3>2
  <2> QED
    BY <2>1, <2>2
<1> HIDE DEF c
<1>9. ASSUME NEW i \in 1 .. m + n PROVE c[i - 1] + Weight(both[i], W) <= c[i]
  <2>1. CASE i <= m
    <3>1. i \in 1 .. m /\ i \in 0 .. m /\ i - 1 \in 0 .. m
      BY <1>3, <2>1
    <3> QED
      BY <1>4, <1>5, <1>7, <3>1
  <2>2. CASE i = m + 1
    <3>1. /\ i - 1 = m /\ m \in 0 .. m /\ i \in m + 1 .. m + n /\ i - m = 1
          /\ 1 \in 1 .. n /\ 0 \in 0 .. n /\ 1 \in 0 .. n /\ 1 - 1 = 0
      BY <1>3, <2>2
    <3>2. /\ c[i - 1] = x[m] /\ c[i] = b + y[1] /\ both[i] = ys[1] /\ x[m] \in 0 .. b
          /\ y[0] + Weight(ys[1], W) <= y[1] /\ y[0] \in 0 .. d /\ y[1] \in 0 .. d
      BY <1>4, <1>5, <1>7, <3>1
    <3>3. Weight(ys[1], W) \in Nat
      BY <1>6, <3>1
    <3> DEFINE w == Weight(ys[1], W)
    <3> HIDE DEF w
    <3> QED
      BY <3>2, <3>3 DEF w
  <2>3. CASE i > m + 1
    <3> DEFINE j == i - m
    <3>1. /\ j \in 1 .. n /\ j \in 0 .. n /\ j - 1 \in 0 .. n
          /\ i \in m + 1 .. m + n /\ i - 1 \in m + 1 .. m + n /\ (i - 1) - m = j - 1
      BY <1>3, <2>3
    <3>2. c[i] = b + y[j] /\ both[i] = ys[j]
      BY <1>4, <1>7, <3>1
    <3>3. c[i - 1] = b + y[j - 1]
      BY <1>7, <3>1
    <3> HIDE DEF j
    <3>4. /\ y[j] \in 0 .. d /\ y[j - 1] \in 0 .. d /\ y[j - 1] + Weight(ys[j], W) <= y[j]
          /\ Weight(ys[j], W) \in Nat
      BY <1>5, <1>6, <3>1
    <3> DEFINE w == Weight(ys[j], W)
               u == y[j - 1]
               v == y[j]
    <3>5. u \in 0 .. d /\ v \in 0 .. d /\ w \in Nat /\ u + w <= v
      BY <3>4
    <3>6. c[i] = b + v /\ c[i - 1] = b + u /\ Weight(both[i], W) = w
      BY <3>2, <3>3
    <3> HIDE DEF u, v, w
    <3>7. b + u + w <= b + v
      BY <3>5
    <3> QED
      BY <3>6, <3>7
  <2> QED
    BY <1>3, <2>1, <2>2, <2>3
<1>10. Bounds(c, both, W, t)
  BY <1>4, <1>8, <1>9 DEF Bounds
<1> QED
  BY <1>10 DEF Fits, both

LEMMA FitsAhead ==
    ASSUME NEW S, NEW x \in Seq(S), NEW xs \in Seq(Seq(S)), NEW W, NEW b \in Nat, NEW d \in Nat,
           Fits(xs, W, b), Weight(x, W) + b <= d
    PROVE  Fits(<<x>> \o xs, W, d)
<1> DEFINE w == Weight(x, W)
           one == <<x>>
           t == w + b
<1>1. w \in Nat /\ one \in Seq(Seq(S))
  BY WeightType
<1>2. Fits(one, W, w)
  BY <1>1, FitsOne
<1>3. t \in Nat /\ t = w + b /\ t <= d
  BY <1>1
<1> HIDE DEF w, one, t
<1>4. Fits(one \o xs, W, t)
  BY <1>1, <1>2, <1>3, FitsBehind
<1>5. Fits(one \o xs, W, d)
  BY <1>3, <1>4, FitsWider
<1> QED
  BY <1>5 DEF one

\* Another last text, with w more tokens.
LEMMA FitsLast ==
    ASSUME NEW S, NEW xs \in Seq(Seq(S)), xs # <<>>, NEW x \in Seq(S), NEW W, NEW b \in Nat,
           NEW w \in Nat, NEW t \in Nat, t = b + w, Fits(xs, W, b),
           Weight(x, W) = Weight(Last(xs), W) + w
    PROVE  Fits(Append(Front(xs), x), W, t)
<1>1. PICK c : Bounds(c, xs, W, b)
  BY DEF Fits
<1> DEFINE n == Len(xs)
           ys == Append(Front(xs), x)
           d == [i \in 0 .. n |-> IF i = n THEN c[n] + w ELSE c[i]]
<1>2. n \in Nat \ {0} /\ Last(xs) = xs[n] /\ Front(xs) \in Seq(Seq(S))
  BY LastType DEF Last
<1>3. Len(ys) = n /\ ys[n] = x /\ \A i \in 1 .. n - 1 : ys[i] = xs[i]
  <2>1. Len(Front(xs)) = n - 1 /\ \A i \in 1 .. n - 1 : Front(xs)[i] = xs[i]
    <3>1. Front(xs) = SubSeq(xs, 1, n - 1)
      BY DEF Front
    <3>2. \A i \in 1 .. n - 1 : xs[i] \in Seq(S)
      OBVIOUS
    <3> DEFINE m == n - 1
               f == SubSeq(xs, 1, m)
    <3>3. m \in Nat /\ 1 \in Int /\ m \in Int
      BY <1>2
    <3> HIDE DEF n, m
    <3>4. /\ Len(f) = IF 1 <= m THEN m - 1 + 1 ELSE 0
          /\ \A i \in 1 .. m - 1 + 1 : f[i] = xs[1 + i - 1]
      BY <3>2, <3>3, SubSeqProperties DEF m
    <3> HIDE DEF f
    <3>5. Len(f) = m /\ \A i \in 1 .. m : f[i] = xs[i]
      <4>1. \A i \in 1 .. m : i \in 1 .. m - 1 + 1 /\ 1 + i - 1 = i
        BY <3>3
      <4> QED
        BY <3>3, <3>4, <4>1
    <3> QED
      BY <3>1, <3>5 DEF f, m
  <2> DEFINE f == Front(xs)
  <2>2. f \in Seq(Seq(S)) /\ Len(f) = n - 1 /\ \A i \in 1 .. n - 1 : f[i] = xs[i]
    BY <1>2, <2>1
  <2> HIDE DEF f, n
  <2>3. Len(Append(f, x)) = n /\ Append(f, x)[n] = x /\ \A i \in 1 .. n - 1 : Append(f, x)[i] = f[i]
    BY <1>2, <2>2, AppendProperties
  <2> QED
    BY <2>2, <2>3 DEF f
<1>4. c \in [0 .. n -> 0 .. b] /\ \A i \in 1 .. n : c[i - 1] + Weight(xs[i], W) <= c[i]
  BY <1>1 DEF Bounds
<1>5. \A i \in 1 .. n : Weight(xs[i], W) \in Nat
  <2> TAKE i \in 1 .. n
  <2>1. xs[i] \in Seq(S)
    OBVIOUS
  <2> QED
    BY <2>1, WeightType
<1>6. Weight(x, W) = Weight(xs[n], W) + w
  BY <1>2
<1> HIDE DEF n, ys
<1>7. d[n] = c[n] + w /\ \A i \in 0 .. n - 1 : d[i] = c[i]
  BY <1>2
<1>8. d \in [0 .. n -> 0 .. t]
  <2> SUFFICES ASSUME NEW i \in 0 .. n PROVE (IF i = n THEN c[n] + w ELSE c[i]) \in 0 .. t
    OBVIOUS
  <2>1. c[i] \in 0 .. b
    BY <1>4
  <2> QED
    BY <2>1
<1> HIDE DEF d
<1>9. ASSUME NEW i \in 1 .. n PROVE d[i - 1] + Weight(ys[i], W) <= d[i]
  <2> DEFINE v == Weight(xs[i], W)
             p == c[i - 1]
             q == c[i]
  <2>1. i \in 0 .. n /\ i - 1 \in 0 .. n /\ i - 1 \in 0 .. n - 1
    BY <1>2
  <2>2. v \in Nat /\ p \in 0 .. b /\ q \in 0 .. b /\ p + v <= q /\ d[i - 1] = p
    BY <1>4, <1>5, <1>7, <2>1
  <2>3. CASE i = n
    <3>1. d[i] = q + w /\ Weight(ys[i], W) = v + w
      BY <1>3, <1>6, <1>7, <2>3
    <3> HIDE DEF p, q, v
    <3> QED
      BY <2>2, <3>1
  <2>4. CASE i # n
    <3>1. i \in 1 .. n - 1 /\ i \in 0 .. n - 1
      BY <1>2, <2>4
    <3>2. d[i] = q /\ Weight(ys[i], W) = v
      BY <1>3, <1>7, <3>1
    <3> HIDE DEF p, q, v
    <3> QED
      BY <2>2, <3>2
  <2> QED
    BY <2>3, <2>4
<1>10. Bounds(d, ys, W, t)
  BY <1>3, <1>8, <1>9 DEF Bounds
<1> QED
  BY <1>10 DEF Fits, ys

\* The last of the texts.
LEMMA FitsTail ==
    ASSUME NEW S, NEW xs \in Seq(S), NEW W, NEW b \in Nat, NEW a \in 1 .. Len(xs), Fits(xs, W, b)
    PROVE  Fits(SubSeq(xs, a, Len(xs)), W, b)
<1>1. PICK c : Bounds(c, xs, W, b)
  BY DEF Fits
<1> DEFINE n == Len(xs)
           m == n - a + 1
           ys == SubSeq(xs, a, n)
           d == [i \in 0 .. m |-> c[i + (a - 1)]]
<1>2. n \in Nat /\ a \in 1 .. n /\ m \in Nat /\ m = n - a + 1
  OBVIOUS
<1>3. Len(ys) = m /\ \A i \in 1 .. m : ys[i] = xs[i + (a - 1)]
  <2>1. Len(ys) = m
    OBVIOUS
  <2>2. \A i \in 1 .. n - a + 1 : ys[i] = xs[i + (a - 1)]
    OBVIOUS
  <2> QED
    BY <2>1, <2>2
<1>4. c \in [0 .. n -> 0 .. b] /\ \A i \in 1 .. n : c[i - 1] + Weight(xs[i], W) <= c[i]
  BY <1>1 DEF Bounds
<1> HIDE DEF n, m, ys
<1>5. \A i \in 0 .. m : d[i] = c[i + (a - 1)] /\ i + (a - 1) \in 0 .. n
  BY <1>2
<1>6. d \in [0 .. m -> 0 .. b]
  BY <1>4, <1>5
<1> HIDE DEF d
<1>7. ASSUME NEW i \in 1 .. m PROVE d[i - 1] + Weight(ys[i], W) <= d[i]
  <2> DEFINE j == i + (a - 1)
  <2>1. j \in 1 .. n /\ j - 1 = (i - 1) + (a - 1) /\ i \in 0 .. m /\ i - 1 \in 0 .. m
    BY <1>2
  <2>2. d[i] = c[j] /\ d[i - 1] = c[j - 1] /\ ys[i] = xs[j]
    BY <1>3, <1>5, <2>1
  <2> HIDE DEF j
  <2> QED
    BY <1>4, <2>1, <2>2
<1>8. Bounds(d, ys, W, b)
  BY <1>3, <1>6, <1>7 DEF Bounds
<1> QED
  BY <1>8 DEF Fits, ys, n

\* Texts none of which has more of the tokens.
LEMMA FitsLighter ==
    ASSUME NEW S, NEW xs \in Seq(Seq(S)), NEW ys \in Seq(Seq(S)), NEW W, NEW b \in Nat,
           Fits(xs, W, b), Len(ys) = Len(xs),
           \A i \in 1 .. Len(xs) : Weight(ys[i], W) <= Weight(xs[i], W)
    PROVE  Fits(ys, W, b)
<1>1. PICK c : Bounds(c, xs, W, b)
  BY DEF Fits
<1> DEFINE n == Len(xs)
<1>2. n \in Nat /\ n = Len(ys) /\ c \in [0 .. n -> 0 .. b]
  BY <1>1 DEF Bounds
<1>3. ASSUME NEW i \in 1 .. n PROVE c[i - 1] + Weight(ys[i], W) <= c[i]
  <2> DEFINE v == Weight(xs[i], W)
             u == Weight(ys[i], W)
             p == c[i - 1]
             q == c[i]
  <2>1. xs[i] \in Seq(S) /\ ys[i] \in Seq(S)
    BY <1>2
  <2>2. v \in Nat /\ u \in Nat /\ u <= v
    BY <2>1, WeightType
  <2>3. i \in 0 .. n /\ i - 1 \in 0 .. n
    BY <1>2
  <2>4. p \in 0 .. b /\ q \in 0 .. b /\ p + v <= q
    BY <1>1, <1>2, <2>3 DEF Bounds
  <2> HIDE DEF p, q, u, v
  <2>5. p + u <= q
    BY <2>2, <2>4
  <2> QED
    BY <2>5 DEF p, q, u
<1>4. Bounds(c, ys, W, b)
  BY <1>2, <1>3 DEF Bounds
<1> QED
  BY <1>4 DEF Fits

\* The texts found between delimiters share the tokens of the whole text.
LEMMA SpansFit ==
    ASSUME NEW S, NEW text \in Seq(S), NEW open, NEW close, NEW ends, NEW W,
           Spannable(text, open, close, ends)
    PROVE  Fits(Spans(text, open, close, ends), W, Weight(text, W))
<1>1. PICK found : /\ IsFound(found, S, text, open, close, ends)
                   /\ Spans(text, open, close, ends) = found[1]
  BY SpansIs
<1> DEFINE n == Len(text)
           N == n + 2
           good(i) == Fits(found[i], W, Tally(text, W, i, n))
           U == {i \in 1 .. N : \A j \in i .. N : good(j)}
<1>2. n \in Nat /\ N \in Nat /\ N = n + 2
  OBVIOUS
<1>3. found \in [1 .. N -> Seq(Seq(S))]
  BY <1>1 DEF IsFound
<1>4. ASSUME NEW i \in 1 .. N, \A j \in i + 1 .. N : good(j) PROVE good(i)
  <2> DEFINE s == Min(StartsFrom(ends, i))
             e == Min(ends[s])
             part == SubSeq(text, s + open, e - 1)
             rest == found[e + close]
             b == Tally(text, W, e + close, n)
             d == Tally(text, W, i, n)
  <2>1. found[i] = IF StartsFrom(ends, i) = {} THEN <<>> ELSE <<part>> \o rest
    BY <1>1 DEF IsFound
  <2>2. d \in Nat
    BY <1>2, SpotsFinite
  <2>3. CASE StartsFrom(ends, i) = {}
    <3> HIDE DEF d, part, rest
    <3>1. Fits(<<>>, W, d)
      BY <2>2, FitsNone
    <3> QED
      BY <2>1, <2>3, <3>1 DEF d
  <2>4. CASE StartsFrom(ends, i) # {}
    <3>1. i \in Nat
      BY <1>2
    <3>2. /\ s \in 1 .. n /\ i <= s /\ e \in s + open .. n /\ open \in Nat \ {0}
          /\ close \in 1 .. 2 /\ e + close \in 1 .. N /\ i < e + close /\ part \in Seq(S)
      BY <2>4, <3>1, FirstSpan
    <3> HIDE DEF s, e
    <3> DEFINE o == s + open
               p == e - 1
               q == e + close
    <3>3. /\ o \in Int /\ p \in Int /\ e \in Int /\ q \in Int /\ 1 <= o /\ i <= o /\ p <= n
          /\ i <= p + 1 /\ p + 1 = e /\ e <= q /\ q \in i + 1 .. N /\ i \in Int /\ n \in Int
      BY <1>2, <3>1, <3>2
    <3>4. Weight(SubSeq(text, o, p), W) = Tally(text, W, o, p)
      <4> HIDE DEF o, p
      <4> QED
        BY <3>3, WeightOfPart
    <3> HIDE DEF o, p, q, n, N
    <3>5. Tally(text, W, i, n) = Tally(text, W, i, p) + Tally(text, W, p + 1, n)
      BY <3>3, TallyParts
    <3>6. /\ Tally(text, W, o, p) <= Tally(text, W, i, p)
          /\ Tally(text, W, q, n) <= Tally(text, W, e, n)
      BY <3>3, TallyWithin
    <3>7. /\ Tally(text, W, o, p) \in Nat /\ Tally(text, W, i, p) \in Nat
          /\ Tally(text, W, q, n) \in Nat /\ Tally(text, W, e, n) \in Nat
      BY <3>3, SpotsFinite
    <3>8. Weight(part, W) + b <= d /\ b \in Nat /\ rest \in Seq(Seq(S)) /\ Fits(rest, W, b)
      <4>1. part = SubSeq(text, o, p) /\ rest = found[q] /\ b = Tally(text, W, q, n)
        BY DEF o, p, q
      <4>2. rest \in Seq(Seq(S))
        BY <1>3, <3>2, <4>1 DEF q
      <4>3. Fits(rest, W, b)
        BY <1>4, <3>3, <4>1
      <4> HIDE DEF part, rest
      <4> QED
        BY <3>3, <3>4, <3>5, <3>6, <3>7, <4>1, <4>2, <4>3
    <3> HIDE DEF part, rest, b, d
    <3>9. Fits(<<part>> \o rest, W, d)
      BY <2>2, <3>2, <3>8, FitsAhead
    <3> QED
      BY <2>1, <2>4, <3>9 DEF d, n
  <2> QED
    BY <2>3, <2>4
<1> HIDE DEF n, N, good
<1>5. N \in U
  <2>1. N \in 1 .. N /\ \A j \in N + 1 .. N : good(j)
    BY <1>2
  <2>2. good(N) /\ \A j \in N .. N : j = N
    BY <1>2, <1>4, <2>1
  <2> QED
    BY <2>1, <2>2
<1>6. \A i \in 1 .. N - 1 : i + 1 \in U => i \in U
  <2> SUFFICES ASSUME NEW i \in 1 .. N - 1, i + 1 \in U PROVE i \in U
    OBVIOUS
  <2>1. i \in 1 .. N /\ \A j \in i .. N : j = i \/ j \in i + 1 .. N
    BY <1>2
  <2>2. good(i)
    BY <1>4, <2>1
  <2> QED
    BY <2>1, <2>2
<1>7. 1 .. N \subseteq U
  <2> HIDE DEF U
  <2> QED
    BY <1>2, <1>5, <1>6, DownFrom
<1>8. good(1)
  <2>1. 1 \in 1 .. N
    BY <1>2
  <2>2. 1 \in U
    BY <1>7, <2>1
  <2> QED
    BY <2>1, <2>2
<1> QED
  BY <1>1, <1>8 DEF Weight, n, good

LEMMA BetweenFit ==
    ASSUME NEW S, NEW text \in Seq(S), NEW open, NEW close, NEW barrier, NEW W
    PROVE  Fits(Between(text, open, close, barrier), W, Weight(text, W))
  BY BetweenSpans, SpansFit

\* So do the pieces between separators.
LEMMA SplitFit ==
    ASSUME NEW S, NEW text \in Seq(S), NEW sep, NEW W
    PROVE  Fits(Split(text, sep), W, Weight(text, W))
<1>1. PICK cuts : IsPieces(cuts, S, text, sep) /\ Split(text, sep) = cuts[Len(text)]
  BY SplitIs
<1> DEFINE n == Len(text)
           good(i) == Fits(cuts[i], W, Tally(text, W, 1, i))
           T == {i \in 0 .. n : good(i)}
<1>2. n \in Nat
  OBVIOUS
<1>3. /\ cuts \in [0 .. n -> Seq(Seq(S)) \ {<<>>}] /\ cuts[0] = << <<>> >>
      /\ \A i \in 1 .. n : cuts[i] = NextPieces(cuts[i - 1], text[i], sep)
  BY <1>1 DEF IsPieces
<1>4. \A i \in 1 .. n : text[i] \in S
  OBVIOUS
<1> HIDE DEF n
<1>5. good(0)
  <2>1. Tally(text, W, 1, 0) = 0
    BY SpotsFinite
  <2>2. <<>> \in Seq(S) /\ Weight(<<>>, W) = 0 /\ 0 \in Nat /\ 0 <= 0
    <3>1. <<>> \in Seq(S)
      OBVIOUS
    <3> QED
      BY <3>1, WeightType
  <2>3. Fits(<< <<>> >>, W, 0)
    BY <2>2, FitsOne
  <2> QED
    BY <1>3, <2>1, <2>3
<1>6. ASSUME NEW i \in 0 .. n - 1, good(i) PROVE good(i + 1)
  <2> DEFINE e == text[i + 1]
             x == cuts[i]
             b == Tally(text, W, 1, i)
             w == Weighs(e, W)
             t == Tally(text, W, 1, i + 1)
  <2>1. i + 1 \in 1 .. n /\ (i + 1) - 1 = i /\ i \in 0 .. n /\ i + 1 \in Int /\ i \in Int /\ 1 <= i + 1
    BY <1>2
  <2>2. x \in Seq(Seq(S)) /\ x # <<>> /\ e \in S
    BY <1>3, <1>4, <2>1
  <2>3. cuts[i + 1] = NextPieces(x, e, sep)
    BY <1>3, <2>1
  <2>4. t = b + w
    <3>1. Tally(text, W, 1, i + 1) = Tally(text, W, 1, (i + 1) - 1) + Weighs(text[i + 1], W)
      BY <2>1, TallyEnds
    <3> QED
      BY <2>1, <3>1
  <2>5. b \in Nat /\ w \in Nat /\ t \in Nat
    BY <2>1, SpotsFinite, WeighsType
  <2>6. Fits(x, W, b)
    BY <1>6
  <2> HIDE DEF e, x, b, w, t, good
  <2>7. CASE e = sep
    <3> DEFINE one == << <<>> >>
    <3>1. <<>> \in Seq(S) /\ one \in Seq(Seq(S)) /\ 0 \in Nat /\ 0 <= 0 /\ b = b + 0
      BY <2>5
    <3>2. Weight(<<>>, W) = 0
      BY <3>1, WeightType
    <3>3. Fits(one, W, 0)
      BY <3>1, <3>2, FitsOne
    <3>4. Append(x, <<>>) = x \o one
      BY <2>2, <3>1
    <3> HIDE DEF one
    <3>5. Fits(x \o one, W, b)
      BY <2>2, <2>5, <2>6, <3>1, <3>3, FitsBehind
    <3>6. Fits(x \o one, W, t)
      <4>1. b <= t
        BY <2>4, <2>5
      <4> QED
        BY <2>5, <3>5, <4>1, FitsWider
    <3>7. cuts[i + 1] = x \o one
      BY <2>3, <2>7, <3>4 DEF NextPieces
    <3> QED
      BY <3>6, <3>7 DEF good, t
  <2>8. CASE e # sep
    <3> DEFINE l == Last(x)
               y == Append(l, e)
    <3>1. l \in Seq(S)
      BY <2>2, LastType
    <3>2. y \in Seq(S)
      BY <2>2, <3>1, AppendProperties
    <3>3. Weight(y, W) = Weight(l, W) + w
      <4> HIDE DEF l
      <4> QED
        BY <2>2, <3>1, WeightAppended DEF w
    <3>4. cuts[i + 1] = Append(Front(x), y)
      BY <2>3, <2>8 DEF NextPieces
    <3>5. Weight(y, W) = Weight(Last(x), W) + w
      BY <3>3
    <3> HIDE DEF y
    <3>6. Fits(Append(Front(x), y), W, t)
      BY <2>2, <2>4, <2>5, <2>6, <3>2, <3>5, FitsLast
    <3> QED
      BY <3>4, <3>6 DEF good, t
  <2> QED
    BY <2>7, <2>8
<1> HIDE DEF good
<1>7. 0 .. n \subseteq T
  <2>1. 0 \in T
    BY <1>2, <1>5
  <2>2. \A i \in 0 .. n - 1 : i \in T => i + 1 \in T
    BY <1>2, <1>6
  <2> HIDE DEF T
  <2> QED
    BY <1>2, <2>1, <2>2, UpTo
<1>8. n \in T
  BY <1>2, <1>7
<1> QED
  BY <1>1, <1>8 DEF Weight, n, good

\* No text of them has more tokens than all.
LEMMA FitsEach ==
    ASSUME NEW S, NEW xs \in Seq(Seq(S)), NEW W, NEW b \in Nat, Fits(xs, W, b), NEW i \in 1 .. Len(xs)
    PROVE  Weight(xs[i], W) <= b
<1>1. PICK c : Bounds(c, xs, W, b)
  BY DEF Fits
<1> DEFINE w == Weight(xs[i], W)
           p == c[i - 1]
           q == c[i]
<1>2. i \in 0 .. Len(xs) /\ i - 1 \in 0 .. Len(xs) /\ xs[i] \in Seq(S)
  OBVIOUS
<1>3. p \in 0 .. b /\ q \in 0 .. b /\ p + w <= q /\ w \in Nat
  BY <1>1, <1>2, WeightType DEF Bounds
<1> HIDE DEF p, q, w
<1>4. w <= b
  BY <1>3
<1> QED
  BY <1>4 DEF w

LEMMA PartLighter ==
    ASSUME NEW S, NEW text \in Seq(S), NEW W, NEW a \in Int, NEW b \in Int, 1 <= a, b <= Len(text)
    PROVE  Weight(SubSeq(text, a, b), W) <= Weight(text, W)
<1>1. Weight(SubSeq(text, a, b), W) = Tally(text, W, a, b)
  BY WeightOfPart
<1>2. Len(text) \in Int /\ 1 \in Int
  OBVIOUS
<1>3. Tally(text, W, a, b) <= Tally(text, W, 1, Len(text))
  BY <1>2, TallyWithin
<1> QED
  BY <1>1, <1>3 DEF Weight

\* What is boxed is a part of the text.
LEMMA BoxedFit ==
    ASSUME NEW S, NEW text \in Seq(S), NEW W
    PROVE  Fits(BoxedText(text), W, Weight(text, W))
<1> DEFINE boxes == At(text, "boxed")
           spaced == {p \in boxes : p + 1 \in At(text, Space)}
           last == Max(boxes)
           closings == Closings(text, last)
           behind == SubSeq(text, Max(spaced) + 2, Len(text))
           inside == SubSeq(text, last + 2, Min(closings) - 1)
           n == Len(text)
           light(x) == x \in Seq(S) /\ Weight(x, W) <= Weight(text, W)
<1>1. BoxedText(text) = IF spaced # {} THEN <<Split(behind, "$")[1]>>
                        ELSE IF boxes # {} /\ closings # {} /\ last + 1 \in At(text, OpenBrace)
                        THEN <<Without(inside, {"$"})>> ELSE <<>>
  BY BoxedTextIs
<1>2. boxes \subseteq 1 .. n /\ spaced \subseteq 1 .. n /\ n \in Nat
  BY DEF At
<1>3. Weight(text, W) \in Nat
  BY WeightType
<1>4. spaced # {} => light(Split(behind, "$")[1])
  <2> SUFFICES ASSUME spaced # {} PROVE light(Split(behind, "$")[1])
    OBVIOUS
  <2> DEFINE m == Max(spaced)
             a == m + 2
             x == Split(behind, "$")
             w == Weight(behind, W)
  <2>1. m \in 1 .. n
    <3> HIDE DEF spaced, n
    <3> QED
      BY <1>2, EndsOf
  <2>2. behind = SubSeq(text, a, Len(text))
    OBVIOUS
  <2> HIDE DEF m, spaced
  <2>3. a \in Int /\ 1 <= a /\ Len(text) \in Int /\ Len(text) <= Len(text)
    BY <1>2, <2>1
  <2> HIDE DEF a, behind
  <2>4. behind \in Seq(S)
    BY <2>2, <2>3, PartType
  <2>5. w <= Weight(text, W) /\ w \in Nat
    BY <2>2, <2>3, <2>4, PartLighter, WeightType
  <2>6. x \in Seq(Seq(S)) /\ x # <<>> /\ Fits(x, W, w)
    BY <2>4, SplitType, SplitFit
  <2> HIDE DEF x, w
  <2>7. 1 \in 1 .. Len(x) /\ x[1] \in Seq(S)
    BY <2>6
  <2>8. Weight(x[1], W) <= w /\ Weight(x[1], W) \in Nat
    BY <2>5, <2>6, <2>7, FitsEach, WeightType
  <2>9. light(x[1])
    BY <1>3, <2>5, <2>7, <2>8
  <2> QED
    BY <2>9 DEF x
<1>5. boxes # {} /\ closings # {} => light(Without(inside, {"$"}))
  <2> SUFFICES ASSUME boxes # {}, closings # {} PROVE light(Without(inside, {"$"}))
    OBVIOUS
  <2> DEFINE e == Min(closings)
             a == last + 2
             b == e - 1
             x == Without(inside, {"$"})
  <2>1. last \in 1 .. n
    <3> HIDE DEF boxes, n
    <3> QED
      BY <1>2, EndsOf
  <2> HIDE DEF last, boxes
  <2>2. e \in last .. Len(text)
    BY <2>1, InBracesType
  <2>3. inside = SubSeq(text, a, b)
    OBVIOUS
  <2> HIDE DEF e, closings
  <2>4. a \in Int /\ b \in Int /\ 1 <= a /\ b <= Len(text)
    BY <1>2, <2>1, <2>2
  <2> HIDE DEF a, b, inside
  <2>5. inside \in Seq(S)
    BY <2>3, <2>4, PartType
  <2>6. Weight(inside, W) <= Weight(text, W) /\ Weight(inside, W) \in Nat
    BY <2>3, <2>4, <2>5, PartLighter, WeightType
  <2>7. x \in Seq(S) /\ Weight(x, W) <= Weight(inside, W)
    BY <2>5, WithoutType, WithoutLighter
  <2>8. Weight(x, W) \in Nat
    BY <2>7, WeightType
  <2> HIDE DEF x
  <2>9. light(x)
    BY <1>3, <2>6, <2>7, <2>8
  <2> QED
    BY <2>9 DEF x
<1>6. \A x : light(x) => Fits(<<x>>, W, Weight(text, W))
  BY <1>3, FitsOne
<1>7. Fits(<<>>, W, Weight(text, W))
  BY <1>3, FitsNone
<1> HIDE DEF inside, behind, closings, last, boxes, spaced, light
<1> QED
  BY <1>1, <1>4, <1>5, <1>6, <1>7

\* The texts of the answer, wherever they are found.
LEMMA SolutionMatchesFit ==
    ASSUME NEW S, NEW text \in Seq(S), NEW W
    PROVE  Fits(SolutionMatches(text), W, Weight(text, W))
<1> DEFINE joined == Without(text, {"nl"})
           tried == <<Between(text, "<solution>", "</solution>", {"nl"}),
                      Between(joined, "<solution>", "</solution>", {}),
                      Between(text, "</solution>", "</solution>", {"nl"}),
                      Between(joined, "</solution>", "</solution>", {})>>
           attempts == NonEmpty(tried)
           boxed == BoxedText(text)
           piece(i) == Without(boxed[i], {CloseBrace})
           opened == [i \in DOMAIN boxed |-> piece(i)]
           w == Weight(text, W)
           v == Weight(joined, W)
           R == {x \in Seq(Seq(S)) : Fits(x, W, w)}
<1>1. SolutionMatches(text) = IF attempts # <<>> THEN attempts[1] ELSE opened
  BY SolutionMatchesIs
<1>2. joined \in Seq(S) /\ w \in Nat /\ v \in Nat /\ v <= w
  BY WithoutType, WeightType, WithoutLighter
<1> HIDE DEF joined
<1>3. /\ Between(text, "<solution>", "</solution>", {"nl"}) \in Seq(Seq(S))
      /\ Between(joined, "<solution>", "</solution>", {}) \in Seq(Seq(S))
      /\ Between(text, "</solution>", "</solution>", {"nl"}) \in Seq(Seq(S))
      /\ Between(joined, "</solution>", "</solution>", {}) \in Seq(Seq(S))
  BY <1>2, BetweenType
<1>4. \A open, close, barrier :
         /\ Fits(Between(text, open, close, barrier), W, w)
         /\ Fits(Between(joined, open, close, barrier), W, v)
  BY <1>2, BetweenFit
<1> HIDE DEF w, v
<1>5. \A open, close, barrier : Fits(Between(joined, open, close, barrier), W, w)
  BY <1>2, <1>4, FitsWider
<1>6. tried \in Seq(R)
  <2> DEFINE a == Between(text, "<solution>", "</solution>", {"nl"})
             b == Between(joined, "<solution>", "</solution>", {})
             c == Between(text, "</solution>", "</solution>", {"nl"})
             d == Between(joined, "</solution>", "</solution>", {})
  <2>1. a \in R /\ b \in R /\ c \in R /\ d \in R
    BY <1>3, <1>4, <1>5
  <2> HIDE DEF a, b, c, d, R
  <2>2. <<a, b, c, d>> \in Seq(R)
    BY <2>1
  <2> QED
    BY <2>2 DEF a, b, c, d
<1> HIDE DEF tried
<1>7. attempts # <<>> => attempts[1] \in R
  <2> HIDE DEF R
  <2>1. attempts \in Seq(R)
    BY <1>6, WithoutType DEF NonEmpty
  <2> HIDE DEF attempts
  <2> QED
    BY <2>1, LastType
<1>8. boxed \in Seq(Seq(S)) /\ Fits(boxed, W, w)
  BY BoxedTextType, BoxedFit DEF w
<1> HIDE DEF attempts, boxed
<1>9. \A i \in 1 .. Len(boxed) : piece(i) \in Seq(S) /\ Weight(piece(i), W) <= Weight(boxed[i], W)
  <2> TAKE i \in 1 .. Len(boxed)
  <2>1. boxed[i] \in Seq(S)
    BY <1>8
  <2> QED
    BY <2>1, WithoutType, WithoutLighter
<1>10. Fits(opened, W, w)
  <2> HIDE DEF piece
  <2>1. Len(boxed) \in Nat /\ DOMAIN boxed = 1 .. Len(boxed)
    BY <1>8
  <2>2. opened = [i \in 1 .. Len(boxed) |-> piece(i)]
    BY <2>1
  <2>3. opened \in [1 .. Len(boxed) -> Seq(S)] /\ \A i \in 1 .. Len(boxed) : opened[i] = piece(i)
    BY <1>9, <2>2
  <2>4. opened \in Seq(Seq(S))
    BY <2>1, <2>3, ListOf, Zenon
  <2>5. Len(opened) = Len(boxed)
    <3>1. DOMAIN opened = 1 .. Len(boxed)
      BY <2>2
    <3> HIDE DEF opened
    <3> QED
      BY <2>1, <2>4, <3>1, LenProperties
  <2> HIDE DEF opened
  <2>6. \A i \in 1 .. Len(boxed) : Weight(opened[i], W) <= Weight(boxed[i], W)
    BY <1>9, <2>3
  <2> QED
    BY <1>2, <1>8, <2>4, <2>5, <2>6, FitsLighter
<1> HIDE DEF opened
<1> QED
  BY <1>1, <1>7, <1>10 DEF w

\* Lists of texts in one, each of a text that has all its tokens.
LEMMA FlattenFit ==
    ASSUME NEW S, NEW xs \in Seq(Seq(S)), NEW seqs \in Seq(Seq(Seq(S))), NEW W, NEW b \in Nat,
           Fits(xs, W, b), Len(seqs) = Len(xs),
           \A i \in 1 .. Len(xs) : Fits(seqs[i], W, Weight(xs[i], W))
    PROVE  Fits(FlattenSeq(seqs), W, b)
<1>1. PICK c : Bounds(c, xs, W, b)
  BY DEF Fits
<1>2. PICK flat : IsFlat(flat, Seq(S), seqs) /\ FlattenSeq(seqs) = flat[Len(seqs)]
  BY FlattenIs
<1> DEFINE n == Len(xs)
           good(i) == Fits(flat[i], W, c[i])
           T == {i \in 0 .. n : good(i)}
<1>3. n \in Nat /\ c \in [0 .. n -> 0 .. b]
      /\ \A i \in 1 .. n : c[i - 1] + Weight(xs[i], W) <= c[i]
  BY <1>1 DEF Bounds
<1>4. /\ flat \in [0 .. n -> Seq(Seq(S))] /\ flat[0] = <<>>
      /\ \A i \in 1 .. n : flat[i] = flat[i - 1] \o seqs[i]
  BY <1>2 DEF IsFlat
<1>5. \A i \in 1 .. n : xs[i] \in Seq(S) /\ seqs[i] \in Seq(Seq(S))
  OBVIOUS
<1> HIDE DEF n
<1>6. good(0)
  <2>1. c[0] \in 0 .. b
    <3>1. 0 \in 0 .. n
      BY <1>3
    <3> QED
      BY <1>3, <3>1
  <2>2. c[0] \in Nat
    BY <2>1
  <2> QED
    BY <1>4, <2>2, FitsNone
<1>7. ASSUME NEW i \in 0 .. n - 1, good(i) PROVE good(i + 1)
  <2> DEFINE j == i + 1
             p == c[i]
             q == c[j]
             w == Weight(xs[j], W)
             t == p + w
             x == flat[i]
             y == seqs[j]
  <2>1. j \in 1 .. n /\ j \in 0 .. n /\ j - 1 = i /\ i \in 0 .. n
    BY <1>3
  <2>2. Fits(y, W, w)
    BY <2>1 DEF n
  <2> HIDE DEF j
  <2>3. xs[j] \in Seq(S) /\ y \in Seq(Seq(S)) /\ x \in Seq(Seq(S)) /\ flat[j] = x \o y
    BY <1>4, <1>5, <2>1
  <2>4. w \in Nat
    BY <2>3, WeightType
  <2>5. p \in 0 .. b /\ q \in 0 .. b /\ p + w <= q
    BY <1>3, <2>1
  <2>6. Fits(x, W, p)
    BY <1>7
  <2> HIDE DEF p, q, w, x, y
  <2>7. p \in Nat /\ q \in Nat /\ t \in Nat /\ t = p + w /\ t <= q
    BY <2>4, <2>5
  <2> HIDE DEF t
  <2>8. Fits(x \o y, W, t)
    BY <2>2, <2>3, <2>4, <2>6, <2>7, FitsBehind
  <2>9. Fits(x \o y, W, q)
    BY <2>7, <2>8, FitsWider
  <2>10. good(j)
    BY <2>3, <2>9 DEF q
  <2> QED
    BY <2>10 DEF j
<1> HIDE DEF good
<1>8. 0 .. n \subseteq T
  <2>1. 0 \in T /\ \A i \in 0 .. n - 1 : i \in T => i + 1 \in T
    BY <1>3, <1>6, <1>7
  <2> HIDE DEF T
  <2> QED
    BY <1>3, <2>1, UpTo
<1>9. good(n) /\ n \in 0 .. n /\ n = Len(seqs)
  BY <1>3, <1>8 DEF n
<1>10. Fits(FlattenSeq(seqs), W, c[n]) /\ c[n] \in 0 .. b
  BY <1>2, <1>3, <1>9 DEF good
<1> DEFINE d == c[n]
<1>11. d \in Nat /\ d <= b /\ Fits(FlattenSeq(seqs), W, d)
  BY <1>10
<1> HIDE DEF d
<1> QED
  BY <1>11, FitsWider

LEMMA LastTokensFit ==
    ASSUME NEW S, NEW xs \in Seq(S), NEW W, NEW b \in Nat, NEW n \in Nat, Fits(xs, W, b)
    PROVE  Fits(LastTokens(xs, n), W, b)
<1> DEFINE m == Len(xs)
           a == m - n + 1
<1>1. LastTokens(xs, n) = IF n < m THEN SubSeq(xs, a, m) ELSE xs
  BY DEF LastTokens
<1>2. m \in Nat
  OBVIOUS
<1>3. CASE ~ (n < m)
  BY <1>1, <1>3
<1>4. CASE n < m /\ n > 0
  <2>1. a \in 1 .. Len(xs)
    BY <1>2, <1>4
  <2> HIDE DEF a
  <2>2. Fits(SubSeq(xs, a, Len(xs)), W, b)
    BY <2>1, FitsTail
  <2> QED
    BY <1>1, <1>4, <2>2
<1>5. CASE n < m /\ n = 0
  <2>1. SubSeq(xs, a, m) = <<>>
    <3>1. a \in Int /\ m \in Int /\ m < a
      BY <1>2, <1>5
    <3> HIDE DEF a, m
    <3> QED
      BY <3>1, SubSeqEmpty
  <2> QED
    BY <1>1, <1>5, <2>1, FitsNone
<1> QED
  BY <1>2, <1>3, <1>4, <1>5

\* The words of the answer.
LEMMA SolutionWordsFit ==
    ASSUME NEW S, NEW matches \in Seq(Seq(S)), NEW expected \in Nat, NEW W, NEW b \in Nat,
           Fits(matches, W, b)
    PROVE  Fits(SolutionWords(matches, expected), W, b)
<1> DEFINE join(i) == Without(matches[i], {"nl"})
           piece(i) == Split(join(i), Comma)
           split == [i \in DOMAIN matches |-> piece(i)]
           words == FlattenSeq(split)
           n == Len(matches)
<1>1. SolutionWords(matches, expected) =
         IF Len(matches) > 1 THEN LastTokens(words, expected) ELSE words
  BY SolutionWordsIs
<1>2. n \in Nat /\ DOMAIN matches = 1 .. n
  OBVIOUS
<1>3. \A i \in 1 .. n : piece(i) \in Seq(Seq(S)) /\ Fits(piece(i), W, Weight(matches[i], W))
  <2> TAKE i \in 1 .. n
  <2> DEFINE x == join(i)
             v == Weight(x, W)
             w == Weight(matches[i], W)
  <2>1. matches[i] \in Seq(S)
    BY <1>2
  <2>2. x \in Seq(S) /\ v <= w /\ w \in Nat
    BY <2>1, WithoutType, WithoutLighter, WeightType
  <2> HIDE DEF x
  <2>3. v \in Nat /\ Split(x, Comma) \in Seq(Seq(S)) /\ Fits(Split(x, Comma), W, v)
    BY <2>2, WeightType, SplitType, SplitFit
  <2> HIDE DEF v, w
  <2>4. Fits(Split(x, Comma), W, w)
    BY <2>2, <2>3, FitsWider
  <2> QED
    BY <2>3, <2>4 DEF x, w
<1> HIDE DEF piece, n
<1>4. split = [i \in 1 .. n |-> piece(i)]
  BY <1>2
<1>5. split \in [1 .. n -> Seq(Seq(S))] /\ \A i \in 1 .. n : split[i] = piece(i)
  BY <1>3, <1>4
<1>6. split \in Seq(Seq(Seq(S)))
  BY <1>2, <1>5, ListOf, Zenon
<1>7. Len(split) = n
  <2>1. DOMAIN split = 1 .. n
    BY <1>4
  <2> HIDE DEF split
  <2> QED
    BY <1>2, <1>6, <2>1, LenProperties
<1> HIDE DEF split
<1>8. \A i \in 1 .. n : Fits(split[i], W, Weight(matches[i], W))
  BY <1>3, <1>5
<1>9. words \in Seq(Seq(S)) /\ Fits(words, W, b)
  BY <1>6, <1>7, <1>8, FlattenType, FlattenFit DEF n
<1> HIDE DEF words
<1>10. Fits(LastTokens(words, expected), W, b)
  BY <1>9, LastTokensFit
<1> QED
  BY <1>1, <1>9, <1>10

-----------------------------------------------------------------------------
(* Groups                                                                  *)

LEMMA StripLighter ==
    ASSUME NEW S, NEW text \in Seq(S), NEW W
    PROVE  Weight(Strip(text), W) <= Weight(text, W)
<1> DEFINE kept == {i \in DOMAIN text : text[i] \notin Blank}
           n == Len(text)
           a == Min(kept)
           b == Max(kept)
<1>1. Strip(text) = IF kept = {} THEN <<>> ELSE SubSeq(text, a, b)
  BY DEF Strip, StripOf
<1>2. kept \subseteq 1 .. n /\ n \in Nat
  OBVIOUS
<1>3. Weight(<<>>, W) = 0 /\ Weight(text, W) \in Nat
  BY WeightType
<1>4. CASE kept = {}
  BY <1>1, <1>3, <1>4
<1>5. CASE kept # {}
  <2>1. a \in 1 .. n /\ b \in 1 .. n
    <3> HIDE DEF kept, n
    <3> QED
      BY <1>2, <1>5, EndsOf
  <2> HIDE DEF a, b, kept
  <2>2. a \in Int /\ b \in Int /\ 1 <= a /\ b <= Len(text)
    BY <2>1
  <2>3. Weight(SubSeq(text, a, b), W) <= Weight(text, W)
    BY <2>2, PartLighter
  <2> QED
    BY <1>1, <1>5, <2>3
<1> QED
  BY <1>4, <1>5

\* The end of a sequence and what is before it.
LEMMA EndOfMore ==
    ASSUME NEW S, NEW s \in Seq(S), NEW e \in S
    PROVE  /\ Append(s, e) \in Seq(S) /\ Len(Append(s, e)) = Len(s) + 1 /\ Append(s, e) # <<>>
           /\ Last(Append(s, e)) = e /\ Front(Append(s, e)) = s
<1> DEFINE n == Len(s)
           t == Append(s, e)
<1>1. n \in Nat
  OBVIOUS
<1>2. t \in Seq(S) /\ Len(t) = n + 1 /\ t[n + 1] = e /\ \A i \in 1 .. n : t[i] = s[i]
  OBVIOUS
<1>3. Last(t) = e
  BY <1>2 DEF Last
<1>4. Front(t) = s
  <2>1. Len(t) - 1 = n
    BY <1>1, <1>2
  <2>2. Front(t) = SubSeq(t, 1, n)
    BY <2>1 DEF Front
  <2>3. SubSeq(t, 1, n) = s
    OBVIOUS
  <2> QED
    BY <2>2, <2>3
<1>5. t # <<>>
  <2>1. Len(t) # 0
    BY <1>1, <1>2
  <2> HIDE DEF t
  <2> QED
    BY <1>2, <2>1, EmptySeq
<1> QED
  BY <1>2, <1>3, <1>4, <1>5

LEMMA WeightOfEnd ==
    ASSUME NEW S, NEW s \in Seq(S), s # <<>>, NEW W
    PROVE  Weight(s, W) = Weight(Front(s), W) + Weighs(Last(s), W)
<1> DEFINE f == Front(s)
           l == Last(s)
<1>1. f \in Seq(S) /\ l \in S
  BY LastType
<1>2. s = Append(f, l)
  <2>1. Len(s) \in Nat \ {0}
    OBVIOUS
  <2> QED
    BY <2>1 DEF Front, Last
<1> HIDE DEF f, l
<1>3. Weight(Append(f, l), W) = Weight(f, W) + Weighs(l, W)
  BY <1>1, WeightAppended
<1> QED
  BY <1>2, <1>3 DEF f, l

LEMMA WithElement ==
    ASSUME NEW T, IsFiniteSet(T), NEW x
    PROVE  /\ IsFiniteSet(T \cup {x}) /\ Cardinality(T \cup {x}) \in Nat /\ Cardinality(T) \in Nat
           /\ Cardinality(T \cup {x}) <= Cardinality(T) + 1
           /\ x \notin T => Cardinality(T \cup {x}) = Cardinality(T) + 1
<1> DEFINE U == T \cup {x}
<1>1. IsFiniteSet(U) /\ Cardinality(U) = IF x \in T THEN Cardinality(T) ELSE Cardinality(T) + 1
  BY FS_AddElement
<1>2. Cardinality(T) \in Nat
  BY FS_CardinalityType
<1> HIDE DEF U
<1>3. Cardinality(U) \in Nat /\ Cardinality(U) <= Cardinality(T) + 1
  BY <1>1, <1>2
<1> QED
  BY <1>1, <1>2, <1>3 DEF U

\* Groups of an answer, k of whose words are in TW: every group of TG, which has
\* words of TW only, is full, unless it is the last.
Claims(g, TG, TW, k) ==
    /\ IsFiniteSet(Last(g)) /\ Cardinality(Last(g)) <= GroupSize
    /\ GroupSize * Weight(Front(g), TG) + Cardinality(Last(g) \cap TW) <= k

LEMMA NoClaims ==
    ASSUME NEW TG, NEW TW, NEW k \in Nat
    PROVE  Claims(<< {} >>, TG, TW, k)
<1> DEFINE none == << {} >>
<1>1. Len(none) = 1 /\ none[1] = {}
  OBVIOUS
<1>2. Last(none) = {} /\ Front(none) = <<>>
  <2>1. Last(none) = {}
    BY <1>1 DEF Last
  <2>2. Front(none) = SubSeq(none, 1, 0)
    BY <1>1 DEF Front
  <2>3. SubSeq(none, 1, 0) = <<>>
    BY SubSeqEmpty
  <2> QED
    BY <2>1, <2>2, <2>3
<1>3. Weight(<<>>, TG) = 0
  <2>1. <<>> \in Seq({})
    OBVIOUS
  <2> QED
    BY <2>1, WeightType
<1>4. IsFiniteSet({}) /\ Cardinality({}) = 0 /\ {} \cap TW = {}
  BY FS_EmptySet
<1> HIDE DEF none
<1>5. GroupSize * 0 = 0 /\ 0 <= GroupSize
  BY GroupSizeAssumption
<1>6. GroupSize * Weight(Front(none), TG) + Cardinality(Last(none) \cap TW) = 0
  <2>1. Weight(Front(none), TG) = 0 /\ Cardinality(Last(none) \cap TW) = 0
    BY <1>2, <1>3, <1>4
  <2> QED
    BY <1>5, <2>1
<1>7. Claims(none, TG, TW, k)
  BY <1>2, <1>4, <1>5, <1>6 DEF Claims
<1> QED
  BY <1>7 DEF none

LEMMA NextClaims ==
    ASSUME NEW S, NEW g \in Seq(SUBSET S) \ {<<>>}, NEW w \in S, NEW TG, NEW TW,
           \A t \in TG : t \subseteq TW, NEW k \in Nat, Claims(g, TG, TW, k),
           NEW m \in Nat, k + Weighs(w, TW) <= m
    PROVE  Claims(NextGroups(g, w), TG, TW, m)
<1> DEFINE l == Last(g)
           f == Front(g)
           x == Weight(f, TG)
           u == Weighs(w, TW)
           next == NextGroups(g, w)
<1>1. l \in SUBSET S /\ f \in Seq(SUBSET S) /\ g \in Seq(SUBSET S) /\ g # <<>>
  BY LastType
<1>2. IsFiniteSet(l) /\ Cardinality(l) <= GroupSize /\ GroupSize * x + Cardinality(l \cap TW) <= k
  BY DEF Claims
<1>3. x \in Nat /\ u \in Nat /\ GroupSize \in Nat /\ GroupSize > 0
  BY <1>1, WeightType, WeighsType, GroupSizeAssumption
<1>4. IsFiniteSet(l \cap TW) /\ Cardinality(l \cap TW) \in Nat /\ Cardinality(l) \in Nat
  <2>1. l \cap TW \in SUBSET l
    OBVIOUS
  <2> QED
    BY <1>2, <2>1, FS_Subset, FS_CardinalityType
<1>5. next = IF Cardinality(l) = GroupSize THEN Append(g, {w}) ELSE Append(f, l \cup {w})
  BY DEF NextGroups
<1>6. k + u <= m
  OBVIOUS
<1>7. CASE Cardinality(l) = GroupSize
  <2> DEFINE one == {w}
             y == Weight(g, TG)
             v == Weighs(l, TG)
  <2>1. one \in SUBSET S /\ IsFiniteSet(one) /\ Cardinality(one) = 1
    BY FS_Singleton
  <2>2. Cardinality(one \cap TW) = u
    <3>1. CASE w \in TW
      <4>1. one \cap TW = one
        BY <3>1
      <4> QED
        BY <2>1, <3>1, <4>1 DEF Weighs
    <3>2. CASE w \notin TW
      <4>1. one \cap TW = {}
        BY <3>2
      <4> QED
        BY <3>2, <4>1, FS_EmptySet DEF Weighs
    <3> QED
      BY <3>1, <3>2
  <2>3. y = x + v /\ v \in Nat
    BY <1>1, WeightOfEnd, WeighsType
  <2>4. v = 0 \/ (v = 1 /\ Cardinality(l \cap TW) = GroupSize)
    <3>1. CASE l \in TG
      <4>1. l \cap TW = l
        BY <3>1
      <4> QED
        BY <1>7, <3>1, <4>1 DEF Weighs
    <3>2. CASE l \notin TG
      BY <3>2 DEF Weighs
    <3> QED
      BY <3>1, <3>2
  <2> DEFINE c == Cardinality(l \cap TW)
             G == GroupSize
  <2> HIDE DEF one, y, v, x, u, f, next
  <2>5. G * y <= k
    <3>1. G \in Nat /\ c \in Nat /\ G * x + c <= k
      BY <1>2, <1>3, <1>4
    <3>2. CASE v = 0
      <4>1. y = x
        BY <1>3, <2>3, <3>2
      <4>2. G * x \in Nat
        BY <1>3, <3>1
      <4> HIDE DEF c, G
      <4> QED
        BY <3>1, <4>1, <4>2
    <3>3. CASE v = 1 /\ c = G
      <4>1. y = x + 1
        BY <2>3, <3>3
      <4> HIDE DEF c, G
      <4>2. G * (x + 1) = G * x + G
        BY <1>3, <3>1
      <4> QED
        BY <3>1, <3>3, <4>1, <4>2
    <3> QED
      BY <2>4, <3>2, <3>3
  <2>6. next = Append(g, one)
    BY <1>5, <1>7 DEF one
  <2>7. Last(next) = one /\ Front(next) = g
    BY <1>1, <2>1, <2>6, EndOfMore
  <2>8. G * Weight(Front(next), TG) + Cardinality(Last(next) \cap TW) <= m
    <3>1. Weight(Front(next), TG) = y /\ Cardinality(Last(next) \cap TW) = u
      BY <2>2, <2>7 DEF y
    <3>2. G * y \in Nat
      BY <1>3, <2>3
    <3> HIDE DEF G
    <3> QED
      BY <1>3, <1>6, <2>5, <3>1, <3>2
  <2> QED
    BY <1>3, <2>1, <2>7, <2>8 DEF Claims, next
<1>8. CASE Cardinality(l) # GroupSize
  <2> DEFINE more == l \cup {w}
             c == Cardinality(l \cap TW)
             d == Cardinality(more \cap TW)
  <2>1. /\ more \in SUBSET S /\ IsFiniteSet(more) /\ Cardinality(more) <= Cardinality(l) + 1
        /\ Cardinality(more) \in Nat
    <3>1. more \in SUBSET S
      BY <1>1
    <3> QED
      BY <1>2, <3>1, WithElement
  <2>2. Cardinality(more) <= GroupSize
    <3> HIDE DEF more
    <3> QED
      BY <1>2, <1>3, <1>4, <1>8, <2>1
  <2>3. d <= c + u /\ d \in Nat
    <3>1. CASE w \in TW
      <4> DEFINE old == l \cap TW
      <4>1. more \cap TW = old \cup {w}
        BY <3>1
      <4>2. IsFiniteSet(old) /\ Cardinality(old) \in Nat
        BY <1>4
      <4> HIDE DEF old
      <4>3. IsFiniteSet(old \cup {w}) /\ Cardinality(old \cup {w}) <= Cardinality(old) + 1
            /\ Cardinality(old \cup {w}) \in Nat
        BY <4>2, WithElement
      <4>4. u = 1
        BY <3>1 DEF Weighs
      <4> QED
        BY <4>1, <4>3, <4>4 DEF old
    <3>2. CASE w \notin TW
      <4>1. more \cap TW = l \cap TW
        BY <3>2
      <4>2. d = c /\ c \in Nat
        BY <1>4, <4>1
      <4> HIDE DEF c, d
      <4> QED
        BY <1>3, <4>2
    <3> QED
      BY <3>1, <3>2
  <2> HIDE DEF more, d
  <2>4. next = Append(f, more)
    BY <1>5, <1>8 DEF more
  <2> HIDE DEF x, u, f, next
  <2>5. Last(next) = more /\ Front(next) = f
    BY <1>1, <2>1, <2>4, EndOfMore
  <2>6. GroupSize * Weight(Front(next), TG) + Cardinality(Last(next) \cap TW) <= m
    <3> DEFINE p == GroupSize * x
    <3>1. p \in Nat /\ p + c <= k /\ c \in Nat
      BY <1>2, <1>3, <1>4
    <3>2. GroupSize * Weight(Front(next), TG) = p /\ Cardinality(Last(next) \cap TW) = d
      BY <2>5 DEF x, d
    <3> HIDE DEF p, c
    <3>3. p + d <= m
      BY <1>3, <1>6, <2>3, <3>1
    <3> QED
      BY <3>2, <3>3
  <2> QED
    BY <2>1, <2>2, <2>5, <2>6 DEF Claims, next
<1> QED
  BY <1>7, <1>8

\* The words that are one of some tokens.
Single(W) == {<<w>> : w \in W}

LEMMA SingleWeighs ==
    ASSUME NEW S, NEW x \in Seq(S), NEW W
    PROVE  Weighs(Strip(x), Single(W)) <= Weight(x, W)
<1> DEFINE y == Strip(x)
<1>1. y \in Seq(S) /\ Weight(y, W) <= Weight(x, W)
  BY StripType, StripLighter
<1>2. Weight(x, W) \in Nat
  BY WeightType
<1> HIDE DEF y
<1>3. CASE y \notin Single(W)
  BY <1>2, <1>3 DEF Weighs, y
<1>4. CASE y \in Single(W)
  <2>1. PICK w \in W : y = <<w>>
    BY <1>4 DEF Single
  <2>2. w \in S
    BY <1>1, <2>1
  <2> DEFINE none == <<>>
  <2>3. none \in Seq(S) /\ Weight(none, W) = 0 /\ Append(none, w) = <<w>>
    <3>1. <<>> \in Seq(S) /\ Append(<<>>, w) = <<w>>
      OBVIOUS
    <3> QED
      BY <3>1, WeightType
  <2> HIDE DEF none
  <2>4. Weight(Append(none, w), W) = Weight(none, W) + Weighs(w, W)
    BY <2>2, <2>3, WeightAppended
  <2>5. Weighs(w, W) = 1 /\ Weighs(y, Single(W)) = 1
    BY <1>4 DEF Weighs
  <2>6. Weight(y, W) = 1
    BY <2>1, <2>3, <2>4, <2>5
  <2> QED
    BY <1>1, <1>2, <2>5, <2>6 DEF y
<1> QED
  BY <1>3, <1>4

\* The groups of an answer that has b tokens of W.
LEMMA GroupsClaim ==
    ASSUME NEW S, NEW words \in Seq(Seq(S)), NEW W, NEW TG, \A t \in TG : t \subseteq Single(W),
           NEW b \in Nat, Fits(words, W, b)
    PROVE  Claims(GroupWords(words), TG, Single(W), b)
<1>1. PICK c : Bounds(c, words, W, b)
  BY DEF Fits
<1>2. PICK groups : IsGroups(groups, Seq(S), words) /\ GroupWords(words) = groups[Len(words)]
  BY GroupWordsIs
<1> DEFINE n == Len(words)
           TW == Single(W)
           Q == Seq(S)
           good(i) == Claims(groups[i], TG, TW, c[i])
           T == {i \in 0 .. n : good(i)}
<1>3. /\ n \in Nat /\ c \in [0 .. n -> 0 .. b]
      /\ \A i \in 1 .. n : c[i - 1] + Weight(words[i], W) <= c[i]
  BY <1>1 DEF Bounds
<1>4. /\ groups \in [0 .. n -> Seq(SUBSET Q) \ {<<>>}] /\ groups[0] = << {} >>
      /\ \A i \in 1 .. n : groups[i] = NextGroups(groups[i - 1], Strip(words[i]))
  BY <1>2 DEF IsGroups
<1>5. \A i \in 1 .. n : words[i] \in Seq(S)
  OBVIOUS
<1> HIDE DEF n, TW
<1>6. \A i \in 0 .. n : c[i] \in Nat
  BY <1>3
<1>7. good(0)
  <2>1. 0 \in 0 .. n
    BY <1>3
  <2>2. c[0] \in Nat
    BY <1>6, <2>1
  <2> QED
    BY <1>4, <2>2, NoClaims
<1>8. ASSUME NEW i \in 0 .. n - 1, good(i) PROVE good(i + 1)
  <2> DEFINE j == i + 1
             k == c[i]
             m == c[j]
             v == Weight(words[j], W)
             g == groups[i]
             w == Strip(words[j])
             u == Weighs(w, TW)
  <2>1. j \in 1 .. n /\ j \in 0 .. n /\ j - 1 = i /\ i \in 0 .. n
    BY <1>3
  <2> HIDE DEF j
  <2>2. k \in Nat /\ m \in Nat /\ k + v <= m
    BY <1>3, <1>6, <2>1
  <2>3. words[j] \in Seq(S)
    BY <1>5, <2>1
  <2>4. u <= v /\ v \in Nat /\ u \in Nat /\ w \in Q
    BY <2>3, SingleWeighs, WeightType, WeighsType, StripType DEF TW
  <2>5. g \in Seq(SUBSET Q) \ {<<>>} /\ groups[j] = NextGroups(g, w)
    BY <1>4, <2>1
  <2>6. Claims(g, TG, TW, k) /\ \A t \in TG : t \subseteq TW
    BY <1>8 DEF TW
  <2>7. k + u <= m
    <3> HIDE DEF k, u, m, v
    <3> QED
      BY <2>2, <2>4
  <2> HIDE DEF k, m, g, w, Q, v, u
  <2>8. Claims(NextGroups(g, w), TG, TW, m)
    BY <2>2, <2>4, <2>5, <2>6, <2>7, NextClaims DEF u
  <2>9. good(j)
    BY <2>5, <2>8 DEF m
  <2> QED
    BY <2>9 DEF j
<1> HIDE DEF good
<1>9. 0 .. n \subseteq T
  <2>1. 0 \in T /\ \A i \in 0 .. n - 1 : i \in T => i + 1 \in T
    BY <1>3, <1>7, <1>8
  <2> HIDE DEF T
  <2> QED
    BY <1>3, <2>1, UpTo
<1>10. good(n) /\ c[n] \in 0 .. b
  BY <1>3, <1>9
<1> DEFINE g == groups[n]
           k == c[n]
           x == GroupSize * Weight(Front(g), TG)
           y == Cardinality(Last(g) \cap TW)
<1>11. /\ IsFiniteSet(Last(g)) /\ Cardinality(Last(g)) <= GroupSize /\ x + y <= k /\ k \in 0 .. b
  BY <1>10 DEF good, Claims
<1>12. x \in Nat /\ y \in Nat
  <2>1. n \in 0 .. n
    BY <1>3
  <2>2. g \in Seq(SUBSET Q) /\ g # <<>>
    BY <1>4, <2>1
  <2> HIDE DEF g, Q
  <2>3. Front(g) \in Seq(SUBSET Q)
    BY <2>2, LastType
  <2>4. Weight(Front(g), TG) \in Nat
    BY <2>3, WeightType
  <2>5. Last(g) \cap TW \in SUBSET Last(g)
    OBVIOUS
  <2>6. IsFiniteSet(Last(g) \cap TW)
    BY <1>11, <2>5, FS_Subset
  <2> QED
    BY <2>4, <2>6, GroupSizeAssumption, FS_CardinalityType
<1> HIDE DEF g, k, x, y
<1>13. x + y <= b
  BY <1>11, <1>12
<1>14. Claims(g, TG, TW, b)
  BY <1>11, <1>13 DEF Claims, x, y
<1> QED
  BY <1>2, <1>14 DEF g, n, TW

LEMMA StripOne ==
    ASSUME NEW w, w \notin Blank
    PROVE  Strip(<<w>>) = <<w>>
<1> DEFINE one == <<w>>
           kept == {i \in DOMAIN one : one[i] \notin Blank}
<1>1. Len(one) = 1 /\ DOMAIN one = 1 .. 1 /\ one[1] = w
  OBVIOUS
<1>2. kept = {1}
  BY <1>1
<1>3. Strip(one) = IF kept = {} THEN <<>> ELSE SubSeq(one, Min(kept), Max(kept))
  BY DEF Strip, StripOf
<1> HIDE DEF kept
<1>4. Min(kept) = 1 /\ Max(kept) = 1
  <2>1. 1 \in Nat /\ kept \subseteq 1 .. 1 /\ kept # {}
    BY <1>2
  <2>2. Min(kept) \in 1 .. 1 /\ Max(kept) \in 1 .. 1
    BY <2>1, EndsOf
  <2> QED
    BY <2>2
<1>5. SubSeq(one, 1, 1) = one
  <2> DEFINE S == {w}
  <2>1. one \in Seq(S) /\ Len(one) = 1
    OBVIOUS
  <2> HIDE DEF one, S
  <2>2. SubSeq(one, 1, Len(one)) = one
    BY <2>1
  <2> QED
    BY <2>1, <2>2
<1>6. kept # {}
  BY <1>2
<1> QED
  BY <1>3, <1>4, <1>5, <1>6 DEF one

\* Groups of i words of A: all are full but the last, which has the rest.
Parted(g, A, i) ==
    /\ GroupSize * (Len(g) - 1) + Cardinality(Last(g)) = i
    /\ IsFiniteSet(Last(g)) /\ Cardinality(Last(g)) \in 0 .. GroupSize
    /\ i > 0 => Cardinality(Last(g)) > 0
    /\ \A t \in ToSet(g) : t \subseteq A
    /\ \A t \in ToSet(Front(g)) : Cardinality(t) = GroupSize

LEMMA NotParted == \A A : Parted(<< {} >>, A, 0)
<1> TAKE A
<1> DEFINE none == << {} >>
<1>1. Len(none) = 1 /\ none[1] = {} /\ DOMAIN none = 1 .. 1
  OBVIOUS
<1>2. Last(none) = {} /\ Front(none) = <<>>
  <2>1. Last(none) = {}
    BY <1>1 DEF Last
  <2>2. Front(none) = SubSeq(none, 1, 0)
    BY <1>1 DEF Front
  <2>3. SubSeq(none, 1, 0) = <<>>
    BY SubSeqEmpty
  <2> QED
    BY <2>1, <2>2, <2>3
<1>3. ToSet(none) = {{}} /\ ToSet(<<>>) = {}
  BY <1>1 DEF ToSet
<1>4. IsFiniteSet({}) /\ Cardinality({}) = 0
  BY FS_EmptySet
<1> HIDE DEF none
<1>5. GroupSize * (Len(none) - 1) + Cardinality(Last(none)) = 0
  <2> DEFINE m == Len(none) - 1
             c == Cardinality(Last(none))
  <2>1. m = 0 /\ c = 0
    BY <1>1, <1>2, <1>4
  <2> HIDE DEF m, c
  <2>2. GroupSize * m + c = 0
    BY <2>1, GroupSizeAssumption
  <2> QED
    BY <2>2 DEF m, c
<1>6. 0 \in 0 .. GroupSize
  BY GroupSizeAssumption
<1>7. Parted(none, A, 0)
  BY <1>2, <1>3, <1>4, <1>5, <1>6 DEF Parted
<1> QED
  BY <1>7 DEF none

LEMMA SetOfMore ==
    ASSUME NEW S, NEW s \in Seq(S), NEW e
    PROVE  /\ ToSet(Append(s, e)) = ToSet(s) \cup {e}
           /\ s # <<>> => ToSet(s) = ToSet(Front(s)) \cup {Last(s)}
<1>1. ASSUME NEW R, NEW r \in Seq(R), NEW d \in R PROVE ToSet(Append(r, d)) = ToSet(r) \cup {d}
  <2> DEFINE n == Len(r)
             t == Append(r, d)
  <2>1. n \in Nat /\ DOMAIN r = 1 .. n
    OBVIOUS
  <2>2. DOMAIN t = 1 .. n + 1 /\ t[n + 1] = d /\ \A i \in 1 .. n : t[i] = r[i]
    OBVIOUS
  <2> HIDE DEF n, t
  <2>3. n + 1 \in 1 .. n + 1 /\ \A i \in 1 .. n + 1 : i = n + 1 \/ i \in 1 .. n
    BY <2>1
  <2>4. 1 .. n \subseteq 1 .. n + 1
    BY <2>1
  <2>5. ToSet(t) = ToSet(r) \cup {d}
    BY <2>1, <2>2, <2>3, <2>4 DEF ToSet
  <2> QED
    BY <2>5 DEF t
<1>2. ToSet(Append(s, e)) = ToSet(s) \cup {e}
  <2> DEFINE R == S \cup {e}
  <2>1. s \in Seq(R) /\ e \in R
    BY SeqMonotonic
  <2> HIDE DEF R
  <2> QED
    BY <1>1, <2>1
<1>3. ASSUME s # <<>> PROVE ToSet(s) = ToSet(Front(s)) \cup {Last(s)}
  <2> DEFINE f == Front(s)
             l == Last(s)
  <2>1. f \in Seq(S) /\ l \in S
    BY <1>3, LastType
  <2>2. s = Append(f, l)
    <3>1. Len(s) \in Nat \ {0}
      BY <1>3
    <3> QED
      BY <3>1 DEF Front, Last
  <2> HIDE DEF f, l
  <2>3. ToSet(Append(f, l)) = ToSet(f) \cup {l}
    BY <1>1, <2>1
  <2> QED
    BY <2>2, <2>3 DEF f, l
<1> QED
  BY <1>2, <1>3

LEMMA NextParted ==
    ASSUME NEW S, NEW g \in Seq(SUBSET S) \ {<<>>}, NEW w \in S, NEW A, w \notin A,
           NEW B, B = A \cup {w}, NEW i \in Nat, NEW j, j = i + 1, Parted(g, A, i)
    PROVE  Parted(NextGroups(g, w), B, j)
<1> DEFINE l == Last(g)
           f == Front(g)
           n == Len(g)
           c == Cardinality(l)
           G == GroupSize
           next == NextGroups(g, w)
<1>1. /\ l \in SUBSET S /\ f \in Seq(SUBSET S) /\ g \in Seq(SUBSET S) /\ g # <<>>
      /\ n \in Nat \ {0}
  BY LastType
<1>2. /\ G * (n - 1) + c = i /\ IsFiniteSet(l) /\ c \in 0 .. G
      /\ \A t \in ToSet(g) : t \subseteq A
      /\ \A t \in ToSet(f) : Cardinality(t) = G
  BY DEF Parted
<1>3. G \in Nat /\ G > 0
  BY GroupSizeAssumption
<1>4. next = IF c = G THEN Append(g, {w}) ELSE Append(f, l \cup {w})
  BY DEF NextGroups
<1>5. ToSet(g) = ToSet(f) \cup {l}
  BY <1>1, SetOfMore
<1> HIDE DEF c, G, l, f, n, next
<1>6. CASE c = G
  <2> DEFINE one == {w}
  <2>1. one \in SUBSET S /\ IsFiniteSet(one) /\ Cardinality(one) = 1
    BY FS_Singleton
  <2> HIDE DEF one
  <2>2. next = Append(g, one)
    BY <1>4, <1>6 DEF one
  <2>3. Last(next) = one /\ Front(next) = g /\ Len(next) = n + 1
    BY <1>1, <2>1, <2>2, EndOfMore DEF n
  <2>4. ToSet(next) = ToSet(g) \cup {one}
    BY <1>1, <2>2, SetOfMore
  <2>5. G * (Len(next) - 1) + Cardinality(Last(next)) = j
    <3>1. Len(next) - 1 = (n - 1) + 1 /\ n - 1 \in Nat
      BY <1>1, <2>3
    <3>2. G * ((n - 1) + 1) = G * (n - 1) + G
      BY <1>3, <3>1
    <3>3. G * (Len(next) - 1) + 1 = G * (n - 1) + G + 1
      BY <3>1, <3>2
    <3> QED
      BY <1>2, <1>6, <2>1, <2>3, <3>3
  <2>6. Cardinality(Last(next)) \in 0 .. G /\ IsFiniteSet(Last(next)) /\ Cardinality(Last(next)) > 0
    BY <1>3, <2>1, <2>3
  <2>7. \A t \in ToSet(next) : t \subseteq B
    BY <1>2, <2>4 DEF one
  <2>8. \A t \in ToSet(Front(next)) : Cardinality(t) = G
    BY <1>2, <1>5, <1>6, <2>3 DEF c
  <2> QED
    BY <2>5, <2>6, <2>7, <2>8 DEF Parted, G, next
<1>7. CASE c # G
  <2> DEFINE more == l \cup {w}
             d == Cardinality(more)
  <2>1. w \notin l
    BY <1>2, <1>5
  <2>2. more \in SUBSET S /\ IsFiniteSet(more) /\ d = c + 1
    BY <1>1, <1>2, <2>1, WithElement DEF c
  <2> HIDE DEF more, d
  <2>3. next = Append(f, more)
    BY <1>4, <1>7 DEF more
  <2>4. Last(next) = more /\ Front(next) = f
    BY <1>1, <2>2, <2>3, EndOfMore
  <2>5. Len(next) = n
    <3>1. Len(next) = Len(f) + 1
      BY <1>1, <2>2, <2>3, EndOfMore
    <3>2. Len(f) = n - 1
      <4> DEFINE m == n - 1
      <4>1. f = SubSeq(g, 1, m) /\ m \in Nat /\ 1 \in Int /\ m \in Int
        BY <1>1 DEF f, Front, n
      <4>2. \A k \in 1 .. m : g[k] \in SUBSET S
        BY <1>1 DEF n
      <4> HIDE DEF m
      <4>3. Len(SubSeq(g, 1, m)) = IF 1 <= m THEN m - 1 + 1 ELSE 0
        BY <4>1, <4>2, SubSeqProperties
      <4> DEFINE k == Len(SubSeq(g, 1, m))
      <4>4. k = m
        BY <4>1, <4>3
      <4> QED
        BY <4>1, <4>4 DEF m
    <3> QED
      BY <1>1, <3>1, <3>2
  <2>6. ToSet(next) = ToSet(f) \cup {more}
    BY <1>1, <2>3, SetOfMore
  <2>7. G * (Len(next) - 1) + Cardinality(Last(next)) = j
    <3> DEFINE p == G * (n - 1)
    <3>1. p \in Int /\ p + c = i /\ c \in Int
      BY <1>1, <1>2, <1>3
    <3>2. G * (Len(next) - 1) = p /\ Cardinality(Last(next)) = d
      BY <2>4, <2>5 DEF d
    <3> HIDE DEF p
    <3>3. p + d = j
      BY <2>2, <3>1
    <3> QED
      BY <3>2, <3>3
  <2>8. Cardinality(Last(next)) \in 0 .. G /\ IsFiniteSet(Last(next)) /\ Cardinality(Last(next)) > 0
    <3>1. d \in 0 .. G /\ d > 0
      BY <1>2, <1>3, <1>7, <2>2
    <3> QED
      BY <2>2, <2>4, <3>1 DEF d
  <2>9. \A t \in ToSet(next) : t \subseteq B
    BY <1>2, <1>5, <2>6 DEF more
  <2>10. \A t \in ToSet(Front(next)) : Cardinality(t) = G
    BY <1>2, <2>4
  <2> QED
    BY <2>7, <2>8, <2>9, <2>10 DEF Parted, G, next
<1> QED
  BY <1>6, <1>7

\* A puzzle: its words are separated by commas and differ, and none is blank.
IsPuzzle(truth, words) ==
    /\ words # <<>> /\ ToSet(words) \cap Blank = {}
    /\ \A i, j \in DOMAIN words : words[i] = words[j] => i = j
    /\ Split(truth, Comma) = [j \in DOMAIN words |-> <<words[j]>>]

LEMMA PuzzleParted ==
    ASSUME NEW S, NEW truth \in Seq(S), NEW words \in Seq(S), IsPuzzle(truth, words)
    PROVE  Parted(GroupWords(Split(truth, Comma)), Single(ToSet(words)), Len(words))
<1> DEFINE listed == Split(truth, Comma)
           n == Len(words)
           A(i) == {<<words[k]>> : k \in 1 .. i}
           Q == Seq(S)
<1>1. n \in Nat /\ DOMAIN words = 1 .. n /\ \A i \in 1 .. n : words[i] \in S
  OBVIOUS
<1>2. listed \in Seq(Seq(S))
  BY SplitType
<1>3. listed = [j \in 1 .. n |-> <<words[j]>>]
  BY <1>1 DEF IsPuzzle
<1>4. \A i \in 1 .. n : Strip(listed[i]) = <<words[i]>> /\ <<words[i]>> \in Q
  <2> TAKE i \in 1 .. n
  <2>1. words[i] \in ToSet(words)
    BY <1>1 DEF ToSet
  <2>2. words[i] \notin Blank
    BY <2>1 DEF IsPuzzle
  <2>3. Strip(<<words[i]>>) = <<words[i]>>
    BY <2>2, StripOne
  <2> QED
    BY <1>1, <1>3, <2>3
<1>5. \A i, j \in 1 .. n : <<words[i]>> = <<words[j]>> => i = j
  <2> TAKE i, j \in 1 .. n
  <2> HAVE <<words[i]>> = <<words[j]>>
  <2>1. words[i] = words[j]
    OBVIOUS
  <2> QED
    BY <1>1, <2>1 DEF IsPuzzle
<1>6. Len(listed) = n
  <2>1. DOMAIN listed = 1 .. n
    BY <1>3
  <2> HIDE DEF listed, n
  <2> QED
    BY <1>1, <1>2, <2>1, LenProperties
<1> HIDE DEF listed
<1>7. PICK groups : IsGroups(groups, Q, listed) /\ GroupWords(listed) = groups[n]
  BY <1>2, <1>6, GroupWordsIs
<1> DEFINE good(i) == Parted(groups[i], A(i), i)
           T == {i \in 0 .. n : good(i)}
<1>8. /\ groups \in [0 .. n -> Seq(SUBSET Q) \ {<<>>}] /\ groups[0] = << {} >>
      /\ \A i \in 1 .. n : groups[i] = NextGroups(groups[i - 1], Strip(listed[i]))
  BY <1>6, <1>7 DEF IsGroups
<1> HIDE DEF n
<1>9. good(0)
  BY <1>8, NotParted
<1>10. ASSUME NEW i \in 0 .. n - 1, good(i) PROVE good(i + 1)
  <2> DEFINE j == i + 1
             g == groups[i]
             w == <<words[j]>>
             B == A(j)
             C == A(i)
  <2>1. j \in 1 .. n /\ j - 1 = i /\ i \in 0 .. n /\ i \in Nat /\ j = i + 1
        /\ \A k \in 1 .. j : k = j \/ k \in 1 .. i
    BY <1>1
  <2>2. \A k \in 1 .. i : k \in 1 .. j /\ k \in 1 .. n /\ k # j
    BY <1>1, <2>1
  <2>3. j \in 1 .. j
    BY <2>1
  <2> HIDE DEF j
  <2>4. w \notin C
    BY <1>5, <2>1, <2>2
  <2>5. B = C \cup {w}
    BY <2>1, <2>2, <2>3
  <2>6. g \in Seq(SUBSET Q) \ {<<>>} /\ groups[j] = NextGroups(g, w) /\ w \in Q
    BY <1>4, <1>8, <2>1
  <2>7. Parted(g, C, i)
    BY <1>10
  <2> HIDE DEF g, w, B, C, Q
  <2>8. Parted(NextGroups(g, w), B, j)
    BY <2>1, <2>4, <2>5, <2>6, <2>7, NextParted
  <2>9. good(j)
    BY <2>6, <2>8 DEF B
  <2> QED
    BY <2>9 DEF j
<1>11. A(n) = Single(ToSet(words))
  BY <1>1 DEF Single, ToSet
<1> HIDE DEF good
<1>12. 0 .. n \subseteq T
  <2>1. 0 \in T /\ \A i \in 0 .. n - 1 : i \in T => i + 1 \in T
    BY <1>1, <1>9, <1>10
  <2> HIDE DEF T
  <2> QED
    BY <1>1, <2>1, UpTo
<1>13. good(n)
  BY <1>1, <1>12
<1> HIDE DEF A
<1>14. Parted(groups[n], A(n), n)
  BY <1>13 DEF good
<1> QED
  BY <1>7, <1>11, <1>14 DEF listed, n

\* A larger share is not rounded to less.
LEMMA RoundOrder ==
    ASSUME NEW a \in Nat, NEW b \in Nat \ {0}, NEW c \in Nat, NEW d \in Nat \ {0}, a * d <= c * b
    PROVE  Round4(a, b) <= Round4(c, d)
<1> DEFINE x == 2 * (10000 * a) + b
           y == 2 * b
           u == 2 * (10000 * c) + d
           v == 2 * d
           q == x \div y
           p == u \div v
<1>1. x \in Nat /\ y \in Nat /\ y > 0 /\ u \in Nat /\ v \in Nat /\ v > 0
  OBVIOUS
<1>2. x * v <= u * y
  <2> DEFINE s == a * d
             t == c * b
             bd == b * d
  <2>1. s \in Nat /\ t \in Nat /\ bd \in Nat /\ s <= t
    OBVIOUS
  <2>2. x * v = 40000 * s + 2 * bd /\ u * y = 40000 * t + 2 * bd
    OBVIOUS
  <2> HIDE DEF s, t, bd, x, y, u, v
  <2> QED
    BY <2>1, <2>2
<1>3. /\ q \in Nat
      /\ \/ x % y = 0 /\ q % 2 = 1 /\ Round4(a, b) = q - 1
         \/ ~ (x % y = 0 /\ q % 2 = 1) /\ Round4(a, b) = q
  <2>1. Round4(a, b) = IF x % y = 0 /\ q % 2 = 1 THEN q - 1 ELSE q
    BY DEF Round4, Nearest, Full
  <2>2. q \in Nat /\ (q % 2 = 1 => q > 0)
    <3> HIDE DEF x, y
    <3> QED
      BY <1>1, QuotientType
  <2> HIDE DEF x, y, q
  <2> QED
    BY <2>1, <2>2
<1>4. /\ p \in Nat
      /\ \/ u % v = 0 /\ p % 2 = 1 /\ Round4(c, d) = p - 1
         \/ ~ (u % v = 0 /\ p % 2 = 1) /\ Round4(c, d) = p
  <2>1. Round4(c, d) = IF u % v = 0 /\ p % 2 = 1 THEN p - 1 ELSE p
    BY DEF Round4, Nearest, Full
  <2>2. p \in Nat /\ (p % 2 = 1 => p > 0)
    <3> HIDE DEF u, v
    <3> QED
      BY <1>1, QuotientType
  <2> HIDE DEF u, v, p
  <2> QED
    BY <2>1, <2>2
<1> HIDE DEF x, y, u, v
<1>5. q * y <= x /\ (q * y = x => x % y = 0) /\ (u % v = 0 => u = p * v)
  <2> DEFINE r == x % y
             s == u % v
  <2>1. q \in Int /\ r \in 0 .. y - 1 /\ x = y * q + r /\ p \in Int /\ u = v * p + s
    BY <1>1
  <2> HIDE DEF q, p, r, s
  <2>2. y * q <= x /\ (y * q = x => r = 0) /\ (s = 0 => u = v * p)
    BY <1>1, <2>1
  <2> QED
    BY <1>1, <2>1, <2>2 DEF r, s
<1> HIDE DEF q, p
<1>6. q * v <= u
  <2> SUFFICES ASSUME q * v > u PROVE FALSE
    BY <1>1, <1>3
  <2>1. q * v >= u + 1 /\ q * v \in Nat
    BY <1>1, <1>3
  <2>2. (q * v) * y >= (u + 1) * y
    BY <1>1, <2>1
  <2>3. (q * y) * v <= x * v
    BY <1>1, <1>3, <1>5
  <2>4. (q * v) * y = (q * y) * v /\ (u + 1) * y = u * y + y
    BY <1>1, <1>3
  <2> DEFINE k == (q * v) * y
             l == u * y
             m == x * v
  <2>5. k \in Nat /\ l \in Nat /\ m \in Nat
    BY <1>1, <1>3
  <2>6. k >= l + y /\ k <= m /\ m <= l
    BY <1>2, <2>2, <2>3, <2>4
  <2> HIDE DEF k, l, m
  <2> QED
    BY <1>1, <2>5, <2>6
<1>7. q <= p
  BY <1>1, <1>3, <1>6, QuotientAtLeast DEF p
<1>8. ASSUME q = p, u % v = 0 PROVE x % y = 0
  <2>1. x * v <= (q * y) * v
    <3>1. u = q * v
      BY <1>5, <1>8
    <3>2. (q * v) * y = (q * y) * v
      BY <1>1, <1>3
    <3> QED
      BY <1>2, <3>1, <3>2
  <2>2. x <= q * y
    <3> DEFINE z == q * y
    <3>1. z \in Nat /\ x * v <= z * v
      BY <1>1, <1>3, <2>1
    <3> HIDE DEF z
    <3>2. x <= z
      <4> SUFFICES ASSUME x >= z + 1 PROVE FALSE
        BY <1>1, <3>1
      <4>1. x * v >= (z + 1) * v
        BY <1>1, <3>1
      <4> QED
        BY <1>1, <3>1, <4>1
    <3> QED
      BY <3>2 DEF z
  <2>3. x = q * y
    BY <1>1, <1>3, <1>5, <2>2
  <2> QED
    BY <1>5, <2>3
<1>9. CASE q = p
  BY <1>3, <1>4, <1>8, <1>9
<1>10. CASE q < p
  BY <1>3, <1>4, <1>10
<1> QED
  BY <1>3, <1>4, <1>7, <1>9, <1>10

LEMMA ClaimsCount ==
    ASSUME NEW S, NEW g \in Seq(SUBSET S), g # <<>>, NEW TG, NEW TW, \A t \in TG : t \subseteq TW,
           NEW r \in 0 .. GroupSize, \A t \in TG : Cardinality(t) >= r,
           NEW k \in Nat, Claims(g, TG, TW, k)
    PROVE  /\ Weight(g, TG) \in Nat
           /\ Weight(g, TG) > 0 => GroupSize * (Weight(g, TG) - 1) + r <= k
<1> DEFINE l == Last(g)
           f == Front(g)
           x == Weight(f, TG)
           c == Weight(g, TG)
           d == Cardinality(l \cap TW)
           G == GroupSize
<1>1. l \in SUBSET S /\ f \in Seq(SUBSET S)
  BY LastType
<1>2. G \in Nat /\ x \in Nat /\ c = x + Weighs(l, TG)
  BY <1>1, WeightType, WeightOfEnd, GroupSizeAssumption
<1>3. IsFiniteSet(l) /\ G * x + d <= k
  BY DEF Claims
<1>4. d \in Nat
  <2>1. l \cap TW \in SUBSET l
    OBVIOUS
  <2> QED
    BY <1>3, <2>1, FS_Subset, FS_CardinalityType
<1>5. l \in TG => d >= r
  <2> SUFFICES ASSUME l \in TG PROVE d >= r
    OBVIOUS
  <2>1. l \cap TW = l
    OBVIOUS
  <2>2. Cardinality(l) >= r
    OBVIOUS
  <2> QED
    BY <2>1, <2>2
<1>6. r \in Nat /\ r <= G
  BY <1>2
<1> HIDE DEF l, f, x, c, d, G
<1>7. CASE l \in TG
  <2>1. c = x + 1 /\ d >= r
    BY <1>2, <1>5, <1>7 DEF Weighs
  <2> DEFINE p == G * x
  <2>2. p \in Nat /\ p + d <= k /\ G * (c - 1) = p
    <3>1. c - 1 = x
      BY <1>2, <2>1
    <3> QED
      BY <1>2, <1>3, <3>1
  <2> HIDE DEF p
  <2>3. G * (c - 1) + r <= k
    BY <1>4, <1>6, <2>1, <2>2
  <2>4. c \in Nat
    BY <1>2, <2>1
  <2> QED
    BY <2>3, <2>4 DEF c, G
<1>8. CASE l \notin TG
  <2>1. c = x
    BY <1>2, <1>8 DEF Weighs
  <2> DEFINE p == G * x
  <2>2. p \in Nat /\ p + d <= k /\ G * (c - 1) = p - G
    BY <1>2, <1>3, <2>1
  <2> HIDE DEF p
  <2>3. G * (c - 1) + r <= k
    BY <1>2, <1>4, <1>6, <2>2
  <2> QED
    BY <1>2, <2>1, <2>3 DEF c, G
<1> QED
  BY <1>7, <1>8

LEMMA ShareOrder ==
    ASSUME NEW G \in Nat, NEW N \in Nat, NEW r \in 0 .. G, NEW c \in Nat, c > N, NEW b \in Nat,
           G * (c - 1) + r <= b, NEW n \in Nat, n = G * (N - 1) + r
    PROVE  c * n <= b * N
<1> DEFINE e == c - N
           m == G * (c - 1) + r
<1>1. e \in Nat /\ c = N + e /\ m \in Int /\ m <= b /\ r \in Nat
  OBVIOUS
<1>2. m * N <= b * N
  <2> HIDE DEF m
  <2> QED
    BY <1>1
<1>3. m * N - c * n = e * (G - r)
  <2>1. m = G * N + G * e - G + r
    BY <1>1
  <2>2. n = G * N - G + r
    OBVIOUS
  <2> HIDE DEF m, e
  <2>3. m * N = (G * N + G * e - G + r) * N /\ c * n = (N + e) * (G * N - G + r)
    BY <1>1, <2>1, <2>2
  <2>4. (G * N + G * e - G + r) * N - (N + e) * (G * N - G + r) = e * (G - r)
    BY <1>1
  <2> QED
    BY <2>3, <2>4
<1>4. e * (G - r) >= 0
  <2>1. G - r \in Nat
    OBVIOUS
  <2> HIDE DEF e
  <2> QED
    BY <1>1, <2>1
<1> DEFINE u == m * N
           v == c * n
           w == b * N
<1>5. u \in Int /\ v \in Int /\ w \in Int /\ u - v >= 0 /\ u <= w
  BY <1>1, <1>2, <1>3, <1>4
<1> HIDE DEF u, v, w
<1>6. v <= w
  BY <1>5
<1> QED
  BY <1>6 DEF v, w

\* In connections a score above the full one is at most the share of the words of
\* the truth that stand in the response.
LEMMA ConnectionsCredit ==
    ASSUME NEW S, NEW text \in Seq(S), NEW truth \in Seq(S), NEW words \in Seq(S),
           IsPuzzle(truth, words)
    PROVE  LET score == ScoreConnections(StripThink(text), Split(truth, Comma))
               share == Round4(Len(Only(text, ToSet(words))), Len(words))
           IN  score \in Nat /\ share \in Nat /\ (score <= Full \/ score <= share)
<1> DEFINE said == StripThink(text)
           listed == Split(truth, Comma)
           W == ToSet(words)
           groups == GroupWords(listed)
           TG == ToSet(groups)
           matches == SolutionMatches(said)
           given == SolutionWords(matches, Len(listed))
           answer == GroupWords(given)
           b == Len(Only(text, W))
           n == Len(words)
           N == Len(groups)
           r == Cardinality(Last(groups))
           c == Len(Only(answer, TG))
           score == ScoreConnections(said, listed)
           share == Round4(b, n)
<1>1. said \in Seq(S) /\ listed \in Seq(Seq(S))
  BY StripThinkType, SplitType
<1>2. score = IF matches = <<>> THEN ScoreBold(said, groups) ELSE Round4(c, N)
  BY DEF ScoreConnections
<1>3. Parted(groups, Single(W), n)
  BY PuzzleParted
<1>4. groups \in Seq(SUBSET Seq(S)) /\ groups # <<>>
  BY <1>1, GroupWordsType
<1>5. b = Weight(text, W) /\ Weight(said, W) <= Weight(text, W)
  BY OnlyWeight, ThinkLighter
<1>6. Weight(text, W) \in Nat /\ Weight(said, W) \in Nat
  BY <1>1, WeightType
<1>7. n \in Nat /\ n > 0
  <2>1. words # <<>>
    BY DEF IsPuzzle
  <2> QED
    BY <2>1
<1> HIDE DEF said, listed, W, b, n, groups
<1>8. matches \in Seq(Seq(S)) /\ Fits(matches, W, Weight(said, W))
  BY <1>1, SolutionMatchesType, SolutionMatchesFit
<1>9. b \in Nat /\ Fits(matches, W, b)
  BY <1>5, <1>6, <1>8, FitsWider
<1>10. Len(listed) \in Nat
  BY <1>1
<1> HIDE DEF matches
<1>11. given \in Seq(Seq(S)) /\ Fits(given, W, b)
  <2>1. given \in Seq(Seq(S))
    BY <1>8, <1>10, SolutionWordsType
  <2>2. Fits(given, W, b)
    BY <1>8, <1>9, <1>10, SolutionWordsFit
  <2> QED
    BY <2>1, <2>2
<1>12. /\ N \in Nat \ {0} /\ GroupSize * (N - 1) + r = n /\ r \in 0 .. GroupSize
       /\ \A t \in TG : t \subseteq Single(W)
  BY <1>3, <1>4 DEF Parted
<1>13. \A t \in TG : Cardinality(t) >= r
  <2> TAKE t \in TG
  <2>1. t \in ToSet(Front(groups)) \/ t = Last(groups)
    BY SMTT(30), <1>4, SetOfMore
  <2>2. CASE t = Last(groups)
    BY <1>12, <2>2
  <2>3. CASE t \in ToSet(Front(groups))
    <3>1. Cardinality(t) = GroupSize
      BY <1>3, <2>3 DEF Parted
    <3> HIDE DEF r
    <3> QED
      BY <1>12, <3>1, GroupSizeAssumption
  <2> QED
    BY <2>1, <2>2, <2>3
<1> HIDE DEF given, TG
<1>14. answer \in Seq(SUBSET Seq(S)) /\ answer # <<>> /\ Claims(answer, TG, Single(W), b)
  BY <1>9, <1>11, <1>12, GroupWordsType, GroupsClaim
<1> HIDE DEF answer, r, N
<1>15. c = Weight(answer, TG)
  BY <1>14, OnlyWeight
<1>16. c \in Nat /\ (c > 0 => GroupSize * (c - 1) + r <= b)
  BY <1>9, <1>12, <1>13, <1>14, <1>15, ClaimsCount
<1> HIDE DEF c
<1>17. share \in Nat
  BY <1>7, <1>9, RoundType
<1> HIDE DEF share
<1>18. CASE matches = <<>>
  <2>1. ScoreBold(said, groups) \in Nat /\ ScoreBold(said, groups) <= Full
    BY <1>1, <1>4, BoldCredit
  <2>2. score \in Nat /\ score <= Full
    BY <1>2, <1>18, <2>1
  <2> HIDE DEF score
  <2> QED
    BY <1>17, <2>2 DEF score, share, said, listed, b, n, W
<1>19. CASE matches # <<>>
  <2>1. score = Round4(c, N)
    BY <1>2, <1>19
  <2> HIDE DEF score
  <2>2. N \in Nat /\ N > 0
    BY <1>12
  <2>3. Round4(c, N) \in Nat
    BY <1>16, <2>2, RoundType
  <2>4. CASE c <= N
    <3>1. Round4(c, N) <= Full
      BY <1>16, <2>2, <2>4, RoundType
    <3> QED
      BY <1>17, <2>1, <2>3, <3>1 DEF score, share, said, listed, b, n, W
  <2>5. CASE c > N
    <3> DEFINE G == GroupSize
    <3>1. G \in Nat /\ r \in 0 .. G /\ G * (c - 1) + r <= b /\ n = G * (N - 1) + r
      BY <1>12, <1>16, <2>2, <2>5, GroupSizeAssumption
    <3> HIDE DEF G
    <3>2. c * n <= b * N
      BY <1>7, <1>9, <1>16, <2>2, <2>5, <3>1, ShareOrder
    <3>3. N \in Nat \ {0} /\ n \in Nat \ {0}
      BY <1>7, <2>2
    <3>4. Round4(c, N) <= Round4(b, n)
      BY <1>9, <1>16, <3>2, <3>3, RoundOrder
    <3>5. score \in Nat /\ share \in Nat /\ score <= share
      BY <1>17, <2>1, <2>3, <3>4 DEF share
    <3> HIDE DEF share
    <3> QED
      BY <3>5 DEF score, share, said, listed, b, n, W
  <2> QED
    BY <1>16, <2>2, <2>4, <2>5
<1> QED
  BY <1>18, <1>19

LEMMA PuzzleIs ==
    \A i \in DOMAIN Questions :
        Questions[i].task = "connections" =>
            IsPuzzle(Questions[i].truth, Without(Questions[i].truth, {Comma}))
  BY Zenon, PuzzlesAssumption DEF IsPuzzle, Comma, IsInjective

LEMMA FractionsAre ==
    ScoresAreFractions <=>
        LET words == Without(Asked.truth, {Comma})
            said == Only(response, ToSet(words))
        IN  Graded => recorded.score <=
                IF Asked.task = "connections" THEN Max({Full, Round4(Len(said), Len(words))})
                                              ELSE Full
  BY Zenon DEF ScoresAreFractions, Comma

\* A score is a fraction of the full one, whatever text is graded; in connections
\* it is at most the share of the truth's words that stand in the response.
THEOREM Fractions == Spec => []ScoresAreFractions
<1>1. ScoresInv => ScoresAreFractions
  <2> DEFINE words == Without(Asked.truth, {Comma})
             share == Round4(Len(Only(response, ToSet(words))), Len(words))
             s == recorded.score
  <2> SUFFICES ASSUME ScoresInv, Graded
               PROVE  s <= IF Asked.task = "connections" THEN Max({Full, share}) ELSE Full
    BY FractionsAre
  <2>1. question \in DOMAIN Questions /\ response \in Texts
    BY DEF ScoresInv
  <2>2. Said \in Texts
    BY <2>1, SaidType DEF Said
  <2>3. ScoreOf(Asked, Said, s)
    BY GradedScore
  <2>4. CASE Asked.task # "connections"
    <3>1. s <= Full
      BY <2>1, <2>2, <2>3, <2>4, ScoreOfType DEF Asked
    <3> QED
      BY <2>4, <3>1
  <2>5. CASE Asked.task = "connections"
    <3> DEFINE truth == Asked.truth
               score == ScoreConnections(StripThink(response), Split(truth, Comma))
    <3>1. response \in Seq(STRING) /\ truth \in Seq(STRING)
      BY <2>1, <2>5, QuestionIs DEF Asked, Texts
    <3>2. IsPuzzle(truth, words)
      BY <2>1, <2>5, PuzzleIs DEF Asked
    <3>3. s = score
      BY <2>3, <2>5 DEF ScoreOf, MathScore, LanguageScore, ReasoningScore, TableScore,
                        InstructionScore, Said
    <3>4. words \in Seq(STRING)
      <4> HIDE DEF truth
      <4>1. Without(truth, {Comma}) \in Seq(STRING)
        BY <3>1, WithoutType
      <4> QED
        BY <4>1 DEF truth
    <3> HIDE DEF truth, words
    <3>5. score \in Nat /\ share \in Nat /\ (score <= Full \/ score <= share)
      BY <3>1, <3>2, <3>4, ConnectionsCredit
    <3> HIDE DEF score, share, s
    <3>6. Max({Full, share}) \in Nat /\ Full <= Max({Full, share}) /\ share <= Max({Full, share})
      BY <3>5, GreatestOfTwo DEF Full
    <3>7. Full \in Nat
      BY DEF Full
    <3>8. s <= Max({Full, share})
      BY <3>3, <3>5, <3>6, <3>7
    <3> QED
      BY <2>5, <3>8
  <2> QED
    BY <2>4, <2>5
<1> QED
  BY <1>1, Invariance, PTL
=============================================================================
