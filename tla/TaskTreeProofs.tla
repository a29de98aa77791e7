--------------------------- MODULE TaskTreeProofs ---------------------------
(***************************************************************************)
(* Theorems about TaskTree, for every value of its constants.              *)
(***************************************************************************)
EXTENDS TaskTree, SequenceTheorems, FiniteSetTheorems, SetSums, TLAPS

USE BoundsAssumption DEF BoundsAssumption

-----------------------------------------------------------------------------
(* Sequences *)

Distinct(s) == \A i, j \in DOMAIN s : s[i] = s[j] => i = j

\* Sorting by a key that tells the elements of a finite set apart lists each of them once, by
\* increasing key.
LEMMA SortedByElements ==
    ASSUME NEW S, IsFiniteSet(S), NEW key,
           \A x \in S : key[x] \in Int,
           \A x, y \in S : key[x] = key[y] => x = y
    PROVE  /\ SortedBy(S, key) \in Seq(S)
           /\ ToSet(SortedBy(S, key)) = S
           /\ Distinct(SortedBy(S, key))
           /\ Len(SortedBy(S, key)) = Cardinality(S)
           /\ \A i, j \in DOMAIN SortedBy(S, key) :
                 i < j => key[SortedBy(S, key)[i]] < key[SortedBy(S, key)[j]]
<1> DEFINE below(x) == {y \in S : key[y] <= key[x]}
           n == Cardinality(S)
           rank == [x \in S |-> Cardinality(below(x))]
           s == SortedBy(S, key)
<1>1. n \in Nat /\ IsFiniteSet(1..n) /\ Cardinality(1..n) = n
  <2>1. n \in Nat
    BY FS_CardinalityType
  <2>2. IsFiniteSet(1..n) /\ Cardinality(1..n) = IF 1 > n THEN 0 ELSE n - 1 + 1
    BY <2>1, FS_Interval
  <2> QED
    BY <2>1, <2>2
<1>2. ASSUME NEW x \in S
      PROVE  IsFiniteSet(below(x)) /\ rank[x] = Cardinality(below(x)) /\ rank[x] \in 1..n
  <2>1. below(x) \in SUBSET S /\ x \in below(x)
    OBVIOUS
  <2>2. IsFiniteSet(below(x)) /\ Cardinality(below(x)) <= n
    BY <2>1, FS_Subset
  <2>3. Cardinality(below(x)) # 0 /\ Cardinality(below(x)) \in Nat
    BY <2>1, <2>2, FS_EmptySet, FS_CardinalityType
  <2> QED
    BY <2>2, <2>3, <1>1
<1>3. ASSUME NEW x \in S, NEW y \in S, key[x] < key[y]
      PROVE  rank[x] # rank[y]
  <2>1. below(x) \in SUBSET below(y) /\ y \in below(y) /\ y \notin below(x)
    BY <1>3
  <2>2. Cardinality(below(x)) # Cardinality(below(y))
    BY <2>1, <1>2, FS_Subset
  <2> QED
    BY <2>2, <1>2
<1>4. \A x, y \in S : rank[x] = rank[y] => x = y
  <2> SUFFICES ASSUME NEW x \in S, NEW y \in S, x # y PROVE rank[x] # rank[y]
    OBVIOUS
  <2>1. key[x] \in Int /\ key[y] \in Int /\ key[x] # key[y]
    OBVIOUS
  <2>2. key[x] < key[y] \/ key[y] < key[x]
    BY <2>1
  <2> QED
    BY <2>2, <1>3
<1>5. rank \in Injection(S, 1..n)
  <2>1. rank \in [S -> 1..n]
    BY <1>2
  <2> HIDE DEF rank
  <2> QED
    BY <2>1, <1>4 DEF Injection, IsInjective
<1> HIDE DEF rank
<1>6. \A k \in 1..n : \E x \in S : rank[x] = k
  <2>1. rank \in Surjection(S, 1..n)
    BY <1>1, <1>5, FS_Injection
  <2> QED
    BY <2>1 DEF Surjection
<1>7. \A k \in 1..n : \E x \in S : Cardinality({y \in S : key[y] <= key[x]}) = k
  BY <1>2, <1>6
<1>8. s = [k \in 1..n |-> CHOOSE x \in S : Cardinality({y \in S : key[y] <= key[x]}) = k]
  BY DEF SortedBy
<1>9. ASSUME NEW k \in 1..n PROVE s[k] \in S /\ rank[s[k]] = k
  <2>1. s[k] = CHOOSE x \in S : Cardinality({y \in S : key[y] <= key[x]}) = k
    BY <1>8
  <2>2. s[k] \in S /\ Cardinality({y \in S : key[y] <= key[s[k]]}) = k
    BY <2>1, <1>7
  <2> QED
    BY <2>2, <1>2
<1>10. DOMAIN s = 1..n
  BY <1>8
<1>11. s \in Seq(S) /\ Len(s) = n
  <2>1. s = [k \in 1..n |-> s[k]]
    BY <1>8
  <2> HIDE DEF s
  <2> QED
    BY <2>1, <1>9, <1>1
<1> HIDE DEF s
<1>12. \A x \in S : rank[x] \in 1..n /\ s[rank[x]] = x
  BY <1>2, <1>4, <1>9
<1>13. ToSet(s) = S
  BY <1>9, <1>10, <1>12 DEF ToSet
<1>14. Distinct(s)
  BY <1>9, <1>10 DEF Distinct
<1>15. ASSUME NEW i \in DOMAIN s, NEW j \in DOMAIN s, i < j
       PROVE  key[s[i]] < key[s[j]]
  <2>1. /\ s[i] \in S /\ rank[s[i]] = i /\ s[j] \in S /\ rank[s[j]] = j
        /\ key[s[i]] \in Int /\ key[s[j]] \in Int
    BY <1>9, <1>10
  <2>2. CASE key[s[j]] = key[s[i]]
    <3>1. s[j] = s[i]
      BY <2>1, <2>2
    <3>2. i = j /\ i \in 1..n
      BY <1>10, <2>1, <3>1
    <3> QED
      BY <1>1, <1>15, <3>2
  <2>3. CASE key[s[j]] < key[s[i]]
    <3>1. below(s[j]) \in SUBSET below(s[i])
      BY <2>1, <2>3
    <3>2. Cardinality(below(s[j])) <= Cardinality(below(s[i]))
      BY <1>2, <2>1, <3>1, FS_Subset
    <3>3. j <= i
      BY <1>2, <2>1, <3>2
    <3> QED
      BY <1>1, <1>10, <1>15, <3>3
  <2> QED
    BY <2>1, <2>2, <2>3
<1> QED
  BY <1>11, <1>13, <1>14, <1>15 DEF s

\* InOrder lists a finite set of integers.
LEMMA InOrderElements ==
    ASSUME NEW S, IsFiniteSet(S), S \subseteq Int
    PROVE  /\ InOrder(S) \in Seq(S)
           /\ ToSet(InOrder(S)) = S
           /\ Distinct(InOrder(S))
           /\ Len(InOrder(S)) = Cardinality(S)
<1> DEFINE key == [x \in S |-> x]
<1>1. \A x \in S : key[x] = x
  OBVIOUS
<1>2. (\A x \in S : key[x] \in Int) /\ (\A x, y \in S : key[x] = key[y] => x = y)
  BY <1>1
<1> HIDE DEF key
<1>3. /\ SortedBy(S, key) \in Seq(S) /\ ToSet(SortedBy(S, key)) = S
      /\ Distinct(SortedBy(S, key)) /\ Len(SortedBy(S, key)) = Cardinality(S)
  BY <1>2, SortedByElements
<1> QED
  BY <1>3 DEF InOrder, key

\* Without keeps the elements that are not in the set, and does not repeat any.
LEMMA WithoutElements ==
    ASSUME NEW A, NEW s \in Seq(A), NEW S
    PROVE  /\ Without(s, S) \in Seq(A)
           /\ ToSet(Without(s, S)) = ToSet(s) \ S
           /\ Distinct(s) => Distinct(Without(s, S))
<1> DEFINE I == {i \in DOMAIN s : s[i] \notin S}
           kept == InOrder(I)
           w == Without(s, S)
<1>1. DOMAIN s = 1..Len(s) /\ Len(s) \in Nat
  OBVIOUS
<1>2. IsFiniteSet(DOMAIN s)
  BY <1>1, FS_Interval
<1>3. IsFiniteSet(I) /\ I \subseteq Int
  <2>1. I \in SUBSET (DOMAIN s)
    OBVIOUS
  <2> QED
    BY <1>1, <1>2, <2>1, FS_Subset
<1>4. kept \in Seq(I) /\ ToSet(kept) = I /\ Distinct(kept)
  BY <1>3, InOrderElements
<1>5. w = [k \in DOMAIN kept |-> s[kept[k]]]
  BY DEF Without
<1> HIDE DEF w, kept
<1>6. DOMAIN kept = 1..Len(kept) /\ Len(kept) \in Nat /\ \A k \in DOMAIN kept : kept[k] \in I
  BY <1>4
<1>7. DOMAIN w = DOMAIN kept /\ \A k \in DOMAIN w : w[k] = s[kept[k]] /\ w[k] \in A
  BY <1>5, <1>6
<1>8. w \in Seq(A)
  BY <1>5, <1>6, <1>7
<1>9. \A i \in I : \E k \in DOMAIN kept : kept[k] = i
  BY <1>4 DEF ToSet
<1>10. ToSet(w) = ToSet(s) \ S
  BY <1>6, <1>7, <1>9 DEF ToSet
<1>11. Distinct(s) => Distinct(w)
  BY <1>4, <1>6, <1>7 DEF Distinct
<1> QED
  BY <1>8, <1>10, <1>11 DEF w

-----------------------------------------------------------------------------
(* Types *)

News == {"child_spawned", "spawn_failed", "child_dismissed", "child_restored"}
Letters == [type : News, id : Agents] \cup {Msg("stop", None)}
Notices == [type : {"spawned", "terminated"}, id : Agents]
ProcPids == Agents \X Nat
Boxes == [Agents -> Seq(Letters)]

ProcType ==
    /\ registry \in Seq(Agents) /\ Distinct(registry)
    /\ inc \in [Agents -> Nat]
    /\ config \in [Agents -> [parent : Pids, restored : BOOLEAN]]
    /\ ready \subseteq Live /\ dismissing \subseteq Live
    /\ children \in [Agents -> Seq(Agents)]
    /\ mail \in Boxes
    /\ \A x \in Agents \ Live : children[x] = <<>> /\ mail[x] = <<>>
    /\ restarting \subseteq Agents \ Live

SpawnType ==
    /\ parent \in [Agents -> 0..Size] /\ \A x \in Agents : parent[x] < x
    /\ spawner \in [Agents -> Nat]
    /\ stage \in [Agents -> {"unborn", "start", "announce", "wait", "tell", "done"}]

PageType ==
    /\ task \in Statuses \ {"completed"} /\ shown \in Statuses
    /\ row \in [Agents -> {"none", "running", "stopped"}]
    /\ listed \in [Agents -> {"unknown", "running", "terminated"}]
    /\ inbox \in Seq(Notices)

JobType ==
    /\ job \in [step : {"idle", "send", "sweep", "paused", "delete", "restore"}, kill : BOOLEAN,
                todo : Seq(ProcPids), stopped : SUBSET Agents]
    /\ job.step = "send" => job.todo # <<>>

DismissalType ==
    /\ dismissal \in [step : {"idle", "mark", "costs", "flag", "scan", "find", "stop", "tell"},
                      root : 0..Size, by : Pids, queue : Seq(Agents), seen : SUBSET Agents,
                      order : Seq(Agents), target : Pids]
    /\ dismissal.step # "idle" => dismissal.root # None
    /\ dismissal.step \in {"mark", "flag", "scan"} => dismissal.queue # <<>>
    /\ dismissal.step \in {"flag", "scan", "find", "stop"} => dismissal.order # <<>>
    /\ dismissal.step = "stop" => dismissal.target \in ProcPids

RestoreType ==
    restore \in [step : {"idle", "restore", "sweep"}, by : {"nobody", "page", "boot"},
                 all : SUBSET Agents, todo : Seq(Agents), pids : [Agents -> Nat],
                 failed : SUBSET Agents]

\* An id that has had no process has left no trace, and agents are spawned in the order of
\* their ids
UnstartedInv ==
    \A x \in Agents :
        /\ stage[x] \in {"unborn", "start"} => inc[x] = 0
        /\ inc[x] = 0 => /\ x \notin Live \cup restarting \cup ToSet(restore.todo)
                         /\ row[x] = "none"
        /\ stage[x] = "unborn" => \A y \in Agents : /\ parent[y] # x
                                                    /\ x < y => stage[y] = "unborn"

TypeInv == /\ ProcType /\ SpawnType /\ PageType /\ JobType /\ DismissalType /\ RestoreType
           /\ UnstartedInv

-----------------------------------------------------------------------------
(* What the pieces of an action do *)

LEMMA AgentSets ==
    ASSUME NEW S, S \subseteq Agents
    PROVE  IsFiniteSet(S) /\ S \subseteq Int
<1>1. IsFiniteSet(Agents) /\ Agents \subseteq Int
  BY FS_Interval DEF Agents
<1> QED
  BY <1>1, FS_Subset

LEMMA LiveAreAgents ==
    ASSUME registry \in Seq(Agents)
    PROVE  Live \subseteq Agents
  BY DEF Live, ToSet

\* An agent that registers is the last in the registry.
LEMMA AppendRegistry ==
    ASSUME NEW s \in Seq(Agents), NEW x \in Agents, Distinct(s), x \notin ToSet(s)
    PROVE  /\ Append(s, x) \in Seq(Agents) /\ Distinct(Append(s, x))
           /\ ToSet(Append(s, x)) = ToSet(s) \cup {x}
<1>1. /\ DOMAIN s = 1..Len(s) /\ Len(s) \in Nat
      /\ Append(s, x) \in Seq(Agents)
      /\ DOMAIN Append(s, x) = 1..Len(s) + 1
      /\ \A i \in 1..Len(s) : Append(s, x)[i] = s[i]
      /\ Append(s, x)[Len(s) + 1] = x
  OBVIOUS
<1>2. \A i \in 1..Len(s) : s[i] # x
  BY <1>1 DEF ToSet
<1>3. \A i \in 1..Len(s) + 1 : i \in 1..Len(s) \/ i = Len(s) + 1
  BY <1>1
<1>4. Distinct(Append(s, x))
  BY <1>1, <1>2, <1>3 DEF Distinct
<1>5. ToSet(Append(s, x)) = ToSet(s) \cup {x}
  BY <1>1, <1>3 DEF ToSet
<1> QED
  BY <1>1, <1>4, <1>5

\* The processes of a set end.
LEMMA ExitRegistry ==
    ASSUME ProcType, NEW S, Exit(S)
    PROVE  /\ registry' \in Seq(Agents) /\ Distinct(registry') /\ Live' = Live \ S
           /\ ready' = ready \ S /\ dismissing' = dismissing \ S
           /\ children' \in [Agents -> Seq(Agents)]
           /\ \A x \in Agents : children'[x] = IF x \in S THEN <<>> ELSE children[x]
<1>1. registry \in Seq(Agents) /\ Distinct(registry) /\ children \in [Agents -> Seq(Agents)]
  BY DEF ProcType
<1>2. /\ Without(registry, S) \in Seq(Agents)
      /\ ToSet(Without(registry, S)) = ToSet(registry) \ S
      /\ Distinct(Without(registry, S))
  BY <1>1, WithoutElements
<1>3. registry' = Without(registry, S)
  BY DEF Exit
<1>4. Live' = Live \ S
  BY <1>2, <1>3 DEF Live
<1> QED
  BY <1>1, <1>2, <1>3, <1>4 DEF Exit

\* A mailbox that is emptied with its process.
LEMMA EmptiedBoxes ==
    ASSUME NEW boxes \in Boxes, NEW S
    PROVE  /\ Emptied(boxes, S) \in Boxes
           /\ \A x \in Agents : Emptied(boxes, S)[x] = IF x \in S THEN <<>> ELSE boxes[x]
  BY DEF Emptied, Boxes

\* What is posted reaches a live process or nobody.
LEMMA PostBoxes ==
    ASSUME ProcType, NEW pid \in Pids, NEW m \in Letters
    PROVE  /\ Post(mail, pid, m) \in Boxes
           /\ \A x \in Agents : \/ Post(mail, pid, m)[x] = mail[x]
                                \/ x \in Live /\ Post(mail, pid, m)[x] = Append(mail[x], m)
<1>1. mail \in [Agents -> Seq(Letters)]
  BY DEF ProcType, Boxes
<1>2. CASE IsAlive(pid)
  <2>1. pid[1] \in Live /\ Post(mail, pid, m) = [mail EXCEPT ![pid[1]] = Append(@, m)]
    BY <1>2 DEF IsAlive, Post
  <2>2. pid[1] \in Agents
    BY <2>1, LiveAreAgents DEF ProcType
  <2>3. Append(mail[pid[1]], m) \in Seq(Letters)
    BY <1>1, <2>2
  <2> QED
    BY <1>1, <2>1, <2>2, <2>3 DEF Boxes
<1>3. CASE ~IsAlive(pid)
  <2>1. Post(mail, pid, m) = mail
    BY <1>3, Zenon DEF Post
  <2> QED
    BY <1>1, <2>1 DEF Boxes
<1> QED
  BY <1>2, <1>3

\* The events of a set of agents.
LEMMA EventsAreNotices ==
    ASSUME NEW type \in {"spawned", "terminated"}, NEW S, S \subseteq Agents
    PROVE  Events(type, S) \in Seq(Notices)
<1>1. /\ InOrder(S) \in Seq(S) /\ Len(InOrder(S)) = Cardinality(S)
  BY AgentSets, InOrderElements
<1>2. Cardinality(S) \in Nat
  BY AgentSets, FS_CardinalityType
<1>3. \A i \in 1..Cardinality(S) : Msg(type, InOrder(S)[i]) \in Notices
  BY <1>1, <1>2 DEF Msg, Notices
<1> QED
  BY <1>2, <1>3 DEF Events

-----------------------------------------------------------------------------
(* The recursive functions *)

\* The ancestors of an agent are itself and the ancestors of its parent.
LEMMA AncestorsEquation ==
    SpawnType =>
        Ancestors = [x \in Agents |->
                        {x} \cup IF parent[x] = None THEN {} ELSE Ancestors[parent[x]]]
<1> SUFFICES ASSUME SpawnType
             PROVE  Ancestors = [x \in Agents |-> {x} \cup IF parent[x] = None THEN {}
                                                           ELSE Ancestors[parent[x]]]
  OBVIOUS
<1> DEFINE body(f, x) == {x} \cup IF parent[x] = None THEN {} ELSE f[parent[x]]
           fits(f, n) == f = [x \in 1..n |-> f[x]] /\ \A x \in 1..n : f[x] = body(f, x)
           T == {n \in Nat : n <= Size => \E f : fits(f, n)}
<1>1. \A x \in Agents : parent[x] # None => parent[x] \in 1..x-1
  BY DEF SpawnType, None, Agents
<1>2. 0 \in T
  <2>1. fits([x \in 1..0 |-> 0], 0)
    OBVIOUS
  <2> QED
    BY <2>1
<1>3. ASSUME NEW n \in T PROVE n + 1 \in T
  <2> SUFFICES ASSUME n + 1 <= Size PROVE \E g : fits(g, n + 1)
    OBVIOUS
  <2>1. n \in Nat /\ 1..n+1 \subseteq Agents
    BY DEF Agents
  <2>2. PICK f : fits(f, n)
    BY <2>1
  <2> DEFINE g == [x \in 1..n+1 |-> IF x = n + 1 THEN body(f, x) ELSE f[x]]
  <2>3. \A x \in 1..n : g[x] = f[x] /\ x # n + 1 /\ x \in 1..n+1
    BY <2>1
  <2>4. \A x \in 1..n+1 : parent[x] # None => parent[x] \in 1..n
    BY <1>1, <2>1
  <2>5. \A x \in 1..n+1 : body(g, x) = body(f, x)
    BY <2>3, <2>4
  <2>6. \A x \in 1..n+1 : g[x] = body(g, x)
    <3> SUFFICES ASSUME NEW x \in 1..n+1 PROVE g[x] = body(f, x)
      BY <2>5
    <3>1. CASE x = n + 1
      BY <3>1
    <3>2. CASE x # n + 1
      <4>1. x \in 1..n
        BY <2>1, <3>2
      <4> QED
        BY <2>2, <2>3, <4>1
    <3> QED
      BY <3>1, <3>2
  <2>7. g = [x \in 1..n+1 |-> g[x]]
    OBVIOUS
  <2> HIDE DEF g
  <2> QED
    BY <2>6, <2>7
<1>4. T = Nat
  <2> HIDE DEF T
  <2>1. T \in SUBSET Nat
    BY DEF T
  <2> QED
    BY <1>2, <1>3, <2>1, NaturalSet
<1>5. PICK f : fits(f, Size)
  <2>1. Size \in T
    BY <1>4
  <2> QED
    BY <2>1
<1>6. f = [x \in Agents |-> body(f, x)]
  BY <1>5 DEF Agents
<1> QED
  BY <1>6 DEF Ancestors

\* Which restored agents are cut off, from their parents.
LEMMA CutEquation ==
    SpawnType =>
        Cut = [x \in Agents |->
                  /\ x \in restore.all /\ HasParent(x)
                  /\ \/ parent[x] \notin Restored
                     \/ ~IsAlive(<<parent[x], restore.pids[parent[x]]>>)
                     \/ parent[x] < x /\ Cut[parent[x]]]
<1> SUFFICES ASSUME SpawnType
             PROVE  Cut = [x \in Agents |->
                              /\ x \in restore.all /\ HasParent(x)
                              /\ \/ parent[x] \notin Restored
                                 \/ ~IsAlive(<<parent[x], restore.pids[parent[x]]>>)
                                 \/ parent[x] < x /\ Cut[parent[x]]]
  OBVIOUS
<1> DEFINE alone(x) == \/ parent[x] \notin Restored
                       \/ ~IsAlive(<<parent[x], restore.pids[parent[x]]>>)
           body(f, x) == /\ x \in restore.all /\ HasParent(x)
                         /\ alone(x) \/ (parent[x] < x /\ f[parent[x]])
           fits(f, n) == f = [x \in 1..n |-> f[x]] /\ \A x \in 1..n : f[x] = body(f, x)
           T == {n \in Nat : n <= Size => \E f : fits(f, n)}
<1> HIDE DEF alone, body
<1>1. \A x \in Agents : HasParent(x) => parent[x] \in 1..x-1
  BY DEF SpawnType, None, Agents, HasParent
<1>2. 0 \in T
  <2>1. fits([x \in 1..0 |-> 0], 0)
    OBVIOUS
  <2> QED
    BY <2>1
<1>3. ASSUME NEW n \in T PROVE n + 1 \in T
  <2> SUFFICES ASSUME n + 1 <= Size PROVE \E g : fits(g, n + 1)
    OBVIOUS
  <2>1. n \in Nat /\ 1..n+1 \subseteq Agents
    BY DEF Agents
  <2>2. PICK f : fits(f, n)
    BY <2>1
  <2> DEFINE g == [x \in 1..n+1 |-> IF x = n + 1 THEN body(f, x) ELSE f[x]]
  <2>3. \A x \in 1..n : g[x] = f[x] /\ x # n + 1 /\ x \in 1..n+1
    BY <2>1
  <2>4. \A x \in 1..n+1 : HasParent(x) => parent[x] \in 1..n
    BY <1>1, <2>1
  <2>5. \A x \in 1..n+1 : body(g, x) = body(f, x)
    <3> SUFFICES ASSUME NEW x \in 1..n+1 PROVE body(g, x) = body(f, x)
      OBVIOUS
    <3>1. CASE HasParent(x)
      <4>1. g[parent[x]] = f[parent[x]]
        BY <2>3, <2>4, <3>1
      <4> HIDE DEF g
      <4> QED
        BY <4>1, Zenon DEF body
    <3>2. CASE ~HasParent(x)
      <4> HIDE DEF g
      <4> QED
        BY <3>2, Zenon DEF body
    <3> QED
      BY <3>1, <3>2
  <2>6. \A x \in 1..n+1 : g[x] = body(g, x)
    <3> SUFFICES ASSUME NEW x \in 1..n+1 PROVE g[x] = body(f, x)
      BY <2>5
    <3>1. CASE x = n + 1
      BY <3>1
    <3>2. CASE x # n + 1
      <4>1. x \in 1..n
        BY <2>1, <3>2
      <4>2. f[x] = body(f, x) /\ g[x] = f[x]
        BY <2>2, <2>3, <4>1
      <4> QED
        BY <4>2
    <3> QED
      BY <3>1, <3>2
  <2>7. g = [x \in 1..n+1 |-> g[x]]
    OBVIOUS
  <2> HIDE DEF g
  <2> QED
    BY <2>6, <2>7
<1>4. T = Nat
  <2> HIDE DEF T
  <2>1. T \in SUBSET Nat
    BY DEF T
  <2> QED
    BY <1>2, <1>3, <2>1, NaturalSet
<1>5. PICK f : fits(f, Size)
  <2>1. Size \in T
    BY <1>4
  <2> QED
    BY <2>1
<1>6. f = [x \in Agents |-> body(f, x)]
  BY <1>5 DEF Agents
<1>7. f = [x \in Agents |->
              LET p == parent[x]
              IN  /\ x \in restore.all /\ HasParent(x)
                  /\ \/ p \notin Restored
                     \/ ~IsAlive(<<p, restore.pids[p]>>)
                     \/ p < x /\ f[p]]
  BY <1>6, Zenon DEF alone, body
<1> QED
  BY <1>7 DEF Cut

\* The ancestors of an agent are agents, and the agent is one of them.
LEMMA AncestorsAreAgents ==
    SpawnType =>
        /\ \A x \in Agents : x \in Ancestors[x] /\ Ancestors[x] \subseteq Agents
        /\ \A x \in Agents : parent[x] # None =>
              parent[x] \in Agents /\ Ancestors[x] = {x} \cup Ancestors[parent[x]]
        /\ \A x \in Agents : parent[x] = None => Ancestors[x] = {x}
<1> SUFFICES ASSUME SpawnType
             PROVE  /\ \A x \in Agents : x \in Ancestors[x] /\ Ancestors[x] \subseteq Agents
                    /\ \A x \in Agents : parent[x] # None =>
                          parent[x] \in Agents /\ Ancestors[x] = {x} \cup Ancestors[parent[x]]
                    /\ \A x \in Agents : parent[x] = None => Ancestors[x] = {x}
  OBVIOUS
<1>1. \A x \in Agents :
          Ancestors[x] = {x} \cup IF parent[x] = None THEN {} ELSE Ancestors[parent[x]]
  BY AncestorsEquation
<1>2. \A x \in Agents : parent[x] # None => parent[x] \in 1..x-1 /\ parent[x] \in Agents
  BY DEF SpawnType, None, Agents
<1> DEFINE T == {n \in Nat : \A x \in 1..n : x \in Agents => Ancestors[x] \subseteq Agents}
<1>3. 0 \in T
  OBVIOUS
<1>4. ASSUME NEW n \in T PROVE n + 1 \in T
  <2> SUFFICES ASSUME NEW x \in 1..n+1, x \in Agents PROVE Ancestors[x] \subseteq Agents
    OBVIOUS
  <2>1. parent[x] # None => parent[x] \in 1..n /\ parent[x] \in Agents
    BY <1>2
  <2> QED
    BY <1>1, <2>1
<1>5. T = Nat
  <2> HIDE DEF T
  <2>1. T \in SUBSET Nat
    BY DEF T
  <2> QED
    BY <1>3, <1>4, <2>1, NaturalSet
<1>6. \A x \in Agents : Ancestors[x] \subseteq Agents
  BY <1>5 DEF Agents
<1> QED
  BY <1>1, <1>2, <1>6

\* An ancestor has an id that is not larger, because it was spawned before.
LEMMA AncestorsAreOlder ==
    ASSUME SpawnType
    PROVE  \A x \in Agents : \A y \in Ancestors[x] : y <= x
<1>1. /\ \A x \in Agents : Ancestors[x] \subseteq Agents
      /\ \A x \in Agents : parent[x] # None =>
            parent[x] \in Agents /\ Ancestors[x] = {x} \cup Ancestors[parent[x]]
      /\ \A x \in Agents : parent[x] = None => Ancestors[x] = {x}
  BY AncestorsAreAgents
<1>2. \A x \in Agents : parent[x] < x /\ parent[x] \in Int
  BY DEF SpawnType
<1> DEFINE T == {n \in Nat : \A x \in 1..n : x \in Agents => \A y \in Ancestors[x] : y <= x}
<1>3. 0 \in T
  OBVIOUS
<1>4. ASSUME NEW n \in T PROVE n + 1 \in T
  <2> SUFFICES ASSUME NEW x \in 1..n+1, x \in Agents, NEW y \in Ancestors[x] PROVE y <= x
    OBVIOUS
  <2>1. CASE parent[x] = None
    BY <1>1, <2>1
  <2>2. CASE parent[x] # None
    <3>1. parent[x] \in Agents /\ parent[x] \in 1..n
      BY <1>1, <1>2, <2>2 DEF Agents
    <3>2. \A z \in Ancestors[parent[x]] : z <= parent[x] /\ z \in Int
      BY <1>1, <3>1 DEF Agents
    <3> QED
      BY <1>1, <1>2, <2>2, <3>1, <3>2
  <2> QED
    BY <2>1, <2>2
<1>5. T = Nat
  <2> HIDE DEF T
  <2>1. T \in SUBSET Nat
    BY DEF T
  <2> QED
    BY <1>3, <1>4, <2>1, NaturalSet
<1> QED
  BY <1>5 DEF Agents

\* The order of a restoration lists some of the agents, each once, and a parent before its
\* children.
LEMMA TopologicalSortElements ==
    ASSUME SpawnType, NEW all \in SUBSET Agents
    PROVE  /\ TopologicalSort(all) \in Seq(Agents)
           /\ ToSet(TopologicalSort(all)) = {x \in all : Ancestors[x] \subseteq all}
           /\ Distinct(TopologicalSort(all))
           /\ \A i, j \in DOMAIN TopologicalSort(all) :
                 i < j => parent[TopologicalSort(all)[i]] # TopologicalSort(all)[j]
<1> DEFINE S == {x \in all : Ancestors[x] \subseteq all}
           depth(x) == Cardinality(Ancestors[x])
           key == [x \in Agents |-> depth(x) * (Size + 1) + x]
<1>1. \A x \in Agents : depth(x) \in Nat
  BY AncestorsAreAgents, AgentSets, FS_CardinalityType
<1>10. \A x \in Agents : parent[x] \in Agents => depth(parent[x]) < depth(x)
  <2> SUFFICES ASSUME NEW x \in Agents, parent[x] \in Agents PROVE depth(parent[x]) < depth(x)
    OBVIOUS
  <2>1. /\ Ancestors[x] = {x} \cup Ancestors[parent[x]]
        /\ Ancestors[x] \subseteq Agents /\ Ancestors[parent[x]] \subseteq Agents
    BY AncestorsAreAgents DEF Agents, None
  <2>2. x \notin Ancestors[parent[x]]
    BY AncestorsAreOlder DEF SpawnType, Agents
  <2>3. IsFiniteSet(Ancestors[x]) /\ Ancestors[parent[x]] \in SUBSET Ancestors[x]
    BY <2>1, AgentSets
  <2>4. /\ Cardinality(Ancestors[parent[x]]) <= Cardinality(Ancestors[x])
        /\ Cardinality(Ancestors[parent[x]]) = Cardinality(Ancestors[x])
               => Ancestors[parent[x]] = Ancestors[x]
    BY <2>3, FS_Subset
  <2>5. x \in Ancestors[x]
    BY <2>1
  <2> QED
    BY <1>1, <2>2, <2>4, <2>5
<1> HIDE DEF depth
<1>2. \A x \in Agents : key[x] = depth(x) * (Size + 1) + x /\ x \in 1..Size
  BY DEF Agents
<1> HIDE DEF key
<1>3. \A x \in Agents : key[x] \in Int
  BY <1>1, <1>2
<1>4. ASSUME NEW c \in Nat, NEW d \in Nat, NEW x \in 1..Size, NEW y \in 1..Size, c < d
      PROVE  c * (Size + 1) + x < d * (Size + 1) + y
  <2>1. d - c \in Nat /\ d - c >= 1 /\ Size + 1 \in Nat
    BY <1>4
  <2>2. d * (Size + 1) = c * (Size + 1) + (d - c) * (Size + 1)
    BY <2>1
  <2>3. (d - c) * (Size + 1) >= Size + 1
    BY <2>1
  <2>4. c * (Size + 1) \in Nat
    BY <2>1
  <2> QED
    BY <2>2, <2>3, <2>4
<1>5. \A x, y \in Agents : key[x] = key[y] => x = y
  <2> SUFFICES ASSUME NEW x \in Agents, NEW y \in Agents, key[x] = key[y] PROVE x = y
    OBVIOUS
  <2>1. ~(depth(x) < depth(y)) /\ ~(depth(y) < depth(x))
    BY <1>1, <1>2, <1>3, <1>4
  <2>2. depth(x) = depth(y)
    BY <1>1, <2>1
  <2> QED
    BY <1>1, <1>2, <2>2
<1>6. S \subseteq Agents /\ IsFiniteSet(S)
  BY AgentSets
<1> HIDE DEF S
<1>7. /\ SortedBy(S, key) \in Seq(S) /\ ToSet(SortedBy(S, key)) = S /\ Distinct(SortedBy(S, key))
      /\ \A i, j \in DOMAIN SortedBy(S, key) :
            i < j => key[SortedBy(S, key)[i]] < key[SortedBy(S, key)[j]]
  <2>1. (\A x \in S : key[x] \in Int) /\ (\A x, y \in S : key[x] = key[y] => x = y)
    BY <1>3, <1>5, <1>6
  <2> QED
    BY <1>6, <2>1, SortedByElements
<1>8. TopologicalSort(all) = SortedBy(S, key)
  BY DEF TopologicalSort, S, key, depth
<1>9. SortedBy(S, key) \in Seq(Agents)
  BY <1>6, <1>7
<1>11. ASSUME NEW i \in DOMAIN SortedBy(S, key), NEW j \in DOMAIN SortedBy(S, key), i < j
       PROVE  parent[SortedBy(S, key)[i]] # SortedBy(S, key)[j]
  <2> SUFFICES ASSUME NEW x \in Agents, NEW y \in Agents, key[x] < key[y] PROVE parent[x] # y
    <3>1. SortedBy(S, key)[i] \in Agents /\ SortedBy(S, key)[j] \in Agents
      BY <1>9
    <3> QED
      BY <1>7, <1>11, <3>1
  <2>1. CASE parent[x] = y
    <3>1. depth(y) < depth(x)
      BY <1>10, <2>1
    <3>2. key[y] < key[x]
      BY <1>1, <1>2, <1>4, <3>1
    <3> QED
      BY <1>3, <3>2
  <2> QED
    BY <2>1
<1> HIDE DEF S
<1> QED
  BY <1>7, <1>8, <1>9, <1>11 DEF S

-----------------------------------------------------------------------------
(* Types are kept *)

LEMMA HeadAndTail ==
    ASSUME NEW A, NEW s \in Seq(A), s # <<>>
    PROVE  Head(s) \in A /\ Tail(s) \in Seq(A) /\ s # <<>>
  OBVIOUS

\* A process that starts, registers; one that had the id before has left nothing.
LEMMA StartProc ==
    ASSUME ProcType, NEW x \in Agents, x \notin Live,
           NEW c \in [parent : Pids, restored : BOOLEAN], Start(x, c),
           mail' = mail, restarting' \subseteq restarting \ {x}
    PROVE  ProcType' /\ Live' = Live \cup {x} /\ inc' = [inc EXCEPT ![x] = @ + 1]
<1>1. registry \in Seq(Agents) /\ Distinct(registry) /\ x \notin ToSet(registry)
  BY DEF ProcType, Live
<1>2. registry' = Append(registry, x)
  BY DEF Start
<1>3. registry' \in Seq(Agents) /\ Distinct(registry') /\ Live' = Live \cup {x}
  BY <1>1, <1>2, AppendRegistry DEF Live
<1> QED
  BY <1>3 DEF ProcType, Start

\* The processes of a set end, and their mailboxes with them.
LEMMA ExitProc ==
    ASSUME ProcType, NEW S, S \subseteq Live, Exit(S), UNCHANGED <<inc, config>>,
           NEW boxes \in Boxes, \A x \in Agents \ Live : boxes[x] = <<>>,
           mail' = Emptied(boxes, S), restarting' \subseteq restarting \cup S
    PROVE  ProcType' /\ Live' = Live \ S
<1>1. /\ registry' \in Seq(Agents) /\ Distinct(registry') /\ Live' = Live \ S
      /\ ready' = ready \ S /\ dismissing' = dismissing \ S
      /\ children' \in [Agents -> Seq(Agents)]
      /\ \A x \in Agents : children'[x] = IF x \in S THEN <<>> ELSE children[x]
  BY ExitRegistry
<1>2. /\ mail' \in Boxes
      /\ \A x \in Agents : mail'[x] = IF x \in S THEN <<>> ELSE boxes[x]
  BY EmptiedBoxes
<1>3. Live \subseteq Agents
  BY LiveAreAgents DEF ProcType
<1> QED
  BY <1>1, <1>2, <1>3 DEF ProcType

\* A message is posted, and nothing else happens to the processes.
LEMMA PostProc ==
    ASSUME ProcType, NEW pid \in Pids, NEW m \in Letters, UNCHANGED <<procVars, restarting>>,
           mail' = Post(mail, pid, m)
    PROVE  ProcType' /\ Live' = Live
<1>1. /\ mail' \in Boxes
      /\ \A x \in Agents \ Live : mail'[x] = mail[x]
  BY PostBoxes
<1>2. Live' = Live
  BY DEF Live, procVars
<1> QED
  BY <1>1, <1>2 DEF ProcType, procVars

LEMMA SameProc ==
    ASSUME ProcType, UNCHANGED <<procVars, mail, restarting>>
    PROVE  ProcType' /\ Live' = Live
  BY DEF ProcType, procVars, Live

\* What a pause or a deletion does to a set of live agents.
LEMMA StopOrKillProc ==
    ASSUME ProcType, NEW S, S \subseteq Live, StopOrKill(S), UNCHANGED <<inc, config>>
    PROVE  ProcType'
<1>1. mail \in Boxes /\ \A x \in Agents \ Live : mail[x] = <<>>
  BY DEF ProcType
<1>2. CASE job.kill
  BY <1>1, <1>2, ExitProc DEF StopOrKill
<1>3. CASE ~job.kill
  <2>1. /\ mail' = [x \in Agents |-> IF x \in S THEN Append(mail[x], Msg("stop", None))
                                     ELSE mail[x]]
        /\ UNCHANGED <<procVars, restarting>>
    BY <1>3 DEF StopOrKill, procVars
  <2>2. \A x \in Agents : mail[x] \in Seq(Letters) /\ Append(mail[x], Msg("stop", None)) \in Seq(Letters)
    BY <1>1 DEF Letters, Boxes
  <2>3. mail' \in Boxes /\ \A x \in Agents \ Live : mail'[x] = <<>>
    BY <1>1, <2>1, <2>2 DEF Boxes
  <2>4. Live' = Live
    BY <2>1 DEF procVars, Live
  <2> QED
    BY <2>1, <2>3, <2>4 DEF ProcType, procVars
<1> QED
  BY <1>2, <1>3

\* The restoration starts an agent anew, after it has stopped a survivor with the same id.
LEMMA RestoreProc ==
    ASSUME TypeInv, RestoreAgent
    PROVE  LET x == Head(restore.todo)
           IN  /\ ProcType' /\ x \in Agents
               /\ Live' = Live \cup {x} /\ inc' = [inc EXCEPT ![x] = @ + 1]
<1> DEFINE x == Head(restore.todo)
           w == Without(registry, {x})
<1>1. x \in Agents /\ restore.pids \in [Agents -> Nat]
  BY HeadAndTail DEF RestoreAgent, TypeInv, RestoreType
<1>2. /\ registry' = Append(w, x) /\ ready' = ready \ {x} /\ dismissing' = dismissing \ {x}
      /\ children' = [children EXCEPT ![x] = <<>>] /\ mail' = Emptied(mail, {x})
      /\ inc' = [inc EXCEPT ![x] = @ + 1] /\ config' = [config EXCEPT ![x] = RestoreConfig(x)]
      /\ x \notin restarting /\ restarting' = restarting
  BY DEF RestoreAgent
<1>3. ProcType /\ SpawnType
  BY DEF TypeInv
<1>4. registry \in Seq(Agents) /\ Distinct(registry)
  BY <1>3 DEF ProcType
<1>5. w \in Seq(Agents) /\ ToSet(w) = ToSet(registry) \ {x} /\ Distinct(w)
  BY <1>4, WithoutElements
<1>6. registry' \in Seq(Agents) /\ Distinct(registry') /\ Live' = Live \cup {x}
  <2> HIDE DEF w, x
  <2> QED
    BY <1>1, <1>2, <1>5, AppendRegistry DEF Live
<1>7. RestoreConfig(x) \in [parent : Pids, restored : BOOLEAN]
  <2>1. parent[x] \in Restored => <<parent[x], restore.pids[parent[x]]>> \in Pids
    BY <1>1, <1>3 DEF Restored, Pids, SpawnType
  <2>2. NoPid \in Pids
    BY DEF NoPid, Pids
  <2> QED
    BY <2>1, <2>2 DEF RestoreConfig
<1>8. /\ mail' \in Boxes
      /\ \A y \in Agents : mail'[y] = IF y \in {x} THEN <<>> ELSE mail[y]
  <2>1. mail \in Boxes
    BY <1>3 DEF ProcType
  <2> QED
    BY <1>2, <2>1, EmptiedBoxes
<1> HIDE DEF w, x
<1>9. ProcType'
  <2>1. inc' \in [Agents -> Nat] /\ config' \in [Agents -> [parent : Pids, restored : BOOLEAN]]
    BY <1>1, <1>2, <1>3, <1>7 DEF ProcType
  <2>2. ready' \subseteq Live' /\ dismissing' \subseteq Live'
    BY <1>2, <1>3, <1>6 DEF ProcType
  <2>3. children' \in [Agents -> Seq(Agents)]
    BY <1>1, <1>2, <1>3 DEF ProcType
  <2>4. \A y \in Agents \ Live' : children'[y] = <<>> /\ mail'[y] = <<>>
    BY <1>1, <1>2, <1>3, <1>6, <1>8 DEF ProcType
  <2>5. restarting' \subseteq Agents \ Live'
    BY <1>1, <1>2, <1>3, <1>6 DEF ProcType
  <2> QED
    BY <1>6, <1>8, <2>1, <2>2, <2>3, <2>4, <2>5 DEF ProcType
<1> QED
  BY <1>1, <1>2, <1>6, <1>9 DEF x

\* Only a live parent is told of its children, and what is cut off ends.
LEMMA RebuildProc ==
    ASSUME TypeInv, RebuildChildren
    PROVE  /\ ProcType' /\ Live' \subseteq Live
           /\ \E gone : /\ gone \subseteq Live /\ Exit(gone)
                        /\ gone = {x \in Agents : Cut[x] /\ x \in Restored
                                                   /\ IsAlive(<<x, restore.pids[x]>>)}
                        /\ Live' = Live \ gone
                        /\ \A p \in Live \ gone :
                               /\ mail[p] \in Seq(Letters) /\ mail'[p] \in Seq(Letters)
                               /\ \E news \in Seq(Letters) :
                                     /\ mail'[p] = mail[p] \o news
                                     /\ news = [i \in DOMAIN ChildrenToTell(p) |->
                                                 Msg("child_restored", ChildrenToTell(p)[i])]
                        /\ inbox' = inbox \o Events("terminated", gone)
<1> DEFINE cut  == {x \in Agents : Cut[x]}
           gone == {x \in cut \cap Restored : IsAlive(<<x, restore.pids[x]>>)}
           told == [p \in Agents |-> ChildrenToTell(p)]
           news(p) == [i \in DOMAIN told[p] |-> Msg("child_restored", told[p][i])]
           boxes == [p \in Agents |-> mail[p] \o news(p)]
<1>1. /\ Exit(gone) /\ mail' = Emptied(boxes, gone)
      /\ UNCHANGED <<inc, config, restarting>>
      /\ inbox' = inbox \o Events("terminated", gone)
  BY DEF RebuildChildren
<1>2. ProcType /\ SpawnType /\ RestoreType /\ mail \in [Agents -> Seq(Letters)]
      /\ restore.all \subseteq Agents
  BY DEF TypeInv, ProcType, Boxes, RestoreType
<1>3. gone \subseteq Live
  BY DEF IsAlive
<1>4. ASSUME NEW p \in Agents
      PROVE  /\ told[p] \in Seq(Agents)
             /\ p \notin Live => told[p] = <<>>
  <2> DEFINE kids == {x \in restore.all : HasParent(x) /\ parent[x] = p /\ ~Cut[x]}
  <2>1. told[p] = InOrder(kids) /\ kids \subseteq Agents
    BY <1>2 DEF ChildrenToTell
  <2>2. InOrder(kids) \in Seq(kids) /\ Len(InOrder(kids)) = Cardinality(kids)
    BY <2>1, AgentSets, InOrderElements
  <2>3. InOrder(kids) \in Seq(Agents)
    BY <2>1, <2>2
  <2>4. ASSUME p \notin Live PROVE kids = {}
    <3> SUFFICES ASSUME NEW x \in kids PROVE FALSE
      OBVIOUS
    <3>1. x \in Agents /\ x \in restore.all /\ HasParent(x) /\ parent[x] = p /\ ~Cut[x]
      BY <2>1
    <3>2. ~IsAlive(<<p, restore.pids[p]>>)
      BY <2>4 DEF IsAlive
    <3>3. Cut[x]
      BY <1>2, <3>1, <3>2, CutEquation
    <3> QED
      BY <3>1, <3>3
  <2>5. p \notin Live => InOrder(kids) = <<>>
    <3>1. kids = {} => Cardinality(kids) = 0
      BY FS_EmptySet
    <3> HIDE DEF kids
    <3> QED
      BY <2>2, <2>3, <2>4, <3>1
  <2> QED
    BY <2>1, <2>3, <2>5
<1> HIDE DEF told
<1>5. ASSUME NEW p \in Agents PROVE news(p) \in Seq(Letters) /\ (p \notin Live => news(p) = <<>>)
  <2>1. told[p] \in Seq(Agents) /\ (p \notin Live => told[p] = <<>>)
    BY <1>4
  <2>2. DOMAIN told[p] = 1..Len(told[p]) /\ Len(told[p]) \in Nat
    BY <2>1
  <2>3. \A i \in 1..Len(told[p]) : Msg("child_restored", told[p][i]) \in Letters
    BY <2>1 DEF Msg, Letters, News
  <2> QED
    BY <2>1, <2>2, <2>3
<1> HIDE DEF news
<1>6. boxes \in Boxes /\ \A p \in Agents : boxes[p] = mail[p] \o news(p)
  <2>1. \A p \in Agents : mail[p] \o news(p) \in Seq(Letters)
    BY <1>2, <1>5
  <2> QED
    BY <2>1 DEF Boxes
<1> HIDE DEF boxes, gone
<1>7. \A p \in Agents \ Live : boxes[p] = <<>>
  <2> TAKE p \in Agents \ Live
  <2>1. mail[p] = <<>> /\ news(p) = <<>> /\ boxes[p] = mail[p] \o news(p)
    BY <1>2, <1>5, <1>6 DEF ProcType
  <2> QED
    BY <2>1
<1>8. ProcType' /\ Live' = Live \ gone
  BY <1>1, <1>2, <1>3, <1>6, <1>7, ExitProc
<1>9. \A p \in Agents : mail'[p] = IF p \in gone THEN <<>> ELSE boxes[p]
  BY <1>1, <1>6, EmptiedBoxes
<1>10. ASSUME NEW p \in Live \ gone
       PROVE  /\ mail[p] \in Seq(Letters) /\ mail'[p] \in Seq(Letters)
              /\ \E n \in Seq(Letters) :
                    /\ mail'[p] = mail[p] \o n
                    /\ n = [i \in DOMAIN ChildrenToTell(p) |->
                              Msg("child_restored", ChildrenToTell(p)[i])]
  <2>1. p \in Agents
    BY <1>2, LiveAreAgents DEF ProcType
  <2>2. mail'[p] = mail[p] \o news(p) /\ news(p) \in Seq(Letters) /\ mail[p] \in Seq(Letters)
    BY <1>2, <1>5, <1>6, <1>9, <2>1
  <2>3. news(p) = [i \in DOMAIN ChildrenToTell(p) |->
                              Msg("child_restored", ChildrenToTell(p)[i])]
    BY <2>1 DEF news, told
  <2> QED
    <3>1. mail[p] \in Seq(Letters) /\ mail'[p] \in Seq(Letters)
      BY <2>2
    <3>2. /\ news(p) \in Seq(Letters) /\ mail'[p] = mail[p] \o news(p)
          /\ news(p) = [i \in DOMAIN ChildrenToTell(p) |->
                              Msg("child_restored", ChildrenToTell(p)[i])]
      BY <2>2, <2>3
    <3>3. \E n \in Seq(Letters) :
             /\ mail'[p] = mail[p] \o n
             /\ n = [i \in DOMAIN ChildrenToTell(p) |->
                              Msg("child_restored", ChildrenToTell(p)[i])]
      BY <3>2, Zenon
    <3> QED
      BY <3>1, <3>3
<1>11. gone = {x \in Agents : Cut[x] /\ x \in Restored /\ IsAlive(<<x, restore.pids[x]>>)}
  BY DEF gone
<1>12. Live' \subseteq Live
  BY <1>8
<1> QED
  BY <1>1, <1>3, <1>8, <1>10, <1>11, <1>12

LEMMA PidsOfAgents ==
    ASSUME SpawnType, NEW x \in Agents
    PROVE  Asker(x) \in Pids /\ parent[x] \in 0..Size /\ spawner[x] \in Nat
  BY DEF SpawnType, Asker, Pids

\* The steps of an agent keep the types of the processes.
LEMMA AgentProc ==
    ASSUME TypeInv, NEW x \in Agents, AgentStep(x) \/ Crash(x)
    PROVE  ProcType'
<1>1. /\ ProcType /\ mail \in Boxes /\ mail \in [Agents -> Seq(Letters)]
      /\ \A y \in Agents \ Live : mail[y] = <<>>
      /\ children \in [Agents -> Seq(Agents)]
      /\ ready \subseteq Live
  BY DEF TypeInv, ProcType, Boxes
<1>2. CASE SetUp(x)
  <2>1. Live' = Live
    BY <1>2 DEF SetUp, Live
  <2> QED
    BY <1>1, <1>2, <2>1 DEF ProcType, SetUp
<1>3. CASE HandleStopRequested(x)
  <2>1. {x} \subseteq Live /\ Exit({x}) /\ UNCHANGED <<inc, config>> /\ mail' = Emptied(mail, {x})
        /\ restarting' \subseteq restarting \cup {x}
    BY <1>1, <1>3 DEF HandleStopRequested
  <2> QED
    BY <1>1, <2>1, ExitProc
<1>4. CASE HandleNews(x)
  <2>1. x \in ready /\ mail[x] # <<>> /\ Head(mail[x]).type # "stop"
    BY <1>4 DEF HandleNews
  <2>2. Head(mail[x]) \in Letters /\ Tail(mail[x]) \in Seq(Letters)
    BY <1>1, <2>1
  <2> DEFINE m == Head(mail[x])
             c == children[x]
  <2>3. m.id \in Agents
    BY <2>1, <2>2 DEF Letters, Msg
  <2>4. c \in Seq(Agents)
    BY <1>1
  <2>5. /\ Track(c, m.id) \in Seq(Agents) /\ <<m.id>> \o c \in Seq(Agents)
        /\ Untrack(c, m.id) \in Seq(Agents)
    <3> HIDE DEF m, c
    <3>1. <<m.id>> \o c \in Seq(Agents)
      BY <2>3, <2>4
    <3>2. Untrack(c, m.id) \in Seq(Agents)
      BY <2>4, WithoutElements DEF Untrack
    <3> QED
      BY <2>4, <3>1, <3>2 DEF Track
  <2>6. children' = [children EXCEPT ![x] =
               IF m.type = "child_spawned" THEN Track(@, m.id)
               ELSE IF m.type = "child_restored" THEN <<m.id>> \o @
               ELSE Untrack(@, m.id)]
    BY <1>4 DEF HandleNews
  <2>7. children' \in [Agents -> Seq(Agents)] /\ \A y \in Agents : y # x => children'[y] = children[y]
    BY <1>1, <2>5, <2>6
  <2>8. mail' = [mail EXCEPT ![x] = Tail(@)]
        /\ UNCHANGED <<registry, inc, config, ready, dismissing, restarting>>
    BY <1>4 DEF HandleNews
  <2>9. mail' \in Boxes /\ \A y \in Agents : y # x => mail'[y] = mail[y]
    BY <1>1, <2>2, <2>8 DEF Boxes
  <2>10. Live' = Live
    BY <2>8 DEF Live
  <2> QED
    BY <1>1, <2>1, <2>7, <2>8, <2>9, <2>10 DEF ProcType
<1>5. CASE Restart(x)
  <2>1. /\ x \in restarting /\ restarting' \subseteq restarting \ {x} /\ Start(x, config[x])
        /\ mail' = mail
    BY <1>5 DEF Restart
  <2>2. x \notin Live /\ config[x] \in [parent : Pids, restored : BOOLEAN]
    BY <1>1, <2>1 DEF ProcType
  <2> QED
    BY <1>1, <2>1, <2>2, StartProc
<1>6. CASE Crash(x)
  <2>1. {x} \subseteq Live /\ Exit({x}) /\ UNCHANGED <<inc, config>> /\ mail' = Emptied(mail, {x})
        /\ restarting' \subseteq restarting \cup {x}
    BY <1>6 DEF Crash
  <2> QED
    BY <1>1, <2>1, ExitProc
<1> QED
  BY <1>2, <1>3, <1>4, <1>5, <1>6 DEF AgentStep

\* So do the steps of a spawn.
LEMMA SpawnProc ==
    ASSUME TypeInv, NEW x \in Agents,
           SpawnStep(x) \/ FailSpawn(x) \/ (\E p \in Agents : AcceptSpawn(p, x))
    PROVE  ProcType'
<1>1. /\ ProcType /\ SpawnType /\ UnstartedInv /\ children \in [Agents -> Seq(Agents)]
      /\ ready \subseteq Live
  BY DEF TypeInv, ProcType
<1>2. Asker(x) \in Pids
  BY <1>1, PidsOfAgents
<1>3. Msg("spawn_failed", x) \in Letters /\ Msg("child_spawned", x) \in Letters
  BY DEF Msg, Letters, News
<1>4. CASE StartChild(x)
  <2>1. /\ stage[x] = "start" /\ Start(x, [parent |-> Asker(x), restored |-> FALSE])
        /\ mail' = mail /\ restarting' = restarting
    BY <1>4 DEF StartChild
  <2>2. x \notin Live /\ x \notin restarting
    BY <1>1, <2>1 DEF UnstartedInv
  <2>3. [parent |-> Asker(x), restored |-> FALSE] \in [parent : Pids, restored : BOOLEAN]
    BY <1>2
  <2>4. restarting' \subseteq restarting \ {x}
    BY <2>1, <2>2
  <2> QED
    BY <1>1, <2>1, <2>2, <2>3, <2>4, StartProc
<1>5. CASE Announce(x)
  BY <1>1, <1>5, SameProc DEF Announce
<1>6. CASE AwaitChild(x)
  <2>1. UNCHANGED <<procVars, restarting>>
        /\ (mail' = mail \/ mail' = Post(mail, Asker(x), Msg("spawn_failed", x)))
    BY <1>6 DEF AwaitChild
  <2> QED
    BY <1>1, <1>2, <1>3, <2>1, SameProc, PostProc
<1>7. CASE TellParent(x)
  BY <1>1, <1>2, <1>3, <1>7, PostProc DEF TellParent
<1>8. CASE FailSpawn(x)
  BY <1>1, <1>2, <1>3, <1>8, PostProc DEF FailSpawn
<1>9. ASSUME NEW p \in Agents, AcceptSpawn(p, x) PROVE ProcType'
  <2>1. /\ p \in ready /\ children' = [children EXCEPT ![p] = Track(@, x)]
        /\ UNCHANGED <<registry, inc, config, ready, dismissing, mail, restarting>>
    BY <1>9 DEF AcceptSpawn
  <2>2. children[p] \in Seq(Agents) /\ <<x>> \o children[p] \in Seq(Agents)
    BY <1>1
  <2>3. Track(children[p], x) \in Seq(Agents)
    BY <2>2 DEF Track
  <2>4. children' \in [Agents -> Seq(Agents)] /\ \A y \in Agents : y # p => children'[y] = children[y]
    BY <1>1, <2>1, <2>3
  <2>5. Live' = Live
    BY <2>1 DEF Live
  <2> QED
    BY <1>1, <2>1, <2>4, <2>5 DEF ProcType
<1> QED
  BY <1>4, <1>5, <1>6, <1>7, <1>8, <1>9 DEF SpawnStep

\* So do the steps of a dismissal.
LEMMA DismissalProc ==
    ASSUME TypeInv, DismissalStep \/ RollBackCosts \/ (\E p, x \in Agents : BeginDismissal(p, x))
    PROVE  ProcType'
<1>1. /\ ProcType /\ DismissalType /\ mail \in Boxes /\ \A y \in Agents \ Live : mail[y] = <<>>
  BY DEF TypeInv, ProcType
<1>2. ASSUME NEW x, Flags(x) PROVE ProcType'
  <2>1. Live' = Live
    BY <1>2 DEF Flags, Live
  <2> QED
    BY <1>1, <1>2, <2>1 DEF ProcType, Flags, SetDismissing
<1>3. CASE MarkSubtree
  BY <1>2, <1>3 DEF MarkSubtree
<1>4. CASE AbsorbCosts
  BY <1>1, <1>4, SameProc DEF AbsorbCosts
<1>5. CASE FlagAgent
  BY <1>2, <1>5 DEF FlagAgent
<1>6. CASE ScanChildren
  BY <1>1, <1>6, SameProc DEF ScanChildren
<1>7. CASE FindNext
  BY <1>1, <1>7, SameProc DEF FindNext
<1>8. CASE StopFound
  <2> DEFINE x == dismissal.target[1]
  <2>1. CASE IsAlive(dismissal.target) /\ Exit({x}) /\ mail' = Emptied(mail, {x})
             /\ UNCHANGED <<inc, config, restarting>>
    <3>1. {x} \subseteq Live
      BY <2>1 DEF IsAlive
    <3> HIDE DEF x
    <3> QED
      BY <1>1, <2>1, <3>1, ExitProc
  <2>2. CASE UNCHANGED <<registry, inc, config, ready, dismissing, children, mail, restarting>>
    BY <1>1, <2>2, SameProc DEF procVars
  <2> QED
    BY <1>8, <2>1, <2>2 DEF StopFound
<1>9. CASE TellDismisser
  <2>1. dismissal.by \in Pids /\ Msg("child_dismissed", dismissal.root) \in Letters
    BY <1>1, <1>9 DEF DismissalType, TellDismisser, Msg, Letters, News, None, Agents
  <2> QED
    BY <1>1, <1>9, <2>1, PostProc DEF TellDismisser
<1>10. CASE RollBackCosts
  BY <1>1, <1>10, SameProc DEF RollBackCosts
<1>11. CASE \E p, x \in Agents : BeginDismissal(p, x)
  BY <1>1, <1>11, SameProc DEF BeginDismissal
<1> QED
  BY <1>3, <1>4, <1>5, <1>6, <1>7, <1>8, <1>9, <1>10, <1>11 DEF DismissalStep

\* So do the steps of the page.
LEMMA PageProc ==
    ASSUME TypeInv, PageStep \/ ClickPause \/ ClickResume \/ ClickDelete \/ Reload
    PROVE  ProcType'
<1>1. /\ ProcType /\ JobType
  BY DEF TypeInv
<1>2. CASE SendStop
  <2>1. PICK S : /\ S = IF IsAlive(Head(job.todo)) THEN {Head(job.todo)[1]} ELSE {}
                 /\ StopOrKill(S) /\ UNCHANGED <<inc, config>>
    BY <1>2 DEF SendStop
  <2>2. S \subseteq Live
    BY <2>1 DEF IsAlive
  <2> QED
    BY <1>1, <2>1, <2>2, StopOrKillProc
<1>3. CASE SweepLate
  <2>1. LateRegistrations \subseteq Live /\ StopOrKill(LateRegistrations)
        /\ UNCHANGED <<inc, config>>
    BY <1>3 DEF SweepLate, LateRegistrations
  <2> QED
    BY <1>1, <2>1, StopOrKillProc
<1>4. CASE ShowPausing
  BY <1>1, <1>4, SameProc DEF ShowPausing
<1>5. CASE DeleteTask
  BY <1>1, <1>5, SameProc DEF DeleteTask
<1>6. CASE HandleAgentSpawned
  BY <1>1, <1>6, SameProc DEF HandleAgentSpawned
<1>7. CASE HandleAgentTerminated
  BY <1>1, <1>7, SameProc DEF HandleAgentTerminated
<1>8. CASE ClickPause
  BY <1>1, <1>8, SameProc DEF ClickPause
<1>9. CASE ClickResume
  BY <1>1, <1>9, SameProc DEF ClickResume
<1>10. CASE ClickDelete
  BY <1>1, <1>10, SameProc DEF ClickDelete
<1>11. CASE Reload
  BY <1>1, <1>11, SameProc DEF Reload
<1> QED
  BY <1>2, <1>3, <1>4, <1>5, <1>6, <1>7, <1>8, <1>9, <1>10, <1>11 DEF PageStep

\* So do the steps of a restoration, and the fall of the node.
LEMMA RestoreStepProc ==
    ASSUME TypeInv, RestoreStep \/ FailToRestore \/ NodeCrash
    PROVE  ProcType'
<1>1. /\ ProcType /\ mail \in Boxes /\ \A y \in Agents \ Live : mail[y] = <<>>
      /\ mail \in [Agents -> Seq(Letters)]
  BY DEF TypeInv, ProcType, Boxes
<1>2. CASE SkipAgent
  BY <1>1, <1>2, SameProc DEF SkipAgent
<1>3. CASE RestoreAgent
  BY <1>3, RestoreProc
<1>4. CASE GiveUp
  BY <1>1, <1>4, SameProc DEF GiveUp
<1>5. CASE RebuildChildren
  BY <1>5, RebuildProc
<1>6. CASE SweepOrphans
  <2>1. Orphans \subseteq Live /\ Exit(Orphans) /\ mail' = Emptied(mail, Orphans)
        /\ UNCHANGED <<inc, config, restarting>>
    BY <1>6 DEF SweepOrphans, Orphans
  <2> QED
    BY <1>1, <2>1, ExitProc
<1>7. CASE FailToRestore
  BY <1>1, <1>7, SameProc DEF FailToRestore
<1>8. CASE NodeCrash
  <2>1. /\ Exit(Live) /\ UNCHANGED <<inc, config>> /\ mail' = Emptied(mail, Agents)
        /\ restarting' = {}
    BY <1>8 DEF NodeCrash
  <2>2. /\ mail' \in Boxes /\ \A y \in Agents : mail'[y] = <<>>
    BY <1>1, <2>1, EmptiedBoxes
  <2>3. Live \subseteq Agents /\ Live \subseteq Live
    BY <1>1, LiveAreAgents DEF ProcType
  <2>4. mail' = Emptied(mail', Live) /\ mail' \in Boxes /\ \A y \in Agents \ Live : mail'[y] = <<>>
    <3>1. mail' = [y \in Agents |-> mail'[y]]
      BY <2>2 DEF Boxes
    <3> QED
      BY <2>2, <3>1 DEF Emptied
  <2> QED
    BY <1>1, <2>1, <2>3, <2>4, ExitProc
<1> QED
  BY <1>2, <1>3, <1>4, <1>5, <1>6, <1>7, <1>8 DEF RestoreStep

\* Every step is one of a few kinds.
LEMMA NextCases ==
    ASSUME Next
    PROVE  \/ \E x \in Agents : AgentStep(x) \/ Crash(x)
           \/ \E x \in Agents : \/ SpawnStep(x) \/ FailSpawn(x)
                                \/ \E p \in Agents : AcceptSpawn(p, x)
           \/ DismissalStep \/ RollBackCosts \/ (\E p, x \in Agents : BeginDismissal(p, x))
           \/ PageStep \/ ClickPause \/ ClickResume \/ ClickDelete \/ Reload
           \/ RestoreStep \/ FailToRestore \/ NodeCrash
  BY DEF Next, Fault, Request

LEMMA ProcTypeStep ==
    ASSUME TypeInv, [Next]_vars
    PROVE  ProcType'
<1>1. CASE Next
  BY <1>1, NextCases, AgentProc, SpawnProc, DismissalProc, PageProc, RestoreStepProc
<1>2. CASE UNCHANGED vars
  BY <1>2, SameProc DEF vars, TypeInv
<1> QED
  BY <1>1, <1>2

LEMMA SpawnTypeStep ==
    ASSUME TypeInv, [Next]_vars
    PROVE  SpawnType'
<1>1. SpawnType /\ UnstartedInv /\ ProcType /\ Live \subseteq Agents /\ ready \subseteq Live
  BY LiveAreAgents DEF TypeInv, ProcType
<1>2. ASSUME UNCHANGED spawnVars PROVE SpawnType'
  BY <1>1, <1>2 DEF SpawnType, spawnVars
<1>3. ASSUME UNCHANGED <<parent, spawner>>, NEW x \in Agents,
             NEW v \in {"start", "announce", "wait", "tell", "done"},
             stage' = [stage EXCEPT ![x] = v]
      PROVE  SpawnType'
  BY <1>1, <1>3 DEF SpawnType
<1>4. ASSUME NEW p \in Agents, NEW x \in Agents, AcceptSpawn(p, x) PROVE SpawnType'
  <2>1. /\ parent' = [parent EXCEPT ![x] = p] /\ spawner' = [spawner EXCEPT ![x] = inc[p]]
        /\ stage' = [stage EXCEPT ![x] = "start"] /\ stage[x] = "unborn" /\ p \in Live
    BY <1>1, <1>4 DEF AcceptSpawn
  <2>2. p # x /\ stage[p] # "unborn"
    BY <1>1, <2>1 DEF UnstartedInv
  <2>3. ~(x < p)
    BY <1>1, <2>1, <2>2 DEF UnstartedInv
  <2>4. p < x /\ p \in 0..Size
    BY <2>2, <2>3 DEF Agents
  <2>5. inc[p] \in Nat
    BY <1>1 DEF ProcType
  <2> QED
    BY <1>1, <2>1, <2>4, <2>5 DEF SpawnType
<1>5. ASSUME NEW x \in Agents, AgentStep(x) \/ Crash(x) PROVE SpawnType'
  BY <1>2, <1>5 DEF AgentStep, SetUp, HandleStopRequested, HandleNews, Restart, Crash
<1>6. ASSUME NEW x \in Agents, SpawnStep(x) \/ FailSpawn(x) PROVE SpawnType'
  <2>1. UNCHANGED <<parent, spawner>> /\ \E v \in {"start", "announce", "wait", "tell", "done"} :
                                            stage' = [stage EXCEPT ![x] = v]
    BY <1>6 DEF SpawnStep, StartChild, Announce, AwaitChild, TellParent, FailSpawn
  <2> QED
    BY <1>3, <2>1
<1>7. CASE DismissalStep \/ RollBackCosts \/ (\E p, x \in Agents : BeginDismissal(p, x))
  BY <1>2, <1>7 DEF DismissalStep, RollBackCosts, BeginDismissal, MarkSubtree, Flags, AbsorbCosts,
                    FlagAgent, ScanChildren, FindNext, StopFound, TellDismisser
<1>8. CASE PageStep \/ ClickPause \/ ClickResume \/ ClickDelete \/ Reload
  BY <1>2, <1>8 DEF PageStep, SendStop, SweepLate, ShowPausing, DeleteTask, HandleAgentSpawned,
                    HandleAgentTerminated, ClickPause, ClickResume, ClickDelete, Reload
<1>9. CASE RestoreStep \/ FailToRestore
  BY <1>2, <1>9 DEF RestoreStep, SkipAgent, RestoreAgent, GiveUp, RebuildChildren, SweepOrphans,
                    FailToRestore
<1>10. CASE NodeCrash
  BY <1>1, <1>10 DEF NodeCrash, SpawnType
<1>11. CASE UNCHANGED vars
  BY <1>2, <1>11 DEF vars
<1> QED
  BY <1>4, <1>5, <1>6, <1>7, <1>8, <1>9, <1>10, <1>11, NextCases

LEMMA DismissalTypeStep ==
    ASSUME TypeInv, [Next]_vars
    PROVE  DismissalType'
<1>1. /\ DismissalType /\ ProcType /\ SpawnType /\ Live \subseteq Agents /\ ready \subseteq Live
      /\ \A x \in Agents : Pid(x) \in ProcPids /\ Pid(x) \in Pids
  <2>1. DismissalType /\ ProcType /\ SpawnType /\ Live \subseteq Agents /\ ready \subseteq Live
    BY LiveAreAgents DEF TypeInv, ProcType
  <2>2. inc \in [Agents -> Nat]
    BY <2>1 DEF ProcType
  <2>3. \A x \in Agents : Pid(x) \in ProcPids
    BY <2>2 DEF Pid, ProcPids
  <2>4. ProcPids \subseteq Pids
    BY DEF ProcPids, Pids, Agents
  <2> QED
    BY <2>1, <2>3, <2>4
<1>2. ASSUME UNCHANGED dismissal PROVE DismissalType'
  BY <1>1, <1>2 DEF DismissalType
<1>3. Idle \in [step : {"idle", "mark", "costs", "flag", "scan", "find", "stop", "tell"},
                root : 0..Size, by : Pids, queue : Seq(Agents), seen : SUBSET Agents,
                order : Seq(Agents), target : Pids]
  BY DEF Idle, NoPid, Pids, None
<1>4. ASSUME dismissal' = Idle PROVE DismissalType'
  BY <1>3, <1>4 DEF DismissalType, Idle
<1>5. ASSUME NEW x \in Agents, NEW S, S \subseteq Live PROVE InOrder(S) \in Seq(Agents)
  <2>1. S \subseteq Agents
    BY <1>1, <1>5
  <2>2. InOrder(S) \in Seq(S)
    BY <2>1, AgentSets, InOrderElements
  <2> QED
    BY <2>1, <2>2
<1>6. ASSUME NEW pid PROVE ChildrenOf(pid) \subseteq Live
  BY DEF ChildrenOf, FindChildrenByParent
<1>7. CASE MarkSubtree
  <2> DEFINE x    == Head(dismissal.queue)
             kids == IF x \notin Live THEN {} ELSE ChildrenOf(Pid(x)) \cup FindChildrenById(x)
             more == IF x \in dismissal.seen THEN <<>> ELSE InOrder(kids)
             rest == Tail(dismissal.queue) \o more
  <2>1. x \in Agents /\ Tail(dismissal.queue) \in Seq(Agents)
    BY <1>1, <1>7, HeadAndTail DEF MarkSubtree, DismissalType
  <2>2. kids \subseteq Live
    BY <1>6 DEF FindChildrenById
  <2>3. more \in Seq(Agents)
    BY <1>5, <2>1, <2>2
  <2> HIDE DEF more, kids
  <2>4. rest \in Seq(Agents)
    BY <2>1, <2>3
  <2>5. dismissal' = [dismissal EXCEPT !.step = IF rest = <<>> THEN "costs" ELSE "mark",
                                          !.queue = rest, !.seen = @ \cup {x}]
    BY <1>7 DEF MarkSubtree, more, kids
  <2>6. dismissal.step = "mark"
    BY <1>7 DEF MarkSubtree
  <2> HIDE DEF rest, x
  <2> QED
    BY <1>1, <2>1, <2>4, <2>5, <2>6 DEF DismissalType
<1>8. CASE AbsorbCosts
  <2>1. dismissal.root \in Agents
    BY <1>1, <1>8 DEF AbsorbCosts, DismissalType, None, Agents
  <2>2. <<dismissal.root>> \in Seq(Agents) /\ <<dismissal.root>> # <<>>
    BY <2>1
  <2> QED
    BY <1>1, <1>8, <2>1, <2>2 DEF AbsorbCosts, DismissalType
<1>9. CASE FlagAgent
  BY <1>1, <1>9 DEF FlagAgent, DismissalType
<1>10. CASE ScanChildren
  <2> DEFINE x    == Head(dismissal.queue)
             kids == IF x \in Live THEN InOrder(ChildrenOf(Pid(x))) ELSE <<>>
             rest == Tail(dismissal.queue) \o kids
  <2>1. x \in Agents /\ Tail(dismissal.queue) \in Seq(Agents) /\ dismissal.step = "scan"
    BY <1>1, <1>10, HeadAndTail DEF ScanChildren, DismissalType
  <2>2. kids \in Seq(Agents)
    BY <1>5, <1>6, <2>1
  <2> HIDE DEF kids
  <2>3. rest \in Seq(Agents) /\ dismissal.order \o kids \in Seq(Agents)
        /\ dismissal.order \o kids # <<>>
    BY <1>1, <2>1, <2>2 DEF DismissalType
  <2>4. dismissal' = [dismissal EXCEPT !.step = IF rest = <<>> THEN "find" ELSE "flag",
                                          !.queue = rest, !.order = @ \o kids]
    BY <1>10 DEF ScanChildren, kids
  <2> HIDE DEF rest
  <2> QED
    BY <1>1, <2>1, <2>3, <2>4 DEF DismissalType
<1>11. ASSUME dismissal' = AfterLast(dismissal), dismissal.step \in {"find", "stop"}
       PROVE  DismissalType'
  <2>1. Front(dismissal.order) \in Seq(Agents) /\ NoPid \in Pids
    BY <1>1, <1>11 DEF DismissalType, Front, NoPid, Pids
  <2> QED
    BY <1>1, <1>11, <2>1 DEF DismissalType, AfterLast
<1>12. CASE FindNext
  <2>1. dismissal.step = "find"
    BY <1>12 DEF FindNext
  <2>2. CASE dismissal' = AfterLast(dismissal)
    BY <1>11, <2>1, <2>2
  <2>3. CASE dismissal' = [dismissal EXCEPT !.step = "stop", !.target = Pid(Last(dismissal.order))]
    <3>1. Last(dismissal.order) \in Agents
      BY <1>1, <2>1 DEF DismissalType, Last
    <3>2. Pid(Last(dismissal.order)) \in ProcPids /\ Pid(Last(dismissal.order)) \in Pids
      BY <1>1, <3>1
    <3> QED
      BY <1>1, <2>1, <2>3, <3>2 DEF DismissalType
  <2> QED
    BY <1>12, <2>2, <2>3 DEF FindNext
<1>13. CASE StopFound
  BY <1>11, <1>13 DEF StopFound
<1>14. CASE TellDismisser \/ RollBackCosts
  BY <1>4, <1>14 DEF TellDismisser, RollBackCosts
<1>15. ASSUME NEW p \in Agents, NEW c \in Agents, BeginDismissal(p, c) PROVE DismissalType'
  <2>1. dismissal' = [Idle EXCEPT !.step = "mark", !.root = c, !.by = Pid(p), !.queue = <<c>>]
    BY <1>15 DEF BeginDismissal
  <2>2. c \in 0..Size /\ c # None /\ Pid(p) \in Pids /\ <<c>> \in Seq(Agents)
    BY <1>1 DEF Agents, None
  <2>3. dismissal' = [step |-> "mark", root |-> c, by |-> Pid(p), queue |-> <<c>>,
                      seen |-> {}, order |-> <<>>, target |-> NoPid]
    BY <2>1 DEF Idle
  <2>4. NoPid \in Pids
    BY DEF NoPid, Pids
  <2> QED
    BY <2>2, <2>3, <2>4 DEF DismissalType
<1>16. ASSUME NEW x \in Agents, AgentStep(x) \/ Crash(x) PROVE DismissalType'
  BY <1>2, <1>16 DEF AgentStep, SetUp, HandleStopRequested, HandleNews, Restart, Crash
<1>17. ASSUME NEW x \in Agents,
              SpawnStep(x) \/ FailSpawn(x) \/ (\E p \in Agents : AcceptSpawn(p, x))
       PROVE  DismissalType'
  BY <1>2, <1>17 DEF SpawnStep, StartChild, Announce, AwaitChild, TellParent, FailSpawn, AcceptSpawn
<1>18. CASE PageStep \/ ClickPause \/ ClickResume \/ ClickDelete \/ Reload
  BY <1>2, <1>18 DEF PageStep, SendStop, SweepLate, ShowPausing, DeleteTask, HandleAgentSpawned,
                    HandleAgentTerminated, ClickPause, ClickResume, ClickDelete, Reload
<1>19. CASE RestoreStep \/ FailToRestore
  BY <1>2, <1>19 DEF RestoreStep, SkipAgent, RestoreAgent, GiveUp, RebuildChildren, SweepOrphans,
                    FailToRestore
<1>20. CASE NodeCrash
  BY <1>4, <1>20 DEF NodeCrash
<1>21. CASE UNCHANGED vars
  BY <1>2, <1>21 DEF vars
<1> QED
  BY <1>7, <1>8, <1>9, <1>10, <1>12, <1>13, <1>14, <1>15, <1>16, <1>17, <1>18, <1>19, <1>20,
     <1>21, NextCases DEF DismissalStep

LEMMA JobTypeStep ==
    ASSUME TypeInv, [Next]_vars
    PROVE  JobType'
<1> DEFINE Jobs == [step : {"idle", "send", "sweep", "paused", "delete", "restore"},
                    kill : BOOLEAN, todo : Seq(ProcPids), stopped : SUBSET Agents]
<1>1. /\ job \in Jobs /\ (job.step = "send" => job.todo # <<>>) /\ ProcType
      /\ registry \in Seq(Agents) /\ Live \subseteq Agents /\ inc \in [Agents -> Nat]
  BY LiveAreAgents DEF TypeInv, ProcType, JobType
<1>2. ASSUME UNCHANGED job PROVE JobType'
  BY <1>1, <1>2 DEF JobType
<1>3. ASSUME NEW s \in {"idle", "sweep", "paused", "delete", "restore"}, NEW k \in BOOLEAN,
             NEW j, j = [NoJob EXCEPT !.step = s, !.kill = k]
      PROVE  j \in Jobs /\ j.step = s
  <2>1. j = [step |-> s, kill |-> k, todo |-> <<>>, stopped |-> {}]
    BY <1>3 DEF NoJob
  <2>2. <<>> \in Seq(ProcPids)
    OBVIOUS
  <2> QED
    BY <2>1, <2>2
<1>4. NoJob \in Jobs /\ NoJob.step = "idle"
  BY DEF NoJob
<1>5. ASSUME job' \in Jobs, job'.step # "send" PROVE JobType'
  BY <1>5 DEF JobType
<1>6. /\ Reverse(LiveAgents) \in Seq(ProcPids)
      /\ Live # {} => Reverse(LiveAgents) # <<>>
  <2>1. LiveAgents \in Seq(ProcPids) /\ Len(LiveAgents) = Len(registry)
    <3>1. DOMAIN registry = 1..Len(registry) /\ Len(registry) \in Nat
      BY <1>1
    <3>2. \A i \in 1..Len(registry) : Pid(registry[i]) \in ProcPids
      BY <1>1 DEF Pid, ProcPids
    <3> QED
      BY <3>1, <3>2 DEF LiveAgents
  <2>2. Reverse(LiveAgents) \in Seq(ProcPids) /\ Len(Reverse(LiveAgents)) = Len(registry)
    BY <2>1 DEF Reverse
  <2>3. Live # {} => Len(registry) # 0
    BY <1>1 DEF Live, ToSet
  <2> QED
    BY <2>2, <2>3
<1>7. ASSUME NEW k \in BOOLEAN, BeginStops(k) PROVE JobType'
  <2>1. CASE Live = {}
    <3>1. PICK s \in {"delete", "paused"} : job' = [NoJob EXCEPT !.step = s, !.kill = k]
      BY <1>7, <2>1 DEF BeginStops
    <3>2. job' \in Jobs /\ job'.step = s
      BY <1>3, <3>1
    <3> QED
      BY <1>5, <3>2
  <2>2. CASE Live # {}
    <3>1. job' = [NoJob EXCEPT !.step = "send", !.kill = k, !.todo = Reverse(LiveAgents)]
      BY <1>7, <2>2 DEF BeginStops
    <3>2. job' = [step |-> "send", kill |-> k, todo |-> Reverse(LiveAgents), stopped |-> {}]
      BY <3>1 DEF NoJob
    <3> QED
      BY <1>6, <2>2, <3>2 DEF JobType
  <2> QED
    BY <2>1, <2>2
<1>8. CASE SendStop
  <2> DEFINE pid == Head(job.todo)
  <2>1. pid \in ProcPids /\ Tail(job.todo) \in Seq(ProcPids) /\ pid[1] \in Agents
    BY <1>1, <1>8, HeadAndTail DEF SendStop, ProcPids
  <2>2. Len(job.todo) # 1 => Tail(job.todo) # <<>>
    <3>1. job.todo \in Seq(ProcPids) /\ job.todo # <<>>
      BY <1>1, <1>8 DEF SendStop
    <3>2. Len(Tail(job.todo)) = Len(job.todo) - 1 /\ Len(job.todo) \in Nat
      BY <3>1
    <3>3. Len(job.todo) # 1 => Len(Tail(job.todo)) # 0
      BY <3>2
    <3> QED
      BY <3>3
  <2>3. job' = [job EXCEPT !.todo = Tail(@), !.stopped = @ \cup {pid[1]},
                                 !.step = IF Len(job.todo) = 1 THEN "sweep" ELSE "send"]
    BY <1>8 DEF SendStop
  <2> HIDE DEF pid
  <2> QED
    BY <1>1, <2>1, <2>2, <2>3 DEF JobType
<1>9. CASE SweepLate
  BY <1>1, <1>5, <1>9 DEF SweepLate
<1>10. CASE ShowPausing \/ DeleteTask
  BY <1>4, <1>5, <1>10 DEF ShowPausing, DeleteTask
<1>11. CASE HandleAgentSpawned \/ HandleAgentTerminated \/ Reload
  BY <1>2, <1>11 DEF HandleAgentSpawned, HandleAgentTerminated, Reload
<1>12. CASE ClickPause \/ ClickDelete
  BY <1>7, <1>12 DEF ClickPause, ClickDelete
<1>13. CASE ClickResume
  <2>1. job' = job \/ job' = [NoJob EXCEPT !.step = "restore"]
    BY <1>13 DEF ClickResume
  <2>2. ASSUME NEW j, j = [NoJob EXCEPT !.step = "restore"] PROVE j \in Jobs /\ j.step = "restore"
    <3>1. j = [step |-> "restore", kill |-> FALSE, todo |-> <<>>, stopped |-> {}]
      BY <2>2 DEF NoJob
    <3>2. <<>> \in Seq(ProcPids)
      OBVIOUS
    <3> QED
      BY <3>1, <3>2
  <2> QED
    BY <1>2, <1>5, <2>1, <2>2
<1>14. ASSUME NEW s, EndRestore(s) PROVE JobType'
  BY <1>2, <1>4, <1>5, <1>14 DEF EndRestore
<1>15. CASE GiveUp \/ SweepOrphans
  BY <1>14, <1>15 DEF GiveUp, SweepOrphans
<1>16. CASE SkipAgent \/ RestoreAgent \/ RebuildChildren \/ FailToRestore
  BY <1>2, <1>16 DEF SkipAgent, RestoreAgent, RebuildChildren, FailToRestore, dashVars
<1>17. CASE NodeCrash
  BY <1>4, <1>5, <1>17 DEF NodeCrash
<1>18. ASSUME NEW x \in Agents, AgentStep(x) \/ Crash(x) PROVE JobType'
  BY <1>2, <1>18 DEF AgentStep, SetUp, HandleStopRequested, HandleNews, Restart, Crash, dashVars
<1>19. ASSUME NEW x \in Agents,
              SpawnStep(x) \/ FailSpawn(x) \/ (\E p \in Agents : AcceptSpawn(p, x))
       PROVE  JobType'
  BY <1>2, <1>19 DEF SpawnStep, StartChild, Announce, AwaitChild, TellParent, FailSpawn,
                     AcceptSpawn, dashVars
<1>20. CASE DismissalStep \/ RollBackCosts \/ (\E p, x \in Agents : BeginDismissal(p, x))
  BY <1>2, <1>20 DEF DismissalStep, RollBackCosts, BeginDismissal, MarkSubtree, Flags, AbsorbCosts,
                    FlagAgent, ScanChildren, FindNext, StopFound, TellDismisser, dashVars
<1>21. CASE UNCHANGED vars
  BY <1>2, <1>21 DEF vars, dashVars
<1> QED
  BY <1>8, <1>9, <1>10, <1>11, <1>12, <1>13, <1>15, <1>16, <1>17, <1>18, <1>19, <1>20,
     <1>21, NextCases DEF PageStep, RestoreStep

LEMMA RestoreTypeStep ==
    ASSUME TypeInv, [Next]_vars
    PROVE  /\ RestoreType'
           /\ \/ \A x \in ToSet(restore'.todo) : x \in ToSet(restore.todo)
              \/ \A x \in ToSet(restore'.todo) : x \in Agents /\ row[x] # "none"
<1> DEFINE Restores == [step : {"idle", "restore", "sweep"}, by : {"nobody", "page", "boot"},
                        all : SUBSET Agents, todo : Seq(Agents), pids : [Agents -> Nat],
                        failed : SUBSET Agents]
           goal == /\ RestoreType'
                   /\ \/ \A x \in ToSet(restore'.todo) : x \in ToSet(restore.todo)
                      \/ \A x \in ToSet(restore'.todo) : x \in Agents /\ row[x] # "none"
<1> SUFFICES goal
  OBVIOUS
<1>1. restore \in Restores /\ ProcType /\ SpawnType /\ inc \in [Agents -> Nat]
  BY DEF TypeInv, RestoreType, ProcType
<1>2. ASSUME UNCHANGED restore PROVE goal
  BY <1>1, <1>2 DEF RestoreType
<1>3. NoRestore \in Restores /\ ToSet(NoRestore.todo) = {}
  BY DEF NoRestore, ToSet
<1>4. ASSUME restore' = NoRestore PROVE goal
  BY <1>3, <1>4 DEF RestoreType
<1>5. ASSUME NEW by \in {"page", "boot"}, restore' = BeginRestore(by, RunningRows) PROVE goal
  <2>1. RunningRows \in SUBSET Agents /\ \A x \in RunningRows : row[x] # "none"
    BY DEF RunningRows
  <2>2. /\ TopologicalSort(RunningRows) \in Seq(Agents)
        /\ ToSet(TopologicalSort(RunningRows)) \subseteq RunningRows
    BY <1>1, <2>1, TopologicalSortElements
  <2>3. restore' = [step |-> "restore", by |-> by, all |-> RunningRows,
                    todo |-> TopologicalSort(RunningRows),
                    pids |-> [x \in Agents |-> 0], failed |-> {}]
    BY <1>5 DEF BeginRestore, NoRestore
  <2>4. restore' \in Restores
    BY <2>1, <2>2, <2>3
  <2>5. \A x \in ToSet(restore'.todo) : x \in Agents /\ row[x] # "none"
    BY <2>1, <2>2, <2>3
  <2> QED
    BY <2>4, <2>5 DEF RestoreType
<1>6. ASSUME restore.todo # <<>>, NEW pids \in [Agents -> Nat], NEW failed \in SUBSET Agents,
             restore' = [restore EXCEPT !.todo = Tail(@), !.pids = pids, !.failed = failed]
      PROVE  goal
  <2>1. Tail(restore.todo) \in Seq(Agents)
        /\ ToSet(Tail(restore.todo)) \subseteq ToSet(restore.todo)
    BY <1>1, <1>6 DEF ToSet
  <2> QED
    BY <1>1, <1>6, <2>1 DEF RestoreType
<1>7. CASE SkipAgent
  <2>1. restore' = [restore EXCEPT !.todo = Tail(@), !.pids = restore.pids,
                                   !.failed = restore.failed]
        /\ restore.todo # <<>>
    BY <1>1, <1>7 DEF SkipAgent
  <2> QED
    BY <1>1, <1>6, <2>1
<1>8. CASE RestoreAgent
  <2> DEFINE x == Head(restore.todo)
             pids == [restore.pids EXCEPT ![x] = inc[x] + 1]
  <2>1. restore' = [restore EXCEPT !.todo = Tail(@), !.pids = pids, !.failed = restore.failed]
        /\ restore.todo # <<>>
    BY <1>1, <1>8 DEF RestoreAgent
  <2>2. x \in Agents
    BY <1>1, <2>1
  <2>3. pids \in [Agents -> Nat]
    BY <1>1, <2>2
  <2> HIDE DEF pids
  <2> QED
    BY <1>1, <1>6, <2>1, <2>3
<1>9. CASE FailToRestore
  <2> DEFINE x == Head(restore.todo)
  <2>1. restore' = [restore EXCEPT !.todo = Tail(@), !.pids = restore.pids,
                                   !.failed = restore.failed \cup {x}]
        /\ restore.todo # <<>>
    BY <1>1, <1>9 DEF FailToRestore
  <2>2. x \in Agents
    BY <1>1, <2>1
  <2>3. restore.failed \cup {x} \in SUBSET Agents
    BY <1>1, <2>2
  <2> QED
    BY <1>1, <1>6, <2>1, <2>3
<1>10. CASE RebuildChildren
  <2>1. restore' = [restore EXCEPT !.step = "sweep"]
    BY <1>10 DEF RebuildChildren
  <2> QED
    BY <1>1, <2>1 DEF RestoreType
<1>11. CASE GiveUp \/ SweepOrphans
  BY <1>4, <1>11 DEF GiveUp, SweepOrphans, EndRestore
<1>12. CASE NodeCrash
  BY <1>4, <1>5, <1>12 DEF NodeCrash
<1>13. CASE ClickResume
  BY <1>2, <1>5, <1>13 DEF ClickResume
<1>14. CASE PageStep \/ ClickPause \/ ClickDelete \/ Reload
  BY <1>2, <1>14 DEF PageStep, SendStop, SweepLate, ShowPausing, DeleteTask, HandleAgentSpawned,
                    HandleAgentTerminated, ClickPause, ClickDelete, Reload
<1>15. ASSUME NEW x \in Agents, AgentStep(x) \/ Crash(x) PROVE goal
  BY <1>2, <1>15 DEF AgentStep, SetUp, HandleStopRequested, HandleNews, Restart, Crash
<1>16. ASSUME NEW x \in Agents,
              SpawnStep(x) \/ FailSpawn(x) \/ (\E p \in Agents : AcceptSpawn(p, x))
       PROVE  goal
  BY <1>2, <1>16 DEF SpawnStep, StartChild, Announce, AwaitChild, TellParent, FailSpawn, AcceptSpawn
<1>17. CASE DismissalStep \/ RollBackCosts \/ (\E p, x \in Agents : BeginDismissal(p, x))
  BY <1>2, <1>17 DEF DismissalStep, RollBackCosts, BeginDismissal, MarkSubtree, Flags, AbsorbCosts,
                    FlagAgent, ScanChildren, FindNext, StopFound, TellDismisser
<1>18. CASE UNCHANGED vars
  BY <1>2, <1>18 DEF vars
<1> HIDE DEF goal
<1> QED
  BY <1>7, <1>8, <1>9, <1>10, <1>11, <1>12, <1>13, <1>14, <1>15, <1>16, <1>17, <1>18, NextCases
     DEF RestoreStep

\* The statuses that the program writes.
LEMMA StatusStep ==
    ASSUME TypeInv, [Next]_vars
    PROVE  /\ task' \in Statuses \ {"completed"} /\ shown' \in Statuses
           /\ row' \in [Agents -> {"none", "running", "stopped"}]
           /\ listed' \in [Agents -> {"unknown", "running", "terminated"}]
<1> USE DEF Statuses
<1> DEFINE Rows == [Agents -> {"none", "running", "stopped"}]
           Lists == [Agents -> {"unknown", "running", "terminated"}]
           goal == /\ task' \in Statuses \ {"completed"} /\ shown' \in Statuses
                   /\ row' \in Rows /\ listed' \in Lists
<1> SUFFICES goal
  OBVIOUS
<1>1. task \in Statuses \ {"completed"} /\ shown \in Statuses /\ row \in Rows /\ listed \in Lists
      /\ inbox \in Seq(Notices)
  BY DEF TypeInv, PageType
<1>2. ASSUME NEW S PROVE Stopped(S) \in Rows
  BY <1>1 DEF Stopped
<1>3. ASSUME NEW x \in Agents PROVE [row EXCEPT ![x] = "none"] \in Rows /\ PersistAgent(x) \in Rows
  BY <1>1 DEF PersistAgent
<1>4. ASSUME UNCHANGED <<task, shown, row, listed>> PROVE goal
  BY <1>1, <1>4
<1>5. ASSUME NEW x \in Agents, AgentStep(x) \/ Crash(x) PROVE goal
  BY <1>1, <1>3, <1>4, <1>5
     DEF AgentStep, SetUp, HandleStopRequested, HandleNews, Restart, Crash, dashVars, dbVars
<1>6. ASSUME NEW x \in Agents,
             SpawnStep(x) \/ FailSpawn(x) \/ (\E p \in Agents : AcceptSpawn(p, x))
      PROVE  goal
  BY <1>4, <1>6 DEF SpawnStep, StartChild, Announce, AwaitChild, TellParent, FailSpawn, AcceptSpawn,
                    dashVars, dbVars
<1>7. CASE \/ MarkSubtree \/ AbsorbCosts \/ FlagAgent \/ ScanChildren \/ TellDismisser
           \/ RollBackCosts \/ (\E p, x \in Agents : BeginDismissal(p, x))
  BY <1>4, <1>7 DEF MarkSubtree, Flags, AbsorbCosts, FlagAgent, ScanChildren, TellDismisser,
                    RollBackCosts, BeginDismissal, dashVars, dbVars
<1>8. CASE FindNext
  <2>1. Last(dismissal.order) \in Agents
    BY <1>8 DEF FindNext, TypeInv, DismissalType, Last
  <2>2. row' \in Rows
    BY <1>1, <1>3, <1>8, <2>1 DEF FindNext
  <2> QED
    BY <1>1, <1>8, <2>2 DEF FindNext, dashVars
<1>9. CASE StopFound
  <2>1. dismissal.target[1] \in Agents
    BY <1>9 DEF StopFound, TypeInv, DismissalType, ProcPids
  <2>2. row' \in Rows
    BY <1>1, <1>3, <1>9, <2>1 DEF StopFound
  <2> QED
    BY <1>1, <1>9, <2>2 DEF StopFound
<1>10. CASE SendStop \/ SweepLate
  BY <1>1, <1>4, <1>10 DEF SendStop, SweepLate, dbVars
<1>11. CASE ShowPausing \/ DeleteTask
  BY <1>1, <1>11 DEF ShowPausing, DeleteTask, dbVars
<1>12. CASE HandleAgentSpawned \/ HandleAgentTerminated
  <2>1. Head(inbox).id \in Agents
    <3>1. inbox # <<>>
      BY <1>12 DEF HandleAgentSpawned, HandleAgentTerminated
    <3>2. Head(inbox) \in Notices
      BY <1>1, <3>1
    <3> QED
      BY <3>2 DEF Notices
  <2>2. CASE HandleAgentSpawned
    BY <1>1, <2>1, <2>2 DEF HandleAgentSpawned, dbVars
  <2>3. CASE HandleAgentTerminated
    <3>1. listed' = [listed EXCEPT ![Head(inbox).id] =
                        IF @ = "unknown" THEN @ ELSE "terminated"] /\ row' = row
      BY <2>3 DEF HandleAgentTerminated
    <3>2. listed' \in Lists
      BY <1>1, <2>1, <3>1
    <3>3. task' \in Statuses \ {"completed"} /\ shown' \in Statuses
      BY <1>1, <2>3 DEF HandleAgentTerminated, SetTask
    <3> QED
      BY <1>1, <3>1, <3>2, <3>3
  <2> QED
    BY <1>12, <2>2, <2>3
<1>13. CASE ClickPause \/ ClickDelete
  BY <1>1, <1>13 DEF ClickPause, ClickDelete, BeginStops, SetTask
<1>14. CASE ClickResume
  BY <1>4, <1>14 DEF ClickResume, dbVars
<1>15. CASE Reload
  BY <1>1, <1>15 DEF Reload, Registered
<1>16. CASE SkipAgent \/ RestoreAgent \/ FailToRestore
  BY <1>4, <1>16 DEF SkipAgent, RestoreAgent, FailToRestore, dashVars, dbVars
<1>17. CASE GiveUp
  BY <1>1, <1>17 DEF GiveUp, EndRestore, dbVars
<1>18. CASE RebuildChildren
  BY <1>1, <1>2, <1>18 DEF RebuildChildren
<1>19. CASE SweepOrphans
  BY <1>1, <1>2, <1>19 DEF SweepOrphans, EndRestore, SetTask
<1>20. CASE NodeCrash
  BY <1>1, <1>20 DEF NodeCrash
<1>21. CASE UNCHANGED vars
  BY <1>4, <1>21 DEF vars, dashVars, dbVars
<1> QED
  BY <1>5, <1>6, <1>7, <1>8, <1>9, <1>10, <1>11, <1>12, <1>13, <1>14, <1>15, <1>16, <1>17, <1>18,
     <1>19, <1>20, <1>21, NextCases DEF DismissalStep, PageStep, RestoreStep

\* The events that reach the page.
LEMMA InboxStep ==
    ASSUME TypeInv, [Next]_vars
    PROVE  inbox' \in Seq(Notices)
<1>1. inbox \in Seq(Notices) /\ ProcType /\ Live \subseteq Agents
  BY LiveAreAgents DEF TypeInv, PageType, ProcType
<1>2. ASSUME UNCHANGED inbox PROVE inbox' \in Seq(Notices)
  BY <1>1, <1>2
<1>3. ASSUME NEW S, S \subseteq Agents, NEW e \in Seq(Notices), e = Events("terminated", S),
             inbox' = inbox \o e
      PROVE  inbox' \in Seq(Notices)
  BY <1>1, <1>3
<1>4. \A S \in SUBSET Agents : Events("terminated", S) \in Seq(Notices)
  BY EventsAreNotices
<1>5. \A x \in Agents : Msg("spawned", x) \in Notices
  BY DEF Msg, Notices
<1>6. ASSUME NEW x \in Agents, AgentStep(x) \/ Crash(x) PROVE inbox' \in Seq(Notices)
  <2>1. CASE SetUp(x) \/ HandleNews(x)
    BY <1>2, <2>1 DEF SetUp, HandleNews, dashVars
  <2>2. CASE HandleStopRequested(x) \/ Crash(x)
    <3>1. inbox' = inbox \o Events("terminated", {x})
      BY <2>2 DEF HandleStopRequested, Crash
    <3> QED
      BY <1>1, <1>4, <3>1
  <2>3. CASE Restart(x)
    <3>1. Announced(x, config[x]) \in Seq(Notices)
      BY <1>5 DEF Announced
    <3> QED
      BY <1>1, <2>3, <3>1 DEF Restart
  <2> QED
    BY <1>6, <2>1, <2>2, <2>3 DEF AgentStep
<1>7. ASSUME NEW x \in Agents,
             SpawnStep(x) \/ FailSpawn(x) \/ (\E p \in Agents : AcceptSpawn(p, x))
      PROVE  inbox' \in Seq(Notices)
  <2>1. CASE Announce(x)
    BY <1>1, <1>5, <2>1 DEF Announce
  <2>2. CASE ~Announce(x)
    BY <1>2, <1>7, <2>2 DEF SpawnStep, StartChild, AwaitChild, TellParent, FailSpawn, AcceptSpawn,
                            dashVars
  <2> QED
    BY <2>1, <2>2
<1>8. CASE DismissalStep \/ RollBackCosts \/ (\E p, x \in Agents : BeginDismissal(p, x))
  <2>1. CASE StopFound
    <3>1. dismissal.target[1] \in Agents
      BY <2>1 DEF StopFound, TypeInv, DismissalType, ProcPids
    <3>2. inbox' = inbox \/ inbox' = inbox \o Events("terminated", {dismissal.target[1]})
      BY <2>1 DEF StopFound
    <3>3. Events("terminated", {dismissal.target[1]}) \in Seq(Notices)
      BY <1>4, <3>1
    <3> DEFINE e == Events("terminated", {dismissal.target[1]})
    <3> HIDE DEF e
    <3>4. e \in Seq(Notices) /\ (inbox' = inbox \/ inbox' = inbox \o e)
      BY <3>2, <3>3 DEF e
    <3>5. inbox \o e \in Seq(Notices)
      BY <1>1, <3>4
    <3> QED
      BY <1>1, <3>4, <3>5
  <2>2. CASE ~StopFound
    BY <1>2, <1>8, <2>2 DEF DismissalStep, RollBackCosts, BeginDismissal, MarkSubtree, Flags,
                            AbsorbCosts, FlagAgent, ScanChildren, FindNext, TellDismisser, dashVars
  <2> QED
    BY <2>1, <2>2
<1>9. CASE HandleAgentSpawned \/ HandleAgentTerminated \/ Reload
  <2>1. inbox' = <<>> \/ (inbox # <<>> /\ inbox' = Tail(inbox))
    BY <1>9 DEF HandleAgentSpawned, HandleAgentTerminated, Reload
  <2>2. inbox # <<>> => Tail(inbox) \in Seq(Notices)
    BY <1>1
  <2>3. <<>> \in Seq(Notices)
    OBVIOUS
  <2> QED
    BY <2>1, <2>2, <2>3
<1>10. CASE SendStop \/ SweepLate \/ ShowPausing \/ DeleteTask \/ ClickPause \/ ClickResume
            \/ ClickDelete
  BY <1>2, <1>10 DEF SendStop, SweepLate, ShowPausing, DeleteTask, ClickPause, ClickResume,
                     ClickDelete
<1>11. CASE SkipAgent \/ GiveUp \/ FailToRestore
  BY <1>2, <1>11 DEF SkipAgent, GiveUp, FailToRestore, dashVars
<1>12. CASE RestoreAgent
  <2> DEFINE x == Head(restore.todo)
             e == Events("terminated", {x} \cap Live)
  <2>1. x \in Agents
    BY <1>12, RestoreProc
  <2>2. e \in Seq(Notices) /\ <<Msg("spawned", x)>> \in Seq(Notices)
    BY <1>1, <1>4, <1>5, <2>1
  <2>3. inbox' = inbox \o e \o <<Msg("spawned", x)>>
    BY <1>12 DEF RestoreAgent
  <2> HIDE DEF e, x
  <2> QED
    BY <1>1, <2>2, <2>3
<1>13. CASE RebuildChildren
  <2>1. PICK gone : gone \subseteq Live /\ inbox' = inbox \o Events("terminated", gone)
    BY <1>13, RebuildProc
  <2> QED
    BY <1>1, <1>4, <2>1
<1>14. CASE SweepOrphans
  <2>1. Orphans \subseteq Agents /\ inbox' = inbox \o Events("terminated", Orphans)
    BY <1>1, <1>14 DEF SweepOrphans, Orphans
  <2> QED
    BY <1>1, <1>4, <2>1
<1>15. CASE NodeCrash
  BY <1>15 DEF NodeCrash
<1>16. CASE UNCHANGED vars
  BY <1>2, <1>16 DEF vars, dashVars
<1> QED
  BY <1>6, <1>7, <1>8, <1>9, <1>10, <1>11, <1>12, <1>13, <1>14, <1>15, <1>16, NextCases
     DEF PageStep, RestoreStep

LEMMA PageTypeStep ==
    ASSUME TypeInv, [Next]_vars
    PROVE  PageType'
  BY StatusStep, InboxStep DEF PageType

-----------------------------------------------------------------------------
(* Which processes come and go *)

\* The processes of a step: some end, or one starts.
Ends == inc' = inc /\ Live' \subseteq Live /\ restarting' \subseteq restarting \cup (Live \ Live')

Starts(x) ==
    /\ inc' = [inc EXCEPT ![x] = @ + 1] /\ Live' = Live \cup {x} /\ restarting' \subseteq restarting
    /\ Restart(x) \/ StartChild(x) \/ (RestoreAgent /\ x = Head(restore.todo))

LEMMA ExitEnds ==
    ASSUME ProcType, NEW S, S \subseteq Live, Exit(S), inc' = inc,
           restarting' \subseteq restarting \cup S
    PROVE  Ends /\ Live' = Live \ S
<1>1. Live' = Live \ S
  BY ExitRegistry
<1> QED
  BY <1>1 DEF Ends

LEMMA SameEnds ==
    ASSUME UNCHANGED <<registry, inc, restarting>>
    PROVE  Ends /\ Live' = Live
  BY DEF Ends, Live

LEMMA LiveStep ==
    ASSUME TypeInv, [Next]_vars
    PROVE  Ends \/ \E x \in Agents : Starts(x)
<1> DEFINE goal == Ends \/ \E x \in Agents : Starts(x)
<1> SUFFICES goal
  OBVIOUS
<1>1. ProcType /\ UnstartedInv /\ ready \subseteq Live
  BY DEF TypeInv, ProcType
<1>2. ASSUME UNCHANGED <<registry, inc, restarting>> PROVE goal
  BY <1>2, SameEnds
<1>3. ASSUME NEW x \in Agents, NEW c, Start(x, c), restarting' \subseteq restarting,
             Restart(x) \/ StartChild(x)
      PROVE  goal
  <2>1. registry' = Append(registry, x) /\ inc' = [inc EXCEPT ![x] = @ + 1]
    BY <1>3 DEF Start
  <2>2. x \notin Live
    BY <1>1, <1>3 DEF Restart, StartChild, UnstartedInv, ProcType
  <2>3. Live' = Live \cup {x}
    BY <1>1, <2>1, <2>2, AppendRegistry DEF ProcType, Live
  <2>4. Starts(x)
    BY <1>3, <2>1, <2>3 DEF Starts
  <2> QED
    BY <2>4
<1>4. ASSUME NEW x \in Agents, AgentStep(x) \/ Crash(x) PROVE goal
  <2>1. CASE SetUp(x) \/ HandleNews(x)
    BY <1>2, <2>1 DEF SetUp, HandleNews
  <2>2. CASE HandleStopRequested(x) \/ Crash(x)
    <3>1. {x} \subseteq Live /\ Exit({x}) /\ inc' = inc /\ restarting' \subseteq restarting \cup {x}
      BY <1>1, <2>2 DEF HandleStopRequested, Crash
    <3> QED
      BY <1>1, <3>1, ExitEnds
  <2>3. CASE Restart(x)
    BY <1>3, <2>3 DEF Restart
  <2> QED
    BY <1>4, <2>1, <2>2, <2>3 DEF AgentStep
<1>5. ASSUME NEW x \in Agents,
             SpawnStep(x) \/ FailSpawn(x) \/ (\E p \in Agents : AcceptSpawn(p, x))
      PROVE  goal
  <2>1. CASE StartChild(x)
    BY <1>3, <2>1 DEF StartChild
  <2>2. CASE ~StartChild(x)
    BY <1>2, <1>5, <2>2 DEF SpawnStep, Announce, AwaitChild, TellParent, FailSpawn, AcceptSpawn,
                            procVars
  <2> QED
    BY <2>1, <2>2
<1>6. CASE DismissalStep \/ RollBackCosts \/ (\E p, x \in Agents : BeginDismissal(p, x))
  <2>1. CASE StopFound
    <3> DEFINE x == dismissal.target[1]
    <3>1. CASE IsAlive(dismissal.target) /\ Exit({x})
      <4>1. {x} \subseteq Live /\ inc' = inc /\ restarting' \subseteq restarting \cup {x}
        BY <2>1, <3>1 DEF IsAlive, StopFound
      <4> QED
        BY <1>1, <3>1, <4>1, ExitEnds
    <3>2. CASE UNCHANGED registry
      BY <1>2, <2>1, <3>2 DEF StopFound
    <3> QED
      BY <2>1, <3>1, <3>2 DEF StopFound
  <2>2. CASE ~StopFound
    BY <1>2, <1>6, <2>2 DEF DismissalStep, RollBackCosts, BeginDismissal, MarkSubtree, Flags,
                            AbsorbCosts, FlagAgent, ScanChildren, FindNext, TellDismisser, procVars
  <2> QED
    BY <2>1, <2>2
<1>7. ASSUME NEW S, S \subseteq Live, StopOrKill(S), inc' = inc PROVE goal
  <2>1. CASE job.kill
    <3>1. Exit(S) /\ restarting' \subseteq restarting \cup S
      BY <1>7, <2>1 DEF StopOrKill
    <3> QED
      BY <1>1, <1>7, <3>1, ExitEnds
  <2>2. CASE ~job.kill
    BY <1>2, <1>7, <2>2 DEF StopOrKill
  <2> QED
    BY <2>1, <2>2
<1>8. CASE SendStop
  <2>1. PICK S : S \subseteq Live /\ StopOrKill(S) /\ inc' = inc
    BY <1>8 DEF SendStop, IsAlive
  <2> QED
    BY <1>7, <2>1
<1>9. CASE SweepLate
  BY <1>7, <1>9 DEF SweepLate, LateRegistrations
<1>10. CASE \/ ShowPausing \/ DeleteTask \/ HandleAgentSpawned \/ HandleAgentTerminated
            \/ ClickPause \/ ClickResume \/ ClickDelete \/ Reload
  BY <1>2, <1>10 DEF ShowPausing, DeleteTask, HandleAgentSpawned, HandleAgentTerminated, ClickPause,
                     ClickResume, ClickDelete, Reload, procVars
<1>11. CASE SkipAgent \/ GiveUp \/ FailToRestore
  BY <1>2, <1>11 DEF SkipAgent, GiveUp, FailToRestore, procVars
<1>12. CASE RestoreAgent
  <2>1. /\ Head(restore.todo) \in Agents /\ inc' = [inc EXCEPT ![Head(restore.todo)] = @ + 1]
        /\ Live' = Live \cup {Head(restore.todo)} /\ restarting' \subseteq restarting
    BY <1>12, RestoreProc DEF RestoreAgent
  <2>2. Starts(Head(restore.todo))
    BY <1>12, <2>1 DEF Starts
  <2> QED
    BY <2>1, <2>2
<1>13. CASE RebuildChildren
  <2>1. PICK gone : gone \subseteq Live /\ Exit(gone)
    BY <1>13, RebuildProc
  <2>2. inc' = inc /\ restarting' \subseteq restarting \cup gone
    BY <1>13 DEF RebuildChildren
  <2> QED
    BY <1>1, <2>1, <2>2, ExitEnds
<1>14. CASE SweepOrphans
  BY <1>1, <1>14, ExitEnds DEF SweepOrphans, Orphans
<1>15. CASE NodeCrash
  <2>1. Live \subseteq Live /\ Exit(Live) /\ inc' = inc /\ restarting' \subseteq restarting \cup Live
    BY <1>15 DEF NodeCrash
  <2> QED
    BY <1>1, <2>1, ExitEnds
<1>16. CASE UNCHANGED vars
  BY <1>2, <1>16 DEF vars, procVars
<1> QED
  BY <1>4, <1>5, <1>6, <1>8, <1>9, <1>10, <1>11, <1>12, <1>13, <1>14, <1>15, <1>16, NextCases
     DEF PageStep, RestoreStep

\* A row is inserted by its agent, and by nobody else.
LEMMA RowStep ==
    ASSUME TypeInv, [Next]_vars
    PROVE  \/ \E x \in Agents : SetUp(x) /\ row' = PersistAgent(x)
           \/ \A x \in Agents : row[x] = "none" => row'[x] = "none"
<1> DEFINE goal == \/ \E x \in Agents : SetUp(x) /\ row' = PersistAgent(x)
                   \/ \A x \in Agents : row[x] = "none" => row'[x] = "none"
<1> SUFFICES goal
  OBVIOUS
<1>1. row \in [Agents -> {"none", "running", "stopped"}]
  BY DEF TypeInv, PageType
<1>2. ASSUME row' = row PROVE goal
  BY <1>2
<1>3. ASSUME NEW S, row' = Stopped(S) PROVE goal
  BY <1>1, <1>3 DEF Stopped
<1>4. ASSUME NEW x, row' = [row EXCEPT ![x] = "none"] PROVE goal
  BY <1>1, <1>4
<1>5. ASSUME NEW x \in Agents, AgentStep(x) \/ Crash(x) PROVE goal
  BY <1>2, <1>5 DEF AgentStep, SetUp, HandleStopRequested, HandleNews, Restart, Crash, dbVars
<1>6. ASSUME NEW x \in Agents,
             SpawnStep(x) \/ FailSpawn(x) \/ (\E p \in Agents : AcceptSpawn(p, x))
      PROVE  goal
  BY <1>2, <1>6 DEF SpawnStep, StartChild, Announce, AwaitChild, TellParent, FailSpawn, AcceptSpawn,
                    dbVars
<1>7. CASE DismissalStep \/ RollBackCosts \/ (\E p, x \in Agents : BeginDismissal(p, x))
  BY <1>2, <1>4, <1>7 DEF DismissalStep, RollBackCosts, BeginDismissal, MarkSubtree, Flags,
                          AbsorbCosts, FlagAgent, ScanChildren, FindNext, StopFound, TellDismisser,
                          dbVars
<1>8. CASE PageStep \/ ClickPause \/ ClickResume \/ ClickDelete \/ Reload
  BY <1>2, <1>8 DEF PageStep, SendStop, SweepLate, ShowPausing, DeleteTask, HandleAgentSpawned,
                    HandleAgentTerminated, ClickPause, ClickResume, ClickDelete, Reload, dbVars
<1>9. CASE RestoreStep \/ FailToRestore \/ NodeCrash
  BY <1>2, <1>3, <1>9 DEF RestoreStep, SkipAgent, RestoreAgent, GiveUp, RebuildChildren,
                          SweepOrphans, FailToRestore, NodeCrash, dbVars
<1>10. CASE UNCHANGED vars
  BY <1>2, <1>10 DEF vars, dbVars
<1> QED
  BY <1>5, <1>6, <1>7, <1>8, <1>9, <1>10, NextCases

\* How a step moves the spawns on.
LEMMA StageStep ==
    ASSUME TypeInv, [Next]_vars
    PROVE  \/ \E p, x \in Agents : AcceptSpawn(p, x)
           \/ /\ UNCHANGED <<parent, spawner>>
              /\ \A x \in Agents :
                    /\ stage'[x] = "unborn" <=> stage[x] = "unborn"
                    /\ stage'[x] = "start" => stage[x] = "start" /\ ~StartChild(x)
<1> DEFINE kept == /\ UNCHANGED <<parent, spawner>>
                   /\ \A x \in Agents :
                         /\ stage'[x] = "unborn" <=> stage[x] = "unborn"
                         /\ stage'[x] = "start" => stage[x] = "start" /\ ~StartChild(x)
           goal == (\E p, x \in Agents : AcceptSpawn(p, x)) \/ kept
<1> SUFFICES goal
  OBVIOUS
<1>1. stage \in [Agents -> {"unborn", "start", "announce", "wait", "tell", "done"}]
  BY DEF TypeInv, SpawnType
<1>2. ASSUME UNCHANGED spawnVars PROVE kept
  <2>1. \A x \in Agents : ~StartChild(x)
    BY <1>1, <1>2 DEF StartChild, spawnVars
  <2> QED
    BY <1>2, <2>1 DEF spawnVars
<1>3. ASSUME NEW x \in Agents, stage[x] \in {"start", "announce", "wait", "tell"},
             UNCHANGED <<parent, spawner>>,
             NEW v \in {"announce", "wait", "tell", "done"}, stage' = [stage EXCEPT ![x] = v]
      PROVE  kept
  <2>1. \A y \in Agents : stage'[y] = "start" => y # x /\ stage[y] = "start" /\ ~StartChild(y)
    BY <1>1, <1>3 DEF StartChild
  <2>2. \A y \in Agents : stage'[y] = "unborn" <=> stage[y] = "unborn"
    BY <1>1, <1>3
  <2> QED
    BY <1>3, <2>1, <2>2
<1>4. CASE NodeCrash
  <2>1. /\ stage' = [x \in Agents |-> IF stage[x] = "unborn" THEN "unborn" ELSE "done"]
        /\ UNCHANGED <<parent, spawner>>
    BY <1>4 DEF NodeCrash
  <2>2. \A x \in Agents : (stage'[x] = "unborn" <=> stage[x] = "unborn") /\ stage'[x] # "start"
    BY <2>1
  <2>3. kept
    BY <2>1, <2>2
  <2> QED
    BY <2>3
<1>5. ASSUME NEW x \in Agents, AgentStep(x) \/ Crash(x) PROVE kept
  BY <1>2, <1>5 DEF AgentStep, SetUp, HandleStopRequested, HandleNews, Restart, Crash
<1>6. ASSUME NEW x \in Agents, SpawnStep(x) \/ FailSpawn(x) PROVE kept
  <2>1. /\ stage[x] \in {"start", "announce", "wait", "tell"} /\ UNCHANGED <<parent, spawner>>
        /\ \E v \in {"announce", "wait", "tell", "done"} : stage' = [stage EXCEPT ![x] = v]
    BY <1>6 DEF SpawnStep, StartChild, Announce, AwaitChild, TellParent, FailSpawn
  <2> HIDE DEF kept
  <2> QED
    BY <1>3, <2>1
<1>7. ASSUME DismissalStep \/ RollBackCosts \/ (\E p, x \in Agents : BeginDismissal(p, x)) PROVE kept
  <2> HIDE DEF kept
  <2> QED
    BY <1>2, <1>7 DEF DismissalStep, RollBackCosts, BeginDismissal, MarkSubtree, Flags, AbsorbCosts,
                      FlagAgent, ScanChildren, FindNext, StopFound, TellDismisser
<1>8. ASSUME PageStep \/ ClickPause \/ ClickResume \/ ClickDelete \/ Reload PROVE kept
  <2> HIDE DEF kept
  <2> QED
    BY <1>2, <1>8 DEF PageStep, SendStop, SweepLate, ShowPausing, DeleteTask, HandleAgentSpawned,
                      HandleAgentTerminated, ClickPause, ClickResume, ClickDelete, Reload
<1>9. ASSUME RestoreStep \/ FailToRestore PROVE kept
  <2> HIDE DEF kept
  <2> QED
    BY <1>2, <1>9 DEF RestoreStep, SkipAgent, RestoreAgent, GiveUp, RebuildChildren, SweepOrphans,
                      FailToRestore
<1>10. ASSUME UNCHANGED vars PROVE kept
  <2> HIDE DEF kept
  <2> QED
    BY <1>2, <1>10 DEF vars
<1> HIDE DEF kept
<1> QED
  BY <1>4, <1>5, <1>6, <1>7, <1>8, <1>9, <1>10, NextCases

LEMMA UnstartedStep ==
    ASSUME TypeInv, [Next]_vars
    PROVE  UnstartedInv'
<1>1. /\ ProcType /\ UnstartedInv /\ inc \in [Agents -> Nat] /\ ready \subseteq Live
      /\ Live \subseteq Agents
  BY LiveAreAgents DEF TypeInv, ProcType
<1>2. \A x \in Agents : stage'[x] \in {"unborn", "start"} => inc'[x] = 0
  <2> SUFFICES ASSUME NEW x \in Agents, stage'[x] \in {"unborn", "start"} PROVE inc'[x] = 0
    OBVIOUS
  <2>1. stage[x] \in {"unborn", "start"} /\ ~StartChild(x)
    <3>1. ASSUME NEW p \in Agents, NEW y \in Agents, AcceptSpawn(p, y)
          PROVE  stage[x] \in {"unborn", "start"} /\ ~StartChild(x)
      <4>1. stage[y] = "unborn" /\ stage' = [stage EXCEPT ![y] = "start"]
        BY <3>1 DEF AcceptSpawn
      <4>2. stage \in [Agents -> {"unborn", "start", "announce", "wait", "tell", "done"}]
        BY DEF TypeInv, SpawnType
      <4>3. ~StartChild(x)
        BY <4>1, <4>2 DEF StartChild
      <4> QED
        BY <4>1, <4>2, <4>3
    <3>2. stage[x] = "unborn" => ~StartChild(x)
      BY DEF StartChild
    <3> QED
      BY <3>1, <3>2, StageStep
  <2>2. inc[x] = 0 /\ x \notin restarting /\ x \notin ToSet(restore.todo)
    BY <1>1, <2>1 DEF UnstartedInv
  <2>3. ASSUME NEW y \in Agents, Starts(y) PROVE y # x
    <3>1. RestoreAgent => Head(restore.todo) \in ToSet(restore.todo)
      BY DEF RestoreAgent, TypeInv, RestoreType, ToSet
    <3>2. ~Restart(x)
      BY <2>2 DEF Restart
    <3> QED
      BY <2>1, <2>2, <2>3, <3>1, <3>2 DEF Starts
  <2>4. ASSUME NEW y \in Agents, Starts(y) PROVE inc'[x] = 0
    BY <1>1, <2>2, <2>3, <2>4 DEF Starts
  <2> QED
    BY <2>2, <2>4, LiveStep DEF Ends
<1>3. ASSUME NEW x \in Agents, inc'[x] = 0
      PROVE  x \notin Live' \cup restarting' \cup ToSet(restore'.todo) /\ row'[x] = "none"
  <2>1. inc[x] = 0 /\ x \notin Live' /\ x \notin restarting'
    <3>1. ASSUME NEW y \in Agents, Starts(y) PROVE y # x /\ inc[x] = 0
      <4>1. inc' = [inc EXCEPT ![y] = @ + 1] /\ inc[y] + 1 # 0
        BY <1>1, <3>1 DEF Starts
      <4> QED
        BY <1>1, <1>3, <4>1
    <3>2. Ends => inc[x] = 0
      BY <1>3 DEF Ends
    <3>3. inc[x] = 0 => x \notin Live /\ x \notin restarting
      BY <1>1 DEF UnstartedInv
    <3> QED
      BY <3>1, <3>2, <3>3, LiveStep DEF Ends, Starts
  <2>2. x \notin Live /\ x \notin ToSet(restore.todo) /\ row[x] = "none"
    BY <1>1, <2>1 DEF UnstartedInv
  <2>3. x \notin ToSet(restore'.todo)
    BY <2>2, RestoreTypeStep
  <2>4. row'[x] = "none"
    <3>1. ASSUME NEW y \in Agents, SetUp(y), row' = PersistAgent(y) PROVE row'[x] = "none"
      <4>1. y # x
        BY <2>2, <3>1 DEF SetUp
      <4>2. row' = row \/ row' = [row EXCEPT ![y] = "running"]
        BY <3>1 DEF PersistAgent
      <4>3. row \in [Agents -> {"none", "running", "stopped"}]
        BY DEF TypeInv, PageType
      <4> QED
        BY <2>2, <4>1, <4>2, <4>3
    <3> QED
      BY <2>2, <3>1, RowStep
  <2> QED
    BY <2>1, <2>3, <2>4
<1>4. ASSUME NEW x \in Agents, stage'[x] = "unborn", NEW y \in Agents
      PROVE  parent'[y] # x /\ (x < y => stage'[y] = "unborn")
  <2>1. ASSUME NEW p \in Agents, NEW z \in Agents, AcceptSpawn(p, z)
        PROVE  parent'[y] # x /\ (x < y => stage'[y] = "unborn")
    <3>1. /\ p \in Live /\ stage[z] = "unborn" /\ \A w \in 1..z-1 : stage[w] # "unborn"
          /\ parent' = [parent EXCEPT ![z] = p] /\ stage' = [stage EXCEPT ![z] = "start"]
      BY <1>1, <2>1 DEF AcceptSpawn
    <3>2. /\ stage \in [Agents -> {"unborn", "start", "announce", "wait", "tell", "done"}]
          /\ parent \in [Agents -> 0..Size]
      BY DEF TypeInv, SpawnType
    <3>3. x # z /\ stage[x] = "unborn"
      BY <1>4, <3>1, <3>2
    <3>4. p # x
      BY <1>1, <3>1, <3>3 DEF UnstartedInv
    <3>5. parent'[y] # x
      BY <1>1, <3>1, <3>2, <3>3, <3>4 DEF UnstartedInv
    <3>6. ~(x < z)
      BY <3>1, <3>3 DEF Agents
    <3>7. x < y => y # z /\ stage[y] = "unborn"
      BY <1>1, <3>3, <3>6 DEF UnstartedInv
    <3> QED
      BY <3>1, <3>2, <3>5, <3>7
  <2>2. ASSUME UNCHANGED <<parent, spawner>>,
               \A z \in Agents : stage'[z] = "unborn" <=> stage[z] = "unborn"
        PROVE  parent'[y] # x /\ (x < y => stage'[y] = "unborn")
    BY <1>1, <1>4, <2>2 DEF UnstartedInv
  <2> QED
    BY <2>1, <2>2, StageStep
<1> QED
  BY <1>2, <1>3, <1>4 DEF UnstartedInv

LEMMA TypeInit == Init => TypeInv
<1> SUFFICES ASSUME Init PROVE TypeInv
  OBVIOUS
<1>1. /\ registry = [x \in 1..Initial |-> x] /\ inc = [x \in Agents |-> IF x <= Initial THEN 1 ELSE 0]
      /\ ready = 1..Initial
      /\ parent = [x \in Agents |-> IF x <= Initial THEN x - 1 ELSE None]
      /\ spawner = [x \in Agents |-> IF x \in 2..Initial THEN 1 ELSE 0]
      /\ config = [x \in Agents |-> [parent |-> <<parent[x], spawner[x]>>, restored |-> FALSE]]
      /\ stage = [x \in Agents |-> IF x <= Initial THEN "done" ELSE "unborn"]
      /\ children = [x \in Agents |-> IF x < Initial THEN <<x + 1>> ELSE <<>>]
      /\ task = "running" /\ row = [x \in Agents |-> IF x <= Initial THEN "running" ELSE "none"]
      /\ shown = "running"
      /\ listed = [x \in Agents |-> IF x <= Initial THEN "running" ELSE "unknown"] /\ inbox = <<>>
      /\ dismissing = {} /\ restarting = {} /\ mail = [x \in Agents |-> <<>>]
      /\ dismissal = Idle /\ job = NoJob /\ restore = NoRestore
  BY DEF Init
<1>2. Initial \in Nat /\ Initial \in 1..Size /\ 1..Initial \subseteq Agents
  BY DEF Agents
<1>3. /\ registry \in Seq(Agents) /\ Distinct(registry) /\ Live = 1..Initial
  <2>1. DOMAIN registry = 1..Initial /\ \A i \in 1..Initial : registry[i] = i /\ i \in Agents
    BY <1>1, <1>2
  <2>2. registry \in Seq(Agents)
    BY <1>1, <1>2, <2>1
  <2>3. Live = 1..Initial
    BY <2>1 DEF Live, ToSet
  <2> QED
    BY <2>1, <2>2, <2>3 DEF Distinct
<1>4. SpawnType
  <2>1. \A x \in Agents : x \in 1..Size
    BY DEF Agents
  <2> QED
    BY <1>1, <1>2, <2>1 DEF SpawnType, None
<1>5. ProcType
  <2>1. inc \in [Agents -> Nat]
    BY <1>1
  <2>2. config \in [Agents -> [parent : Pids, restored : BOOLEAN]]
    <3>1. \A x \in Agents : <<parent[x], spawner[x]>> \in Pids
      BY <1>4 DEF SpawnType, Pids
    <3> QED
      BY <1>1, <3>1
  <2>3. children \in [Agents -> Seq(Agents)]
    <3>1. \A x \in Agents : x < Initial => x + 1 \in Agents
      BY <1>2 DEF Agents
    <3>2. \A x \in Agents : x < Initial => <<x + 1>> \in Seq(Agents)
      BY <3>1
    <3> QED
      BY <1>1, <3>2
  <2>4. mail \in Boxes
    BY <1>1 DEF Boxes
  <2>5. \A x \in Agents \ Live : children[x] = <<>> /\ mail[x] = <<>>
    BY <1>1, <1>2, <1>3 DEF Agents
  <2> QED
    BY <1>1, <1>3, <2>1, <2>2, <2>3, <2>4, <2>5 DEF ProcType
<1>6. PageType
  BY <1>1 DEF PageType, Statuses
<1>7. JobType
  <2>1. <<>> \in Seq(ProcPids)
    OBVIOUS
  <2> QED
    BY <1>1, <2>1 DEF JobType, NoJob
<1>8. DismissalType
  <2>1. NoPid \in Pids /\ None \in 0..Size
    BY DEF NoPid, Pids, None
  <2> QED
    BY <1>1, <2>1 DEF DismissalType, Idle
<1>9. RestoreType
  BY <1>1 DEF RestoreType, NoRestore
<1>10. UnstartedInv
  <2>1. restore.todo = <<>> /\ ToSet(restore.todo) = {}
    BY <1>1 DEF NoRestore, ToSet
  <2>2. \A x \in Agents : (stage[x] \in {"unborn", "start"} \/ inc[x] = 0) => ~(x <= Initial)
    BY <1>1
  <2>3. \A x \in Agents : ~(x <= Initial) =>
            /\ inc[x] = 0 /\ x \notin Live /\ row[x] = "none" /\ stage[x] = "unborn"
    BY <1>1, <1>3
  <2>4. \A x, y \in Agents : ~(x <= Initial) => parent[y] # x /\ (x < y => ~(y <= Initial))
    BY <1>1, <1>2 DEF Agents, None
  <2>5. restarting = {}
    BY <1>1
  <2> QED
    BY <2>1, <2>2, <2>3, <2>4, <2>5 DEF UnstartedInv
<1> QED
  BY <1>4, <1>5, <1>6, <1>7, <1>8, <1>9, <1>10 DEF TypeInv

\* Each variable also agrees with the others it depends on: a spawn under way names an agent
\* that has not started, a dismissal or a restoration holds only agents it has found.
THEOREM TypesInvariant == Spec => []TypeInv
<1>1. TypeInv /\ [Next]_vars => TypeInv'
  BY ProcTypeStep, SpawnTypeStep, PageTypeStep, JobTypeStep, DismissalTypeStep, RestoreTypeStep,
     UnstartedStep DEF TypeInv
<1> QED
  BY <1>1, TypeInit, PTL DEF Spec

\* Every variable holds what the code puts there, and a dead process leaves nothing behind.
THEOREM TypesAreKept == Spec => []TypeOK
<1>1. TypeInv => TypeOK
  <2> SUFFICES ASSUME TypeInv PROVE TypeOK
    OBVIOUS
  <2>1. registry \in Seq(Agents) /\ Distinct(registry) /\ Live \subseteq Agents
    BY LiveAreAgents DEF TypeInv, ProcType
  <2>2. Len(registry) = Cardinality(Live)
    <3>1. DOMAIN registry = 1..Len(registry) /\ Len(registry) \in Nat
      BY <2>1
    <3>2. registry \in Bijection(1..Len(registry), Live)
      <4>1. registry \in [1..Len(registry) -> Live]
        BY <2>1, <3>1 DEF Live, ToSet
      <4>2. registry \in Injection(1..Len(registry), Live)
        BY <2>1, <3>1, <4>1 DEF Injection, IsInjective, Distinct
      <4>3. registry \in Surjection(1..Len(registry), Live)
        BY <3>1, <4>1 DEF Surjection, Live, ToSet
      <4> QED
        BY <4>2, <4>3 DEF Bijection
    <3>3. IsFiniteSet(1..Len(registry)) /\ Cardinality(1..Len(registry)) = Len(registry)
      <4>1. /\ IsFiniteSet(1..Len(registry))
            /\ Cardinality(1..Len(registry)) =
                   IF 1 > Len(registry) THEN 0 ELSE Len(registry) - 1 + 1
        BY <3>1, FS_Interval
      <4> QED
        BY <3>1, <4>1
    <3>4. ExistsBijection(1..Len(registry), Live)
      BY <3>2 DEF ExistsBijection
    <3> QED
      BY <3>3, <3>4, FS_Bijection
  <2> QED
    BY <2>1, <2>2 DEF TypeInv, TypeOK, ProcType, SpawnType, PageType, Boxes
<1> QED
  BY <1>1, TypesInvariant, PTL

-----------------------------------------------------------------------------
(* Ancestors, the mailboxes and the history from one state to the next *)

\* The facts about ancestors, in the next state.
LEMMA AncestorsNext ==
    SpawnType' =>
        (/\ \A x \in Agents : x \in Ancestors[x] /\ Ancestors[x] \subseteq Agents
         /\ \A x \in Agents : parent[x] # None =>
               parent[x] \in Agents /\ Ancestors[x] = {x} \cup Ancestors[parent[x]]
         /\ \A x \in Agents : parent[x] = None => Ancestors[x] = {x})'
<1>1. SpawnType =>
        /\ \A x \in Agents : x \in Ancestors[x] /\ Ancestors[x] \subseteq Agents
        /\ \A x \in Agents : parent[x] # None =>
              parent[x] \in Agents /\ Ancestors[x] = {x} \cup Ancestors[parent[x]]
        /\ \A x \in Agents : parent[x] = None => Ancestors[x] = {x}
  BY AncestorsAreAgents
<1> QED
  BY <1>1, PTL

\* The parent of an agent is fixed when it is asked for.
LEMMA ParentStep ==
    ASSUME TypeInv, [Next]_vars
    PROVE  \A x \in Agents : stage[x] # "unborn" => parent'[x] = parent[x]
<1>1. SpawnType
  BY DEF TypeInv
<1>2. ASSUME NEW p \in Agents, NEW y \in Agents, AcceptSpawn(p, y)
      PROVE  \A x \in Agents : stage[x] # "unborn" => parent'[x] = parent[x]
  BY <1>1, <1>2 DEF AcceptSpawn, SpawnType
<1> QED
  BY <1>2, StageStep

\* Nobody's ancestors change once it has been asked for.
LEMMA AncestorsStep ==
    ASSUME TypeInv, [Next]_vars
    PROVE  \A x \in Agents : stage[x] # "unborn" => (Ancestors[x])' = Ancestors[x]
<1>1. SpawnType /\ SpawnType' /\ UnstartedInv
  BY SpawnTypeStep DEF TypeInv
<1>2. /\ \A x \in Agents : parent[x] # None =>
            parent[x] \in Agents /\ Ancestors[x] = {x} \cup Ancestors[parent[x]]
      /\ \A x \in Agents : parent[x] = None => Ancestors[x] = {x}
  BY <1>1, AncestorsAreAgents
<1>3. /\ \A x \in Agents : parent'[x] # None =>
            parent'[x] \in Agents /\ Ancestors'[x] = {x} \cup Ancestors'[parent'[x]]
      /\ \A x \in Agents : parent'[x] = None => Ancestors'[x] = {x}
  BY <1>1, AncestorsNext
<1>4. \A x \in Agents : stage[x] # "unborn" => parent'[x] = parent[x]
  BY ParentStep
<1>5. \A x \in Agents : parent[x] # None => parent[x] < x /\ stage[parent[x]] # "unborn"
  BY <1>1, <1>2 DEF SpawnType, UnstartedInv
<1> DEFINE A == Ancestors
           T == {n \in Nat : \A x \in 1..n :
                    x \in Agents /\ stage[x] # "unborn" => Ancestors'[x] = Ancestors[x]}
<1>6. 0 \in T
  OBVIOUS
<1>7. ASSUME NEW n \in T PROVE n + 1 \in T
  <2> SUFFICES ASSUME NEW x \in 1..n+1, x \in Agents, stage[x] # "unborn"
               PROVE  Ancestors'[x] = Ancestors[x]
    OBVIOUS
  <2>1. CASE parent[x] = None
    BY <1>2, <1>3, <1>4, <2>1
  <2>2. CASE parent[x] # None
    <3>1. parent[x] \in Agents /\ parent[x] \in 1..n /\ stage[parent[x]] # "unborn"
      BY <1>2, <1>5, <2>2 DEF Agents
    <3>2. Ancestors'[parent[x]] = Ancestors[parent[x]]
      BY <3>1
    <3>3. parent'[x] = parent[x]
      BY <1>4
    <3>4. Ancestors[x] = {x} \cup Ancestors[parent[x]]
      BY <1>2, <2>2
    <3>5. Ancestors'[x] = {x} \cup Ancestors'[parent'[x]]
      BY <1>3, <2>2, <3>3
    <3>6. Ancestors'[x] = {x} \cup Ancestors'[parent[x]]
      BY <3>3, <3>5
    <3> QED
      BY <3>2, <3>4, <3>6
  <2> QED
    BY <2>1, <2>2
<1>8. T = Nat
  <2> HIDE DEF T
  <2>1. T \in SUBSET Nat
    BY DEF T
  <2> QED
    BY <1>6, <1>7, <2>1, NaturalSet
<1>9. ASSUME NEW x \in Agents, stage[x] # "unborn" PROVE Ancestors'[x] = Ancestors[x]
  <2>1. x \in T /\ x \in 1..x
    BY <1>8 DEF Agents
  <2> QED
    BY <1>9, <2>1
<1> QED
  BY <1>9

\* History is never rewritten.
LEMMA HistoryStep ==
    ASSUME [Next]_vars
    PROVE  /\ late \subseteq late' /\ crashed \subseteq crashed'
           /\ missed \subseteq missed' /\ dismissed \subseteq dismissed'
<1> DEFINE goal == /\ late \subseteq late' /\ crashed \subseteq crashed'
                   /\ missed \subseteq missed' /\ dismissed \subseteq dismissed'
<1> SUFFICES goal
  OBVIOUS
<1>1. ASSUME UNCHANGED history PROVE goal
  BY <1>1 DEF history
<1>2. ASSUME NEW x \in Agents, AgentStep(x) \/ Crash(x) PROVE goal
  BY <1>1, <1>2 DEF AgentStep, SetUp, HandleStopRequested, HandleNews, Restart, Crash
<1>3. ASSUME NEW x \in Agents,
             SpawnStep(x) \/ FailSpawn(x) \/ (\E p \in Agents : AcceptSpawn(p, x))
      PROVE  goal
  BY <1>1, <1>3 DEF SpawnStep, StartChild, Announce, AwaitChild, TellParent, FailSpawn, AcceptSpawn
<1>4. CASE DismissalStep \/ RollBackCosts \/ (\E p, x \in Agents : BeginDismissal(p, x))
  BY <1>1, <1>4 DEF DismissalStep, RollBackCosts, BeginDismissal, MarkSubtree, Flags, AbsorbCosts,
                    FlagAgent, ScanChildren, FindNext, StopFound, TellDismisser
<1>5. CASE SendStop \/ SweepLate
  BY <1>5 DEF SendStop, SweepLate, StopOrKill
<1>6. CASE \/ ShowPausing \/ DeleteTask \/ HandleAgentSpawned \/ HandleAgentTerminated
           \/ ClickPause \/ ClickResume \/ ClickDelete \/ Reload
  BY <1>1, <1>6 DEF ShowPausing, DeleteTask, HandleAgentSpawned, HandleAgentTerminated, ClickPause,
                    ClickResume, ClickDelete, Reload, BeginStops, history
<1>7. CASE RestoreStep \/ FailToRestore \/ NodeCrash
  BY <1>1, <1>7 DEF RestoreStep, SkipAgent, RestoreAgent, GiveUp, RebuildChildren, SweepOrphans,
                    FailToRestore, NodeCrash, history
<1>8. CASE UNCHANGED vars
  BY <1>1, <1>8 DEF vars
<1> QED
  BY <1>2, <1>3, <1>4, <1>5, <1>6, <1>7, <1>8, NextCases DEF PageStep

\* A mailbox with one more message, or without a first that is something else.
LEMMA AppendKeeps ==
    ASSUME NEW s \in Seq(Letters), NEW m \in Letters, NEW e, Contains(s, e)
    PROVE  Contains(Append(s, m), e)
<1>1. PICK i \in 1..Len(s) : s[i] = e
  BY DEF Contains
<1>2. i \in 1..Len(Append(s, m)) /\ Append(s, m)[i] = e
  BY <1>1
<1> QED
  BY <1>2 DEF Contains

LEMMA ConcatKeeps ==
    ASSUME NEW s \in Seq(Letters), NEW t \in Seq(Letters), NEW e, Contains(s, e)
    PROVE  Contains(s \o t, e)
<1>1. PICK i \in 1..Len(s) : s[i] = e
  BY DEF Contains
<1>2. i \in 1..Len(s \o t) /\ (s \o t)[i] = e
  BY <1>1
<1> QED
  BY <1>2 DEF Contains

LEMMA TailKeeps ==
    ASSUME NEW s \in Seq(Letters), NEW e, Contains(s, e), s # <<>>, Head(s) # e
    PROVE  Contains(Tail(s), e)
<1>1. PICK i \in 1..Len(s) : s[i] = e
  BY DEF Contains
<1>2. i # 1
  BY <1>1
<1>3. i - 1 \in 1..Len(Tail(s)) /\ Tail(s)[i - 1] = e
  BY <1>1, <1>2
<1> QED
  BY <1>3 DEF Contains

\* A stop stays in the mailbox until its agent ends or is started anew.
LEMMA StoppingStep ==
    ASSUME TypeInv, [Next]_vars, NEW x \in Stopping
    PROVE  x \in Stopping' \/ x \notin Live' \/ (RestoreAgent /\ x = Head(restore.todo))
<1> DEFINE stop == Msg("stop", None)
           goal == x \in Stopping' \/ x \notin Live' \/ (RestoreAgent /\ x = Head(restore.todo))
<1> SUFFICES goal
  OBVIOUS
<1>1. /\ ProcType /\ Live \subseteq Agents /\ mail \in [Agents -> Seq(Letters)]
      /\ x \in Live /\ x \in Agents /\ Contains(mail[x], stop) /\ mail[x] \in Seq(Letters)
      /\ SpawnType /\ DismissalType
  <2>1. ProcType /\ Live \subseteq Agents /\ SpawnType /\ DismissalType
    BY LiveAreAgents DEF TypeInv, ProcType
  <2> QED
    BY <2>1 DEF ProcType, Boxes, Stopping
<1>2. ASSUME Contains(mail'[x], stop) PROVE goal
  BY <1>2 DEF Stopping
<1>3. ASSUME mail'[x] = mail[x] PROVE goal
  BY <1>1, <1>2, <1>3
<1>4. ASSUME mail' = mail PROVE goal
  BY <1>3, <1>4
<1>5. ASSUME NEW m \in Letters, mail'[x] = Append(mail[x], m) PROVE goal
  BY <1>1, <1>2, <1>5, AppendKeeps
<1>6. ASSUME NEW pid \in Pids, NEW m \in Letters, mail' = Post(mail, pid, m) PROVE goal
  BY <1>1, <1>3, <1>5, <1>6, PostBoxes
<1>7. ASSUME NEW S, Exit(S), mail' = Emptied(mail, S) PROVE goal
  <2>1. Live' = Live \ S
    BY <1>1, <1>7, ExitRegistry
  <2>2. x \notin S => mail'[x] = mail[x]
    BY <1>1, <1>7 DEF Emptied
  <2> QED
    BY <1>3, <2>1, <2>2
<1>8. ASSUME NEW y \in Agents, AgentStep(y) \/ Crash(y) PROVE goal
  <2>1. CASE SetUp(y) \/ Restart(y)
    BY <1>4, <2>1 DEF SetUp, Restart
  <2>2. CASE HandleStopRequested(y) \/ Crash(y)
    BY <1>7, <2>2 DEF HandleStopRequested, Crash
  <2>3. CASE HandleNews(y)
    <3>1. /\ mail' = [mail EXCEPT ![y] = Tail(@)] /\ mail[y] # <<>> /\ Head(mail[y]).type # "stop"
      BY <2>3 DEF HandleNews
    <3>2. CASE y = x
      <4>1. Head(mail[x]) # stop /\ mail'[x] = Tail(mail[x])
        BY <1>1, <3>1, <3>2 DEF Msg
      <4> QED
        BY <1>1, <1>2, <3>1, <3>2, <4>1, TailKeeps
    <3>3. CASE y # x
      BY <1>1, <1>3, <3>1, <3>3
    <3> QED
      BY <3>2, <3>3
  <2> QED
    BY <1>8, <2>1, <2>2, <2>3 DEF AgentStep
<1>9. ASSUME NEW y \in Agents,
             SpawnStep(y) \/ FailSpawn(y) \/ (\E p \in Agents : AcceptSpawn(p, y))
      PROVE  goal
  <2>1. /\ Asker(y) \in Pids
        /\ Msg("spawn_failed", y) \in Letters /\ Msg("child_spawned", y) \in Letters
    BY <1>1, PidsOfAgents DEF Msg, Letters, News
  <2>2. \/ mail' = mail
        \/ mail' = Post(mail, Asker(y), Msg("spawn_failed", y))
        \/ mail' = Post(mail, Asker(y), Msg("child_spawned", y))
    BY <1>9 DEF SpawnStep, StartChild, Announce, AwaitChild, TellParent, FailSpawn, AcceptSpawn
  <2> QED
    BY <1>4, <1>6, <2>1, <2>2
<1>10. CASE DismissalStep \/ RollBackCosts \/ (\E p, y \in Agents : BeginDismissal(p, y))
  <2>1. CASE StopFound
    BY <1>4, <1>7, <2>1 DEF StopFound
  <2>2. CASE TellDismisser
    <3>1. dismissal.by \in Pids /\ Msg("child_dismissed", dismissal.root) \in Letters
      BY <1>1, <2>2 DEF DismissalType, TellDismisser, Msg, Letters, News, None, Agents
    <3> QED
      BY <1>6, <2>2, <3>1 DEF TellDismisser
  <2>3. CASE ~StopFound /\ ~TellDismisser
    BY <1>4, <1>10, <2>3 DEF DismissalStep, RollBackCosts, BeginDismissal, MarkSubtree, Flags,
                            AbsorbCosts, FlagAgent, ScanChildren, FindNext
  <2> QED
    BY <2>1, <2>2, <2>3
<1>11. ASSUME NEW S, StopOrKill(S) PROVE goal
  <2>1. CASE job.kill
    BY <1>7, <1>11, <2>1 DEF StopOrKill
  <2>2. CASE ~job.kill
    <3>1. stop \in Letters /\ (mail'[x] = mail[x] \/ mail'[x] = Append(mail[x], stop))
      BY <1>1, <1>11, <2>2 DEF StopOrKill, Letters
    <3> QED
      BY <1>3, <1>5, <3>1
  <2> QED
    BY <2>1, <2>2
<1>12. CASE SendStop \/ SweepLate
  BY <1>11, <1>12 DEF SendStop, SweepLate
<1>13. CASE \/ ShowPausing \/ DeleteTask \/ HandleAgentSpawned \/ HandleAgentTerminated
            \/ ClickPause \/ ClickResume \/ ClickDelete \/ Reload
  BY <1>4, <1>13 DEF ShowPausing, DeleteTask, HandleAgentSpawned, HandleAgentTerminated, ClickPause,
                    ClickResume, ClickDelete, Reload
<1>14. CASE SkipAgent \/ GiveUp \/ FailToRestore
  BY <1>4, <1>14 DEF SkipAgent, GiveUp, FailToRestore
<1>15. CASE RestoreAgent
  <2>1. x # Head(restore.todo) => mail'[x] = mail[x]
    BY <1>1, <1>15 DEF RestoreAgent, Emptied
  <2> QED
    BY <1>3, <1>15, <2>1
<1>16. CASE RebuildChildren
  <2>1. PICK gone : /\ Live' = Live \ gone
                    /\ \A p \in Live \ gone :
                          /\ mail[p] \in Seq(Letters)
                          /\ \E news \in Seq(Letters) : mail'[p] = mail[p] \o news
    BY <1>16, RebuildProc
  <2>2. CASE x \in gone
    BY <2>1, <2>2
  <2>3. CASE x \notin gone
    <3>1. PICK news \in Seq(Letters) : mail'[x] = mail[x] \o news
      BY <1>1, <2>1, <2>3
    <3> QED
      BY <1>1, <1>2, <3>1, ConcatKeeps
  <2> QED
    BY <2>2, <2>3
<1>17. CASE SweepOrphans
  BY <1>7, <1>17 DEF SweepOrphans
<1>18. CASE NodeCrash
  <2>1. Live' = Live \ Live
    BY <1>1, <1>18, ExitRegistry DEF NodeCrash
  <2> QED
    BY <2>1
<1>19. CASE UNCHANGED vars
  BY <1>4, <1>19 DEF vars
<1> QED
  BY <1>8, <1>9, <1>10, <1>12, <1>13, <1>14, <1>15, <1>16, <1>17, <1>18, <1>19, NextCases
     DEF PageStep, RestoreStep

-----------------------------------------------------------------------------
(* A paused task is quiet *)

\* Steps of the page at which some agents may not have been told to stop yet.
Hurried == {"send", "sweep", "delete"}

\* A pause has reached every agent, and nothing has been started since.
Held ==
    /\ task # "deleted" /\ job.step \notin Hurried
    /\ \/ shown = "pausing" \/ job.step = "paused"
       \/ task \in {"pausing", "paused"} /\ (restore.step = "idle" \/ Restored = {})

Covered(x) == Ancestors[x] \cap late # {}

Quiet ==
    /\ \A x \in Live : x \in Stopping \/ Covered(x)
    /\ \A x \in restarting \cup BeingSpawned : Covered(x)

\* While a pause is on, what the restoration has still to start counts as late.
Pausing ==
    /\ task # "deleted" /\ job.step \notin Hurried
    /\ shown = "pausing" \/ job.step = "paused"

\* The page waits for the restoration it has asked for.
PageRestores == (restore.step # "idle" /\ restore.by = "page") => job.step = "restore"

QuietInv ==
    /\ Held => Quiet
    /\ Pausing => ToSet(restore.todo) \subseteq late
    /\ PageRestores

\* What is covered stays so.
LEMMA CoveredStep ==
    ASSUME TypeInv, [Next]_vars
    PROVE  \A x \in Agents : /\ stage[x] # "unborn" /\ Covered(x) => (Covered(x))'
                             /\ x \in late' => (Covered(x))'
<1>1. SpawnType'
  BY SpawnTypeStep
<1>2. \A x \in Agents : x \in Ancestors'[x]
  BY <1>1, AncestorsNext
<1>3. \A x \in Agents : stage[x] # "unborn" => Ancestors'[x] = Ancestors[x]
  BY AncestorsStep
<1>4. late \subseteq late'
  BY HistoryStep
<1> QED
  BY <1>2, <1>3, <1>4 DEF Covered

\* An agent that is accepted is late, or below an agent that is covered.
LEMMA AcceptCovered ==
    ASSUME TypeInv, [Next]_vars, Quiet, NEW p \in Agents, NEW x \in Agents, AcceptSpawn(p, x)
    PROVE  (Covered(x))'
<1>1. /\ p \in Live /\ stage[p] # "unborn" /\ parent'[x] = p
      /\ (p \in Stopping => x \in late')
  <2>1. ready \subseteq Live /\ SpawnType /\ UnstartedInv
    BY DEF TypeInv, ProcType
  <2>2. p \in Live
    BY <2>1 DEF AcceptSpawn
  <2>3. stage[p] # "unborn"
    BY <2>1, <2>2 DEF UnstartedInv
  <2>4. parent'[x] = p /\ (p \in Stopping => x \in late')
    BY <2>1 DEF AcceptSpawn, SpawnType
  <2> QED
    BY <2>2, <2>3, <2>4
<1>2. CASE p \in Stopping
  BY <1>1, <1>2, CoveredStep
<1>3. CASE p \notin Stopping
  <2>1. (Covered(p))'
    BY <1>1, <1>3, CoveredStep DEF Quiet
  <2>2. SpawnType' /\ p # None
    BY SpawnTypeStep DEF Agents, None
  <2>3. Ancestors'[x] = {x} \cup Ancestors'[p]
    <3>1. Ancestors'[x] = {x} \cup Ancestors'[parent'[x]]
      BY <1>1, <2>2, AncestorsNext
    <3> QED
      BY <1>1, <3>1
  <2> QED
    BY <2>1, <2>3 DEF Covered
<1> QED
  BY <1>2, <1>3

\* Only a crash and a deletion leave agents to be restarted.
LEMMA RestartingStep ==
    ASSUME TypeInv, [Next]_vars
    PROVE  \A x \in restarting' : \/ x \in restarting \/ (x \in Agents /\ Crash(x))
                                  \/ job.step \in Hurried
<1> DEFINE goal == \A x \in restarting' : \/ x \in restarting \/ (x \in Agents /\ Crash(x))
                                          \/ job.step \in Hurried
<1> SUFFICES goal
  OBVIOUS
<1>1. ASSUME restarting' \subseteq restarting PROVE goal
  BY <1>1
<1>2. ASSUME job.step \in Hurried PROVE goal
  BY <1>2
<1>3. ASSUME NEW x \in Agents, AgentStep(x) \/ Crash(x) PROVE goal
  <2>1. CASE Crash(x)
    <3>1. restarting' = restarting \cup {x}
      BY <2>1 DEF Crash
    <3> QED
      BY <2>1, <3>1
  <2>2. CASE AgentStep(x)
    <3>1. restarting' \subseteq restarting
      BY <2>2 DEF AgentStep, SetUp, HandleStopRequested, HandleNews, Restart
    <3> QED
      BY <3>1
  <2> QED
    BY <1>3, <2>1, <2>2
<1>4. ASSUME NEW x \in Agents,
             SpawnStep(x) \/ FailSpawn(x) \/ (\E p \in Agents : AcceptSpawn(p, x))
      PROVE  restarting' = restarting
  BY <1>4 DEF SpawnStep, StartChild, Announce, AwaitChild, TellParent, FailSpawn, AcceptSpawn
<1>5. ASSUME DismissalStep \/ RollBackCosts \/ (\E p, x \in Agents : BeginDismissal(p, x))
      PROVE  restarting' = restarting
  BY <1>5 DEF DismissalStep, RollBackCosts, BeginDismissal, MarkSubtree, Flags, AbsorbCosts,
              FlagAgent, ScanChildren, FindNext, StopFound, TellDismisser
<1>6. CASE SendStop \/ SweepLate
  BY <1>2, <1>6 DEF SendStop, SweepLate, Hurried
<1>7. ASSUME \/ ShowPausing \/ DeleteTask \/ HandleAgentSpawned \/ HandleAgentTerminated
             \/ ClickPause \/ ClickResume \/ ClickDelete \/ Reload
      PROVE  restarting' = restarting
  BY <1>7 DEF ShowPausing, DeleteTask, HandleAgentSpawned, HandleAgentTerminated, ClickPause,
              ClickResume, ClickDelete, Reload
<1>8. ASSUME RestoreStep \/ FailToRestore \/ NodeCrash PROVE restarting' \subseteq restarting
  BY <1>8 DEF RestoreStep, SkipAgent, RestoreAgent, GiveUp, RebuildChildren, SweepOrphans,
              FailToRestore, NodeCrash
<1>9. ASSUME UNCHANGED vars PROVE restarting' = restarting
  BY <1>9 DEF vars
<1> QED
  BY <1>1, <1>3, <1>4, <1>5, <1>6, <1>7, <1>8, <1>9, NextCases DEF PageStep

\* A restored agent ends a pause, unless the page still shows it.
LEMMA RestoreHeld ==
    ASSUME TypeInv, RestoreAgent, Held'
    PROVE  Pausing
<1> DEFINE x == Head(restore.todo)
<1>1. RestoreType /\ inc \in [Agents -> Nat]
  BY DEF TypeInv, ProcType
<1>2. /\ UNCHANGED <<task, job, shown>> /\ restore.todo # <<>>
      /\ restore'.step = restore.step /\ restore.step = "restore"
      /\ restore'.pids = [restore.pids EXCEPT ![x] = inc[x] + 1]
  BY <1>1 DEF RestoreAgent, RestoreType, dbVars
<1>3. x \in Agents /\ inc[x] \in Nat /\ restore.pids \in [Agents -> Nat]
  BY <1>1, <1>2 DEF RestoreType
<1>4. Restored' # {}
  <2>1. restore'.pids[x] # 0
    BY <1>2, <1>3
  <2> QED
    BY <1>3, <2>1 DEF Restored
<1> QED
  BY <1>2, <1>4 DEF Held, Pausing

\* What the task, the page and the restoration have to do with a pause, step by step.
LEMMA HeldStep ==
    ASSUME TypeInv, PageRestores, [Next]_vars
    PROVE  /\ PageRestores'
           /\ Held' => Held \/ NodeCrash \/ SweepLate \/ (ClickPause /\ Live = {})
           /\ Pausing' => Pausing \/ SweepLate \/ (ClickPause /\ Live = {})
           /\ (ToSet(restore'.todo) \subseteq ToSet(restore.todo)) \/ ~Pausing'
<1> DEFINE fewer == ToSet(restore'.todo) \subseteq ToSet(restore.todo)
           goal == /\ PageRestores'
                   /\ Held' => Held \/ NodeCrash \/ SweepLate \/ (ClickPause /\ Live = {})
                   /\ Pausing' => Pausing \/ SweepLate \/ (ClickPause /\ Live = {})
                   /\ fewer \/ ~Pausing'
<1> SUFFICES goal
  OBVIOUS
<1> USE DEF Held, Pausing, PageRestores, Hurried
<1>1. /\ RestoreType /\ JobType /\ PageType /\ ProcType
      /\ restore.todo \in Seq(Agents)
  BY DEF TypeInv, RestoreType
<1>2. restore.todo # <<>> => ToSet(Tail(restore.todo)) \subseteq ToSet(restore.todo)
  BY <1>1 DEF ToSet
<1>3. ASSUME UNCHANGED <<task, job, shown, restore>> PROVE goal
  BY <1>3 DEF Restored
<1>4. ASSUME NEW x \in Agents, AgentStep(x) \/ Crash(x) PROVE UNCHANGED <<task, job, shown, restore>>
  BY <1>4 DEF AgentStep, SetUp, HandleStopRequested, HandleNews, Restart, Crash, dbVars, dashVars
<1>5. ASSUME NEW x \in Agents,
             SpawnStep(x) \/ FailSpawn(x) \/ (\E p \in Agents : AcceptSpawn(p, x))
      PROVE  UNCHANGED <<task, job, shown, restore>>
  BY <1>5 DEF SpawnStep, StartChild, Announce, AwaitChild, TellParent, FailSpawn, AcceptSpawn,
              dbVars, dashVars
<1>6. ASSUME DismissalStep \/ RollBackCosts \/ (\E p, x \in Agents : BeginDismissal(p, x))
      PROVE  UNCHANGED <<task, job, shown, restore>>
  BY <1>6 DEF DismissalStep, RollBackCosts, BeginDismissal, MarkSubtree, Flags, AbsorbCosts,
              FlagAgent, ScanChildren, FindNext, StopFound, TellDismisser, dbVars, dashVars
<1>7. ASSUME UNCHANGED vars PROVE UNCHANGED <<task, job, shown, restore>>
  BY <1>7 DEF vars, dbVars, dashVars
<1>9. ASSUME \/ \E x \in Agents : AgentStep(x) \/ Crash(x)
             \/ \E x \in Agents : SpawnStep(x) \/ FailSpawn(x) \/ (\E p \in Agents : AcceptSpawn(p, x))
             \/ DismissalStep \/ RollBackCosts \/ (\E p, x \in Agents : BeginDismissal(p, x))
             \/ UNCHANGED vars
      PROVE  goal
  <2>1. UNCHANGED <<task, job, shown, restore>>
    BY <1>4, <1>5, <1>6, <1>7, <1>9
  <2> HIDE DEF goal
  <2> QED
    BY <1>3, <2>1
<1>10. ASSUME restore' = restore PROVE fewer /\ Restored' = Restored
  BY <1>10 DEF Restored
<1>11. CASE SendStop
  <2>1. restore' = restore /\ task' = task /\ shown' = shown /\ job.step = "send"
        /\ job'.step \in {"sweep", "send"}
    BY <1>1, <1>11 DEF SendStop, dbVars, JobType
  <2> QED
    BY <1>10, <2>1
<1>12. CASE SweepLate
  <2>1. restore' = restore /\ job.step = "sweep"
    BY <1>12 DEF SweepLate
  <2> QED
    BY <1>10, <1>12, <2>1
<1>13. CASE ShowPausing
  <2>1. /\ restore' = restore /\ task' = task /\ job.step = "paused"
    BY <1>13 DEF ShowPausing, dbVars
  <2> QED
    BY <1>10, <2>1
<1>14. CASE DeleteTask
  <2>1. restore' = restore /\ task' = "deleted" /\ job.step = "delete"
    BY <1>14 DEF DeleteTask
  <2> QED
    BY <1>10, <2>1
<1>15. CASE HandleAgentSpawned
  <2>1. restore' = restore /\ task' = task /\ job' = job /\ job.step = "idle" /\ shown' = "running"
    BY <1>15 DEF HandleAgentSpawned, dbVars
  <2> QED
    BY <1>10, <2>1
<1>16. CASE HandleAgentTerminated
  <2>1. restore' = restore /\ job' = job /\ job.step = "idle"
    BY <1>16 DEF HandleAgentTerminated
  <2>2. \/ shown' = shown /\ task' = task
        \/ shown = "pausing" /\ shown' = "paused" /\ task' = SetTask("paused")
        \/ shown # "pausing" /\ shown' # "pausing" /\ task' = task
    BY <1>16 DEF HandleAgentTerminated
  <2> QED
    BY <1>10, <2>1, <2>2 DEF SetTask
<1>17. CASE ClickPause
  <2>1. restore' = restore /\ job.step = "idle" /\ shown' = shown /\ BeginStops(FALSE)
        /\ shown = "running"
    BY <1>17 DEF ClickPause, Clicked
  <2>2. Live # {} => job'.step = "send"
    BY <2>1 DEF BeginStops, NoJob
  <2>3. Live = {} => job'.step = "paused"
    BY <2>1 DEF BeginStops, NoJob
  <2> QED
    BY <1>10, <1>17, <2>1, <2>2, <2>3
<1>18. CASE ClickDelete
  <2>1. restore' = restore /\ job.step = "idle" /\ BeginStops(TRUE)
    BY <1>18 DEF ClickDelete, Clicked
  <2>2. job'.step \in {"send", "delete"}
    BY <2>1 DEF BeginStops, NoJob
  <2> QED
    BY <1>10, <2>1, <2>2
<1>19. CASE ClickResume
  <2>1. task' = task /\ shown' = shown /\ shown = "paused" /\ restore.step = "idle"
        /\ job.step = "idle"
    BY <1>19 DEF ClickResume, Clicked, dbVars
  <2>2. CASE restore' = restore /\ job' = job
    BY <1>10, <2>1, <2>2
  <2>3. CASE job' = [NoJob EXCEPT !.step = "restore"]
    <3>1. job'.step = "restore"
      BY <2>3 DEF NoJob
    <3> QED
      BY <2>1, <3>1
  <2> QED
    BY <1>19, <2>2, <2>3 DEF ClickResume
<1>20. CASE Reload
  <2>1. restore' = restore /\ job' = job /\ job.step = "idle"
    BY <1>20 DEF Reload, Clicked
  <2>2. \/ shown' = "running" /\ task' = task
        \/ task' = (IF task = "pausing" THEN "paused" ELSE task) /\ shown' = task'
    BY <1>20 DEF Reload
  <2> QED
    BY <1>10, <2>1, <2>2
<1>21. CASE SkipAgent \/ FailToRestore
  <2>1. /\ UNCHANGED <<task, job, shown>> /\ restore.todo # <<>> /\ restore'.todo = Tail(restore.todo)
        /\ restore'.step = restore.step /\ restore'.by = restore.by /\ restore.step = "restore"
        /\ restore'.pids = restore.pids
    BY <1>1, <1>21 DEF SkipAgent, FailToRestore, dbVars, dashVars, RestoreType
  <2>2. Restored' = Restored
    BY <2>1 DEF Restored
  <2> QED
    BY <1>2, <2>1, <2>2
<1>22. CASE RestoreAgent
  <2>1. /\ UNCHANGED <<task, job, shown>> /\ restore.todo # <<>> /\ restore'.todo = Tail(restore.todo)
        /\ restore'.step = restore.step /\ restore'.by = restore.by /\ restore.step = "restore"
        /\ restore'.pids = [restore.pids EXCEPT ![Head(restore.todo)] = inc[Head(restore.todo)] + 1]
    BY <1>1, <1>22 DEF RestoreAgent, RestoreType, dbVars
  <2>2. Held' => Pausing
    BY <1>22, RestoreHeld
  <2> QED
    BY <1>2, <2>1, <2>2
<1>23. CASE GiveUp
  <2>1. /\ restore.step = "restore" /\ Restored = {} /\ restore' = NoRestore /\ task' = task
        /\ shown' = shown
        /\ \/ restore.by = "page" /\ job' = NoJob
           \/ restore.by # "page" /\ job' = job
    BY <1>23 DEF GiveUp, EndRestore, dbVars
  <2>2. restore'.step = "idle" /\ NoJob.step = "idle" /\ fewer
    BY <2>1 DEF NoRestore, NoJob, ToSet
  <2> QED
    BY <2>1, <2>2
<1>24. CASE RebuildChildren
  <2>1. /\ UNCHANGED <<task, job, shown>> /\ restore.step = "restore" /\ restore'.step = "sweep"
        /\ restore'.by = restore.by /\ restore'.pids = restore.pids /\ restore'.todo = restore.todo
    BY <1>1, <1>24 DEF RebuildChildren, RestoreType
  <2>2. Restored' = Restored /\ fewer
    BY <2>1 DEF Restored
  <2> QED
    BY <2>1, <2>2
<1>25. CASE SweepOrphans
  <2>1. /\ restore.step = "sweep" /\ restore' = NoRestore /\ task' = SetTask("running")
        /\ \/ restore.by = "page" /\ job' = NoJob /\ shown' = "running"
           \/ restore.by # "page" /\ job' = job /\ shown' = shown
    BY <1>25 DEF SweepOrphans, EndRestore
  <2>2. restore'.step = "idle" /\ NoJob.step = "idle" /\ fewer
    BY <2>1 DEF NoRestore, NoJob, ToSet
  <2>4. task' \in {"running", "deleted"} /\ (task = "deleted" => task' = "deleted")
    BY <2>1 DEF SetTask
  <2> QED
    BY <2>1, <2>2, <2>4
<1>26. CASE NodeCrash
  <2>1. /\ job' = NoJob /\ task' = IF task = "pausing" THEN "paused" ELSE task
        /\ shown' = task' /\ (restore' = NoRestore \/ restore' = BeginRestore("boot", RunningRows))
    BY <1>26 DEF NodeCrash
  <2>2. restore'.by # "page" /\ NoJob.step = "idle"
    <3>1. CASE restore' = NoRestore
      BY <3>1 DEF NoRestore, NoJob
    <3>2. CASE restore' = BeginRestore("boot", RunningRows)
      <4>1. restore'.by = "boot"
        BY <3>2 DEF NoRestore, BeginRestore
      <4> QED
        BY <4>1 DEF NoJob
    <3> QED
      BY <2>1, <3>1, <3>2
  <2>4. task' # "pausing" /\ shown' # "pausing" /\ job'.step = "idle"
    BY <2>1, <2>2
  <2> QED
    BY <1>26, <2>2, <2>4
<1> QED
  BY <1>9, <1>11, <1>12, <1>13, <1>14, <1>15, <1>16, <1>17, <1>18, <1>19, <1>20, <1>21, <1>22, <1>23,
     <1>24, <1>25, <1>26, NextCases DEF PageStep, RestoreStep

\* An agent that a step leaves or starts, in a task that was quiet.
LEMMA QuietKept ==
    ASSUME TypeInv, QuietInv, Held, Quiet, Held', [Next]_vars
    PROVE  Quiet'
<1>1. /\ ProcType /\ UnstartedInv /\ Live \subseteq Agents /\ restarting \subseteq Agents
      /\ BeingSpawned \subseteq Agents /\ job.step \notin Hurried
  BY LiveAreAgents DEF TypeInv, ProcType, BeingSpawned, Held
<1>2. \A x \in Live \cup restarting \cup BeingSpawned : x \in Agents /\ stage[x] # "unborn"
  <2>1. \A x \in Live \cup restarting : stage[x] # "unborn"
    BY <1>1 DEF UnstartedInv
  <2> QED
    BY <1>1, <2>1 DEF BeingSpawned
<1>3. \A x \in Live \cup restarting \cup BeingSpawned : Covered(x) => (Covered(x))'
  BY <1>2, CoveredStep
<1>4. RestoreAgent => Pausing /\ Head(restore.todo) \in late'
  <2> SUFFICES ASSUME RestoreAgent PROVE Pausing /\ Head(restore.todo) \in late'
    OBVIOUS
  <2>1. Pausing
    BY RestoreHeld
  <2>2. ToSet(restore.todo) \subseteq late
    BY <2>1 DEF QuietInv
  <2>3. Head(restore.todo) \in ToSet(restore.todo)
    BY DEF RestoreAgent, TypeInv, RestoreType, ToSet
  <2> QED
    BY <2>1, <2>2, <2>3, HistoryStep
<1>5. ASSUME NEW x \in Live, x \in Live' PROVE x \in Stopping' \/ (Covered(x))'
  <2>1. CASE x \in Stopping
    <3>1. CASE RestoreAgent /\ x = Head(restore.todo)
      BY <1>2, <1>4, <3>1, CoveredStep
    <3>2. CASE ~(RestoreAgent /\ x = Head(restore.todo))
      BY <1>5, <2>1, <3>2, StoppingStep
    <3> QED
      BY <3>1, <3>2
  <2>2. CASE x \notin Stopping
    BY <1>3, <2>2 DEF Quiet
  <2> QED
    BY <2>1, <2>2
<1>6. ASSUME NEW x \in Agents, Starts(x), x \notin Live PROVE (Covered(x))'
  <2>1. CASE Restart(x) \/ StartChild(x)
    <3>1. x \in restarting \cup BeingSpawned
      BY <2>1 DEF Restart, StartChild, BeingSpawned
    <3> QED
      BY <1>3, <3>1 DEF Quiet
  <2>2. CASE RestoreAgent /\ x = Head(restore.todo)
    BY <1>4, <2>2, CoveredStep
  <2> QED
    BY <1>6, <2>1, <2>2 DEF Starts
<1>7. \A x \in Live' : x \in Stopping' \/ (Covered(x))'
  <2>1. ASSUME Ends PROVE \A x \in Live' : x \in Stopping' \/ (Covered(x))'
    <3>1. \A x \in Live' : x \in Live
      BY <2>1 DEF Ends
    <3> QED
      BY <1>5, <3>1
  <2>2. ASSUME NEW y \in Agents, Starts(y) PROVE \A x \in Live' : x \in Stopping' \/ (Covered(x))'
    <3>1. \A x \in Live' : x \in Live \/ (x = y /\ y \notin Live)
      BY <2>2 DEF Starts
    <3> QED
      BY <1>5, <1>6, <2>2, <3>1
  <2> QED
    BY <2>1, <2>2, LiveStep
<1>8. \A x \in restarting' : (Covered(x))'
  <2> SUFFICES ASSUME NEW x \in restarting' PROVE (Covered(x))'
    OBVIOUS
  <2>1. CASE x \in restarting
    BY <1>3, <2>1 DEF Quiet
  <2>2. CASE x \in Agents /\ Crash(x)
    <3>1. x \in Live /\ (x \in Stopping => x \in late')
      BY <2>2 DEF Crash
    <3>2. CASE x \in Stopping
      BY <1>2, <3>1, <3>2, CoveredStep
    <3>3. CASE x \notin Stopping
      BY <1>3, <3>1, <3>3 DEF Quiet
    <3> QED
      BY <3>2, <3>3
  <2> QED
    BY <1>1, <2>1, <2>2, RestartingStep
<1>9. \A x \in BeingSpawned' : (Covered(x))'
  <2> SUFFICES ASSUME NEW x \in BeingSpawned' PROVE (Covered(x))'
    OBVIOUS
  <2>1. x \in Agents /\ stage'[x] = "start"
    BY DEF BeingSpawned
  <2>2. CASE stage[x] = "start"
    BY <1>3, <2>1, <2>2 DEF Quiet, BeingSpawned
  <2>3. CASE stage[x] # "start"
    <3>1. PICK p, y \in Agents : AcceptSpawn(p, y)
      BY <2>1, <2>3, StageStep
    <3>2. y = x
      BY <2>1, <2>3, <3>1 DEF AcceptSpawn, TypeInv, SpawnType
    <3> QED
      BY <3>1, <3>2, AcceptCovered
  <2> QED
    BY <2>2, <2>3
<1> QED
  BY <1>7, <1>8, <1>9 DEF Quiet

\* The sweep of a pause reaches whoever the stops have not.
LEMMA SweepIsQuiet ==
    ASSUME TypeInv, SweepLate, Held', [Next]_vars
    PROVE  Quiet' /\ ToSet(restore'.todo) \subseteq late'
<1>1. /\ StopOrKill(Live \ job.stopped) /\ ~job.kill
      /\ late' = late \cup LateComers \cup ((Live \cap job.stopped) \ Stopping)
      /\ restore' = restore /\ UNCHANGED spawnVars
  <2>1. job' = [job EXCEPT !.step = IF job.kill THEN "delete" ELSE "paused"]
    BY DEF SweepLate
  <2>2. job'.step # "delete"
    BY DEF Held, Hurried
  <2>3. ~job.kill
    BY <2>1, <2>2 DEF TypeInv, JobType
  <2> QED
    BY <2>3 DEF SweepLate, LateRegistrations
<1>2. /\ mail' = [x \in Agents |-> IF x \in Live \ job.stopped THEN Append(mail[x], Msg("stop", None))
                                   ELSE mail[x]]
      /\ UNCHANGED <<registry, restarting>>
  BY <1>1 DEF StopOrKill
<1>3. Live' = Live /\ Live \subseteq Agents /\ mail \in [Agents -> Seq(Letters)] /\ SpawnType'
  BY <1>2, LiveAreAgents, SpawnTypeStep DEF Live, TypeInv, ProcType, Boxes
<1>4. \A x \in Agents : x \in late' => (Covered(x))'
  BY CoveredStep
<1>5. ASSUME NEW x \in Live PROVE x \in Stopping' \/ (Covered(x))'
  <2>1. CASE x \notin job.stopped
    <3>1. mail'[x] = Append(mail[x], Msg("stop", None)) /\ mail[x] \in Seq(Letters)
      BY <1>2, <1>3, <2>1
    <3>2. Contains(mail'[x], Msg("stop", None))
      <4>1. /\ Len(mail[x]) + 1 \in 1..Len(mail'[x])
            /\ mail'[x][Len(mail[x]) + 1] = Msg("stop", None)
        BY <3>1
      <4> QED
        BY <4>1 DEF Contains
    <3> QED
      BY <1>3, <3>2 DEF Stopping
  <2>2. CASE x \in job.stopped /\ x \in Stopping
    <3>1. ~RestoreAgent
      BY <1>1, <1>3 DEF SweepLate, RestoreAgent, TypeInv, RestoreType
    <3> QED
      BY <1>3, <2>2, <3>1, StoppingStep
  <2>3. CASE x \in job.stopped /\ x \notin Stopping
    BY <1>1, <1>3, <1>4, <2>3
  <2> QED
    BY <2>1, <2>2, <2>3
<1>6. restarting' \cup BeingSpawned' = restarting \cup BeingSpawned
  BY <1>1, <1>2 DEF BeingSpawned, spawnVars
<1>7. restarting \cup BeingSpawned \subseteq Agents
  BY DEF TypeInv, ProcType, BeingSpawned
<1>8. \A x \in restarting' \cup BeingSpawned' : (Covered(x))'
  BY <1>1, <1>4, <1>6, <1>7 DEF LateComers, ComingBack
<1>9. Quiet'
  BY <1>3, <1>5, <1>8 DEF Quiet
<1>10. ToSet(restore'.todo) \subseteq late'
  BY <1>1 DEF LateComers, ComingBack
<1> QED
  BY <1>9, <1>10

\* A pause that finds nobody at work.
LEMMA NobodyIsQuiet ==
    ASSUME TypeInv, ClickPause, Live = {}, [Next]_vars
    PROVE  Quiet' /\ ToSet(restore'.todo) \subseteq late'
<1>1. /\ late' = late \cup LateComers /\ restore' = restore
      /\ UNCHANGED <<registry, restarting, stage>>
  BY DEF ClickPause, BeginStops, procVars, spawnVars
<1>2. \A x \in Agents : x \in late' => (Covered(x))'
  BY CoveredStep
<1>3. restarting' \cup BeingSpawned' = restarting \cup BeingSpawned /\ Live' = Live
  BY <1>1 DEF BeingSpawned, Live
<1>4. restarting \cup BeingSpawned \subseteq Agents
  BY DEF TypeInv, ProcType, BeingSpawned
<1>5. \A x \in restarting' \cup BeingSpawned' : (Covered(x))'
  BY <1>1, <1>2, <1>3, <1>4 DEF LateComers, ComingBack
<1> QED
  BY <1>1, <1>3, <1>5 DEF Quiet, LateComers, ComingBack

\* Nobody is left when the node is down.
LEMMA DownIsQuiet ==
    ASSUME TypeInv, NodeCrash
    PROVE  Quiet'
<1>1. Live' = {}
  <2>1. Live' = Live \ Live
    BY ExitRegistry DEF NodeCrash, TypeInv
  <2> QED
    BY <2>1
<1>2. restarting' = {} /\ BeingSpawned' = {}
  <2>1. stage' = [x \in Agents |-> IF stage[x] = "unborn" THEN "unborn" ELSE "done"]
        /\ restarting' = {}
    BY DEF NodeCrash
  <2>2. \A x \in Agents : stage'[x] # "start"
    BY <2>1
  <2> QED
    BY <2>1, <2>2 DEF BeingSpawned
<1> QED
  BY <1>1, <1>2 DEF Quiet

LEMMA QuietStep ==
    ASSUME TypeInv, QuietInv, [Next]_vars
    PROVE  QuietInv'
<1>1. /\ PageRestores'
      /\ Held' => Held \/ NodeCrash \/ SweepLate \/ (ClickPause /\ Live = {})
      /\ Pausing' => Pausing \/ SweepLate \/ (ClickPause /\ Live = {})
      /\ (ToSet(restore'.todo) \subseteq ToSet(restore.todo)) \/ ~Pausing'
  BY HeldStep DEF QuietInv
<1>2. Held' => Quiet'
  <2>1. CASE Held' /\ Held
    BY <2>1, QuietKept DEF QuietInv
  <2>2. CASE Held' /\ ~Held
    BY <1>1, <2>2, DownIsQuiet, SweepIsQuiet, NobodyIsQuiet
  <2> QED
    BY <2>1, <2>2
<1>3. Pausing' => ToSet(restore'.todo) \subseteq late'
  <2>1. Pausing' => Held'
    BY DEF Pausing, Held
  <2>2. late \subseteq late'
    BY HistoryStep
  <2>3. CASE Pausing
    BY <1>1, <2>2, <2>3 DEF QuietInv
  <2>4. CASE ~Pausing
    BY <1>1, <2>1, <2>4, SweepIsQuiet, NobodyIsQuiet
  <2> QED
    BY <2>3, <2>4
<1> QED
  BY <1>1, <1>2, <1>3 DEF QuietInv

\* A paused task whose stops have all been handled has no agents, except those that a sweep
\* came too early for and what they have spawned.
THEOREM PausedTasksAreQuiet == Spec => []PausedTaskIsQuiet
<1>1. Init => QuietInv
  <2> SUFFICES ASSUME Init PROVE QuietInv
    OBVIOUS
  <2>1. task = "running" /\ shown = "running" /\ job = NoJob /\ restore = NoRestore
    BY DEF Init
  <2>2. job.step = "idle" /\ restore.step = "idle"
    BY <2>1 DEF NoJob, NoRestore
  <2> QED
    BY <2>1, <2>2 DEF QuietInv, Held, Pausing, PageRestores
<1>2. TypeInv /\ QuietInv /\ [Next]_vars => QuietInv'
  BY QuietStep
<1>3. QuietInv => PausedTaskIsQuiet
  <2> SUFFICES ASSUME QuietInv, task = "paused", job.step = "idle", restore.step = "idle",
                      Stopping = {}, NEW x \in Live
               PROVE  Ancestors[x] \cap late # {}
    BY DEF PausedTaskIsQuiet
  <2>1. Held
    BY DEF Held, Hurried
  <2> QED
    BY <2>1 DEF QuietInv, Quiet, Covered
<1> QED
  BY <1>1, <1>2, <1>3, TypesInvariant, PTL DEF Spec

-----------------------------------------------------------------------------
(* The restoration, step by step *)

\* What a step does to the restoration under way.
RestoreMoves ==
    \/ restore' = restore
    \/ restore' = NoRestore /\ (GiveUp \/ SweepOrphans \/ NodeCrash)
    \/ /\ ClickResume \/ NodeCrash
       /\ \E by \in {"page", "boot"} : restore' = BeginRestore(by, RunningRows)
    \/ /\ SkipAgent \/ FailToRestore
       /\ restore.todo # <<>> /\ restore'.todo = Tail(restore.todo)
       /\ restore'.step = restore.step /\ restore'.pids = restore.pids
       /\ restore'.all = restore.all /\ restore.step = "restore" /\ restore'.failed # {}
    \/ /\ RestoreAgent
       /\ restore.todo # <<>> /\ restore'.todo = Tail(restore.todo)
       /\ restore'.pids = [restore.pids EXCEPT ![Head(restore.todo)] = inc[Head(restore.todo)] + 1]
       /\ restore'.step = restore.step /\ restore'.all = restore.all /\ restore.step = "restore"
       /\ restore'.failed = restore.failed
    \/ /\ RebuildChildren
       /\ restore' = [restore EXCEPT !.step = "sweep"] /\ restore.todo = <<>>

LEMMA RestoreStepMoves ==
    ASSUME TypeInv, [Next]_vars
    PROVE  RestoreMoves
<1>1. RestoreType
  BY DEF TypeInv
<1>2. ASSUME restore' = restore PROVE RestoreMoves
  BY <1>2 DEF RestoreMoves
<1>3. ASSUME NEW x \in Agents,
             \/ AgentStep(x) \/ Crash(x) \/ SpawnStep(x) \/ FailSpawn(x)
             \/ \E p \in Agents : AcceptSpawn(p, x)
      PROVE  restore' = restore
  BY <1>3 DEF AgentStep, SetUp, HandleStopRequested, HandleNews, Restart, Crash, SpawnStep, StartChild,
              Announce, AwaitChild, TellParent, FailSpawn, AcceptSpawn
<1>4. ASSUME DismissalStep \/ RollBackCosts \/ (\E p, x \in Agents : BeginDismissal(p, x))
      PROVE  restore' = restore
  BY <1>4 DEF DismissalStep, RollBackCosts, BeginDismissal, MarkSubtree, Flags, AbsorbCosts,
              FlagAgent, ScanChildren, FindNext, StopFound, TellDismisser
<1>5. ASSUME PageStep \/ ClickPause \/ ClickDelete \/ Reload PROVE restore' = restore
  BY <1>5 DEF PageStep, SendStop, SweepLate, ShowPausing, DeleteTask, HandleAgentSpawned,
              HandleAgentTerminated, ClickPause, ClickDelete, Reload
<1>6. CASE ClickResume \/ NodeCrash
  BY <1>6 DEF RestoreMoves, ClickResume, NodeCrash
<1>7. CASE SkipAgent \/ FailToRestore
  <2>1. /\ restore.todo # <<>> /\ restore'.todo = Tail(restore.todo)
        /\ restore'.step = restore.step /\ restore'.pids = restore.pids
        /\ restore'.all = restore.all /\ restore.step = "restore" /\ restore'.failed # {}
    BY <1>1, <1>7 DEF SkipAgent, FailToRestore, RestoreType
  <2> QED
    BY <1>7, <2>1 DEF RestoreMoves
<1>8. CASE RestoreAgent
  <2>1. /\ restore.todo # <<>> /\ restore'.todo = Tail(restore.todo)
        /\ restore'.pids = [restore.pids EXCEPT ![Head(restore.todo)] = inc[Head(restore.todo)] + 1]
        /\ restore'.step = restore.step /\ restore'.all = restore.all /\ restore.step = "restore"
        /\ restore'.failed = restore.failed
    BY <1>1, <1>8 DEF RestoreAgent, RestoreType
  <2> QED
    BY <1>8, <2>1 DEF RestoreMoves
<1>9. CASE RebuildChildren
  BY <1>9 DEF RebuildChildren, RestoreMoves
<1>10. CASE GiveUp \/ SweepOrphans
  BY <1>10 DEF GiveUp, SweepOrphans, EndRestore, RestoreMoves
<1>11. ASSUME UNCHANGED vars PROVE restore' = restore
  BY <1>11 DEF vars
<1> QED
  BY <1>2, <1>3, <1>4, <1>5, <1>6, <1>7, <1>8, <1>9, <1>10, <1>11, NextCases DEF RestoreStep

\* A deletion is final.
LEMMA DeletedStep ==
    ASSUME [Next]_vars, task = "deleted"
    PROVE  task' = "deleted"
<1>1. ASSUME task' = task PROVE task' = "deleted"
  BY <1>1
<1>2. ASSUME NEW x \in Agents,
             \/ AgentStep(x) \/ Crash(x) \/ SpawnStep(x) \/ FailSpawn(x)
             \/ \E p \in Agents : AcceptSpawn(p, x)
      PROVE  task' = task
  BY <1>2 DEF AgentStep, SetUp, HandleStopRequested, HandleNews, Restart, Crash, SpawnStep, StartChild,
              Announce, AwaitChild, TellParent, FailSpawn, AcceptSpawn, dbVars
<1>3. ASSUME DismissalStep \/ RollBackCosts \/ (\E p, x \in Agents : BeginDismissal(p, x))
      PROVE  task' = task
  BY <1>3 DEF DismissalStep, RollBackCosts, BeginDismissal, MarkSubtree, Flags, AbsorbCosts,
              FlagAgent, ScanChildren, FindNext, StopFound, TellDismisser, dbVars
<1>4. CASE PageStep \/ ClickPause \/ ClickDelete \/ ClickResume \/ Reload
  BY <1>4 DEF PageStep, SendStop, SweepLate, ShowPausing, DeleteTask, HandleAgentSpawned,
              HandleAgentTerminated, ClickPause, ClickDelete, ClickResume, Reload, BeginStops, SetTask,
              dbVars
<1>5. CASE RestoreStep \/ FailToRestore \/ NodeCrash
  BY <1>5 DEF RestoreStep, SkipAgent, RestoreAgent, GiveUp, RebuildChildren, SweepOrphans,
              FailToRestore, NodeCrash, SetTask, dbVars
<1>6. CASE UNCHANGED vars
  BY <1>6 DEF vars, dbVars
<1> QED
  BY <1>1, <1>2, <1>3, <1>4, <1>5, <1>6, NextCases

-----------------------------------------------------------------------------
(* An agent at work is in the database *)

\* The row of an agent says that it runs, or the agent has been through what may lose it.
Saved(x) == row[x] = "running" \/ x \in crashed \cup missed

\* A fresh agent has no row until it is set up, and an orphan may have lost its own.
SavedIfLive(x) ==
    \/ Saved(x)
    \/ restore.step = "sweep" /\ x \notin Restored
    \/ x \notin ready /\ ~config[x].restored /\ row[x] = "none"

\* What a restoration has started is still the process it has started, or has crashed.
RestoredKnown ==
    /\ restore.step # "restore" => restore.todo = <<>>
    /\ restarting \subseteq crashed
    /\ \A x \in Restored : /\ inc[x] # 0
                           /\ x \in Live => restore.pids[x] = inc[x] \/ x \in crashed

RowsSaved ==
    /\ \A x \in Live : SavedIfLive(x)
    /\ \A x \in ToSet(restore.todo) : Saved(x)

PersistInv == RestoredKnown /\ (task # "deleted" => RowsSaved)

LEMMA RestoredKnownStep ==
    ASSUME TypeInv, RestoredKnown, [Next]_vars
    PROVE  RestoredKnown'
<1>1. /\ ProcType /\ RestoreType /\ UnstartedInv /\ restore.todo \in Seq(Agents)
      /\ inc \in [Agents -> Nat] /\ restore.pids \in [Agents -> Nat] /\ Live \subseteq Agents
      /\ Restored \subseteq Agents
  BY LiveAreAgents DEF TypeInv, ProcType, RestoreType, Restored
<1>2. crashed \subseteq crashed'
  BY HistoryStep
<1>3. restarting' \subseteq crashed'
  <2>1. ASSUME restarting' \subseteq restarting PROVE restarting' \subseteq crashed'
    BY <1>2, <2>1 DEF RestoredKnown
  <2>2. ASSUME NEW x \in Agents, Crash(x) PROVE restarting' \subseteq crashed'
    BY <2>2 DEF Crash, RestoredKnown
  <2>3. ASSUME NEW x \in Agents,
               \/ AgentStep(x) \/ SpawnStep(x) \/ FailSpawn(x) \/ \E p \in Agents : AcceptSpawn(p, x)
        PROVE  restarting' \subseteq restarting
    BY <2>3 DEF AgentStep, SetUp, HandleStopRequested, HandleNews, Restart, SpawnStep, StartChild,
                Announce, AwaitChild, TellParent, FailSpawn, AcceptSpawn
  <2>4. ASSUME DismissalStep \/ RollBackCosts \/ (\E p, x \in Agents : BeginDismissal(p, x))
        PROVE  restarting' \subseteq restarting
    BY <2>4 DEF DismissalStep, RollBackCosts, BeginDismissal, MarkSubtree, Flags, AbsorbCosts,
                FlagAgent, ScanChildren, FindNext, StopFound, TellDismisser
  <2>5. CASE SendStop \/ SweepLate
    BY <2>5 DEF SendStop, SweepLate, StopOrKill, RestoredKnown
  <2>6. ASSUME \/ ShowPausing \/ DeleteTask \/ HandleAgentSpawned \/ HandleAgentTerminated
               \/ ClickPause \/ ClickResume \/ ClickDelete \/ Reload
        PROVE  restarting' \subseteq restarting
    BY <2>6 DEF ShowPausing, DeleteTask, HandleAgentSpawned, HandleAgentTerminated, ClickPause,
                ClickResume, ClickDelete, Reload
  <2>7. ASSUME RestoreStep \/ FailToRestore \/ NodeCrash PROVE restarting' \subseteq restarting
    BY <2>7 DEF RestoreStep, SkipAgent, RestoreAgent, GiveUp, RebuildChildren, SweepOrphans,
                FailToRestore, NodeCrash
  <2>8. ASSUME UNCHANGED vars PROVE restarting' \subseteq restarting
    BY <2>8 DEF vars
  <2> QED
    BY <2>1, <2>2, <2>3, <2>4, <2>5, <2>6, <2>7, <2>8, NextCases DEF PageStep
<1>4. restore'.step # "restore" => restore'.todo = <<>>
  <2>1. NoRestore.todo = <<>>
    BY DEF NoRestore
  <2>2. \A by \in {"page", "boot"} : BeginRestore(by, RunningRows).step = "restore"
    BY DEF BeginRestore, NoRestore
  <2>3. RestoreMoves
    BY RestoreStepMoves
  <2>4. CASE RebuildChildren
    BY <1>1, <2>4 DEF RebuildChildren, RestoreType
  <2> QED
    BY <2>1, <2>2, <2>3, <2>4 DEF RestoreMoves, RestoredKnown
<1>5. ASSUME NEW x \in Agents, restore'.pids[x] # 0, restore'.pids[x] = restore.pids[x],
             ~(RestoreAgent /\ x = Head(restore.todo))
      PROVE  inc'[x] # 0 /\ (x \in Live' => restore'.pids[x] = inc'[x] \/ x \in crashed')
  <2>1. x \in Restored /\ inc[x] # 0 /\ (x \in Live => restore.pids[x] = inc[x] \/ x \in crashed)
    BY <1>5 DEF Restored, RestoredKnown
  <2>2. CASE Ends
    BY <1>2, <1>5, <2>1, <2>2 DEF Ends
  <2>3. ASSUME NEW y \in Agents, Starts(y) 
        PROVE  inc'[x] # 0 /\ (x \in Live' => restore'.pids[x] = inc'[x] \/ x \in crashed')
    <3>1. CASE y # x
      BY <1>1, <1>2, <1>5, <2>1, <2>3, <3>1 DEF Starts
    <3>2. CASE y = x
      <4>1. inc'[x] # 0
        BY <1>1, <2>3, <3>2 DEF Starts
      <4>2. x \in crashed
        <5>1. ~StartChild(x)
          BY <1>1, <2>1 DEF StartChild, UnstartedInv
        <5> QED
          BY <1>5, <2>3, <3>2, <5>1 DEF Starts, Restart, RestoredKnown
      <4> QED
        BY <1>2, <4>1, <4>2
    <3> QED
      BY <3>1, <3>2
  <2> QED
    BY <2>2, <2>3, LiveStep
<1>6. ASSUME NEW x \in Agents, restore'.pids[x] # 0
      PROVE  inc'[x] # 0 /\ (x \in Live' => restore'.pids[x] = inc'[x] \/ x \in crashed')
  <2>1. CASE RestoreAgent /\ x = Head(restore.todo)
    <3>1. restore'.pids[x] = inc[x] + 1 /\ inc'[x] = inc[x] + 1
      BY <1>1, <2>1 DEF RestoreAgent, RestoreType
    <3> QED
      BY <1>1, <3>1
  <2>2. CASE ~(RestoreAgent /\ x = Head(restore.todo))
    <3>1. restore'.pids[x] = restore.pids[x] \/ restore'.pids[x] = 0
      <4>1. NoRestore.pids[x] = 0 /\ \A by \in {"page", "boot"} : BeginRestore(by, RunningRows).pids[x] = 0
        BY DEF NoRestore, BeginRestore
      <4>2. RestoreMoves
        BY RestoreStepMoves
      <4>3. CASE RebuildChildren
        BY <1>1, <4>3 DEF RebuildChildren, RestoreType
      <4>4. CASE RestoreAgent
        BY <1>1, <2>2, <4>4 DEF RestoreAgent, RestoreType
      <4> QED
        BY <4>1, <4>2, <4>3, <4>4 DEF RestoreMoves
    <3> QED
      BY <1>5, <1>6, <2>2, <3>1
  <2> QED
    BY <2>1, <2>2
<1> QED
  BY <1>3, <1>4, <1>6 DEF RestoredKnown, Restored

\* What the types and the history say of a step.
LEMMA StepFacts ==
    ASSUME TypeInv, [Next]_vars
    PROVE  /\ ProcType /\ SpawnType /\ PageType /\ RestoreType /\ UnstartedInv
           /\ Live \subseteq Agents /\ restore.todo \in Seq(Agents)
           /\ config \in [Agents -> [parent : Pids, restored : BOOLEAN]]
           /\ late \subseteq late' /\ crashed \subseteq crashed' /\ missed \subseteq missed'
<1>1. /\ ProcType /\ SpawnType /\ PageType /\ RestoreType /\ UnstartedInv
      /\ restore.todo \in Seq(Agents)
      /\ config \in [Agents -> [parent : Pids, restored : BOOLEAN]]
  BY DEF TypeInv, ProcType, RestoreType
<1>2. Live \subseteq Agents
  BY <1>1, LiveAreAgents DEF ProcType
<1> QED
  BY <1>1, <1>2, HistoryStep

\* Where nobody's row, flag of restoration or restoration changes, and nobody is set up.
LEMMA RowsKept ==
    ASSUME TypeInv, RowsSaved, [Next]_vars, row' = row, config' = config, Live' \subseteq Live,
           ready' \subseteq ready, restore' = restore
    PROVE  RowsSaved'
<1>1. crashed \subseteq crashed' /\ missed \subseteq missed'
  BY HistoryStep
<1>2. Restored' = Restored
  BY DEF Restored
<1> QED
  BY <1>1, <1>2 DEF RowsSaved, SavedIfLive, Saved

\* A fresh agent has no row; one that is started again has crashed.
LEMMA RowsAtStart ==
    ASSUME TypeInv, RestoredKnown, RowsSaved, [Next]_vars, NEW x \in Agents, Restart(x) \/ StartChild(x)
    PROVE  RowsSaved'
<1>1. /\ ProcType /\ SpawnType /\ UnstartedInv /\ PageType /\ Live \subseteq Agents
      /\ config \in [Agents -> [parent : Pids, restored : BOOLEAN]]
      /\ crashed \subseteq crashed' /\ missed \subseteq missed'
  BY StepFacts
<1>2. /\ UNCHANGED <<row, ready, restore>>
      /\ \E c : config' = [config EXCEPT ![x] = c] /\ (StartChild(x) => ~c.restored)
      /\ registry' = Append(registry, x)
  <2>1. ASSUME NEW c, Start(x, c), StartChild(x) => ~c.restored, UNCHANGED <<row, restore>>
        PROVE  /\ UNCHANGED <<row, ready, restore>>
               /\ \E d : config' = [config EXCEPT ![x] = d] /\ (StartChild(x) => ~d.restored)
               /\ registry' = Append(registry, x)
    BY <2>1 DEF Start
  <2>2. CASE Restart(x)
    <3>1. ~StartChild(x)
      BY <1>1, <2>2 DEF Restart, StartChild, UnstartedInv
    <3> QED
      BY <2>1, <2>2, <3>1 DEF Restart, dbVars
  <2>3. CASE StartChild(x)
    <3>1. ~[parent |-> Asker(x), restored |-> FALSE].restored
      OBVIOUS
    <3> QED
      BY <2>1, <2>3, <3>1 DEF StartChild, dbVars
  <2> QED
    BY <2>2, <2>3
<1>3. x \notin Live
  BY <1>1 DEF Restart, StartChild, UnstartedInv, ProcType
<1>4. Live' = Live \cup {x}
  BY <1>1, <1>2, <1>3, AppendRegistry DEF ProcType, Live
<1>5. Restored' = Restored
  BY <1>2 DEF Restored
<1>6. ASSUME NEW y \in Live PROVE (SavedIfLive(y))'
  <2>1. y # x /\ y \in Agents /\ config'[y] = config[y]
    BY <1>1, <1>2, <1>3
  <2> QED
    BY <1>1, <1>2, <1>5, <2>1 DEF RowsSaved, SavedIfLive, Saved
<1>7. (SavedIfLive(x))'
  <2>1. CASE Restart(x)
    BY <1>1, <2>1 DEF Restart, RestoredKnown, SavedIfLive, Saved
  <2>2. CASE StartChild(x)
    <3>1. row[x] = "none" /\ x \notin ready
      BY <1>1, <1>3, <2>2 DEF StartChild, UnstartedInv, ProcType
    <3>2. ~config'[x].restored
      BY <1>1, <1>2, <2>2
    <3> QED
      BY <1>2, <3>1, <3>2 DEF SavedIfLive
  <2> QED
    BY <2>1, <2>2
<1>8. \A y \in ToSet(restore'.todo) : (Saved(y))'
  BY <1>1, <1>2 DEF RowsSaved, Saved
<1> QED
  BY <1>4, <1>6, <1>7, <1>8 DEF RowsSaved

\* Setting up inserts the row of an agent that has none.
LEMMA RowsAtSetUp ==
    ASSUME TypeInv, task # "deleted", RowsSaved, [Next]_vars, NEW x \in Agents, SetUp(x)
    PROVE  RowsSaved'
<1>1. /\ PageType /\ Live \subseteq Agents /\ restore.todo \in Seq(Agents)
      /\ crashed \subseteq crashed' /\ missed \subseteq missed'
  BY StepFacts
<1>2. /\ x \in Live /\ Live' = Live /\ ready' = ready \cup {x} /\ row' = PersistAgent(x)
      /\ UNCHANGED <<config, restore>>
  BY DEF SetUp, Live
<1>3. /\ \A y \in Agents : row[y] = "running" => row'[y] = "running"
      /\ \A y \in Agents : y # x => row'[y] = row[y]
      /\ ~config[x].restored /\ row[x] = "none" => row'[x] = "running"
  BY <1>1, <1>2 DEF PersistAgent, PageType
<1>4. Restored' = Restored
  BY <1>2 DEF Restored
<1>5. ASSUME NEW y \in Live PROVE (SavedIfLive(y))'
  <2>1. y \in Agents /\ SavedIfLive(y)
    BY <1>1 DEF RowsSaved
  <2>2. CASE y = x
    BY <1>1, <1>2, <1>3, <1>4, <2>1, <2>2 DEF SavedIfLive, Saved
  <2>3. CASE y # x
    BY <1>1, <1>2, <1>3, <1>4, <2>1, <2>3 DEF SavedIfLive, Saved
  <2> QED
    BY <2>2, <2>3
<1>6. \A y \in ToSet(restore'.todo) : (Saved(y))'
  BY <1>1, <1>2, <1>3 DEF RowsSaved, Saved, ToSet
<1> QED
  BY <1>2, <1>5, <1>6 DEF RowsSaved

\* A dismissal deletes the row of an agent that is gone; one that is due to come back is missed.
LEMMA RowsAtDismissal ==
    ASSUME TypeInv, RowsSaved, [Next]_vars, FindNext \/ StopFound
    PROVE  RowsSaved'
<1>1. /\ ProcType /\ PageType /\ Live \subseteq Agents /\ restore.todo \in Seq(Agents)
      /\ crashed \subseteq crashed' /\ missed \subseteq missed'
  BY StepFacts
<1>2. restore' = restore /\ config' = config
  BY DEF FindNext, StopFound, procVars
<1>3. CASE row' = row
  <2>1. Live' \subseteq Live /\ ready' \subseteq ready
    <3>1. CASE FindNext
      BY <3>1 DEF FindNext, procVars, Live
    <3>2. ASSUME StopFound, Exit({dismissal.target[1]})
          PROVE  Live' \subseteq Live /\ ready' \subseteq ready
      BY <1>1, <3>2, ExitRegistry DEF Exit
    <3>3. ASSUME UNCHANGED <<registry, ready>> PROVE Live' \subseteq Live /\ ready' \subseteq ready
      BY <3>3 DEF Live
    <3> QED
      BY <3>1, <3>2, <3>3 DEF StopFound
  <2> QED
    BY <1>2, <1>3, <2>1, RowsKept
<1>4. CASE row' # row
  <2>1. PICK x : /\ row' = [row EXCEPT ![x] = "none"] /\ x \notin Live' /\ Live' \subseteq Live
                 /\ ready' \subseteq ready
                 /\ missed' = missed \cup ({x} \cap ComingBack)
    <3>1. CASE FindNext
      <4>1. /\ row' = [row EXCEPT ![Last(dismissal.order)] = "none"]
            /\ Last(dismissal.order) \notin Live
            /\ missed' = missed \cup ({Last(dismissal.order)} \cap ComingBack)
            /\ Live' = Live /\ ready' = ready
        BY <1>4, <3>1 DEF FindNext, procVars, Live
      <4> QED
        BY <4>1
    <3>2. CASE StopFound
      <4>1. /\ row' = [row EXCEPT ![dismissal.target[1]] = "none"] /\ Exit({dismissal.target[1]})
            /\ missed' = missed \cup ({dismissal.target[1]} \cap ComingBack)
        BY <1>4, <3>2 DEF StopFound
      <4>2. Live' = Live \ {dismissal.target[1]} /\ ready' \subseteq ready
        BY <1>1, <4>1, ExitRegistry DEF Exit
      <4> QED
        BY <4>1, <4>2
    <3> QED
      BY <3>1, <3>2
  <2>2. \A y \in Agents : y # x => row'[y] = row[y]
    BY <1>1, <2>1 DEF PageType
  <2>3. Restored' = Restored
    BY <1>2 DEF Restored
  <2>4. ASSUME NEW y \in Live' PROVE (SavedIfLive(y))'
    <3>1. y \in Agents /\ y # x /\ SavedIfLive(y)
      BY <1>1, <2>1, <2>4 DEF RowsSaved
    <3> QED
      BY <1>1, <1>2, <2>1, <2>2, <2>3, <3>1 DEF SavedIfLive, Saved
  <2>5. ASSUME NEW y \in ToSet(restore'.todo) PROVE (Saved(y))'
    <3>1. y \in Agents /\ Saved(y) /\ (y = x => y \in missed')
      BY <1>1, <1>2, <2>1 DEF RowsSaved, ComingBack, ToSet
    <3> QED
      BY <1>1, <2>2, <3>1 DEF Saved
  <2> QED
    BY <2>4, <2>5 DEF RowsSaved
<1> QED
  BY <1>3, <1>4

\* A restoration starts agents that the database has as running.
LEMMA RowsAtRestore ==
    ASSUME TypeInv, RowsSaved, [Next]_vars, RestoreAgent
    PROVE  RowsSaved'
<1> PICK x : x = Head(restore.todo)
  OBVIOUS
<1>1. /\ ProcType /\ RestoreType /\ Live \subseteq Agents /\ restore.todo \in Seq(Agents)
      /\ restore.todo # <<>> /\ restore.step = "restore"
      /\ crashed \subseteq crashed' /\ missed \subseteq missed'
  BY StepFacts DEF RestoreAgent
<1>2. x \in ToSet(restore.todo) /\ ToSet(Tail(restore.todo)) \subseteq ToSet(restore.todo)
      /\ x \in Agents
  BY <1>1 DEF ToSet
<1>3. /\ Live' = Live \cup {x} /\ row' = row /\ ready' \subseteq ready
      /\ restore'.todo = Tail(restore.todo)
      /\ config' = [config EXCEPT ![x] = RestoreConfig(x)]
  BY <1>1, RestoreProc DEF RestoreAgent, dbVars, RestoreType
<1>4. Saved(x)
  BY <1>2 DEF RowsSaved
<1>5. ASSUME NEW y \in Live, y # x PROVE (SavedIfLive(y))'
  <2>1. SavedIfLive(y) /\ restore.step # "sweep" /\ config'[y] = config[y]
    BY <1>1, <1>2, <1>3, <1>5 DEF RowsSaved, ProcType
  <2> QED
    BY <1>1, <1>3, <2>1 DEF SavedIfLive, Saved
<1>6. (SavedIfLive(x))'
  BY <1>1, <1>3, <1>4 DEF SavedIfLive, Saved
<1>7. \A y \in ToSet(restore'.todo) : (Saved(y))'
  BY <1>1, <1>2, <1>3 DEF RowsSaved, Saved
<1> QED
  BY <1>3, <1>5, <1>6, <1>7 DEF RowsSaved

\* What the lists of children leave out is stopped with its row, unless it was never restored.
LEMMA RowsAtRebuild ==
    ASSUME TypeInv, RestoredKnown, RowsSaved, [Next]_vars, RebuildChildren
    PROVE  RowsSaved'
<1>1. /\ PageType /\ Live \subseteq Agents /\ restore.todo = <<>> /\ restore.step = "restore"
      /\ crashed \subseteq crashed' /\ missed \subseteq missed' /\ RestoreType
  BY StepFacts DEF RebuildChildren
<1>2. PICK gone : /\ gone = {x \in Agents : Cut[x] /\ x \in Restored
                                                   /\ IsAlive(<<x, restore.pids[x]>>)}
                  /\ Live' = Live \ gone /\ Exit(gone)
  BY RebuildProc
<1>3. /\ row' = Stopped({x \in Agents : Cut[x]}) /\ restore' = [restore EXCEPT !.step = "sweep"]
      /\ config' = config /\ ready' \subseteq ready
  BY <1>2 DEF RebuildChildren, Exit
<1>4. restore'.step = "sweep" /\ restore'.todo = <<>> /\ restore'.pids = restore.pids
  BY <1>1, <1>3 DEF RestoreType
<1>5. Restored' = Restored
  BY <1>4 DEF Restored
<1>6. ASSUME NEW x \in Live' PROVE (SavedIfLive(x))'
  <2>1. x \in Live /\ x \in Agents /\ SavedIfLive(x) /\ restore.step # "sweep"
    BY <1>1, <1>2, <1>6 DEF RowsSaved
  <2>2. CASE ~Cut[x]
    <3>1. row'[x] = row[x]
      BY <1>3, <2>1, <2>2 DEF Stopped
    <3> QED
      BY <1>1, <1>3, <2>1, <3>1 DEF SavedIfLive, Saved
  <2>3. CASE Cut[x] /\ x \notin Restored
    BY <1>4, <1>5, <2>3 DEF SavedIfLive
  <2>4. CASE Cut[x] /\ x \in Restored
    <3>1. ~IsAlive(<<x, restore.pids[x]>>)
      BY <1>2, <1>6, <2>1, <2>4
    <3>2. inc[x] # restore.pids[x]
      BY <2>1, <3>1 DEF IsAlive
    <3>3. x \in crashed
      BY <2>1, <2>4, <3>2 DEF RestoredKnown
    <3> QED
      BY <1>1, <3>3 DEF SavedIfLive, Saved
  <2> QED
    BY <2>2, <2>3, <2>4
<1> QED
  BY <1>4, <1>6 DEF RowsSaved, ToSet

\* The sweep stops every agent that the restoration has not started.
LEMMA RowsAtSweep ==
    ASSUME TypeInv, RestoredKnown, RowsSaved, [Next]_vars, SweepOrphans
    PROVE  RowsSaved'
<1>1. /\ PageType /\ Live \subseteq Agents /\ restore.step = "sweep" /\ ProcType
      /\ crashed \subseteq crashed' /\ missed \subseteq missed'
  BY StepFacts DEF SweepOrphans
<1>2. /\ Live' = Live \ Orphans /\ ready' \subseteq ready /\ config' = config
      /\ row' = Stopped(Orphans) /\ restore' = NoRestore
  BY <1>1, ExitRegistry DEF SweepOrphans, Exit, EndRestore
<1>3. restore'.todo = <<>>
  BY <1>2 DEF NoRestore
<1>4. ASSUME NEW x \in Live' PROVE (SavedIfLive(x))'
  <2>1. x \in Live /\ x \in Agents /\ x \in Restored /\ x \notin Orphans /\ SavedIfLive(x)
    BY <1>1, <1>2 DEF RowsSaved, Orphans
  <2>2. row'[x] = row[x]
    BY <1>2, <2>1 DEF Stopped
  <2> QED
    BY <1>1, <1>2, <2>1, <2>2 DEF SavedIfLive, Saved
<1> QED
  BY <1>3, <1>4 DEF RowsSaved, ToSet

\* A restoration is begun with the rows that say running.
LEMMA RowsAtBegin ==
    ASSUME TypeInv, RestoredKnown, RowsSaved, [Next]_vars, ClickResume \/ NodeCrash
    PROVE  RowsSaved'
<1>1. /\ crashed \subseteq crashed' /\ missed \subseteq missed' /\ row' = row /\ ProcType /\ SpawnType
  BY HistoryStep DEF TypeInv, ClickResume, NodeCrash, dbVars
<1>2. CASE restore' = restore
  <2>1. config' = config /\ Live' \subseteq Live /\ ready' \subseteq ready
    <3>1. CASE ClickResume
      BY <3>1 DEF ClickResume, procVars, Live
    <3>2. CASE NodeCrash
      BY <1>1, <3>2, ExitRegistry DEF NodeCrash, Exit
    <3> QED
      BY <3>1, <3>2
  <2> QED
    BY <1>1, <1>2, <2>1, RowsKept
<1>3. CASE restore' # restore
  <2>1. ToSet(restore'.todo) \subseteq RunningRows
    <3>1. CASE restore' = NoRestore
      BY <3>1 DEF NoRestore, ToSet
    <3>2. ASSUME NEW by, restore' = BeginRestore(by, RunningRows)
          PROVE  ToSet(restore'.todo) \subseteq RunningRows
      <4>1. RunningRows \in SUBSET Agents
        BY DEF RunningRows
      <4>2. ToSet(TopologicalSort(RunningRows)) \subseteq RunningRows
        BY <1>1, <4>1, TopologicalSortElements
      <4>3. restore'.todo = TopologicalSort(RunningRows)
        BY <3>2 DEF BeginRestore, NoRestore
      <4> QED
        BY <4>2, <4>3
    <3> QED
      BY <1>3, <3>1, <3>2 DEF ClickResume, NodeCrash
  <2>2. \A x \in ToSet(restore'.todo) : (Saved(x))'
    BY <1>1, <2>1 DEF Saved, RunningRows
  <2>3. CASE NodeCrash
    <3>1. Live' = {}
      BY <1>1, <2>3, ExitRegistry DEF NodeCrash
    <3> QED
      BY <2>2, <3>1 DEF RowsSaved
  <2>4. CASE ClickResume
    <3>1. restore.step = "idle" /\ UNCHANGED <<registry, ready, config>>
      BY <2>4 DEF ClickResume, procVars
    <3>2. Live' = Live
      BY <3>1 DEF Live
    <3>3. \A x \in Live : (SavedIfLive(x))'
      BY <1>1, <3>1 DEF RowsSaved, SavedIfLive, Saved
    <3> QED
      BY <2>2, <3>2, <3>3 DEF RowsSaved
  <2> QED
    BY <2>3, <2>4
<1> QED
  BY <1>2, <1>3

LEMMA RowsStep ==
    ASSUME TypeInv, RestoredKnown, RowsSaved, task # "deleted", task' # "deleted", [Next]_vars
    PROVE  RowsSaved'
<1>1. ProcType /\ JobType
  BY DEF TypeInv
<1>2. ASSUME UNCHANGED <<procVars, row, restore>> PROVE RowsSaved'
  <2>1. row' = row /\ config' = config /\ ready' = ready /\ Live' = Live /\ restore' = restore
    BY <1>2 DEF procVars, Live
  <2> QED
    BY <2>1, RowsKept
<1>3. ASSUME NEW S, Exit(S), UNCHANGED <<config, row, restore>> PROVE RowsSaved'
  <2>1. Live' = Live \ S /\ ready' = ready \ S
    BY <1>1, <1>3, ExitRegistry DEF Exit
  <2> QED
    BY <1>3, <2>1, RowsKept
<1>4. ASSUME NEW x \in Agents, AgentStep(x) \/ Crash(x) PROVE RowsSaved'
  <2>1. CASE SetUp(x)
    BY <2>1, RowsAtSetUp
  <2>2. CASE HandleStopRequested(x) \/ Crash(x)
    BY <1>3, <2>2 DEF HandleStopRequested, Crash, dbVars
  <2>3. CASE HandleNews(x)
    <3>1. row' = row /\ config' = config /\ ready' = ready /\ Live' = Live /\ restore' = restore
      BY <2>3 DEF HandleNews, dbVars, Live
    <3> QED
      BY <3>1, RowsKept
  <2>4. CASE Restart(x)
    BY <2>4, RowsAtStart
  <2> QED
    BY <1>4, <2>1, <2>2, <2>3, <2>4 DEF AgentStep
<1>5. ASSUME NEW x \in Agents,
             SpawnStep(x) \/ FailSpawn(x) \/ (\E p \in Agents : AcceptSpawn(p, x))
      PROVE  RowsSaved'
  <2>1. CASE StartChild(x)
    BY <2>1, RowsAtStart
  <2>2. CASE ~StartChild(x)
    <3>1. row' = row /\ config' = config /\ ready' = ready /\ registry' = registry /\ restore' = restore
      BY <1>5, <2>2 DEF SpawnStep, Announce, AwaitChild, TellParent, FailSpawn, AcceptSpawn, procVars,
                        dbVars
    <3>2. Live' = Live
      BY <3>1 DEF Live
    <3> QED
      BY <3>1, <3>2, RowsKept
  <2> QED
    BY <2>1, <2>2
<1>6. CASE DismissalStep \/ RollBackCosts \/ (\E p, x \in Agents : BeginDismissal(p, x))
  <2>1. CASE FindNext \/ StopFound
    BY <2>1, RowsAtDismissal
  <2>2. CASE ~FindNext /\ ~StopFound
    <3>1. row' = row /\ config' = config /\ ready' = ready /\ registry' = registry /\ restore' = restore
      BY <1>6, <2>2 DEF DismissalStep, RollBackCosts, BeginDismissal, MarkSubtree, Flags, AbsorbCosts,
                        FlagAgent, ScanChildren, TellDismisser, procVars, dbVars
    <3>2. Live' = Live
      BY <3>1 DEF Live
    <3> QED
      BY <3>1, <3>2, RowsKept
  <2> QED
    BY <2>1, <2>2
<1>7. CASE SendStop \/ SweepLate
  <2>1. UNCHANGED <<config, row, restore>> /\ \E S : StopOrKill(S)
    BY <1>7 DEF SendStop, SweepLate, dbVars
  <2>2. PICK S : StopOrKill(S)
    BY <2>1
  <2>3. CASE job.kill
    BY <1>3, <2>1, <2>2, <2>3 DEF StopOrKill
  <2>4. CASE ~job.kill
    <3>1. Live' = Live /\ ready' = ready
      BY <2>2, <2>4 DEF StopOrKill, Live
    <3> QED
      BY <2>1, <3>1, RowsKept
  <2> QED
    BY <2>3, <2>4
<1>8. CASE \/ ShowPausing \/ HandleAgentSpawned \/ HandleAgentTerminated
           \/ ClickPause \/ ClickDelete \/ Reload
  BY <1>2, <1>8 DEF ShowPausing, HandleAgentSpawned, HandleAgentTerminated, ClickPause,
                    ClickDelete, Reload, dbVars
<1>9. ~DeleteTask
  BY DEF DeleteTask
<1>10. CASE SkipAgent \/ FailToRestore
  <2>1. /\ UNCHANGED <<procVars, row>> /\ restore.todo # <<>> /\ restore'.todo = Tail(restore.todo)
        /\ restore'.step = restore.step /\ restore'.pids = restore.pids
    BY <1>10, StepFacts DEF SkipAgent, FailToRestore, dbVars, RestoreType
  <2>2. ToSet(restore'.todo) \subseteq ToSet(restore.todo)
    BY <2>1, StepFacts DEF ToSet
  <2>3. Live' = Live /\ Restored' = Restored /\ ready' = ready /\ config' = config /\ row' = row
    BY <2>1 DEF Live, Restored, procVars
  <2>4. crashed \subseteq crashed' /\ missed \subseteq missed'
    BY HistoryStep
  <2> QED
    BY <2>1, <2>2, <2>3, <2>4 DEF RowsSaved, SavedIfLive, Saved
<1>11. CASE GiveUp
  <2>1. UNCHANGED <<procVars, row>> /\ restore' = NoRestore /\ restore.step = "restore"
    BY <1>11 DEF GiveUp, EndRestore, dbVars
  <2>2. restore'.todo = <<>> /\ Live' = Live /\ ready' = ready /\ config' = config /\ row' = row
    BY <2>1 DEF NoRestore, Live, procVars
  <2>3. crashed \subseteq crashed' /\ missed \subseteq missed'
    BY HistoryStep
  <2> QED
    BY <2>1, <2>2, <2>3 DEF RowsSaved, SavedIfLive, Saved, ToSet
<1>12. CASE UNCHANGED vars
  BY <1>2, <1>12 DEF vars, dbVars
<1> QED
  BY <1>4, <1>5, <1>6, <1>7, <1>8, <1>9, <1>10, <1>11, <1>12, RowsAtRestore, RowsAtRebuild, RowsAtSweep,
     RowsAtBegin, NextCases DEF PageStep, RestoreStep

\* An agent at work is in the database as running, so that the next boot brings it back, unless
\* it has crashed, was missed by a dismissal or is an orphan about to be stopped.
THEOREM LiveAgentsArePersisted == Spec => []LiveAgentIsPersisted
<1>1. Init => PersistInv
  <2> SUFFICES ASSUME Init PROVE PersistInv
    OBVIOUS
  <2>1. /\ restore = NoRestore /\ restarting = {} /\ ready = 1..Initial
        /\ registry = [x \in 1..Initial |-> x]
        /\ row = [x \in Agents |-> IF x <= Initial THEN "running" ELSE "none"]
    BY DEF Init
  <2>2. restore.todo = <<>> /\ \A x \in Agents : restore.pids[x] = 0
    BY <2>1 DEF NoRestore
  <2>3. \A x \in Live : x \in 1..Initial /\ x \in Agents
    BY <2>1 DEF Live, ToSet, Agents
  <2>4. \A x \in Live : row[x] = "running"
    BY <2>1, <2>3
  <2> QED
    BY <2>1, <2>2, <2>4 DEF PersistInv, RestoredKnown, RowsSaved, SavedIfLive, Saved, Restored, ToSet
<1>2. TypeInv /\ PersistInv /\ [Next]_vars => PersistInv'
  <2> SUFFICES ASSUME TypeInv, PersistInv, [Next]_vars PROVE PersistInv'
    OBVIOUS
  <2>1. RestoredKnown'
    BY RestoredKnownStep DEF PersistInv
  <2>2. task' # "deleted" => RowsSaved'
    BY RowsStep, DeletedStep DEF PersistInv
  <2> QED
    BY <2>1, <2>2 DEF PersistInv
<1>3. TypeInv /\ PersistInv => LiveAgentIsPersisted
  <2> SUFFICES ASSUME TypeInv, PersistInv, task # "deleted", NEW x \in ready
               PROVE  \/ row[x] = "running" \/ x \in crashed \cup missed
                      \/ restore.step = "sweep" /\ x \notin Restored
    BY DEF LiveAgentIsPersisted
  <2>1. x \in Live
    BY DEF TypeInv, ProcType
  <2> QED
    BY <2>1 DEF PersistInv, RowsSaved, SavedIfLive, Saved
<1> QED
  BY <1>1, <1>2, <1>3, TypesInvariant, PTL DEF Spec

-----------------------------------------------------------------------------
(* A restoration rebuilds the tree *)

\* An agent is configured when it is started, and not again.
LEMMA ConfigStep ==
    ASSUME TypeInv, [Next]_vars
    PROVE  \A x \in Agents : config'[x] = config[x] \/ inc'[x] = inc[x] + 1
<1>1. inc \in [Agents -> Nat] /\ config \in [Agents -> [parent : Pids, restored : BOOLEAN]]
  BY DEF TypeInv, ProcType
<1>2. ASSUME config' = config PROVE \A x \in Agents : config'[x] = config[x]
  BY <1>2
<1>3. ASSUME NEW y \in Agents, NEW c, Start(y, c)
      PROVE  \A x \in Agents : config'[x] = config[x] \/ inc'[x] = inc[x] + 1
  BY <1>1, <1>3 DEF Start
<1>4. ASSUME NEW y \in Agents, AgentStep(y) \/ Crash(y)
      PROVE  \A x \in Agents : config'[x] = config[x] \/ inc'[x] = inc[x] + 1
  BY <1>2, <1>3, <1>4 DEF AgentStep, SetUp, HandleStopRequested, HandleNews, Restart, Crash
<1>5. ASSUME NEW y \in Agents,
             SpawnStep(y) \/ FailSpawn(y) \/ (\E p \in Agents : AcceptSpawn(p, y))
      PROVE  \A x \in Agents : config'[x] = config[x] \/ inc'[x] = inc[x] + 1
  BY <1>2, <1>3, <1>5 DEF SpawnStep, StartChild, Announce, AwaitChild, TellParent, FailSpawn,
                          AcceptSpawn, procVars
<1>6. ASSUME DismissalStep \/ RollBackCosts \/ (\E p, x \in Agents : BeginDismissal(p, x))
      PROVE  config' = config
  BY <1>6 DEF DismissalStep, RollBackCosts, BeginDismissal, MarkSubtree, Flags, AbsorbCosts,
              FlagAgent, ScanChildren, FindNext, StopFound, TellDismisser, procVars
<1>7. ASSUME PageStep \/ ClickPause \/ ClickResume \/ ClickDelete \/ Reload PROVE config' = config
  BY <1>7 DEF PageStep, SendStop, SweepLate, ShowPausing, DeleteTask, HandleAgentSpawned,
              HandleAgentTerminated, ClickPause, ClickResume, ClickDelete, Reload, procVars
<1>8. CASE RestoreAgent
  <2>1. PICK y : /\ y \in Agents /\ inc' = [inc EXCEPT ![y] = @ + 1]
                 /\ config' = [config EXCEPT ![y] = RestoreConfig(y)]
    BY <1>8, RestoreProc DEF RestoreAgent
  <2> QED
    BY <1>1, <2>1
<1>9. ASSUME RestoreStep \/ FailToRestore \/ NodeCrash, ~RestoreAgent PROVE config' = config
  BY <1>9 DEF RestoreStep, SkipAgent, GiveUp, RebuildChildren, SweepOrphans, FailToRestore, NodeCrash,
              procVars
<1>10. ASSUME UNCHANGED vars PROVE config' = config
  BY <1>10 DEF vars, procVars
<1> QED
  BY <1>2, <1>4, <1>5, <1>6, <1>7, <1>8, <1>9, <1>10, NextCases

\* Incarnations only grow.
LEMMA IncStep ==
    ASSUME TypeInv, [Next]_vars
    PROVE  /\ inc \in [Agents -> Nat] /\ inc' \in [Agents -> Nat]
           /\ \A x \in Agents : inc'[x] = inc[x] \/ inc'[x] = inc[x] + 1
<1>1. inc \in [Agents -> Nat] /\ inc' \in [Agents -> Nat]
  BY ProcTypeStep DEF TypeInv, ProcType
<1>2. ASSUME NEW x \in Agents, Starts(x) PROVE \A y \in Agents : inc'[y] = inc[y] \/ inc'[y] = inc[y] + 1
  BY <1>1, <1>2 DEF Starts
<1>3. ASSUME Ends PROVE \A y \in Agents : inc'[y] = inc[y]
  BY <1>3 DEF Ends
<1> QED
  BY <1>1, <1>2, <1>3, LiveStep

\* What has been started and what is left to start.
RestoreSets ==
    /\ \A x \in restore.all : inc[x] # 0
    /\ \A x \in Restored : x \in restore.all /\ restore.pids[x] <= inc[x]
    /\ Distinct(restore.todo) /\ ToSet(restore.todo) \subseteq restore.all \ Restored

\* Parents come before their children.
RestoreOrder ==
    /\ \A x \in ToSet(restore.todo) : Ancestors[x] \subseteq restore.all
    /\ \A i, j \in DOMAIN restore.todo : i < j => parent[restore.todo[i]] # restore.todo[j]

\* As long as nothing has failed, every agent that can be reached is started or will be, and
\* those started have the pids of their parents.
RestoreComplete ==
    /\ \A x \in restore.all :
          Ancestors[x] \subseteq restore.all => x \in Restored \cup ToSet(restore.todo)
    /\ \A x \in Restored : parent[x] = None \/ parent[x] \in Restored
    /\ \A x \in Restored : restore.pids[x] = inc[x] => config[x] = RestoreConfig(x)

RebuildInv ==
    /\ RestoreSets /\ RestoreOrder
    /\ restore.step # "idle" /\ restore.failed = {} => RestoreComplete

\* The agents of a restoration keep their parents and ancestors.
LEMMA RestoreKin ==
    ASSUME TypeInv, RestoreSets, [Next]_vars
    PROVE  /\ restore.all \subseteq Agents /\ Restored \subseteq restore.all
           /\ ToSet(restore.todo) \subseteq restore.all
           /\ \A x \in restore.all : parent'[x] = parent[x] /\ (Ancestors[x])' = Ancestors[x]
<1>1. /\ restore.all \subseteq Agents /\ Restored \subseteq restore.all
      /\ ToSet(restore.todo) \subseteq restore.all
  BY DEF TypeInv, RestoreType, RestoreSets
<1>2. \A x \in restore.all : stage[x] # "unborn"
  BY <1>1 DEF TypeInv, UnstartedInv, RestoreSets
<1> QED
  BY <1>1, <1>2, ParentStep, AncestorsStep

LEMMA RebuildSame ==
    ASSUME TypeInv, RebuildInv, [Next]_vars,
           UNCHANGED <<restore.all, restore.todo, restore.pids, restore.failed>>,
           restore.step # "idle" \/ restore'.step = "idle"
    PROVE  RebuildInv'
<1>1. /\ restore.all \subseteq Agents /\ Restored \subseteq restore.all
      /\ ToSet(restore.todo) \subseteq restore.all
      /\ \A x \in restore.all : parent'[x] = parent[x] /\ (Ancestors[x])' = Ancestors[x]
  BY RestoreKin DEF RebuildInv
<1>2. Restored' = Restored /\ restore.todo \in Seq(Agents) /\ restore.pids \in [Agents -> Nat]
  BY DEF Restored, TypeInv, RestoreType
<1>3. /\ inc \in [Agents -> Nat] /\ inc' \in [Agents -> Nat]
      /\ \A x \in Agents : inc'[x] = inc[x] \/ inc'[x] = inc[x] + 1
      /\ \A x \in Agents : config'[x] = config[x] \/ inc'[x] = inc[x] + 1
  BY IncStep, ConfigStep
<1>4. RestoreSets'
  <2>1. \A x \in restore'.all : inc'[x] # 0
    BY <1>1, <1>3 DEF RebuildInv, RestoreSets
  <2>2. \A x \in Restored : x \in restore.all /\ restore.pids[x] <= inc'[x]
    <3> SUFFICES ASSUME NEW x \in Restored
                 PROVE  x \in restore.all /\ restore.pids[x] <= inc'[x]
      OBVIOUS
    <3>1. x \in restore.all /\ x \in Agents /\ restore.pids[x] <= inc[x]
      BY <1>1 DEF RebuildInv, RestoreSets
    <3>2. restore.pids[x] \in Nat /\ inc[x] \in Nat /\ (inc'[x] = inc[x] \/ inc'[x] = inc[x] + 1)
      BY <1>2, <1>3, <3>1
    <3> QED
      BY <3>1, <3>2
  <2> QED
    BY <1>2, <2>1, <2>2 DEF RebuildInv, RestoreSets
<1>5. RestoreOrder'
  <2>1. \A i \in DOMAIN restore.todo : restore.todo[i] \in restore.all
    BY <1>1 DEF ToSet
  <2>2. \A i \in DOMAIN restore.todo : parent'[restore.todo[i]] = parent[restore.todo[i]]
    BY <1>1, <2>1
  <2>3. \A i, j \in DOMAIN restore.todo : i < j => parent'[restore.todo[i]] # restore.todo[j]
    BY <2>2 DEF RebuildInv, RestoreOrder
  <2>4. \A x \in ToSet(restore.todo) : (Ancestors[x])' \subseteq restore.all
    BY <1>1 DEF RebuildInv, RestoreOrder
  <2> QED
    BY <2>3, <2>4 DEF RestoreOrder
<1>6. ASSUME RestoreComplete PROVE RestoreComplete'
  <2>1. \A x \in Restored : RestoreConfig(x)' = RestoreConfig(x)
    BY <1>1, <1>2 DEF RestoreConfig
  <2>2. ASSUME NEW x \in Restored, restore.pids[x] = inc'[x]
        PROVE  config'[x] = RestoreConfig(x)'
    <3>1. restore.pids[x] <= inc[x] /\ inc'[x] # inc[x] + 1 /\ x \in Agents
      BY <1>1, <1>2, <1>3, <2>2 DEF RebuildInv, RestoreSets
    <3> QED
      BY <1>3, <1>6, <2>1, <2>2, <3>1 DEF RestoreComplete
  <2>3. \A x \in restore.all : (Ancestors[x])' \subseteq restore.all => x \in Restored \cup ToSet(restore.todo)
    BY <1>1, <1>6 DEF RestoreComplete
  <2>4. \A x \in Restored : parent'[x] = None \/ parent'[x] \in Restored
    BY <1>1, <1>6 DEF RestoreComplete
  <2> QED
    BY <1>2, <2>2, <2>3, <2>4 DEF RestoreComplete
<1> QED
  BY <1>4, <1>5, <1>6 DEF RebuildInv

\* A restoration starts with nothing restored, in an order in which parents come first.
LEMMA RebuildBegins ==
    ASSUME TypeInv, [Next]_vars, ClickResume \/ NodeCrash, NEW by,
           restore' = BeginRestore(by, RunningRows)
    PROVE  RebuildInv'
<1>1. RunningRows \in SUBSET Agents /\ SpawnType /\ UnstartedInv /\ inc' = inc
  BY DEF RunningRows, TypeInv, ClickResume, NodeCrash, procVars
<1>2. /\ restore'.all = RunningRows /\ restore'.todo = TopologicalSort(RunningRows)
      /\ restore'.failed = {} /\ restore'.pids = [x \in Agents |-> 0]
  BY DEF BeginRestore, NoRestore
<1>3. Restored' = {}
  BY <1>2 DEF Restored
<1> PICK todo : todo = TopologicalSort(RunningRows)
  OBVIOUS
<1>4. /\ todo \in Seq(Agents)
      /\ ToSet(todo) = {x \in RunningRows : Ancestors[x] \subseteq RunningRows}
      /\ Distinct(todo) /\ \A i, j \in DOMAIN todo : i < j => parent[todo[i]] # todo[j]
  BY <1>1, TopologicalSortElements
<1>5. \A x \in RunningRows : inc[x] # 0 /\ stage[x] # "unborn"
  BY <1>1 DEF RunningRows, UnstartedInv
<1>6. \A x \in RunningRows : parent'[x] = parent[x] /\ (Ancestors[x])' = Ancestors[x]
  BY <1>1, <1>5, ParentStep, AncestorsStep
<1>7. RestoreSets'
  BY <1>1, <1>2, <1>3, <1>4, <1>5 DEF RestoreSets
<1>8. RestoreOrder'
  <2>1. \A i \in DOMAIN todo : todo[i] \in RunningRows
    BY <1>4 DEF ToSet
  <2>2. \A i, j \in DOMAIN todo : i < j => parent'[todo[i]] # todo[j]
    BY <1>4, <1>6, <2>1
  <2>3. \A x \in ToSet(todo) : (Ancestors[x])' \subseteq RunningRows
    BY <1>4, <1>6
  <2> QED
    BY <1>2, <2>2, <2>3 DEF RestoreOrder
<1>9. RestoreComplete'
  <2>1. \A x \in RunningRows : (Ancestors[x])' \subseteq RunningRows => x \in ToSet(todo)
    BY <1>4, <1>6
  <2> QED
    BY <1>2, <1>3, <2>1 DEF RestoreComplete
<1> QED
  BY <1>7, <1>8, <1>9 DEF RebuildInv

\* The next agent is started under the process of its parent, which has been started before.
LEMMA RebuildContinues ==
    ASSUME TypeInv, RebuildInv, [Next]_vars,
           restore.todo # <<>>, restore'.todo = Tail(restore.todo), restore'.all = restore.all,
           RestoreAgent \/ (restore'.failed # {} /\ restore'.pids = restore.pids)
    PROVE  RebuildInv'
<1> PICK c : c = Head(restore.todo)
  OBVIOUS
<1> PICK todo : todo = restore.todo
  OBVIOUS
<1>1. /\ restore.all \subseteq Agents /\ Restored \subseteq restore.all
      /\ ToSet(restore.todo) \subseteq restore.all
      /\ \A x \in restore.all : parent'[x] = parent[x] /\ (Ancestors[x])' = Ancestors[x]
  BY RestoreKin DEF RebuildInv
<1>2. todo \in Seq(Agents) /\ todo # <<>> /\ restore.pids \in [Agents -> Nat] /\ SpawnType
      /\ RestoreType
  BY DEF TypeInv, RestoreType
<1>3. /\ inc \in [Agents -> Nat] /\ inc' \in [Agents -> Nat]
      /\ \A x \in Agents : inc'[x] = inc[x] \/ inc'[x] = inc[x] + 1
      /\ \A x \in Agents : config'[x] = config[x] \/ inc'[x] = inc[x] + 1
  BY IncStep, ConfigStep
<1>4. /\ DOMAIN todo = 1..Len(todo) /\ Len(todo) \in Nat /\ Len(todo) # 0 /\ c = todo[1]
      /\ DOMAIN Tail(todo) = 1..Len(todo)-1
      /\ \A i \in 1..Len(todo)-1 : Tail(todo)[i] = todo[i+1] /\ i + 1 \in DOMAIN todo
  BY <1>2
<1>5. /\ c \in ToSet(todo) /\ ToSet(Tail(todo)) = ToSet(todo) \ {c} /\ Distinct(Tail(todo))
  <2>1. Distinct(todo)
    BY DEF RebuildInv, RestoreSets
  <2>2. c \in ToSet(todo)
    BY <1>4 DEF ToSet
  <2>3. \A i \in DOMAIN Tail(todo) : Tail(todo)[i] # c
    BY <1>4, <2>1 DEF Distinct
  <2>4. \A i \in DOMAIN todo : i = 1 \/ (i - 1 \in DOMAIN Tail(todo) /\ Tail(todo)[i - 1] = todo[i])
    BY <1>4
  <2>5. ToSet(Tail(todo)) = ToSet(todo) \ {c}
    <3> PICK rest : rest = Tail(todo)
      OBVIOUS
    <3>1. \A i \in DOMAIN rest : rest[i] \in ToSet(todo) /\ rest[i] # c
      BY <1>4, <2>3 DEF ToSet
    <3>2. \A i \in DOMAIN todo : todo[i] = c \/ todo[i] \in ToSet(rest)
      BY <1>4, <2>4 DEF ToSet
    <3> QED
      BY <3>1, <3>2 DEF ToSet
  <2>6. Distinct(Tail(todo))
    BY <1>4, <2>1 DEF Distinct
  <2> QED
    BY <2>2, <2>5, <2>6
<1>6. c \in restore.all /\ c \in Agents /\ c \notin Restored
  BY <1>1, <1>5 DEF RebuildInv, RestoreSets
<1>7. /\ Restored' \subseteq Restored \cup {c}
      /\ \A x \in Agents : x # c => restore'.pids[x] = restore.pids[x]
      /\ RestoreAgent => /\ restore'.pids[c] = inc'[c] /\ Restored' = Restored \cup {c}
                         /\ config'[c] = RestoreConfig(c) /\ restore'.failed = restore.failed
                         /\ restore'.step = restore.step
  <2>1. CASE RestoreAgent
    <3>1. /\ restore'.pids = [restore.pids EXCEPT ![c] = inc[c] + 1]
          /\ inc' = [inc EXCEPT ![c] = @ + 1] /\ config' = [config EXCEPT ![c] = RestoreConfig(c)]
          /\ restore'.failed = restore.failed /\ restore'.step = restore.step
      BY <1>2, <2>1 DEF RestoreAgent, RestoreType
    <3>2. config \in [Agents -> [parent : Pids, restored : BOOLEAN]]
      BY DEF TypeInv, ProcType
    <3>3. restore'.pids[c] = inc'[c] /\ restore'.pids[c] # 0 /\ config'[c] = RestoreConfig(c)
      BY <1>2, <1>3, <1>6, <3>1, <3>2
    <3>4. \A x \in Agents : x # c => restore'.pids[x] = restore.pids[x]
      BY <1>2, <3>1
    <3>5. Restored' = Restored \cup {c}
      BY <1>6, <3>3, <3>4 DEF Restored
    <3> QED
      BY <3>1, <3>3, <3>4, <3>5
  <2>2. CASE ~RestoreAgent
    BY <2>2 DEF Restored
  <2> QED
    BY <2>1, <2>2
<1>8. RestoreSets'
  <2>1. \A x \in restore.all : inc'[x] # 0
    BY <1>1, <1>3 DEF RebuildInv, RestoreSets
  <2>2. ASSUME NEW x \in Restored' PROVE x \in restore.all /\ restore'.pids[x] <= inc'[x]
    <3>1. CASE x \in Restored
      <4>1. /\ x \in restore.all /\ x \in Agents /\ x # c /\ restore.pids[x] <= inc[x]
            /\ restore'.pids[x] = restore.pids[x]
        BY <1>1, <1>6, <1>7, <3>1 DEF RebuildInv, RestoreSets
      <4>2. /\ restore.pids[x] \in Nat /\ inc[x] \in Nat
            /\ (inc'[x] = inc[x] \/ inc'[x] = inc[x] + 1)
        BY <1>2, <1>3, <4>1
      <4> QED
        BY <4>1, <4>2
    <3>2. CASE x = c /\ x \notin Restored
      <4>1. RestoreAgent
        BY <2>2, <3>2 DEF Restored
      <4> QED
        BY <1>3, <1>6, <1>7, <3>2, <4>1
    <3> QED
      BY <1>7, <2>2, <3>1, <3>2
  <2>3. ToSet(Tail(todo)) \subseteq restore.all \ Restored'
    BY <1>5, <1>7 DEF RebuildInv, RestoreSets
  <2> QED
    BY <1>5, <2>1, <2>2, <2>3 DEF RestoreSets
<1>9. RestoreOrder'
  <2>1. \A i \in DOMAIN todo : todo[i] \in restore.all
    BY <1>1 DEF ToSet
  <2>2. \A i, j \in DOMAIN todo : i < j => parent'[todo[i]] # todo[j]
    BY <1>1, <2>1 DEF RebuildInv, RestoreOrder
  <2>3. \A i, j \in DOMAIN Tail(todo) : i < j => parent'[Tail(todo)[i]] # Tail(todo)[j]
    <3> SUFFICES ASSUME NEW i \in DOMAIN Tail(todo), NEW j \in DOMAIN Tail(todo), i < j
                 PROVE  parent'[Tail(todo)[i]] # Tail(todo)[j]
      OBVIOUS
    <3>1. /\ i + 1 \in DOMAIN todo /\ j + 1 \in DOMAIN todo /\ i + 1 < j + 1
          /\ Tail(todo)[i] = todo[i+1] /\ Tail(todo)[j] = todo[j+1]
      BY <1>4
    <3> QED
      BY <2>2, <3>1
  <2>4. \A x \in ToSet(Tail(todo)) : (Ancestors[x])' \subseteq restore.all
    BY <1>1, <1>5 DEF RebuildInv, RestoreOrder
  <2> QED
    BY <2>3, <2>4 DEF RestoreOrder
<1>10. ASSUME restore'.step # "idle", restore'.failed = {} PROVE RestoreComplete'
  <2>1. RestoreAgent /\ RestoreComplete
    BY <1>7, <1>10 DEF RebuildInv
  <2>2. parent[c] = None \/ parent[c] \in Restored
    <3>1. CASE parent[c] # None
      <4>1. parent[c] \in Agents /\ parent[c] \in Ancestors[c] /\ Ancestors[parent[c]] \subseteq Ancestors[c]
        <5>1. /\ parent[c] \in Agents /\ Ancestors[c] = {c} \cup Ancestors[parent[c]]
              /\ parent[c] \in Ancestors[parent[c]]
          BY <1>2, <1>6, <3>1, AncestorsAreAgents
        <5> QED
          BY <5>1
      <4>2. Ancestors[c] \subseteq restore.all
        BY <1>5 DEF RebuildInv, RestoreOrder
      <4>3. parent[c] \in Restored \cup ToSet(todo)
        BY <2>1, <4>1, <4>2 DEF RestoreComplete
      <4>4. parent[c] # c /\ parent[c] \notin ToSet(Tail(todo))
        <5>1. parent[c] < c /\ c \in Int
          BY <1>2, <1>6 DEF SpawnType, Agents
        <5>2. \A i \in DOMAIN Tail(todo) : parent[c] # Tail(todo)[i]
          BY <1>4 DEF RebuildInv, RestoreOrder
        <5> QED
          BY <5>1, <5>2 DEF ToSet
      <4> QED
        BY <1>5, <4>3, <4>4
    <3> QED
      BY <3>1
  <2>3. \A x \in Restored' : parent'[x] = None \/ parent'[x] \in Restored
    BY <1>1, <1>6, <1>7, <2>1, <2>2 DEF RestoreComplete
  <2>4. \A x \in restore.all :
            (Ancestors[x])' \subseteq restore.all => x \in Restored' \cup ToSet(Tail(todo))
    BY <1>1, <1>5, <1>7, <2>1 DEF RestoreComplete
  <2>5. \A x \in Restored' : RestoreConfig(x)' = RestoreConfig(x)
    <3> SUFFICES ASSUME NEW x \in Restored' PROVE RestoreConfig(x)' = RestoreConfig(x)
      OBVIOUS
    <3>1. x \in restore.all /\ parent'[x] = parent[x]
      BY <1>1, <1>6, <1>7
    <3>2. parent[x] = None \/ (parent[x] \in Restored /\ parent[x] # c /\ parent[x] \in Agents)
      BY <1>1, <1>6, <2>3, <3>1
    <3>3. (parent'[x] \in Restored') <=> parent[x] \in Restored
      BY <1>6, <1>7, <2>1, <3>1, <3>2 DEF None, Agents
    <3>4. parent[x] \in Restored => restore'.pids[parent[x]] = restore.pids[parent[x]]
      BY <1>1, <1>6, <1>7
    <3> QED
      BY <3>1, <3>3, <3>4 DEF RestoreConfig
  <2>6. ASSUME NEW x \in Restored', restore'.pids[x] = inc'[x] PROVE config'[x] = RestoreConfig(x)'
    <3>1. CASE x = c
      BY <1>7, <2>1, <2>5, <3>1
    <3>2. CASE x # c
      <4>1. /\ x \in Restored /\ x \in Agents /\ restore'.pids[x] = restore.pids[x]
            /\ restore.pids[x] <= inc[x]
        BY <1>1, <1>7, <2>1, <3>2 DEF RebuildInv, RestoreSets
      <4>2. inc'[x] # inc[x] + 1
        BY <1>2, <1>3, <2>6, <4>1
      <4> QED
        BY <1>3, <2>1, <2>5, <2>6, <4>1, <4>2 DEF RestoreComplete
    <3> QED
      BY <3>1, <3>2
  <2> QED
    BY <1>7, <2>1, <2>3, <2>4, <2>6 DEF RestoreComplete
<1> QED
  BY <1>8, <1>9, <1>10 DEF RebuildInv

LEMMA RebuildStep ==
    ASSUME TypeInv, RebuildInv, [Next]_vars
    PROVE  RebuildInv'
<1>1. RestoreMoves
  BY RestoreStepMoves
<1>2. CASE restore' = restore
  BY <1>2, RebuildSame
<1>3. CASE restore' = NoRestore
  <2>1. /\ restore'.step = "idle" /\ restore'.all = {} /\ restore'.todo = <<>>
        /\ \A x \in Agents : restore'.pids[x] = 0
    BY <1>3 DEF NoRestore
  <2>2. Restored' = {} /\ DOMAIN restore'.todo = {} /\ ToSet(restore'.todo) = {}
    BY <2>1 DEF Restored, ToSet
  <2> QED
    BY <2>1, <2>2 DEF RebuildInv, RestoreSets, RestoreOrder, Distinct
<1>4. CASE RebuildChildren /\ restore' = [restore EXCEPT !.step = "sweep"]
  <2>1. UNCHANGED <<restore.all, restore.todo, restore.pids, restore.failed>> /\ restore.step # "idle"
    BY <1>4 DEF TypeInv, RestoreType, RebuildChildren
  <2> QED
    BY <2>1, RebuildSame
<1> QED
  BY <1>1, <1>2, <1>3, <1>4, RebuildBegins, RebuildContinues DEF RestoreMoves

\* The count of events is a number.
LEMMA EventsStep ==
    ASSUME [Next]_vars, events \in Nat
    PROVE  events' \in Nat
<1>1. ASSUME events' = events \/ events' = events + 1 PROVE events' \in Nat
  BY <1>1
<1>2. ASSUME NEW x \in Agents,
             \/ AgentStep(x) \/ Crash(x) \/ SpawnStep(x) \/ FailSpawn(x)
             \/ \E p \in Agents : AcceptSpawn(p, x)
      PROVE  events' = events \/ events' = events + 1
  BY <1>2 DEF AgentStep, SetUp, HandleStopRequested, HandleNews, Restart, Crash, SpawnStep, StartChild,
              Announce, AwaitChild, TellParent, FailSpawn, AcceptSpawn, Happens
<1>3. ASSUME DismissalStep \/ RollBackCosts \/ (\E p, x \in Agents : BeginDismissal(p, x))
      PROVE  events' = events \/ events' = events + 1
  BY <1>3 DEF DismissalStep, RollBackCosts, BeginDismissal, MarkSubtree, Flags, AbsorbCosts,
              FlagAgent, ScanChildren, FindNext, StopFound, TellDismisser, Happens
<1>4. ASSUME PageStep \/ ClickPause \/ ClickDelete \/ ClickResume \/ Reload
      PROVE  events' = events \/ events' = events + 1
  BY <1>4 DEF PageStep, SendStop, SweepLate, ShowPausing, DeleteTask, HandleAgentSpawned,
              HandleAgentTerminated, ClickPause, ClickDelete, ClickResume, Reload, Clicked, Happens
<1>5. ASSUME RestoreStep \/ FailToRestore \/ NodeCrash PROVE events' = events \/ events' = events + 1
  BY <1>5 DEF RestoreStep, SkipAgent, RestoreAgent, GiveUp, RebuildChildren, SweepOrphans,
              FailToRestore, NodeCrash, Happens
<1>6. ASSUME UNCHANGED vars PROVE events' = events
  BY <1>6 DEF vars
<1> QED
  BY <1>1, <1>2, <1>3, <1>4, <1>5, <1>6, NextCases

\* A restoration in which nothing failed ends with every agent that can be reached from the root
\* started under the restored process of its parent, and stops none of them itself.
THEOREM RestorationsRebuildTheTree == Spec => RestoreRebuildsTree
<1> DEFINE rebuilt ==
               (restore.step = "sweep" /\ restore'.step = "idle" /\ events' = events
                   /\ restore.failed = {}) =>
                   /\ \A x \in restore.all : Ancestors[x] \subseteq restore.all =>
                          /\ x \in Restored
                          /\ IsAlive(<<x, restore.pids[x]>>) => config[x] = RestoreConfig(x)
                   /\ Live \cap Restored \subseteq Live'
<1>1. Init => RestoredKnown /\ RebuildInv /\ events \in Nat
  <2> SUFFICES ASSUME Init PROVE RestoredKnown /\ RebuildInv /\ events \in Nat
    OBVIOUS
  <2>1. restore = NoRestore /\ restarting = {} /\ events = 0
    BY DEF Init
  <2>2. /\ restore.step = "idle" /\ restore.all = {} /\ restore.todo = <<>>
        /\ \A x \in Agents : restore.pids[x] = 0
    BY <2>1 DEF NoRestore
  <2>3. Restored = {} /\ DOMAIN restore.todo = {} /\ ToSet(restore.todo) = {}
    BY <2>2 DEF Restored, ToSet
  <2> QED
    BY <2>1, <2>2, <2>3 DEF RebuildInv, RestoreSets, RestoreOrder, Distinct, RestoredKnown
<1>2. TypeInv /\ RestoredKnown /\ RebuildInv /\ events \in Nat /\ [Next]_vars
          => RestoredKnown' /\ RebuildInv' /\ (events \in Nat)'
  BY RestoredKnownStep, RebuildStep, EventsStep
<1>3. TypeInv /\ RestoredKnown /\ RebuildInv /\ events \in Nat /\ [Next]_vars => [rebuilt]_vars
  <2> SUFFICES ASSUME TypeInv, RestoredKnown, RebuildInv, events \in Nat, [Next]_vars,
                      restore.step = "sweep", restore'.step = "idle", events' = events,
                      restore.failed = {}
               PROVE  /\ \A x \in restore.all : Ancestors[x] \subseteq restore.all =>
                             /\ x \in Restored
                             /\ IsAlive(<<x, restore.pids[x]>>) => config[x] = RestoreConfig(x)
                      /\ Live \cap Restored \subseteq Live'
    OBVIOUS
  <2>1. SweepOrphans
    <3>1. RestoreMoves
      BY RestoreStepMoves
    <3>2. ~NodeCrash /\ ~GiveUp
      BY DEF NodeCrash, Happens, GiveUp
    <3>3. ~ClickResume
      BY DEF ClickResume
    <3> QED
      BY <3>1, <3>2, <3>3 DEF RestoreMoves, RebuildChildren
  <2>2. Live' = Live \ Orphans
    BY <2>1, ExitRegistry DEF SweepOrphans, TypeInv
  <2>3. RestoreComplete /\ ToSet(restore.todo) = {}
    BY DEF RebuildInv, RestoredKnown, ToSet
  <2> QED
    BY <2>2, <2>3 DEF RestoreComplete, IsAlive, Orphans
<1>4. Spec => [][rebuilt]_vars
  <2> HIDE DEF rebuilt
  <2> QED
    BY <1>1, <1>2, <1>3, TypesInvariant, PTL DEF Spec
<1> QED
  BY <1>4 DEF RestoreRebuildsTree

-----------------------------------------------------------------------------
(* A dismissed subtree is gone *)

\* The process that asked for an agent has existed, and the parent an agent knows is a process
\* its parent has had.
KinInv ==
    \A x \in Agents :
        /\ parent[x] # None => inc[parent[x]] # 0 /\ spawner[x] <= inc[parent[x]]
        /\ inc[x] = 0 => config[x].parent = NoPid
        /\ config[x].parent[1] # None =>
              config[x].parent[1] = parent[x] /\ config[x].parent[2] <= inc[parent[x]]

\* An agent that is restored before its parent, or without it, knows no parent.
LinksInv ==
    \A x \in Restored : /\ parent[x] \notin ToSet(restore.todo)
                        /\ parent[x] \notin Restored => config[x].parent = NoPid

Broken(x) == inc[x] # 0 /\ Unlinked(x)

\* Where the walk below r loses its way, for good: a link that is out of date may yet be renewed
\* by a restoration, but not by one that starts r first.
Off(r, y) == \/ y \in late \cup missed
             \/ Broken(y) /\ (y \in ToSet(restore.todo) => r \notin Restored)

Excused(r, x) == \E y \in Ancestors[x] : r \in Ancestors[y] /\ Off(r, y)

AtWork == Live \cup restarting \cup BeingSpawned

\* Everything below r is in O, or below an agent of Q, or excused.
Clean(r, O, Q) ==
    /\ \A x \in AtWork : r \in Ancestors[x] =>
          x \in O \/ Excused(r, x) \/ Ancestors[x] \cap Q # {}
    /\ \A x \in ToSet(restore.todo) : r \in Ancestors[x] =>
          r \notin Restored \/ Excused(r, x) \/ (x \notin O /\ Ancestors[x] \cap Q # {})

\* What has been collected cannot accept another spawn, unless its flag is still to be set.
Flagged(O, W) == \A x \in O \cap (Live \cup restarting) : x \in dismissing \cup missed \cup W

\* An agent that is dead stays so: nobody restarts it, and no row brings it back.
Dead(x) == /\ inc[x] # 0 /\ x \notin Live \cup restarting \cup ToSet(restore.todo)
           /\ row[x] = "none"

Finished(x) == x \in missed \/ Dead(x)

Collecting == dismissal.step \in {"flag", "scan", "find", "stop", "tell"}

Unflagged == ToSet(IF dismissal.step = "scan" THEN Tail(dismissal.queue) ELSE dismissal.queue)

Collected(r, O, Q, W) ==
    /\ Clean(r, O, Q) /\ Flagged(O, W)
    /\ W \subseteq Q /\ Q \subseteq O
    /\ \A x \in O : inc[x] # 0 /\ r \in Ancestors[x]

\* The root comes first and is stopped last.
InOrderFromRoot ==
    /\ dismissal.step # "tell" => dismissal.order[1] = dismissal.root
    /\ dismissal.step \in {"find", "stop", "tell"} => dismissal.queue = <<>>
    /\ dismissal.step = "stop" => dismissal.target[1] = Last(dismissal.order)
    /\ dismissal.step = "tell" => dismissal.order = <<>> /\ Finished(dismissal.root)

CollectInv ==
    /\ Collected(dismissal.root, ToSet(dismissal.order), ToSet(dismissal.queue), Unflagged)
    /\ InOrderFromRoot

DismissInv ==
    /\ dismissal.step # "idle" => inc[dismissal.root] # 0
    /\ Collecting => CollectInv

DoneInv == \A r \in dismissed : r \in Agents /\ inc[r] # 0 /\ Finished(r) /\ Clean(r, {}, {})

\* Ancestors are closed upwards, and every proper ancestor is the parent of another.
LEMMA AncestorsAbove ==
    ASSUME SpawnType
    PROVE  \A x \in Agents : \A y \in Ancestors[x] :
              /\ Ancestors[y] \subseteq Ancestors[x]
              /\ y = x \/ \E z \in Ancestors[x] : parent[z] = y
<1>1. /\ \A x \in Agents : x \in Ancestors[x] /\ Ancestors[x] \subseteq Agents
      /\ \A x \in Agents : parent[x] # None =>
            parent[x] \in Agents /\ parent[x] < x /\ Ancestors[x] = {x} \cup Ancestors[parent[x]]
      /\ \A x \in Agents : parent[x] = None => Ancestors[x] = {x}
  BY AncestorsAreAgents DEF SpawnType
<1> DEFINE goal(x) == \A y \in Ancestors[x] : /\ Ancestors[y] \subseteq Ancestors[x]
                                              /\ y = x \/ \E z \in Ancestors[x] : parent[z] = y
           T == {n \in Nat : \A x \in Agents : x \in 1..n => goal(x)}
<1>2. 0 \in T
  OBVIOUS
<1>3. ASSUME NEW n \in T PROVE n + 1 \in T
  <2> SUFFICES ASSUME NEW x \in Agents, x \in 1..n+1 PROVE goal(x)
    OBVIOUS
  <2>1. CASE parent[x] = None
    BY <1>1, <2>1
  <2>2. CASE parent[x] # None
    <3>1. parent[x] \in Agents /\ parent[x] \in 1..n
      BY <1>1, <2>2 DEF Agents
    <3>2. goal(parent[x])
      BY <3>1
    <3>3. Ancestors[x] = {x} \cup Ancestors[parent[x]] /\ x \in Ancestors[x]
      BY <1>1, <2>2
    <3>4. ASSUME NEW y \in Ancestors[x], y # x
          PROVE  /\ Ancestors[y] \subseteq Ancestors[x]
                 /\ \E z \in Ancestors[x] : parent[z] = y
      <4>1. y \in Ancestors[parent[x]]
        BY <3>3, <3>4
      <4>2. Ancestors[y] \subseteq Ancestors[parent[x]]
        BY <3>2, <4>1
      <4>3. y = parent[x] \/ \E z \in Ancestors[parent[x]] : parent[z] = y
        BY <3>2, <4>1
      <4> QED
        BY <3>3, <4>2, <4>3
    <3> QED
      BY <3>3, <3>4
  <2> QED
    BY <2>1, <2>2
<1>4. T = Nat
  <2> HIDE DEF T
  <2>1. T \in SUBSET Nat
    BY DEF T
  <2> QED
    BY <1>2, <1>3, <2>1, NaturalSet
<1>5. ASSUME NEW x \in Agents PROVE goal(x)
  <2>1. x \in T /\ x \in 1..x
    BY <1>4 DEF Agents
  <2> QED
    BY <2>1
<1> QED
  BY <1>5

\* Going up from an agent of a set to one outside, there is a last one in the set.
LEMMA TopmostIn ==
    ASSUME SpawnType, NEW S, NEW r, NEW x \in Agents, r \in Ancestors[x], x \in S, r \notin S
    PROVE  \E z \in Ancestors[x] : /\ z \in S /\ r \in Ancestors[z]
                                   /\ parent[z] # None /\ parent[z] \notin S
<1>1. /\ \A y \in Agents : y \in Ancestors[y] /\ Ancestors[y] \subseteq Agents
      /\ \A y \in Agents : parent[y] # None =>
            parent[y] \in Agents /\ parent[y] < y /\ Ancestors[y] = {y} \cup Ancestors[parent[y]]
      /\ \A y \in Agents : parent[y] = None => Ancestors[y] = {y}
  BY AncestorsAreAgents DEF SpawnType
<1>2. \A y \in Ancestors[x] : Ancestors[y] \subseteq Ancestors[x]
  BY AncestorsAbove
<1> DEFINE T == {z \in Ancestors[x] : z \in S /\ r \in Ancestors[z]}
<1>3. T \subseteq Nat /\ x \in T
  BY <1>1 DEF Agents
<1>4. PICK z \in T : \A n \in T : z <= n
  BY <1>3, LeastNatural
<1>5. z \in Agents /\ z \in Ancestors[x] /\ z \in S /\ r \in Ancestors[z] /\ z # r /\ z \in Nat
  BY <1>1, <1>3, <1>4
<1>6. parent[z] # None /\ parent[z] \in Agents /\ parent[z] < z /\ r \in Ancestors[parent[z]]
  BY <1>1, <1>5
<1>7. parent[z] \in Ancestors[x] /\ parent[z] \in Nat
  BY <1>1, <1>2, <1>5, <1>6 DEF Agents
<1>8. parent[z] \notin S
  <2> SUFFICES ASSUME parent[z] \in S PROVE FALSE
    OBVIOUS
  <2>1. parent[z] \in T
    BY <1>6, <1>7
  <2>2. z <= parent[z]
    BY <1>4, <2>1
  <2> QED
    BY <1>5, <1>6, <1>7, <2>2
<1> QED
  BY <1>5, <1>6, <1>8

\* Above an agent that was asked for, everyone has been started.
LEMMA AncestorsStarted ==
    ASSUME TypeInv, KinInv
    PROVE  \A x \in Agents : \A y \in Ancestors[x] : y = x \/ inc[y] # 0
<1>1. SpawnType
  BY DEF TypeInv
<1>2. \A x \in Agents : Ancestors[x] \subseteq Agents
  BY <1>1, AncestorsAreAgents
<1>3. ASSUME NEW x \in Agents, NEW y \in Ancestors[x], y # x PROVE inc[y] # 0
  <2>1. PICK z \in Ancestors[x] : parent[z] = y
    BY <1>1, <1>3, AncestorsAbove
  <2>2. z \in Agents /\ y \in Agents
    BY <1>2
  <2>3. y # None
    BY <2>2 DEF Agents, None
  <2> QED
    BY <2>1, <2>2, <2>3 DEF KinInv
<1> QED
  BY <1>3

\* How the configuration of an agent may change.
LEMMA ConfigCases ==
    ASSUME TypeInv, [Next]_vars, NEW x \in Agents
    PROVE  \/ config'[x] = config[x]
           \/ StartChild(x) /\ config'[x] = [parent |-> Asker(x), restored |-> FALSE]
           \/ RestoreAgent /\ x = Head(restore.todo) /\ config'[x] = RestoreConfig(x)
<1>1. config \in [Agents -> [parent : Pids, restored : BOOLEAN]] /\ inc \in [Agents -> Nat]
  BY DEF TypeInv, ProcType
<1> SUFFICES ASSUME config'[x] # config[x]
             PROVE  \/ StartChild(x) /\ config'[x] = [parent |-> Asker(x), restored |-> FALSE]
                    \/ RestoreAgent /\ x = Head(restore.todo) /\ config'[x] = RestoreConfig(x)
  OBVIOUS
<1>2. inc'[x] = inc[x] + 1
  BY ConfigStep
<1>3. inc'[x] # inc[x]
  BY <1>1, <1>2
<1>4. ~Ends
  BY <1>3 DEF Ends
<1>5. PICK y \in Agents : Starts(y)
  BY <1>4, LiveStep
<1>6. y = x
  BY <1>1, <1>3, <1>5 DEF Starts
<1>7. CASE Restart(x)
  BY <1>1, <1>7 DEF Restart, Start
<1>8. CASE StartChild(x)
  BY <1>1, <1>8 DEF StartChild, Start
<1>9. CASE RestoreAgent /\ x = Head(restore.todo)
  BY <1>1, <1>9 DEF RestoreAgent
<1> QED
  BY <1>5, <1>6, <1>7, <1>8, <1>9 DEF Starts

\* A step of a restoration starts the first agent that is left, or none; a new one has started
\* nobody yet.
LEMMA TodoStep ==
    ASSUME TypeInv, RebuildInv, [Next]_vars
    PROVE  \/ Restored' = {} /\ ~RestoreAgent
           \/ /\ Restored' = Restored /\ ~RestoreAgent
              /\ ToSet(restore'.todo) \subseteq ToSet(restore.todo)
           \/ /\ RestoreAgent /\ Head(restore.todo) \in ToSet(restore.todo)
              /\ Restored' = Restored \cup {Head(restore.todo)}
              /\ config'[Head(restore.todo)] = RestoreConfig(Head(restore.todo))
              /\ ToSet(restore'.todo) = ToSet(restore.todo) \ {Head(restore.todo)}
              /\ parent[Head(restore.todo)] \notin ToSet(restore'.todo)
<1> DEFINE goal == \/ Restored' = {} /\ ~RestoreAgent
                   \/ /\ Restored' = Restored /\ ~RestoreAgent
                      /\ ToSet(restore'.todo) \subseteq ToSet(restore.todo)
                   \/ /\ RestoreAgent /\ Head(restore.todo) \in ToSet(restore.todo)
                      /\ Restored' = Restored \cup {Head(restore.todo)}
                      /\ config'[Head(restore.todo)] = RestoreConfig(Head(restore.todo))
                      /\ ToSet(restore'.todo) = ToSet(restore.todo) \ {Head(restore.todo)}
                      /\ parent[Head(restore.todo)] \notin ToSet(restore'.todo)
<1> SUFFICES goal
  OBVIOUS
<1>1. /\ SpawnType /\ RestoreType /\ restore.todo \in Seq(Agents) /\ inc \in [Agents -> Nat]
      /\ restore.pids \in [Agents -> Nat]
      /\ config \in [Agents -> [parent : Pids, restored : BOOLEAN]]
  BY DEF TypeInv, ProcType, RestoreType
<1>2. CASE RestoreAgent
  <2> PICK todo : todo = restore.todo
    OBVIOUS
  <2> PICK rest : rest = Tail(todo)
    OBVIOUS
  <2> PICK c : c = Head(todo)
    OBVIOUS
  <2>1. /\ todo # <<>> /\ restore'.todo = rest /\ todo \in Seq(Agents)
        /\ restore'.pids = [restore.pids EXCEPT ![c] = inc[c] + 1]
        /\ config' = [config EXCEPT ![c] = RestoreConfig(c)]
    BY <1>1, <1>2 DEF RestoreAgent, RestoreType
  <2>2. /\ DOMAIN todo = 1..Len(todo) /\ Len(todo) \in Nat /\ Len(todo) # 0 /\ c = todo[1]
        /\ DOMAIN rest = 1..Len(todo)-1
        /\ \A i \in 1..Len(todo)-1 : rest[i] = todo[i+1] /\ i + 1 \in DOMAIN todo
    BY <2>1
  <2>3. c \in ToSet(todo) /\ c \in Agents
    BY <2>1, <2>2 DEF ToSet
  <2>4. /\ Distinct(todo) /\ \A i, j \in DOMAIN todo : i < j => parent[todo[i]] # todo[j]
    BY DEF RebuildInv, RestoreSets, RestoreOrder
  <2>5. ToSet(rest) = ToSet(todo) \ {c}
    <3>1. \A i \in DOMAIN rest : rest[i] \in ToSet(todo) /\ rest[i] # c
      BY <2>2, <2>4 DEF ToSet, Distinct
    <3>2. \A i \in DOMAIN todo : i = 1 \/ (i - 1 \in DOMAIN rest /\ rest[i - 1] = todo[i])
      BY <2>2
    <3>3. \A i \in DOMAIN todo : todo[i] = c \/ todo[i] \in ToSet(rest)
      BY <2>2, <3>2 DEF ToSet
    <3> QED
      BY <3>1, <3>3 DEF ToSet
  <2>6. parent[c] \notin ToSet(rest)
    <3>1. parent[c] # c
      BY <1>1, <2>3 DEF SpawnType, Agents
    <3>2. \A i \in DOMAIN rest : rest[i] = todo[i + 1] /\ 1 < i + 1 /\ i + 1 \in DOMAIN todo /\ 1 \in DOMAIN todo
      BY <2>2
    <3>3. \A i \in DOMAIN rest : parent[c] # rest[i]
      BY <2>2, <2>4, <3>2
    <3> QED
      BY <3>3 DEF ToSet
  <2>7. Restored' = Restored \cup {c}
    <3>1. restore'.pids[c] # 0 /\ \A x \in Agents : x # c => restore'.pids[x] = restore.pids[x]
      BY <1>1, <2>1, <2>3
    <3> QED
      BY <2>3, <3>1 DEF Restored
  <2>8. config'[c] = RestoreConfig(c)
    BY <1>1, <2>1, <2>3
  <2> QED
    BY <1>2, <2>1, <2>3, <2>5, <2>6, <2>7, <2>8
<1>3. CASE ~RestoreAgent
  <2>1. NoRestore.pids = [x \in Agents |-> 0]
    BY DEF NoRestore
  <2>2. \A by \in {"page", "boot"} : BeginRestore(by, RunningRows).pids = [x \in Agents |-> 0]
    BY DEF BeginRestore, NoRestore
  <2>3. ASSUME restore'.pids = [x \in Agents |-> 0] PROVE goal
    BY <1>3, <2>3 DEF Restored
  <2>4. ASSUME restore' = restore PROVE goal
    BY <1>3, <2>4 DEF Restored
  <2>5. CASE /\ restore.todo # <<>> /\ restore'.todo = Tail(restore.todo)
             /\ restore'.pids = restore.pids
    <3>1. ToSet(restore'.todo) \subseteq ToSet(restore.todo)
      BY <1>1, <2>5 DEF ToSet
    <3> QED
      BY <1>3, <2>5, <3>1 DEF Restored
  <2>6. CASE restore' = [restore EXCEPT !.step = "sweep"]
    <3>1. restore'.todo = restore.todo /\ restore'.pids = restore.pids
      BY <1>1, <2>6 DEF RestoreType
    <3> QED
      BY <1>3, <3>1 DEF Restored
  <2>7. RestoreMoves
    BY RestoreStepMoves
  <2> HIDE DEF goal
  <2> QED
    BY <1>3, <2>1, <2>2, <2>3, <2>4, <2>5, <2>6, <2>7 DEF RestoreMoves
<1> QED
  BY <1>2, <1>3

\* An agent's parent is a process that has existed, however it was started.
LEMMA KinStep ==
    ASSUME TypeInv, RebuildInv, KinInv, [Next]_vars
    PROVE  KinInv'
<1>1. /\ SpawnType /\ UnstartedInv /\ ready \subseteq Live /\ Live \subseteq Agents
      /\ config \in [Agents -> [parent : Pids, restored : BOOLEAN]]
  BY StepFacts DEF TypeInv, ProcType
<1>2. /\ inc \in [Agents -> Nat] /\ inc' \in [Agents -> Nat]
      /\ \A x \in Agents : inc[x] <= inc'[x]
  BY IncStep
<1>3. ASSUME NEW x \in Agents, parent'[x] = parent[x], spawner'[x] = spawner[x]
      PROVE  parent'[x] # None => inc'[parent'[x]] # 0 /\ spawner'[x] <= inc'[parent'[x]]
  <2> SUFFICES ASSUME parent[x] # None
               PROVE  inc'[parent[x]] # 0 /\ spawner[x] <= inc'[parent[x]]
    BY <1>3
  <2>1. parent[x] \in Agents /\ inc[parent[x]] # 0 /\ spawner[x] <= inc[parent[x]] /\ spawner[x] \in Nat
    BY <1>1, AncestorsAreAgents DEF KinInv, SpawnType
  <2> QED
    BY <1>2, <2>1
<1>4. ASSUME NEW p \in Agents, NEW y \in Agents, AcceptSpawn(p, y)
      PROVE  KinInv'
  <2>1. /\ parent' = [parent EXCEPT ![y] = p] /\ spawner' = [spawner EXCEPT ![y] = inc[p]]
        /\ stage[y] = "unborn" /\ p \in Live /\ inc' = inc /\ config' = config
    BY <1>1, <1>4 DEF AcceptSpawn
  <2>2. inc[p] # 0 /\ inc[y] = 0 /\ config[y].parent = NoPid
    BY <1>1, <2>1 DEF UnstartedInv, KinInv
  <2>3. /\ parent'[y] = p /\ spawner'[y] = inc[p]
        /\ \A x \in Agents : x # y => parent'[x] = parent[x] /\ spawner'[x] = spawner[x]
    BY <1>1, <2>1 DEF SpawnType
  <2>4. \A x \in Agents : x = y \/ x # y
    OBVIOUS
  <2>5. \A x \in Agents : parent'[x] # None => inc'[parent'[x]] # 0 /\ spawner'[x] <= inc'[parent'[x]]
    BY <1>2, <1>3, <2>1, <2>2, <2>3
  <2>6. \A x \in Agents : inc'[x] = 0 => config'[x].parent = NoPid
    BY <2>1 DEF KinInv
  <2>7. ASSUME NEW x \in Agents, config'[x].parent[1] # None
        PROVE  config'[x].parent[1] = parent'[x] /\ config'[x].parent[2] <= inc'[parent'[x]]
    <3>1. x # y
      BY <2>1, <2>2, <2>7 DEF NoPid, None
    <3> QED
      BY <2>1, <2>3, <2>7, <3>1 DEF KinInv
  <2> QED
    BY <2>5, <2>6, <2>7 DEF KinInv
<1>5. CASE UNCHANGED <<parent, spawner>>
  <2>1. \A x \in Agents : parent'[x] # None => inc'[parent'[x]] # 0 /\ spawner'[x] <= inc'[parent'[x]]
    BY <1>3, <1>5
  <2>2. ASSUME NEW x \in Agents, NEW c, c = config'[x]
        PROVE  /\ inc'[x] = 0 => c.parent = NoPid
               /\ c.parent[1] # None => c.parent[1] = parent[x] /\ c.parent[2] <= inc'[parent[x]]
    <3>1. CASE config'[x] = config[x]
      <4>1. inc'[x] = 0 => inc[x] = 0
        BY <1>2
      <4>2. ASSUME c.parent[1] # None
            PROVE  c.parent[1] = parent[x] /\ c.parent[2] <= inc'[parent[x]]
        <5>1. c.parent \in Pids
          BY <1>1, <2>2, <3>1
        <5>2. c.parent[1] = parent[x] /\ c.parent[2] <= inc[parent[x]]
          BY <2>2, <3>1, <4>2 DEF KinInv
        <5>3. parent[x] \in Agents /\ c.parent[2] \in Nat
          BY <1>1, <4>2, <5>1, <5>2, AncestorsAreAgents DEF Pids
        <5> QED
          BY <1>2, <5>2, <5>3
      <4> QED
        BY <2>2, <3>1, <4>1, <4>2 DEF KinInv
    <3>2. CASE StartChild(x) /\ config'[x] = [parent |-> Asker(x), restored |-> FALSE]
      <4>1. c.parent = <<parent[x], spawner[x]>>
        BY <2>2, <3>2 DEF Asker
      <4>2. inc'[x] # 0
        BY <1>2, <3>2 DEF StartChild, Start
      <4>3. parent'[x] = parent[x] /\ spawner'[x] = spawner[x]
        BY <1>5
      <4> QED
        BY <2>1, <4>1, <4>2, <4>3
    <3>3. CASE RestoreAgent /\ x = Head(restore.todo) /\ config'[x] = RestoreConfig(x)
      <4>1. inc'[x] # 0
        BY <1>2, <3>3 DEF RestoreAgent
      <4>2. CASE parent[x] \in Restored
        <5>1. c.parent = <<parent[x], restore.pids[parent[x]]>>
          BY <2>2, <3>3, <4>2 DEF RestoreConfig
        <5>2. /\ parent[x] \in Agents /\ restore.pids[parent[x]] <= inc[parent[x]]
              /\ restore.pids[parent[x]] \in Nat
          BY <4>2 DEF RebuildInv, RestoreSets, Restored, TypeInv, RestoreType
        <5> QED
          BY <1>2, <4>1, <5>1, <5>2
      <4>3. CASE parent[x] \notin Restored
        <5>1. c.parent = NoPid
          BY <2>2, <3>3, <4>3 DEF RestoreConfig
        <5> QED
          BY <4>1, <5>1 DEF NoPid, None
      <4> QED
        BY <4>2, <4>3
    <3> QED
      BY <3>1, <3>2, <3>3, ConfigCases
  <2> QED
    BY <1>5, <2>1, <2>2 DEF KinInv
<1> QED
  BY <1>4, <1>5, StageStep

LEMMA LinksStep ==
    ASSUME TypeInv, RebuildInv, LinksInv, [Next]_vars
    PROVE  LinksInv'
<1>1. /\ SpawnType /\ UnstartedInv /\ Restored \subseteq Agents /\ restore.todo \in Seq(Agents)
      /\ ToSet(restore.todo) \subseteq Agents /\ ToSet(restore.todo) \cap Restored = {}
      /\ \A x \in Restored : inc[x] # 0
      /\ \A x \in ToSet(restore.todo) : inc[x] # 0
  BY DEF TypeInv, RestoreType, RebuildInv, RestoreSets, Restored
<1>2. \A x \in Agents : inc[x] # 0 => parent'[x] = parent[x] /\ stage[x] # "start"
  BY <1>1, ParentStep DEF UnstartedInv
<1>3. CASE Restored' = {}
  BY <1>3 DEF LinksInv
<1>4. CASE /\ Restored' = Restored /\ ~RestoreAgent
           /\ ToSet(restore'.todo) \subseteq ToSet(restore.todo)
  <2>1. \A x \in Restored : parent'[x] = parent[x] /\ config'[x] = config[x]
    BY <1>1, <1>2, <1>4, ConfigCases DEF StartChild
  <2> QED
    BY <1>4, <2>1 DEF LinksInv
<1>5. CASE /\ RestoreAgent /\ Head(restore.todo) \in ToSet(restore.todo)
           /\ Restored' = Restored \cup {Head(restore.todo)}
           /\ config'[Head(restore.todo)] = RestoreConfig(Head(restore.todo))
           /\ ToSet(restore'.todo) = ToSet(restore.todo) \ {Head(restore.todo)}
           /\ parent[Head(restore.todo)] \notin ToSet(restore'.todo)
  <2> PICK c : c = Head(restore.todo)
    OBVIOUS
  <2>1. c \in Agents /\ c \notin Restored /\ inc[c] # 0
    BY <1>1, <1>5
  <2>2. \A x \in Restored : parent'[x] = parent[x] /\ config'[x] = config[x] /\ parent[x] # c
    BY <1>1, <1>2, <1>5, <2>1, ConfigCases DEF StartChild, LinksInv
  <2>3. \A x \in Restored : parent[x] \notin ToSet(restore'.todo) /\ (parent[x] \notin Restored' => config[x].parent = NoPid)
    BY <1>5 DEF LinksInv
  <2>4. parent'[c] = parent[c] /\ (parent[c] \notin Restored' => config'[c].parent = NoPid)
    BY <1>2, <1>5, <2>1 DEF RestoreConfig
  <2> QED
    BY <1>5, <2>2, <2>3, <2>4 DEF LinksInv
<1> QED
  BY <1>3, <1>4, <1>5, TodoStep

\* The ancestors of an agent that was asked for, in this state and the next.
LEMMA KinFacts ==
    ASSUME TypeInv, KinInv, [Next]_vars, NEW x \in Agents, stage[x] # "unborn"
    PROVE  /\ Ancestors'[x] = Ancestors[x] /\ x \in Ancestors[x] /\ Ancestors[x] \subseteq Agents
           /\ \A y \in Ancestors[x] : /\ y \in Ancestors[y] /\ Ancestors'[y] = Ancestors[y]
                                      /\ Ancestors[y] \subseteq Ancestors[x]
                                      /\ parent'[y] = parent[y] /\ stage[y] # "unborn"
<1>1. SpawnType /\ UnstartedInv
  BY DEF TypeInv
<1>2. \A y \in Agents : y \in Ancestors[y] /\ Ancestors[y] \subseteq Agents
  BY <1>1, AncestorsAreAgents
<1>3. \A y \in Ancestors[x] : stage[y] # "unborn"
  BY <1>1, <1>2, AncestorsStarted DEF UnstartedInv
<1> QED
  BY <1>1, <1>2, <1>3, AncestorsAbove, AncestorsStep, ParentStep

\* What is excused stays so, for what is below it too.
LEMMA ExcusedBelow ==
    ASSUME TypeInv, KinInv, [Next]_vars, NEW x \in Agents, stage[x] # "unborn", NEW r,
           NEW y \in Ancestors[x], (Excused(r, y))'
    PROVE  (Excused(r, x))'
<1>1. /\ Ancestors'[x] = Ancestors[x] /\ Ancestors'[y] = Ancestors[y]
      /\ Ancestors[y] \subseteq Ancestors[x]
  BY KinFacts
<1> QED
  BY <1>1 DEF Excused

LEMMA ExcusedIfOff ==
    ASSUME TypeInv, KinInv, [Next]_vars, NEW x \in Agents, stage[x] # "unborn", NEW r,
           NEW y \in Ancestors[x], r \in Ancestors[y], (Off(r, y))'
    PROVE  (Excused(r, x))'
<1>1. Ancestors'[x] = Ancestors[x] /\ Ancestors'[y] = Ancestors[y]
  BY KinFacts
<1> QED
  BY <1>1 DEF Excused

\* Below an agent that a restoration has not started, those it has started have lost a link.
LEMMA RestoredBelow ==
    ASSUME TypeInv, KinInv, [Next]_vars, RebuildInv', LinksInv', NEW x \in Agents,
           stage[x] # "unborn", NEW r \in Ancestors[x], x \in Restored', r \notin Restored'
    PROVE  (Excused(r, x))'
<1>1. SpawnType
  BY DEF TypeInv
<1>2. PICK z \in Ancestors[x] : /\ z \in Restored' /\ r \in Ancestors[z]
                                /\ parent[z] # None /\ parent[z] \notin Restored'
  BY <1>1, TopmostIn
<1>3. parent'[z] = parent[z]
  BY KinFacts
<1>4. config'[z].parent = NoPid
  BY <1>2, <1>3 DEF LinksInv
<1>5. inc'[z] # 0 /\ z \notin ToSet(restore'.todo)
  BY <1>2 DEF RebuildInv, RestoreSets
<1>6. (Unlinked(z))'
  <2>1. NoPid # <<parent[z], inc'[parent[z]]>>
    BY <1>2 DEF NoPid, None
  <2> QED
    BY <1>2, <1>3, <1>4, <2>1 DEF Unlinked, Pid
<1>7. (Off(r, z))'
  BY <1>5, <1>6 DEF Off, Broken
<1> QED
  BY <1>2, <1>7, ExcusedIfOff

LEMMA ExcusedStep ==
    ASSUME TypeInv, RebuildInv, KinInv, LinksInv, [Next]_vars, NEW r \in Agents, NEW x \in Agents,
           stage[x] # "unborn", Excused(r, x), RestoreAgent /\ r = Head(restore.todo) => r \in missed'
    PROVE  (Excused(r, x))'
<1>1. RebuildInv' /\ LinksInv'
  BY RebuildStep, LinksStep
<1>2. PICK y \in Ancestors[x] : r \in Ancestors[y] /\ Off(r, y)
  BY DEF Excused
<1>3. /\ y \in Agents /\ stage[y] # "unborn" /\ r \in Ancestors[x] /\ r \in Ancestors[r]
      /\ Ancestors[y] \subseteq Ancestors[x] /\ parent'[y] = parent[y]
  BY <1>2, KinFacts
<1>4. CASE r \in missed'
  BY <1>3, <1>4, ExcusedIfOff DEF Off
<1>5. CASE y \in late \cup missed
  <2>1. y \in late' \cup missed'
    BY <1>5, HistoryStep
  <2> QED
    BY <1>2, <2>1, ExcusedIfOff DEF Off
<1>6. CASE /\ Broken(y) /\ (y \in ToSet(restore.todo) => r \notin Restored)
           /\ r \notin missed'
  <2>1. inc[y] # 0 /\ parent[y] # None /\ config[y].parent # <<parent[y], inc[parent[y]]>>
    BY <1>6 DEF Broken, Unlinked, Pid
  <2>2. CASE config'[y] = config[y]
    <3>1. /\ inc \in [Agents -> Nat] /\ inc' \in [Agents -> Nat]
          /\ \A z \in Agents : inc[z] <= inc'[z]
      BY IncStep
    <3>2. parent[y] \in Agents /\ config[y].parent \in Pids
      BY <1>3, <2>1, AncestorsAreAgents DEF TypeInv, ProcType
    <3>3. config[y].parent # <<parent[y], inc'[parent[y]]>>
      <4> SUFFICES ASSUME config[y].parent = <<parent[y], inc'[parent[y]]>> PROVE FALSE
        OBVIOUS
      <4>1. config[y].parent[1] = parent[y] /\ config[y].parent[2] = inc'[parent[y]]
        OBVIOUS
      <4>2. inc'[parent[y]] <= inc[parent[y]]
        BY <1>3, <2>1, <4>1 DEF KinInv
      <4>3. inc'[parent[y]] = inc[parent[y]]
        BY <3>1, <3>2, <4>2
      <4> QED
        BY <2>1, <4>3
    <3>4. inc'[y] # 0
      BY <1>3, <2>1, <3>1
    <3>5. (Broken(y))'
      BY <1>3, <2>1, <2>2, <3>3, <3>4 DEF Broken, Unlinked, Pid
    <3>6. y \in ToSet(restore'.todo) => r \notin Restored'
      BY <1>6, TodoStep
    <3> QED
      BY <1>2, <3>5, <3>6, ExcusedIfOff DEF Off
  <2>3. CASE StartChild(y)
    BY <1>3, <2>1, <2>3 DEF StartChild, TypeInv, UnstartedInv
  <2>4. CASE RestoreAgent /\ y = Head(restore.todo)
    <3>1. y \in ToSet(restore.todo) /\ Restored' = Restored \cup {y}
      BY <2>4, TodoStep
    <3>2. r \notin Restored' /\ y \in Restored'
      BY <1>6, <2>4, <3>1
    <3>3. (Excused(r, y))'
      BY <1>1, <1>2, <1>3, <3>2, RestoredBelow
    <3> QED
      BY <3>3, ExcusedBelow
  <2> QED
    BY <1>3, <2>2, <2>3, <2>4, ConfigCases
<1> QED
  BY <1>2, <1>4, <1>5, <1>6 DEF Off

\* What is at work after a step was so before it, or is asked for, or restored.
LEMMA AtWorkStep ==
    ASSUME TypeInv, [Next]_vars, NEW x \in AtWork'
    PROVE  /\ x \in Agents
           /\ \/ x \in AtWork \/ \E p \in Agents : AcceptSpawn(p, x)
              \/ RestoreAgent /\ x = Head(restore.todo)
<1>1. x \in Live' \/ x \in restarting' \/ (x \in Agents /\ stage'[x] = "start")
  BY DEF AtWork, BeingSpawned
<1>2. Live \subseteq Agents /\ restarting \subseteq Agents
  BY StepFacts DEF TypeInv, ProcType
<1>3. CASE x \in Live' \/ x \in restarting'
  <2>1. CASE Ends
    BY <1>2, <1>3, <2>1 DEF Ends, AtWork
  <2>2. ASSUME NEW z \in Agents, Starts(z)
        PROVE  x \in Agents /\ (x \in AtWork \/ (RestoreAgent /\ x = Head(restore.todo)))
    BY <1>2, <1>3, <2>2 DEF Starts, AtWork, BeingSpawned, Restart, StartChild
  <2> QED
    BY <2>1, <2>2, LiveStep
<1>4. CASE x \in Agents /\ stage'[x] = "start"
  <2>1. ASSUME NEW p \in Agents, NEW y \in Agents, AcceptSpawn(p, y)
        PROVE  x \in AtWork \/ \E q \in Agents : AcceptSpawn(q, x)
    <3>1. stage' = [stage EXCEPT ![y] = "start"] /\ SpawnType
      BY <2>1 DEF AcceptSpawn, TypeInv
    <3>2. x = y \/ stage[x] = "start"
      BY <1>4, <3>1 DEF SpawnType
    <3> QED
      BY <1>4, <2>1, <3>2 DEF AtWork, BeingSpawned
  <2>2. ASSUME stage[x] = "start" PROVE x \in AtWork
    BY <1>4, <2>2 DEF AtWork, BeingSpawned
  <2> QED
    BY <1>4, <2>1, <2>2, StageStep
<1> QED
  BY <1>1, <1>3, <1>4

\* Being clean below r is kept by every step, if r is not restored unseen and nobody collected
\* accepts a spawn.
LEMMA CleanStep ==
    ASSUME TypeInv, RebuildInv, KinInv, LinksInv, [Next]_vars, NEW r \in Agents, inc[r] # 0,
           NEW O, NEW Q, Clean(r, O, Q),
           RestoreAgent /\ r = Head(restore.todo) => r \in missed',
           \A p \in O \cap Live : p \in dismissing \cup missed \cup Q
    PROVE  (Clean(r, O, Q))'
<1>1. /\ SpawnType /\ SpawnType' /\ UnstartedInv /\ ready \subseteq Live /\ Live \subseteq Agents
      /\ restarting \subseteq Agents /\ ToSet(restore.todo) \subseteq Agents
      /\ missed \subseteq missed'
  BY StepFacts, SpawnTypeStep DEF TypeInv, ProcType, RestoreType, ToSet
<1>2. RebuildInv' /\ LinksInv'
  BY RebuildStep, LinksStep
<1>3. ASSUME NEW x \in Agents, stage[x] # "unborn", Excused(r, x) PROVE (Excused(r, x))'
  BY <1>3, ExcusedStep
<1>4. ASSUME NEW x \in Agents, stage[x] # "unborn"
      PROVE  Ancestors'[x] = Ancestors[x] /\ x \in Ancestors[x]
  BY <1>4, KinFacts
<1>5. \A x \in ToSet(restore.todo) : stage[x] # "unborn" /\ x \in Agents
  BY <1>1 DEF UnstartedInv
<1>6. \A x \in AtWork : stage[x] # "unborn" /\ x \in Agents
  BY <1>1 DEF AtWork, BeingSpawned, UnstartedInv
<1>7. ASSUME NEW x \in Agents, stage[x] # "unborn", r \in Ancestors[x], r \in missed'
      PROVE  (Excused(r, x))'
  <2>1. r \in Ancestors[r]
    BY <1>7, KinFacts
  <2> QED
    BY <1>7, <2>1, ExcusedIfOff DEF Off
<1>8. ASSUME NEW x \in AtWork', r \in Ancestors'[x]
      PROVE  x \in O \/ (Excused(r, x))' \/ Ancestors'[x] \cap Q # {}
  <2>1. x \in Agents
    BY AtWorkStep
  <2>2. CASE x \in AtWork
    <3>1. x \in O \/ Excused(r, x) \/ Ancestors[x] \cap Q # {}
      BY <1>4, <1>6, <1>8, <2>2 DEF Clean
    <3> QED
      BY <1>3, <1>4, <1>6, <2>2, <3>1
  <2>3. ASSUME NEW p \in Agents, AcceptSpawn(p, x)
        PROVE  (Excused(r, x))' \/ Ancestors'[x] \cap Q # {}
    <3>1. p \in Live /\ p \notin dismissing /\ stage[x] = "unborn" /\ parent'[x] = p
      BY <1>1, <2>1, <2>3 DEF AcceptSpawn, SpawnType
    <3>2. stage[p] # "unborn" /\ r # x /\ p # None
      BY <1>1, <2>1, <3>1 DEF UnstartedInv, Agents, None
    <3>3. Ancestors'[p] = Ancestors[p] /\ p \in Ancestors[p]
      BY <1>4, <3>2
    <3>4. Ancestors'[x] = {x} \cup Ancestors[p]
      <4>1. Ancestors'[x] = {x} \cup Ancestors'[parent'[x]]
        BY <1>1, <2>1, <3>1, <3>2, AncestorsNext
      <4> QED
        BY <3>1, <3>3, <4>1
    <3>5. r \in Ancestors[p]
      BY <1>8, <3>2, <3>4
    <3>6. p \in O \/ Excused(r, p) \/ Ancestors[p] \cap Q # {}
      BY <3>1, <3>5 DEF Clean, AtWork
    <3>7. CASE p \in O
      <4>1. p \in missed' \/ p \in Q
        BY <1>1, <3>1, <3>7
      <4> QED
        BY <3>3, <3>4, <3>5, <4>1 DEF Excused, Off
    <3>8. CASE Excused(r, p)
      <4>1. (Excused(r, p))'
        BY <1>3, <3>2, <3>8
      <4> QED
        BY <3>3, <3>4, <4>1 DEF Excused
    <3> QED
      BY <3>4, <3>6, <3>7, <3>8
  <2>4. CASE RestoreAgent /\ x = Head(restore.todo)
    <3>1. x \in ToSet(restore.todo) /\ Restored' = Restored \cup {x}
      BY <2>4, TodoStep
    <3>2. stage[x] # "unborn" /\ r \in Ancestors[x] /\ Ancestors'[x] = Ancestors[x]
      BY <1>4, <1>5, <1>8, <3>1
    <3>3. r \notin Restored \/ Excused(r, x) \/ Ancestors[x] \cap Q # {}
      BY <3>1, <3>2 DEF Clean
    <3>4. CASE r \notin Restored /\ r # x
      BY <1>2, <2>1, <3>1, <3>2, <3>4, RestoredBelow
    <3>5. CASE r = x
      BY <1>7, <2>1, <2>4, <3>2, <3>5
    <3> QED
      BY <1>3, <2>1, <3>2, <3>3, <3>4, <3>5
  <2> QED
    BY <2>2, <2>3, <2>4, AtWorkStep
<1>9. ASSUME NEW x \in ToSet(restore'.todo), r \in Ancestors'[x], r \in Restored'
      PROVE  (Excused(r, x))' \/ (x \notin O /\ Ancestors'[x] \cap Q # {})
  <2>1. x \in ToSet(restore.todo)
    BY <1>9, TodoStep
  <2>2. x \in Agents /\ stage[x] # "unborn" /\ Ancestors'[x] = Ancestors[x] /\ r \in Ancestors[x]
    BY <1>4, <1>5, <1>9, <2>1
  <2>3. CASE r \in Restored
    BY <1>3, <2>1, <2>2, <2>3 DEF Clean
  <2>4. CASE r \notin Restored
    <3>1. RestoreAgent /\ r = Head(restore.todo)
      BY <1>9, <2>4, TodoStep
    <3> QED
      BY <1>7, <2>2, <3>1
  <2> QED
    BY <2>3, <2>4
<1> QED
  BY <1>8, <1>9 DEF Clean

\* The dead stay dead.
LEMMA FinishedStep ==
    ASSUME TypeInv, [Next]_vars, NEW x \in Agents, Finished(x)
    PROVE  (Finished(x))'
<1>1. /\ UnstartedInv /\ missed \subseteq missed' /\ SpawnType /\ restore.todo \in Seq(Agents)
      /\ ready \subseteq Live
  BY StepFacts DEF TypeInv, ProcType
<1>2. CASE x \in missed
  BY <1>1, <1>2 DEF Finished
<1>3. CASE Dead(x)
  <2>1. inc'[x] # 0
    BY <1>3, IncStep DEF Dead
  <2>2. x \notin Live' \cup restarting'
    <3>1. CASE Ends
      BY <1>3, <3>1 DEF Ends, Dead
    <3>2. ASSUME NEW z \in Agents, Starts(z), z # x PROVE x \notin Live' \cup restarting'
      BY <1>3, <3>2 DEF Starts, Dead
    <3>3. ~Starts(x)
      <4>1. ~Restart(x) /\ ~StartChild(x)
        BY <1>1, <1>3 DEF Restart, StartChild, Dead, UnstartedInv
      <4>2. ASSUME RestoreAgent, x = Head(restore.todo) PROVE FALSE
        <5>1. restore.todo # <<>>
          BY <4>2 DEF RestoreAgent
        <5>2. restore.todo[1] = x /\ 1 \in DOMAIN restore.todo
          BY <1>1, <4>2, <5>1
        <5> QED
          BY <1>3, <5>2 DEF Dead, ToSet
      <4> QED
        BY <4>1, <4>2 DEF Starts
    <3> QED
      BY <3>1, <3>2, <3>3, LiveStep
  <2>3. x \notin ToSet(restore'.todo)
    <3>1. RunningRows \in SUBSET Agents /\ x \notin RunningRows
      BY <1>3 DEF RunningRows, Dead
    <3>2. ToSet(TopologicalSort(RunningRows)) \subseteq RunningRows
      BY <1>1, <3>1, TopologicalSortElements
    <3>3. \A by \in {"page", "boot"} : BeginRestore(by, RunningRows).todo = TopologicalSort(RunningRows)
      BY DEF BeginRestore, NoRestore
    <3>4. NoRestore.todo = <<>>
      BY DEF NoRestore
    <3>5. CASE \E by \in {"page", "boot"} : restore' = BeginRestore(by, RunningRows)
      BY <3>1, <3>2, <3>3, <3>5
    <3>6. CASE restore' = NoRestore
      BY <3>4, <3>6 DEF ToSet
    <3>7. CASE restore.todo # <<>> /\ restore'.todo = Tail(restore.todo)
      <4>1. ToSet(restore'.todo) \subseteq ToSet(restore.todo)
        BY <1>1, <3>7 DEF ToSet
      <4> QED
        BY <1>3, <4>1 DEF Dead
    <3>8. CASE restore'.todo = restore.todo
      BY <1>3, <3>8 DEF Dead
    <3>9. restore' = [restore EXCEPT !.step = "sweep"] => restore'.todo = restore.todo
      BY DEF TypeInv, RestoreType
    <3> QED
      BY <3>5, <3>6, <3>7, <3>8, <3>9, RestoreStepMoves DEF RestoreMoves
  <2>4. row'[x] = "none"
    <3>1. ASSUME NEW y \in Agents, SetUp(y), row' = PersistAgent(y) PROVE row'[x] = "none"
      <4>1. y # x
        BY <1>1, <1>3, <3>1 DEF SetUp, Dead
      <4> QED
        BY <1>1, <1>3, <3>1, <4>1 DEF PersistAgent, Dead, TypeInv, PageType
    <3> QED
      BY <1>3, <3>1, RowStep DEF Dead
  <2> QED
    BY <2>1, <2>2, <2>3, <2>4 DEF Finished, Dead
<1> QED
  BY <1>2, <1>3 DEF Finished

\* A flag is lost with its process, for a collected agent not unseen.
LEMMA FlagStep ==
    ASSUME TypeInv, [Next]_vars
    PROVE  \A x \in dismissing : \/ x \in dismissing' \/ x \notin Live' \cup restarting'
                                 \/ x \in missed' \/ x \notin ToSet(dismissal.order)
<1> DEFINE goal == \A x \in dismissing : \/ x \in dismissing' \/ x \notin Live' \cup restarting'
                                         \/ x \in missed' \/ x \notin ToSet(dismissal.order)
<1> SUFFICES goal
  OBVIOUS
<1>1. ProcType /\ registry \in Seq(Agents) /\ dismissing \subseteq Live
  BY DEF TypeInv, ProcType
<1>2. ASSUME dismissing \subseteq dismissing' PROVE goal
  BY <1>2
<1>3. ASSUME NEW S, S \subseteq Live, Exit(S), restarting' = restarting PROVE goal
  <2>1. dismissing' = dismissing \ S /\ Live' = Live \ S
    BY <1>1, <1>3, ExitRegistry DEF Exit, ProcType
  <2> QED
    BY <1>1, <1>3, <2>1 DEF ProcType
<1>4. ASSUME NEW S, dismissing' = dismissing \ S, S \cap ToSet(dismissal.order) \subseteq missed'
      PROVE  goal
  BY <1>4
<1>5. ASSUME NEW x \in Agents, AgentStep(x) \/ Crash(x) PROVE goal
  <2>1. CASE SetUp(x) \/ HandleNews(x) \/ Restart(x)
    BY <1>2, <2>1 DEF SetUp, HandleNews, Restart, Start
  <2>2. CASE HandleStopRequested(x)
    <3>1. {x} \subseteq Live /\ Exit({x}) /\ restarting' = restarting
      BY <1>1, <2>2 DEF HandleStopRequested, ProcType, TypeInv
    <3> QED
      BY <1>3, <3>1
  <2>3. CASE Crash(x)
    <3>1. dismissing' = dismissing \ {x} /\ {x} \cap ToSet(dismissal.order) \subseteq missed'
      BY <2>3 DEF Crash, Exit
    <3> QED
      BY <1>4, <3>1
  <2> QED
    BY <1>5, <2>1, <2>2, <2>3 DEF AgentStep
<1>6. ASSUME NEW x \in Agents,
             SpawnStep(x) \/ FailSpawn(x) \/ (\E p \in Agents : AcceptSpawn(p, x))
      PROVE  goal
  BY <1>2, <1>6 DEF SpawnStep, StartChild, Announce, AwaitChild, TellParent, FailSpawn, AcceptSpawn,
                    Start, procVars
<1>7. CASE DismissalStep \/ RollBackCosts \/ (\E p, x \in Agents : BeginDismissal(p, x))
  <2>1. CASE StopFound
    <3>1. CASE IsAlive(dismissal.target) /\ Exit({dismissal.target[1]})
      <4>1. {dismissal.target[1]} \subseteq Live /\ restarting' = restarting
        BY <2>1, <3>1 DEF IsAlive, StopFound
      <4> QED
        BY <1>3, <3>1, <4>1
    <3>2. CASE UNCHANGED dismissing
      BY <1>2, <3>2
    <3> QED
      BY <2>1, <3>1, <3>2 DEF StopFound
  <2>2. CASE ~StopFound
    BY <1>2, <1>7, <2>2 DEF DismissalStep, RollBackCosts, BeginDismissal, MarkSubtree, Flags, SetDismissing,
                            AbsorbCosts, FlagAgent, ScanChildren, FindNext, TellDismisser, procVars
  <2> QED
    BY <2>1, <2>2
<1>8. ASSUME NEW S, StopOrKill(S) PROVE goal
  <2>1. CASE job.kill
    <3>1. dismissing' = dismissing \ S /\ S \cap ToSet(dismissal.order) \subseteq missed'
      BY <1>8, <2>1 DEF StopOrKill, Exit
    <3> QED
      BY <1>4, <3>1
  <2>2. CASE ~job.kill
    BY <1>2, <1>8, <2>2 DEF StopOrKill
  <2> QED
    BY <2>1, <2>2
<1>9. CASE SendStop \/ SweepLate
  <2>1. \E S : StopOrKill(S)
    BY <1>9 DEF SendStop, SweepLate
  <2> QED
    BY <1>8, <2>1
<1>10. CASE \/ ShowPausing \/ DeleteTask \/ HandleAgentSpawned \/ HandleAgentTerminated
            \/ ClickPause \/ ClickResume \/ ClickDelete \/ Reload
  BY <1>2, <1>10 DEF ShowPausing, DeleteTask, HandleAgentSpawned, HandleAgentTerminated, ClickPause,
                     ClickResume, ClickDelete, Reload, procVars
<1>11. CASE SkipAgent \/ GiveUp \/ FailToRestore
  BY <1>2, <1>11 DEF SkipAgent, GiveUp, FailToRestore, procVars
<1>12. CASE RestoreAgent
  <2>1. \E x : dismissing' = dismissing \ {x} /\ {x} \cap ToSet(dismissal.order) \subseteq missed'
    BY <1>12 DEF RestoreAgent
  <2> QED
    BY <1>4, <2>1
<1>13. CASE RebuildChildren \/ SweepOrphans \/ NodeCrash
  <2>1. CASE RebuildChildren
    <3>1. PICK gone : gone \subseteq Live /\ Exit(gone)
      BY <2>1, RebuildProc
    <3>2. restarting' = restarting
      BY <2>1 DEF RebuildChildren
    <3> QED
      BY <1>3, <3>1, <3>2
  <2>2. CASE SweepOrphans
    BY <1>3, <2>2 DEF SweepOrphans, Orphans
  <2>3. CASE NodeCrash
    <3>1. Live' = {} /\ restarting' = {}
      BY <1>1, <2>3, ExitRegistry DEF NodeCrash
    <3> QED
      BY <3>1
  <2> QED
    BY <1>13, <2>1, <2>2, <2>3
<1>14. CASE UNCHANGED vars
  BY <1>2, <1>14 DEF vars, procVars
<1> HIDE DEF goal
<1> QED
  BY <1>5, <1>6, <1>7, <1>9, <1>10, <1>11, <1>12, <1>13, <1>14, NextCases
     DEF PageStep, RestoreStep

\* What has been collected stays flagged, where it lives.
LEMMA FlaggedStep ==
    ASSUME TypeInv, [Next]_vars, NEW O, O \subseteq ToSet(dismissal.order),
           \A x \in O : inc[x] # 0, NEW W, Flagged(O, W)
    PROVE  (Flagged(O, W))'
<1>1. UnstartedInv /\ missed \subseteq missed' /\ dismissing \subseteq Live
  BY StepFacts DEF TypeInv, ProcType
<1>2. ASSUME NEW x \in O, x \in Live' \cup restarting' PROVE x \in dismissing' \cup missed' \cup W
  <2>1. CASE x \in Live \cup restarting
    BY <1>1, <1>2, <2>1, FlagStep DEF Flagged
  <2>2. CASE x \notin Live \cup restarting
    <3>1. ~Ends
      BY <1>2, <2>2 DEF Ends
    <3>2. PICK z \in Agents : Starts(z)
      BY <3>1, LiveStep
    <3>3. z = x
      BY <1>2, <2>2, <3>2 DEF Starts
    <3>4. ~Restart(x) /\ ~StartChild(x)
      BY <1>1, <1>2, <2>2, <3>2, <3>3 DEF Restart, StartChild, UnstartedInv
    <3>5. RestoreAgent /\ x = Head(restore.todo)
      BY <3>2, <3>3, <3>4 DEF Starts
    <3>6. x \in missed'
      BY <1>2, <3>5 DEF RestoreAgent
    <3> QED
      BY <3>6
  <2> QED
    BY <2>1, <2>2
<1> QED
  BY <1>2 DEF Flagged

\* The dismissal is moved on by its own steps, by a request, and by a crash of the node.
LEMMA DismissalMoves ==
    ASSUME TypeInv, [Next]_vars
    PROVE  \/ dismissal' = dismissal /\ dismissed' = dismissed
           \/ dismissal' = Idle /\ dismissed' = dismissed
           \/ /\ MarkSubtree \/ AbsorbCosts \/ FlagAgent \/ ScanChildren \/ FindNext \/ StopFound
              /\ dismissed' = dismissed
           \/ TellDismisser
           \/ (\E p, x \in Agents : BeginDismissal(p, x)) /\ dismissed' = dismissed
<1> DEFINE goal == \/ dismissal' = dismissal /\ dismissed' = dismissed
                   \/ dismissal' = Idle /\ dismissed' = dismissed
                   \/ /\ MarkSubtree \/ AbsorbCosts \/ FlagAgent \/ ScanChildren \/ FindNext \/ StopFound
                      /\ dismissed' = dismissed
                   \/ TellDismisser
                   \/ (\E p, x \in Agents : BeginDismissal(p, x)) /\ dismissed' = dismissed
<1> SUFFICES goal
  OBVIOUS
<1>1. ASSUME dismissal' = dismissal, dismissed' = dismissed PROVE goal
  BY <1>1
<1>2. ASSUME NEW x \in Agents, AgentStep(x) \/ Crash(x) PROVE goal
  BY <1>1, <1>2 DEF AgentStep, SetUp, HandleStopRequested, HandleNews, Restart, Crash, history
<1>3. ASSUME NEW x \in Agents,
             SpawnStep(x) \/ FailSpawn(x) \/ (\E p \in Agents : AcceptSpawn(p, x))
      PROVE  goal
  BY <1>1, <1>3 DEF SpawnStep, StartChild, Announce, AwaitChild, TellParent, FailSpawn, AcceptSpawn,
                    history
<1>4. CASE DismissalStep \/ RollBackCosts
  BY <1>4 DEF DismissalStep, RollBackCosts, MarkSubtree, Flags, AbsorbCosts, FlagAgent, ScanChildren,
              FindNext, StopFound, history
<1>5. CASE \E p, x \in Agents : BeginDismissal(p, x)
  <2>1. dismissed' = dismissed
    BY <1>5 DEF BeginDismissal, history
  <2> QED
    BY <1>5, <2>1
<1>6. CASE PageStep \/ ClickPause \/ ClickResume \/ ClickDelete \/ Reload
  BY <1>1, <1>6 DEF PageStep, SendStop, SweepLate, ShowPausing, DeleteTask, HandleAgentSpawned,
                    HandleAgentTerminated, ClickPause, ClickResume, ClickDelete, Reload, history
<1>7. CASE RestoreStep \/ FailToRestore
  BY <1>1, <1>7 DEF RestoreStep, SkipAgent, RestoreAgent, GiveUp, RebuildChildren, SweepOrphans,
                    FailToRestore, history
<1>8. CASE NodeCrash
  BY <1>8 DEF NodeCrash, history
<1>9. CASE UNCHANGED vars
  BY <1>1, <1>9 DEF vars, history
<1> HIDE DEF goal
<1> QED
  BY <1>2, <1>3, <1>4, <1>5, <1>6, <1>7, <1>8, <1>9, NextCases

\* The elements of a sequence that is split at either end, or extended.
LEMMA ElementsOfParts ==
    ASSUME NEW A, NEW s \in Seq(A), s # <<>>
    PROVE  /\ Head(s) \in ToSet(s) /\ ToSet(s) = {Head(s)} \cup ToSet(Tail(s))
           /\ Last(s) \in ToSet(s) /\ ToSet(s) = {Last(s)} \cup ToSet(Front(s))
           /\ Front(s) = <<>> => s[1] = Last(s)
           /\ Front(s) # <<>> => Front(s)[1] = s[1]
           /\ ToSet(<<>>) = {}
<1>1. /\ DOMAIN s = 1..Len(s) /\ Len(s) \in Nat /\ Len(s) # 0 /\ 1 \in DOMAIN s /\ Len(s) \in DOMAIN s
      /\ Head(s) = s[1] /\ Last(s) = s[Len(s)]
  BY DEF Last
<1> PICK t : t = Tail(s)
  OBVIOUS
<1> PICK f : f = Front(s)
  OBVIOUS
<1>2. DOMAIN t = 1..Len(s)-1 /\ \A i \in 1..Len(s)-1 : t[i] = s[i+1] /\ i + 1 \in DOMAIN s
  BY <1>1
<1>3. f \in Seq(A) /\ Len(f) = Len(s)-1 /\ DOMAIN f = 1..Len(s)-1 /\ \A i \in 1..Len(s)-1 : f[i] = s[i] /\ i \in DOMAIN s
  BY <1>1 DEF Front
<1>4. ToSet(s) = {Head(s)} \cup ToSet(t)
  <2>1. \A i \in DOMAIN t : t[i] \in ToSet(s)
    BY <1>2 DEF ToSet
  <2>2. \A i \in DOMAIN s : i = 1 \/ (i - 1 \in DOMAIN t /\ t[i - 1] = s[i])
    BY <1>1, <1>2
  <2>3. \A i \in DOMAIN s : s[i] = Head(s) \/ s[i] \in ToSet(t)
    BY <1>1, <2>2 DEF ToSet
  <2> QED
    BY <1>1, <2>1, <2>3 DEF ToSet
<1>5. ToSet(s) = {Last(s)} \cup ToSet(f)
  <2>1. \A i \in DOMAIN f : f[i] \in ToSet(s)
    BY <1>3 DEF ToSet
  <2>2. \A i \in DOMAIN s : i = Len(s) \/ (i \in DOMAIN f /\ f[i] = s[i])
    BY <1>1, <1>3
  <2>3. \A i \in DOMAIN s : s[i] = Last(s) \/ s[i] \in ToSet(f)
    BY <1>1, <2>2 DEF ToSet
  <2> QED
    BY <1>1, <2>1, <2>3 DEF ToSet
<1>6. Front(s) = <<>> => s[1] = Last(s)
  <2> SUFFICES ASSUME f = <<>> PROVE s[1] = Last(s)
    OBVIOUS
  <2>1. Len(f) = 0
    OBVIOUS
  <2>2. Len(s) = 1
    BY <1>1, <1>3, <2>1
  <2> QED
    BY <1>1, <2>2
<1>7. Front(s) # <<>> => Front(s)[1] = s[1]
  <2> SUFFICES ASSUME f # <<>> PROVE f[1] = s[1]
    OBVIOUS
  <2>1. Len(f) # 0
    BY <1>3
  <2> QED
    BY <1>1, <1>3, <2>1
<1>8. ToSet(<<>>) = {}
  BY DEF ToSet
<1> QED
  BY <1>1, <1>4, <1>5, <1>6, <1>7, <1>8 DEF ToSet

LEMMA ElementsOfSum ==
    ASSUME NEW A, NEW s \in Seq(A), NEW t \in Seq(A)
    PROVE  /\ ToSet(s \o t) = ToSet(s) \cup ToSet(t)
           /\ s \o t = <<>> => ToSet(s) \cup ToSet(t) = {}
<1> PICK u : u = s \o t
  OBVIOUS
<1>1. /\ DOMAIN u = 1..Len(s)+Len(t) /\ DOMAIN s = 1..Len(s) /\ DOMAIN t = 1..Len(t)
      /\ Len(s) \in Nat /\ Len(t) \in Nat
      /\ \A i \in 1..Len(s) : u[i] = s[i] /\ i \in DOMAIN u
      /\ \A i \in 1..Len(t) : u[i + Len(s)] = t[i] /\ i + Len(s) \in DOMAIN u
  OBVIOUS
<1>2. \A i \in DOMAIN u : \/ i \in DOMAIN s /\ u[i] = s[i]
                          \/ i - Len(s) \in DOMAIN t /\ u[i] = t[i - Len(s)]
  BY <1>1
<1>3. \A i \in DOMAIN u : u[i] \in ToSet(s) \cup ToSet(t)
  BY <1>2 DEF ToSet
<1>4. (\A i \in DOMAIN s : s[i] \in ToSet(u)) /\ \A i \in DOMAIN t : t[i] \in ToSet(u)
  BY <1>1 DEF ToSet
<1>5. ToSet(u) = ToSet(s) \cup ToSet(t)
  BY <1>3, <1>4 DEF ToSet
<1>6. u = <<>> => ToSet(u) = {}
  BY DEF ToSet
<1> QED
  BY <1>5, <1>6

LEMMA FirstOfSum ==
    ASSUME NEW A, NEW s \in Seq(A), NEW t \in Seq(A), s # <<>>
    PROVE  (s \o t)[1] = s[1]
<1>1. Len(s) \in Nat /\ Len(s) # 0 /\ Len(t) \in Nat
  OBVIOUS
<1> QED
  BY <1>1

\* What has been collected stays as it is, whatever else happens.
LEMMA CollectedStep ==
    ASSUME TypeInv, RebuildInv, KinInv, LinksInv, [Next]_vars, NEW r \in Agents, inc[r] # 0,
           r = dismissal.root, NEW O, O = ToSet(dismissal.order), NEW Q, NEW W,
           Collected(r, O, Q, W), InOrderFromRoot, Collecting
    PROVE  (Collected(r, O, Q, W))'
<1>1. /\ UnstartedInv /\ dismissal.order \in Seq(Agents) /\ O \subseteq Agents
      /\ dismissal.step # "tell" => dismissal.order # <<>>
  BY DEF TypeInv, DismissalType, Collecting, ToSet
<1>2. RestoreAgent /\ r = Head(restore.todo) => r \in missed'
  <2> SUFFICES ASSUME RestoreAgent, r = Head(restore.todo) PROVE r \in missed'
    OBVIOUS
  <2>1. CASE dismissal.step # "tell"
    <3>1. r = dismissal.order[1] /\ 1 \in DOMAIN dismissal.order
      BY <1>1, <2>1 DEF InOrderFromRoot
    <3>2. r \in ToSet(dismissal.order)
      BY <3>1 DEF ToSet
    <3> QED
      BY <3>2 DEF RestoreAgent
  <2>2. CASE dismissal.step = "tell"
    <3>1. Finished(r)
      BY <2>2 DEF InOrderFromRoot
    <3>2. ~Dead(r)
      BY TodoStep DEF Dead
    <3> QED
      BY <3>1, <3>2, HistoryStep DEF Finished
  <2> QED
    BY <2>1, <2>2
<1>3. \A p \in O \cap Live : p \in dismissing \cup missed \cup Q
  BY DEF Collected, Flagged
<1>4. (Clean(r, O, Q))'
  BY <1>2, <1>3, CleanStep DEF Collected
<1>5. (Flagged(O, W))'
  BY FlaggedStep DEF Collected
<1>6. ASSUME NEW x \in O PROVE inc'[x] # 0 /\ r \in Ancestors'[x]
  <2>1. x \in Agents /\ inc[x] # 0 /\ r \in Ancestors[x]
    BY <1>1 DEF Collected
  <2>2. Ancestors'[x] = Ancestors[x]
    BY <1>1, <2>1, AncestorsStep DEF UnstartedInv
  <2>3. inc'[x] # 0
    BY <2>1, IncStep
  <2> QED
    BY <2>1, <2>2, <2>3
<1> QED
  BY <1>4, <1>5, <1>6 DEF Collected

\* The collection begins with the root.
LEMMA CollectBegins ==
    ASSUME TypeInv, RebuildInv, [Next]_vars, AbsorbCosts, inc[dismissal.root] # 0
    PROVE  CollectInv'
<1> PICK r : r = dismissal.root
  OBVIOUS
<1>1. /\ r \in Agents /\ SpawnType' /\ inc' = inc
      /\ dismissal'.step = "flag" /\ dismissal'.root = r
      /\ dismissal'.queue = <<r>> /\ dismissal'.order = <<r>>
  <2>1. r \in Agents
    BY DEF AbsorbCosts, TypeInv, DismissalType, None, Agents
  <2> QED
    BY <2>1, SpawnTypeStep DEF AbsorbCosts, TypeInv, DismissalType, procVars
<1>2. ToSet(<<r>>) = {r}
  BY DEF ToSet
<1>3. r \in Ancestors'[r]
  BY <1>1, AncestorsNext
<1>4. RebuildInv'
  BY RebuildStep
<1>5. (Clean(r, {r}, {r}))'
  <2>1. \A x \in ToSet(restore'.todo) : x = r => r \notin Restored'
    BY <1>4 DEF RebuildInv, RestoreSets
  <2> QED
    BY <2>1 DEF Clean
<1>6. (Flagged({r}, {r}))'
  BY DEF Flagged
<1>7. (Collected(r, {r}, {r}, {r}))'
  BY <1>1, <1>3, <1>5, <1>6 DEF Collected
<1>8. Unflagged' = {r}
  BY <1>1, <1>2 DEF Unflagged
<1>9. InOrderFromRoot'
  BY <1>1 DEF InOrderFromRoot
<1> QED
  BY <1>1, <1>2, <1>7, <1>8, <1>9 DEF CollectInv

\* The first of the queue is flagged, if it lives.
LEMMA CollectFlags ==
    ASSUME TypeInv, RebuildInv, KinInv, LinksInv, [Next]_vars, FlagAgent, CollectInv,
           inc[dismissal.root] # 0
    PROVE  CollectInv'
<1> PICK r : r = dismissal.root
  OBVIOUS
<1> PICK O : O = ToSet(dismissal.order)
  OBVIOUS
<1> PICK queue : queue = dismissal.queue
  OBVIOUS
<1> PICK Q : Q = ToSet(queue)
  OBVIOUS
<1> PICK W : W = ToSet(Tail(queue))
  OBVIOUS
<1> PICK h : h = Head(queue)
  OBVIOUS
<1>1. /\ r \in Agents /\ queue \in Seq(Agents) /\ queue # <<>> /\ dismissal.step = "flag"
      /\ dismissal'.step = "scan" /\ dismissal'.root = r /\ dismissal'.queue = queue
      /\ dismissal'.order = dismissal.order
  BY DEF FlagAgent, TypeInv, DismissalType, None, Agents
<1>2. Q = {h} \cup W
  BY <1>1, ElementsOfParts
<1>3. Collected(r, O, Q, Q)
  BY <1>1 DEF CollectInv, Unflagged
<1>4. (Collected(r, O, Q, Q))'
  BY <1>1, <1>3, CollectedStep DEF CollectInv, Collecting
<1>5. h \notin Live' \cup restarting' \/ h \in dismissing' \cup missed'
  <2>1. /\ Live' = Live /\ dismissing' = dismissing \cup ({h} \cap Live)
        /\ missed' = missed \cup ({h} \ Live)
    BY <1>1 DEF FlagAgent, Flags, SetDismissing, Live
  <2> QED
    BY <2>1
<1>6. (Flagged(O, W))'
  BY <1>2, <1>4, <1>5 DEF Collected, Flagged
<1>7. (Collected(r, O, Q, W))'
  BY <1>2, <1>4, <1>6 DEF Collected
<1>8. Unflagged' = W
  BY <1>1 DEF Unflagged
<1>9. InOrderFromRoot'
  BY <1>1 DEF InOrderFromRoot, CollectInv
<1> QED
  BY <1>1, <1>7, <1>8, <1>9 DEF CollectInv

\* A child of the agent scanned is collected, or the walk has lost it for good.
LEMMA ScanMeets ==
    ASSUME TypeInv, RebuildInv, KinInv, LinksInv, [Next]_vars, ScanChildren,
           NEW h \in Agents, h = Head(dismissal.queue), NEW r \in Ancestors[h],
           NEW x \in AtWork \cup ToSet(restore.todo), x \in Agents, stage[x] # "unborn",
           h \in Ancestors[x], x # h
    PROVE  \/ (Excused(r, x))'
           \/ \E c \in Ancestors[x] : h \in Live /\ c \in Live /\ config[c].parent = Pid(h)
<1>1. /\ SpawnType /\ UnstartedInv /\ h # None
  BY DEF TypeInv, Agents, None
<1>2. /\ UNCHANGED <<registry, inc, config, restarting, parent, restore>>
      /\ late' = late \cup {y \in BeingSpawned : parent[y] = h}
      /\ missed' = missed \cup ({h} \ Live) \cup {y \in ComingBack \cup Down : parent[y] = h}
  BY DEF ScanChildren, procVars, spawnVars
<1>3. PICK c \in Ancestors[x] : parent[c] = h
  BY <1>1, AncestorsAbove
<1>4. c \in Agents /\ Ancestors[x] \subseteq Agents
  BY AncestorsAreAgents, <1>1
<1>5. r \in Ancestors[c]
  <2>1. Ancestors[c] = {c} \cup Ancestors[parent[c]]
    BY <1>1, <1>3, <1>4, AncestorsAreAgents
  <2> QED
    BY <1>3, <2>1
<1>6. ASSUME c \in late' \cup missed' PROVE (Excused(r, x))'
  BY <1>5, <1>6, ExcusedIfOff DEF Off
<1>7. CASE h \notin Live
  <2>1. h \in missed'
    BY <1>2, <1>7
  <2> QED
    BY <2>1, ExcusedIfOff DEF Off
<1>8. CASE h \in Live /\ c \in Live /\ config[c].parent # Pid(h)
  <2>1. CASE c \in ToSet(restore.todo)
    BY <1>2, <1>3, <1>4, <1>6, <2>1 DEF ComingBack
  <2>2. CASE c \notin ToSet(restore.todo)
    <3>1. inc[c] # 0
      BY <1>1, <1>4, <1>8 DEF UnstartedInv
    <3>2. (Broken(c))'
      BY <1>1, <1>2, <1>3, <1>8, <3>1 DEF Broken, Unlinked, Pid
    <3>3. (Off(r, c))'
      BY <1>2, <2>2, <3>2 DEF Off
    <3> QED
      BY <1>5, <3>3, ExcusedIfOff
  <2> QED
    BY <2>1, <2>2
<1>9. CASE c \notin Live /\ inc[c] # 0
  BY <1>2, <1>3, <1>4, <1>6, <1>9 DEF Down
<1>10. CASE inc[c] = 0
  <2>1. c = x
    BY <1>10, AncestorsStarted
  <2>2. c \in BeingSpawned
    BY <1>1, <1>4, <1>10, <2>1 DEF AtWork, UnstartedInv
  <2> QED
    BY <1>2, <1>3, <1>6, <2>2
<1> QED
  BY <1>3, <1>7, <1>8, <1>9, <1>10

\* The children of the agent scanned are queued; those it misses are excused.
LEMMA CollectScans ==
    ASSUME TypeInv, RebuildInv, KinInv, LinksInv, [Next]_vars, ScanChildren, CollectInv,
           inc[dismissal.root] # 0
    PROVE  CollectInv'
<1> PICK r : r = dismissal.root
  OBVIOUS
<1> PICK order : order = dismissal.order
  OBVIOUS
<1> PICK queue : queue = dismissal.queue
  OBVIOUS
<1> PICK O : O = ToSet(order)
  OBVIOUS
<1> PICK Q : Q = ToSet(queue)
  OBVIOUS
<1> PICK rest : rest = Tail(queue)
  OBVIOUS
<1> PICK W : W = ToSet(rest)
  OBVIOUS
<1> PICK h : h = Head(queue)
  OBVIOUS
<1> PICK kids : kids = IF h \in Live THEN InOrder(ChildrenOf(Pid(h))) ELSE <<>>
  OBVIOUS
<1> PICK K : K = ToSet(kids)
  OBVIOUS
<1>1. /\ r \in Agents /\ queue \in Seq(Agents) /\ queue # <<>> /\ dismissal.step = "scan"
      /\ order \in Seq(Agents) /\ order # <<>>
  BY DEF ScanChildren, TypeInv, DismissalType, None, Agents
<1>2. /\ Q = {h} \cup W /\ h \in Agents /\ rest \in Seq(Agents) /\ W \subseteq Agents
  <2>1. Q = {h} \cup W
    BY <1>1, ElementsOfParts
  <2>2. h \in Agents /\ rest \in Seq(Agents)
    BY <1>1, HeadAndTail
  <2>3. \A s \in Seq(Agents) : ToSet(s) \subseteq Agents
    BY DEF ToSet
  <2> QED
    BY <2>1, <2>2, <2>3
<1>3. /\ SpawnType /\ SpawnType' /\ UnstartedInv /\ Live \subseteq Agents /\ restarting \subseteq Agents
      /\ ToSet(restore.todo) \subseteq Agents
  <2>1. restarting \subseteq Agents
    BY DEF TypeInv, ProcType
  <2>2. \A s \in Seq(Agents) : ToSet(s) \subseteq Agents
    BY DEF ToSet
  <2> QED
    BY <2>1, <2>2, StepFacts, SpawnTypeStep
<1>4. /\ kids \in Seq(Agents)
      /\ K = {c \in Live : h \in Live /\ config[c].parent = Pid(h)}
  <2>1. CASE h \in Live
    <3>1. ChildrenOf(Pid(h)) = {c \in Live : config[c].parent = Pid(h)}
      BY <2>1 DEF ChildrenOf, IsAlive, Pid, FindChildrenByParent
    <3> PICK S : S = ChildrenOf(Pid(h))
      OBVIOUS
    <3>2. S \subseteq Agents
      BY <1>3, <3>1
    <3>3. InOrder(S) \in Seq(S) /\ ToSet(InOrder(S)) = S
      BY <3>2, AgentSets, InOrderElements
    <3> QED
      BY <2>1, <3>1, <3>2, <3>3
  <2>2. CASE h \notin Live
    BY <2>2 DEF ToSet
  <2> QED
    BY <2>1, <2>2
<1>5. /\ dismissal'.step = (IF rest \o kids = <<>> THEN "find" ELSE "flag")
      /\ dismissal'.queue = rest \o kids /\ dismissal'.order = order \o kids
      /\ dismissal'.root = r
  BY DEF ScanChildren, TypeInv, DismissalType
<1>6. /\ ToSet(dismissal'.queue) = W \cup K /\ ToSet(dismissal'.order) = O \cup K
      /\ dismissal'.order[1] = order[1]
      /\ dismissal'.step = "find" => dismissal'.queue = <<>>
  <2>1. ToSet(rest \o kids) = ToSet(rest) \cup ToSet(kids)
    <3>1. rest \in Seq(Agents) /\ kids \in Seq(Agents)
      BY <1>2, <1>4
    <3> QED
      BY <3>1, ElementsOfSum
  <2>2. ToSet(order \o kids) = ToSet(order) \cup ToSet(kids) /\ (order \o kids)[1] = order[1]
    <3>1. order \in Seq(Agents) /\ kids \in Seq(Agents) /\ order # <<>>
      BY <1>1, <1>4
    <3>2. ToSet(order \o kids) = ToSet(order) \cup ToSet(kids)
      BY <3>1, ElementsOfSum
    <3>3. (order \o kids)[1] = order[1]
      BY <3>1, FirstOfSum, Zenon
    <3> QED
      BY <3>2, <3>3
  <2>3. dismissal'.step = "find" => dismissal'.queue = <<>>
    BY <1>5
  <2> QED
    BY <1>5, <2>1, <2>2, <2>3
<1>7. Collected(r, O, Q, W)
  BY <1>1 DEF CollectInv, Unflagged
<1>8. (Collected(r, O, Q, W))'
  BY <1>1, <1>7, CollectedStep DEF CollectInv, Collecting
<1>9. h \in O /\ r \in Ancestors[h]
  BY <1>2, <1>7 DEF Collected
<1>10. /\ AtWork' = AtWork /\ restore' = restore /\ parent' = parent /\ config' = config /\ inc' = inc
  BY DEF ScanChildren, AtWork, Live, BeingSpawned, procVars, spawnVars
<1>11. \A x \in AtWork \cup ToSet(restore.todo) : x \in Agents /\ stage[x] # "unborn"
  BY <1>3 DEF AtWork, BeingSpawned, UnstartedInv
<1>12. \A x \in AtWork \cup ToSet(restore.todo) : Ancestors'[x] = Ancestors[x]
  BY <1>11, KinFacts
<1>13. ASSUME NEW x \in AtWork \cup ToSet(restore.todo), h \in Ancestors[x], x # h
       PROVE  (Excused(r, x))' \/ Ancestors'[x] \cap (W \cup K) # {}
  <2>1. \/ (Excused(r, x))'
        \/ \E c \in Ancestors[x] : h \in Live /\ c \in Live /\ config[c].parent = Pid(h)
    BY <1>2, <1>9, <1>11, <1>13, ScanMeets
  <2> QED
    BY <1>4, <1>12, <1>13, <2>1
<1>14. ASSUME NEW x \in AtWork, r \in Ancestors'[x]
       PROVE  x \in O \/ (Excused(r, x))' \/ Ancestors'[x] \cap (W \cup K) # {}
  <2>1. x \in O \/ (Excused(r, x))' \/ Ancestors'[x] \cap Q # {}
    BY <1>8, <1>10, <1>14 DEF Collected, Clean
  <2>2. CASE h \in Ancestors[x]
    BY <1>9, <1>13, <2>2
  <2>3. CASE h \notin Ancestors[x]
    BY <1>2, <1>12, <2>1, <2>3
  <2> QED
    BY <2>2, <2>3
<1>15. ASSUME NEW x \in ToSet(restore.todo), r \in Ancestors'[x], r \in Restored'
       PROVE  (Excused(r, x))' \/ (x \notin O \cup K /\ Ancestors'[x] \cap (W \cup K) # {})
  <2>1. (Excused(r, x))' \/ (x \notin O /\ Ancestors'[x] \cap Q # {})
    BY <1>8, <1>10, <1>15 DEF Collected, Clean
  <2>2. ASSUME x \in K PROVE (Excused(r, x))'
    <3>1. parent[x] = h
      <4>1. x \in Agents /\ config[x].parent = <<h, inc[h]>>
        BY <1>3, <1>4, <2>2 DEF Pid
      <4>3. h # None
        BY <1>2 DEF None, Agents
      <4>2. config[x].parent[1] = h
        BY <4>1
      <4> QED
        BY <4>1, <4>2, <4>3 DEF KinInv
    <3>2. x \in missed'
      BY <1>3, <3>1 DEF ScanChildren, ComingBack
    <3>3. x \in Agents /\ stage[x] # "unborn" /\ r \in Ancestors[x] /\ x \in Ancestors[x]
      BY <1>11, <1>12, <1>15, KinFacts
    <3> QED
      BY <3>2, <3>3, ExcusedIfOff DEF Off
  <2>3. CASE h \in Ancestors[x]
    BY <1>9, <1>13, <2>1, <2>2, <2>3
  <2>4. CASE h \notin Ancestors[x]
    BY <1>2, <1>12, <2>1, <2>2, <2>4
  <2> QED
    BY <2>3, <2>4
<1>16. (Clean(r, O \cup K, W \cup K))'
  BY <1>10, <1>14, <1>15 DEF Clean
<1>17. (Flagged(O \cup K, W \cup K))'
  BY <1>8 DEF Collected, Flagged
<1>18. ASSUME NEW c \in K PROVE inc'[c] # 0 /\ r \in Ancestors'[c]
  <2>1. c \in Live /\ c \in Agents /\ config[c].parent[1] = h /\ h # None
    <3>1. c \in Live /\ c \in Agents /\ config[c].parent = <<h, inc[h]>>
      BY <1>3, <1>4 DEF Pid
    <3>2. config[c].parent[1] = h /\ h # None
      BY <1>2, <3>1 DEF None, Agents
    <3> QED
      BY <3>1, <3>2
  <2>2. parent[c] = h /\ inc[c] # 0
    BY <1>3, <2>1 DEF KinInv, UnstartedInv
  <2>3. Ancestors[c] = {c} \cup Ancestors[h]
    BY <1>3, <2>1, <2>2, AncestorsAreAgents
  <2>4. Ancestors'[c] = Ancestors[c]
    BY <1>12, <2>1 DEF AtWork
  <2> QED
    BY <1>9, <1>10, <2>2, <2>3, <2>4
<1>19. (Collected(r, O \cup K, W \cup K, W \cup K))'
  BY <1>2, <1>8, <1>16, <1>17, <1>18 DEF Collected
<1>20. Unflagged' = W \cup K
  BY <1>5, <1>6 DEF Unflagged
<1>21. InOrderFromRoot'
  <2>1. order[1] = r
    BY <1>1 DEF CollectInv, InOrderFromRoot
  <2> QED
    BY <1>5, <1>6, <2>1 DEF InOrderFromRoot
<1> QED
  BY <1>5, <1>6, <1>19, <1>20, <1>21 DEF CollectInv

\* What is taken from the order has ended, or was missed.
LEMMA LastIsFinished ==
    ASSUME TypeInv, [Next]_vars, InOrderFromRoot, dismissal' = AfterLast(dismissal),
           FindNext \/ StopFound, NEW y \in Agents, y = Last(dismissal.order), inc[y] # 0
    PROVE  (y \in Live' \cup restarting' => y \in missed') /\ (Finished(y))'
<1>1. /\ ProcType /\ row \in [Agents -> {"none", "running", "stopped"}] /\ inc' = inc
      /\ restore' = restore /\ restarting' = restarting /\ restarting \cap Live = {}
  BY DEF FindNext, StopFound, procVars, TypeInv, ProcType, PageType
<1>2. ASSUME y \notin Live', row'[y] = "none", {y} \cap ComingBack \subseteq missed'
      PROVE  (y \in Live' \cup restarting' => y \in missed') /\ (Finished(y))'
  BY <1>1, <1>2 DEF ComingBack, Finished, Dead
<1>3. CASE y \in missed'
  BY <1>3 DEF Finished
<1>4. CASE FindNext
  <2>1. y \notin Live
    <3>1. dismissal.step # "stop" /\ AfterLast(dismissal).step # "stop"
      BY <1>4 DEF FindNext, AfterLast, TypeInv, DismissalType
    <3>2. [dismissal EXCEPT !.step = "stop", !.target = Pid(y)].step = "stop"
      BY DEF TypeInv, DismissalType
    <3> QED
      BY <1>4, <3>1, <3>2 DEF FindNext
  <2>2. Live' = Live /\ row' = [row EXCEPT ![y] = "none"] /\ missed' = missed \cup ({y} \cap ComingBack)
    BY <1>4, <2>1 DEF FindNext, Live, procVars
  <2> QED
    BY <1>1, <1>2, <2>1, <2>2
<1>5. CASE StopFound
  <2>1. dismissal.target[1] = y
    BY <1>5 DEF StopFound, InOrderFromRoot
  <2>2. CASE Exit({y}) /\ row' = [row EXCEPT ![y] = "none"] /\ missed' = missed \cup ({y} \cap ComingBack)
    <3>1. Live' = Live \ {y}
      BY <1>1, <2>2, ExitRegistry
    <3> QED
      BY <1>1, <1>2, <2>2, <3>1
  <2>3. CASE missed' = missed \cup {y}
    BY <1>3, <2>3
  <2> QED
    BY <1>5, <2>1, <2>2, <2>3 DEF StopFound
<1> QED
  BY <1>4, <1>5

\* The agents collected are stopped one after the other, the root last.
LEMMA CollectStops ==
    ASSUME TypeInv, RebuildInv, KinInv, LinksInv, [Next]_vars, FindNext \/ StopFound, CollectInv,
           inc[dismissal.root] # 0
    PROVE  CollectInv'
<1> PICK r : r = dismissal.root
  OBVIOUS
<1> PICK order : order = dismissal.order
  OBVIOUS
<1> PICK O : O = ToSet(order)
  OBVIOUS
<1> PICK rest : rest = Front(order)
  OBVIOUS
<1> PICK y : y = Last(order)
  OBVIOUS
<1>1. /\ r \in Agents /\ dismissal.step \in {"find", "stop"} /\ dismissal.queue = <<>>
      /\ order \in Seq(Agents) /\ order # <<>> /\ order[1] = r
  BY DEF FindNext, StopFound, TypeInv, DismissalType, None, Agents, CollectInv, InOrderFromRoot
<1>2. /\ y \in O /\ O = {y} \cup ToSet(rest) /\ ToSet(<<>>) = {}
      /\ rest = <<>> => y = r
      /\ rest # <<>> => rest[1] = r
  BY <1>1, ElementsOfParts
<1>3. Collected(r, O, {}, {}) /\ InOrderFromRoot
  BY <1>1, <1>2 DEF CollectInv, Unflagged
<1>4. (Collected(r, O, {}, {}))'
  BY <1>1, <1>3, CollectedStep DEF CollectInv, Collecting
<1>5. y \in Agents /\ inc[y] # 0 /\ r \in Ancestors[y]
  <2>1. \A s \in Seq(Agents) : ToSet(s) \subseteq Agents
    BY DEF ToSet
  <2> QED
    BY <1>1, <1>2, <1>3, <2>1 DEF Collected
<1>6. CASE dismissal' = [dismissal EXCEPT !.step = "stop", !.target = Pid(y)]
  <2>1. /\ dismissal'.step = "stop" /\ dismissal'.root = r /\ dismissal'.queue = <<>>
        /\ dismissal'.order = order /\ dismissal'.target = <<y, inc[y]>>
    BY <1>1, <1>6 DEF TypeInv, DismissalType, Pid
  <2>2. Unflagged' = {}
    BY <1>2, <2>1 DEF Unflagged
  <2>3. InOrderFromRoot'
    BY <1>1, <2>1 DEF InOrderFromRoot
  <2> QED
    BY <1>2, <1>4, <2>1, <2>2, <2>3 DEF CollectInv
<1>7. CASE dismissal' = AfterLast(dismissal)
  <2>1. /\ dismissal'.step = (IF rest = <<>> THEN "tell" ELSE "find") /\ dismissal'.root = r
        /\ dismissal'.queue = <<>> /\ dismissal'.order = rest
    BY <1>1, <1>7 DEF AfterLast, TypeInv, DismissalType
  <2>2. (y \in Live' \cup restarting' => y \in missed') /\ (Finished(y))'
    BY <1>3, <1>5, <1>7, LastIsFinished
  <2>3. ASSUME y \in AtWork' PROVE (Excused(r, y))'
    <3>1. UnstartedInv' /\ stage[y] # "unborn" /\ y \in Ancestors[y]
      BY <1>5, UnstartedStep, AncestorsAreAgents DEF TypeInv, UnstartedInv
    <3>2. y \in Live' \cup restarting'
      <4>1. inc'[y] # 0
        BY <1>5, IncStep
      <4> QED
        BY <2>3, <3>1, <4>1, <1>5 DEF AtWork, BeingSpawned, UnstartedInv
    <3> QED
      BY <1>5, <2>2, <3>1, <3>2, ExcusedIfOff DEF Off
  <2>4. (Clean(r, ToSet(rest), {}))'
    BY <1>2, <1>4, <2>3 DEF Collected, Clean
  <2>5. (Flagged(ToSet(rest), {}))'
    BY <1>2, <1>4 DEF Collected, Flagged
  <2>6. (Collected(r, ToSet(rest), {}, {}))'
    BY <1>2, <1>4, <2>4, <2>5 DEF Collected
  <2>7. Unflagged' = {}
    BY <1>2, <2>1 DEF Unflagged
  <2>8. InOrderFromRoot'
    <3>1. rest = <<>> => (Finished(r))'
      BY <1>2, <2>2
    <3>2. (Finished(r))' => (Finished(dismissal.root))'
      BY <2>1 DEF Finished, Dead
    <3> QED
      BY <1>2, <2>1, <3>1, <3>2 DEF InOrderFromRoot
  <2> QED
    BY <1>2, <2>1, <2>6, <2>7 , <2>8 DEF CollectInv
<1> QED
  BY <1>6, <1>7 DEF FindNext, StopFound

\* The dismissal under way, step by step.
LEMMA DismissStep ==
    ASSUME TypeInv, RebuildInv, KinInv, LinksInv, DismissInv, [Next]_vars
    PROVE  DismissInv'
<1> DEFINE goal == DismissInv'
<1> SUFFICES goal
  OBVIOUS
<1>1. dismissal.step # "idle" => dismissal.root \in Agents /\ inc[dismissal.root] # 0 /\ inc'[dismissal.root] # 0
  <2>1. dismissal.step # "idle" => dismissal.root \in Agents /\ inc[dismissal.root] # 0
    BY DEF DismissInv, TypeInv, DismissalType, None, Agents
  <2> QED
    BY <2>1, IncStep
<1>2. CASE dismissal' = dismissal
  <2>1. dismissal'.step # "idle" => inc'[dismissal'.root] # 0
    BY <1>1, <1>2
  <2>2. ASSUME Collecting PROVE CollectInv'
    <3> PICK r : r = dismissal.root
      OBVIOUS
    <3> PICK O : O = ToSet(dismissal.order)
      OBVIOUS
    <3> PICK Q : Q = ToSet(dismissal.queue)
      OBVIOUS
    <3> PICK W : W = Unflagged
      OBVIOUS
    <3>1. Collected(r, O, Q, W) /\ InOrderFromRoot /\ r \in Agents /\ inc[r] # 0
      BY <1>1, <2>2 DEF DismissInv, CollectInv, Collecting
    <3>2. (Collected(r, O, Q, W))'
      BY <2>2, <3>1, CollectedStep
    <3>3. Unflagged' = W
      BY <1>2 DEF Unflagged
    <3>4. InOrderFromRoot'
      <4>1. Finished(r) => (Finished(r))'
        BY <3>1, FinishedStep
      <4>2. Finished(r) <=> Finished(dismissal.root)
        OBVIOUS
      <4>3. (Finished(r))' => (Finished(dismissal.root))'
        BY <1>2 DEF Finished, Dead
      <4> QED
        BY <1>2, <3>1, <4>1, <4>2, <4>3 DEF InOrderFromRoot
    <3> QED
      BY <1>2, <3>2, <3>3, <3>4 DEF CollectInv
  <2>3. Collecting' <=> Collecting
    BY <1>2 DEF Collecting
  <2> QED
    BY <2>1, <2>2, <2>3 DEF DismissInv
<1>3. ASSUME dismissal'.step = "idle" PROVE goal
  BY <1>3 DEF DismissInv, Collecting
<1>4. dismissal' = Idle => dismissal'.step = "idle"
  BY DEF Idle
<1>5. CASE MarkSubtree
  <2>1. dismissal.step = "mark" /\ dismissal'.root = dismissal.root /\ dismissal'.step \in {"mark", "costs"}
    BY <1>5 DEF MarkSubtree, TypeInv, DismissalType
  <2> QED
    BY <1>1, <2>1 DEF DismissInv, Collecting
<1>6. CASE \E p, x \in Agents : BeginDismissal(p, x)
  <2>1. PICK x \in Agents : x \in Live /\ dismissal'.root = x /\ dismissal'.step = "mark" /\ inc' = inc
    BY <1>6 DEF BeginDismissal, Idle, procVars
  <2>2. inc[x] # 0
    BY <2>1 DEF TypeInv, UnstartedInv
  <2> QED
    BY <2>1, <2>2 DEF DismissInv, Collecting
<1>7. CASE AbsorbCosts \/ FlagAgent \/ ScanChildren \/ FindNext \/ StopFound
  <2>1. dismissal.step # "idle" /\ dismissal'.root = dismissal.root
    BY <1>7 DEF AbsorbCosts, FlagAgent, ScanChildren, FindNext, StopFound, AfterLast, TypeInv, DismissalType
  <2>2. CASE AbsorbCosts
    BY <1>1, <2>1, <2>2, CollectBegins DEF DismissInv
  <2>3. ~AbsorbCosts => CollectInv
    BY <1>7 DEF FlagAgent, ScanChildren, FindNext, StopFound, DismissInv, Collecting
  <2>4. ~AbsorbCosts => CollectInv'
    BY <1>1, <1>7, <2>1, <2>3, CollectFlags, CollectScans, CollectStops
  <2> QED
    BY <1>1, <2>1, <2>2, <2>4 DEF DismissInv
<1>8. CASE TellDismisser
  BY <1>3, <1>4, <1>8 DEF TellDismisser
<1> HIDE DEF goal
<1> QED
  BY <1>2, <1>3, <1>4, <1>5, <1>6, <1>7, <1>8, DismissalMoves

\* What has been dismissed.
LEMMA DoneStep ==
    ASSUME TypeInv, RebuildInv, KinInv, LinksInv, DismissInv, DoneInv, [Next]_vars
    PROVE  DoneInv'
<1>1. ASSUME NEW r \in dismissed'
      PROVE  r \in Agents /\ inc[r] # 0 /\ Finished(r) /\ Clean(r, {}, {})
  <2>1. CASE r \in dismissed
    BY <2>1 DEF DoneInv
  <2>2. CASE r \notin dismissed
    <3>1. TellDismisser
      BY <1>1, <2>2, DismissalMoves
    <3>2. r = dismissal.root /\ dismissal.step = "tell"
      BY <1>1, <2>2, <3>1 DEF TellDismisser
    <3>3. r \in Agents /\ inc[r] # 0 /\ CollectInv
      BY <3>2 DEF DismissInv, Collecting, TypeInv, DismissalType, None, Agents
    <3>4. dismissal.order = <<>> /\ dismissal.queue = <<>> /\ Finished(r)
      BY <3>2, <3>3 DEF CollectInv, InOrderFromRoot
    <3>5. ToSet(<<>>) = {}
      BY DEF ToSet
    <3>6. Clean(r, {}, {})
      BY <3>2, <3>3, <3>4, <3>5 DEF CollectInv, Collected
    <3> QED
      BY <3>3, <3>4, <3>6
  <2> QED
    BY <2>1, <2>2
<1>2. ASSUME NEW r \in dismissed'
      PROVE  inc'[r] # 0 /\ (Finished(r))' /\ (Clean(r, {}, {}))'
  <2>1. r \in Agents /\ inc[r] # 0 /\ Finished(r) /\ Clean(r, {}, {})
    BY <1>1
  <2>2. RestoreAgent /\ r = Head(restore.todo) => r \in missed'
    <3>1. RestoreAgent /\ r = Head(restore.todo) => ~Dead(r)
      BY TodoStep DEF Dead
    <3> QED
      BY <2>1, <3>1, HistoryStep DEF Finished
  <2>3. (Clean(r, {}, {}))'
    BY <2>1, <2>2, CleanStep
  <2>4. inc'[r] # 0
    BY <2>1, IncStep
  <2> QED
    BY <2>1, <2>3, <2>4, FinishedStep
<1> QED
  BY <1>1, <1>2 DEF DoneInv

SubtreeInv == RebuildInv /\ KinInv /\ LinksInv /\ DismissInv /\ DoneInv

\* The links, the walk of a dismissal and what a dismissal has left, all together.
LEMMA SubtreeInvariant == Spec => []SubtreeInv
<1>1. Init => SubtreeInv
  <2> SUFFICES ASSUME Init PROVE SubtreeInv
    OBVIOUS
  <2>1. /\ restore = NoRestore /\ dismissal = Idle /\ dismissed = {}
        /\ inc = [x \in Agents |-> IF x <= Initial THEN 1 ELSE 0]
        /\ parent = [x \in Agents |-> IF x <= Initial THEN x - 1 ELSE None]
        /\ spawner = [x \in Agents |-> IF x \in 2..Initial THEN 1 ELSE 0]
        /\ config = [x \in Agents |-> [parent |-> <<parent[x], spawner[x]>>, restored |-> FALSE]]
    BY DEF Init
  <2>2. /\ restore.step = "idle" /\ restore.all = {} /\ restore.todo = <<>>
        /\ \A x \in Agents : restore.pids[x] = 0
    BY <2>1 DEF NoRestore
  <2>3. Restored = {} /\ DOMAIN restore.todo = {} /\ ToSet(restore.todo) = {}
    BY <2>2 DEF Restored, ToSet
  <2>4. RebuildInv /\ LinksInv
    BY <2>1, <2>2, <2>3 DEF RebuildInv, RestoreSets, RestoreOrder, Distinct, LinksInv
  <2>5. KinInv
    <3> SUFFICES ASSUME NEW x \in Agents
                 PROVE  /\ parent[x] # None => inc[parent[x]] # 0 /\ spawner[x] <= inc[parent[x]]
                        /\ inc[x] = 0 => config[x].parent = NoPid
                        /\ config[x].parent[1] # None =>
                              config[x].parent[1] = parent[x] /\ config[x].parent[2] <= inc[parent[x]]
      BY DEF KinInv
    <3>1. x \in 1..Size /\ Size \in Nat /\ Initial \in 1..Size
      BY BoundsAssumption DEF Agents
    <3>2. config[x].parent = <<parent[x], spawner[x]>>
      BY <2>1
    <3>3. CASE x > Initial
      <4>1. parent[x] = None /\ spawner[x] = 0
        BY <2>1, <3>1, <3>3
      <4> QED
        BY <3>2, <4>1 DEF NoPid, None
    <3>4. CASE x <= Initial /\ x # 1
      <4>1. parent[x] = x - 1 /\ x - 1 \in Agents /\ x - 1 <= Initial /\ spawner[x] = 1
        BY <2>1, <3>1, <3>4 DEF Agents
      <4>2. inc[parent[x]] = 1 /\ inc[x] = 1
        BY <2>1, <3>4, <4>1
      <4> QED
        BY <3>2, <4>1, <4>2
    <3>5. CASE x = 1
      <4>1. parent[x] = None /\ inc[x] = 1
        BY <2>1, <3>1, <3>5 DEF None
      <4> QED
        BY <3>2, <4>1
    <3> QED
      BY <3>1, <3>3, <3>4, <3>5
  <2>6. DismissInv /\ DoneInv
    BY <2>1 DEF DismissInv, Collecting, Idle, DoneInv
  <2> QED
    BY <2>4, <2>5, <2>6 DEF SubtreeInv
<1>2. TypeInv /\ SubtreeInv /\ [Next]_vars => SubtreeInv'
  BY RebuildStep, KinStep, LinksStep, DismissStep, DoneStep DEF SubtreeInv
<1> QED
  BY <1>1, <1>2, TypesInvariant, PTL DEF Spec

\* When a dismissal has ended nothing of the subtree lives, and nothing of it is started later,
\* except below an agent that was being started or was down when the walk came by, or whose
\* parent process was not the one it knew.
THEOREM DismissedSubtreesAreGone == Spec => []DismissedSubtreeGone
<1>1. TypeInv /\ SubtreeInv => DismissedSubtreeGone
  <2> SUFFICES ASSUME TypeInv, SubtreeInv, NEW x \in Live, NEW r \in Ancestors[x], r \in dismissed
               PROVE  \E y \in Ancestors[x] : y \in late \cup missed \/ Unlinked(y)
    BY DEF DismissedSubtreeGone
  <2>1. Excused(r, x)
    BY DEF SubtreeInv, DoneInv, Clean, AtWork
  <2> QED
    BY <2>1 DEF Excused, Off, Broken
<1> QED
  BY <1>1, SubtreeInvariant, TypesInvariant, PTL

-----------------------------------------------------------------------------
(* A parent knows its children *)

\* An element that a sequence has in one place.
Once(s, e) == \E i \in DOMAIN s : s[i] = e /\ \A j \in DOMAIN s : s[j] = e => j = i

\* One more element at the front.
LEMMA OncePushed ==
    ASSUME NEW A, NEW s \in Seq(A), NEW c \in A, NEW e
    PROVE  /\ ToSet(<<c>> \o s) = {c} \cup ToSet(s)
           /\ Once(s, e) /\ e # c => Once(<<c>> \o s, e)
           /\ e \notin ToSet(s) /\ e = c => Once(<<c>> \o s, e)
<1> PICK u : u = <<c>> \o s
  OBVIOUS
<1>1. /\ DOMAIN u = 1..Len(s)+1 /\ DOMAIN s = 1..Len(s) /\ Len(s) \in Nat
      /\ u[1] = c /\ 1 \in DOMAIN u
      /\ \A i \in 1..Len(s) : u[i + 1] = s[i] /\ i + 1 \in DOMAIN u
  OBVIOUS
<1>2. \A i \in DOMAIN u : i = 1 \/ (i - 1 \in DOMAIN s /\ u[i] = s[i - 1])
  BY <1>1
<1>3. ToSet(u) = {c} \cup ToSet(s)
  <2>1. \A i \in DOMAIN u : u[i] \in {c} \cup ToSet(s)
    BY <1>1, <1>2 DEF ToSet
  <2>2. c \in ToSet(u) /\ \A i \in DOMAIN s : s[i] \in ToSet(u)
    BY <1>1 DEF ToSet
  <2> QED
    BY <2>1, <2>2 DEF ToSet
<1>4. ASSUME Once(s, e), e # c PROVE Once(u, e)
  <2>1. PICK i \in DOMAIN s : s[i] = e /\ \A j \in DOMAIN s : s[j] = e => j = i
    BY <1>4 DEF Once
  <2>2. i + 1 \in DOMAIN u /\ u[i + 1] = e
    BY <1>1, <2>1
  <2>3. ASSUME NEW j \in DOMAIN u, u[j] = e PROVE j = i + 1
    <3>1. j - 1 \in DOMAIN s /\ s[j - 1] = e
      BY <1>1, <1>2, <1>4, <2>3
    <3>2. j - 1 = i
      BY <2>1, <3>1
    <3> QED
      BY <1>1, <3>2
  <2> QED
    BY <2>2, <2>3 DEF Once
<1>5. ASSUME e \notin ToSet(s), e = c PROVE Once(u, e)
  <2>1. \A j \in DOMAIN u : u[j] = e => j = 1
    BY <1>2, <1>5 DEF ToSet
  <2> QED
    BY <1>1, <1>5, <2>1 DEF Once
<1> QED
  BY <1>3, <1>4, <1>5

\* What add_child does to the list.
LEMMA OnceTracked ==
    ASSUME NEW A, NEW s \in Seq(A), NEW c \in A, NEW e
    PROVE  /\ ToSet(Track(s, c)) = {c} \cup ToSet(s)
           /\ Once(s, e) => Once(Track(s, c), e)
           /\ e \notin ToSet(s) /\ e = c => Once(Track(s, c), e)
<1>1. Contains(s, c) <=> c \in ToSet(s)
  BY DEF Contains, ToSet
<1>2. Once(s, e) => e \in ToSet(s)
  BY DEF Once, ToSet
<1>3. CASE Contains(s, c)
  BY <1>1, <1>3 DEF Track
<1>4. CASE ~Contains(s, c)
  <2>1. Track(s, c) = <<c>> \o s
    BY <1>4 DEF Track
  <2> QED
    BY <1>1, <1>2, <1>4, <2>1, OncePushed
<1> QED
  BY <1>3, <1>4

\* What handle_child_dismissed does to the list.
LEMMA OnceUntracked ==
    ASSUME NEW A, NEW s \in Seq(A), NEW c, NEW e
    PROVE  /\ ToSet(Untrack(s, c)) = ToSet(s) \ {c}
           /\ Once(s, e) /\ e # c => Once(Untrack(s, c), e)
<1> DEFINE I == {i \in DOMAIN s : s[i] \notin {c}}
           kept == InOrder(I)
           w == Without(s, {c})
<1>1. DOMAIN s = 1..Len(s) /\ Len(s) \in Nat
  OBVIOUS
<1>2. IsFiniteSet(I) /\ I \subseteq Int
  <2>1. I \in SUBSET (DOMAIN s) /\ IsFiniteSet(DOMAIN s)
    BY <1>1, FS_Interval
  <2> QED
    BY <1>1, <2>1, FS_Subset
<1>3. kept \in Seq(I) /\ ToSet(kept) = I /\ Distinct(kept)
  BY <1>2, InOrderElements
<1>4. w = [k \in DOMAIN kept |-> s[kept[k]]]
  BY DEF Without
<1>5. ToSet(w) = ToSet(s) \ {c}
  BY WithoutElements
<1> HIDE DEF w, kept
<1>6. ASSUME Once(s, e), e # c PROVE Once(w, e)
  <2>1. PICK i \in DOMAIN s : s[i] = e /\ \A j \in DOMAIN s : s[j] = e => j = i
    BY <1>6 DEF Once
  <2>2. i \in I
    BY <1>6, <2>1
  <2>3. PICK k \in DOMAIN kept : kept[k] = i
    BY <1>3, <2>2 DEF ToSet
  <2>4. k \in DOMAIN w /\ w[k] = e
    BY <1>4, <2>1, <2>3
  <2>5. ASSUME NEW j \in DOMAIN w, w[j] = e PROVE j = k
    <3>1. j \in DOMAIN kept /\ s[kept[j]] = e /\ kept[j] \in I
      BY <1>3, <1>4, <2>5 DEF ToSet
    <3>2. kept[j] = kept[k]
      BY <2>1, <2>3, <3>1
    <3> QED
      BY <1>3, <3>1, <3>2 DEF Distinct
  <2> QED
    BY <2>4, <2>5 DEF Once
<1> QED
  BY <1>5, <1>6 DEF Untrack, w

\* The first element is taken off.
LEMMA OnceTaken ==
    ASSUME NEW A, NEW s \in Seq(A), s # <<>>, NEW e
    PROVE  /\ Head(s) \in ToSet(s) /\ ToSet(Tail(s)) \subseteq ToSet(s)
           /\ Once(s, e) /\ e # Head(s) => Once(Tail(s), e)
           /\ Once(s, e) /\ e = Head(s) => e \notin ToSet(Tail(s))
<1> PICK t : t = Tail(s)
  OBVIOUS
<1>1. /\ DOMAIN t = 1..Len(s)-1 /\ DOMAIN s = 1..Len(s) /\ Len(s) \in Nat /\ Len(s) # 0
      /\ 1 \in DOMAIN s /\ Head(s) = s[1]
      /\ \A i \in DOMAIN t : t[i] = s[i + 1] /\ i + 1 \in DOMAIN s
  OBVIOUS
<1>2. \A i \in DOMAIN s : i = 1 \/ (i - 1 \in DOMAIN t /\ t[i - 1] = s[i])
  BY <1>1
<1>3. Head(s) \in ToSet(s) /\ ToSet(t) \subseteq ToSet(s)
  BY <1>1 DEF ToSet
<1>4. ASSUME Once(s, e), e # Head(s) PROVE Once(t, e)
  <2>1. PICK i \in DOMAIN s : s[i] = e /\ \A j \in DOMAIN s : s[j] = e => j = i
    BY <1>4 DEF Once
  <2>2. i - 1 \in DOMAIN t /\ t[i - 1] = e
    BY <1>1, <1>2, <1>4, <2>1
  <2>3. ASSUME NEW j \in DOMAIN t, t[j] = e PROVE j = i - 1
    <3>1. j + 1 = i
      BY <1>1, <2>1, <2>3
    <3> QED
      BY <1>1, <3>1
  <2> QED
    BY <2>2, <2>3 DEF Once
<1>5. ASSUME Once(s, e), e = Head(s) PROVE e \notin ToSet(t)
  <2>1. \A j \in DOMAIN s : s[j] = e => j = 1
    BY <1>1, <1>5 DEF Once
  <2>2. \A i \in DOMAIN t : i + 1 # 1
    BY <1>1
  <2>3. \A i \in DOMAIN t : t[i] # e
    BY <1>1, <2>1, <2>2
  <2> QED
    BY <2>3 DEF ToSet
<1> QED
  BY <1>3, <1>4, <1>5

\* One sequence after another.
LEMMA OnceJoined ==
    ASSUME NEW A, NEW s \in Seq(A), NEW t \in Seq(A), NEW e
    PROVE  /\ ToSet(s \o t) = ToSet(s) \cup ToSet(t)
           /\ Once(s, e) /\ e \notin ToSet(t) => Once(s \o t, e)
           /\ Once(t, e) /\ e \notin ToSet(s) => Once(s \o t, e)
<1> PICK u : u = s \o t
  OBVIOUS
<1>1. /\ DOMAIN u = 1..Len(s)+Len(t) /\ DOMAIN s = 1..Len(s) /\ DOMAIN t = 1..Len(t)
      /\ Len(s) \in Nat /\ Len(t) \in Nat
      /\ \A i \in 1..Len(s) : u[i] = s[i] /\ i \in DOMAIN u
      /\ \A i \in 1..Len(t) : u[i + Len(s)] = t[i] /\ i + Len(s) \in DOMAIN u
  OBVIOUS
<1>2. \A i \in DOMAIN u : \/ i \in DOMAIN s /\ u[i] = s[i]
                          \/ i - Len(s) \in DOMAIN t /\ u[i] = t[i - Len(s)]
  BY <1>1
<1>3. ToSet(u) = ToSet(s) \cup ToSet(t)
  BY ElementsOfSum
<1>4. ASSUME Once(s, e), e \notin ToSet(t) PROVE Once(u, e)
  <2>1. PICK i \in DOMAIN s : s[i] = e /\ \A j \in DOMAIN s : s[j] = e => j = i
    BY <1>4 DEF Once
  <2>2. \A j \in DOMAIN t : t[j] # e
    BY <1>4 DEF ToSet
  <2>3. \A j \in DOMAIN u : u[j] = e => j = i
    BY <1>2, <2>1, <2>2
  <2> QED
    BY <1>1, <2>1, <2>3 DEF Once
<1>5. ASSUME Once(t, e), e \notin ToSet(s) PROVE Once(u, e)
  <2>1. PICK i \in DOMAIN t : t[i] = e /\ \A j \in DOMAIN t : t[j] = e => j = i
    BY <1>5 DEF Once
  <2>2. \A j \in DOMAIN s : s[j] # e
    BY <1>5 DEF ToSet
  <2>3. ASSUME NEW j \in DOMAIN u, u[j] = e PROVE j = i + Len(s)
    <3>1. j - Len(s) \in DOMAIN t /\ t[j - Len(s)] = e
      BY <1>2, <2>2, <2>3
    <3>2. j - Len(s) = i
      BY <2>1, <3>1
    <3> QED
      BY <1>1, <2>1, <3>2
  <2>4. i + Len(s) \in DOMAIN u /\ u[i + Len(s)] = e
    BY <1>1, <2>1
  <2> QED
    BY <2>3, <2>4 DEF Once
<1> QED
  BY <1>3, <1>4, <1>5

\* One more element at the end.
LEMMA OnceAppended ==
    ASSUME NEW A, NEW s \in Seq(A), NEW c \in A, NEW e
    PROVE  /\ ToSet(Append(s, c)) = ToSet(s) \cup {c}
           /\ Once(s, e) /\ e # c => Once(Append(s, c), e)
<1>1. Append(s, c) = s \o <<c>> /\ <<c>> \in Seq(A)
  OBVIOUS
<1>2. ToSet(<<c>>) = {c}
  BY DEF ToSet
<1> QED
  BY <1>1, <1>2, OnceJoined

Listed(p, x) == Once(children[p], x)
Unlisted(p, x) == x \notin ToSet(children[p])
Told(p, type, x) == Msg(type, x) \in ToSet(mail[p])
ToldOnce(p, x) == Once(mail[p], Msg("child_restored", x))

\* The background task of a spawn has not failed, and will not unless the child ends.
Fresh(x) == \/ stage[x] \in {"start", "announce", "wait", "tell"}
            \/ stage[x] = "done" /\ IsAlive(<<x, 1>>)

\* The restored agents whose parent will be told.
ToTell(x) == x \in restore.all /\ HasParent(x) /\ ~Cut[x]

\* What a step may do to the entry for x at its parent p: nothing,
Same(p, x) == /\ Listed(p, x) => (Listed(p, x))'
              /\ Unlisted(p, x) => (Unlisted(p, x))'

Silent(p, x) == /\ \A type \in News : (Told(p, type, x))' => Told(p, type, x)
                /\ ToldOnce(p, x) => (ToldOnce(p, x))'

\* or p asks for x,
Asked(p, x) == /\ Unlisted(p, x) => (Listed(p, x))'
               /\ Silent(p, x)

\* or handles a message about it,
Heard(p, x, type) ==
    /\ Told(p, type, x) /\ \A t \in News : (Told(p, t, x))' => Told(p, t, x)
    /\ type = "child_spawned" => (Listed(p, x) => (Listed(p, x))')
    /\ type = "child_restored" =>
          /\ Unlisted(p, x) => (Listed(p, x))'
          /\ ToldOnce(p, x) => ~(Told(p, "child_restored", x))'
    /\ type \in {"spawn_failed", "child_dismissed"} => (Unlisted(p, x) => (Unlisted(p, x))')
    /\ type # "child_restored" => (ToldOnce(p, x) => (ToldOnce(p, x))')

\* or is sent one, by the task of a spawn or of a dismissal,
Reported(p, x, type) ==
    /\ Same(p, x)
    /\ \A t \in News : (Told(p, t, x))' => Told(p, t, x) \/ t = type
    /\ ToldOnce(p, x) => (ToldOnce(p, x))'
    /\ \/ /\ type \in {"child_spawned", "spawn_failed"} /\ Asker(x) = Pid(p) /\ stage[x] # "unborn"
          /\ type = "spawn_failed" => ~(Fresh(x))'
       \/ type = "child_dismissed" /\ TellDismisser /\ x = dismissal.root

\* or by a restoration.
Renewed(p, x) ==
    /\ Same(p, x)
    /\ \A t \in News \ {"child_restored"} : (Told(p, t, x))' => Told(p, t, x)
    /\ ~Told(p, "child_restored", x) => (ToldOnce(p, x))'

\* A message is posted to the process it is for.
LEMMA PostReaches ==
    ASSUME ProcType, NEW p \in Live, NEW pid \in Pids, NEW m
    PROVE  \/ Post(mail, pid, m)[p] = mail[p]
           \/ pid = Pid(p) /\ Post(mail, pid, m)[p] = Append(mail[p], m)
<1>1. mail \in [Agents -> Seq(Letters)] /\ p \in Agents
  BY LiveAreAgents DEF ProcType, Boxes
<1>2. CASE IsAlive(pid)
  <2>1. Post(mail, pid, m) = [mail EXCEPT ![pid[1]] = Append(@, m)] /\ pid[2] = inc[pid[1]]
    BY <1>2 DEF Post, IsAlive
  <2>2. pid = <<pid[1], pid[2]>>
    BY DEF Pids
  <2>3. CASE pid[1] = p
    <3>1. pid = Pid(p)
      BY <2>1, <2>2, <2>3 DEF Pid
    <3> QED
      BY <1>1, <2>1, <2>3, <3>1
  <2>4. CASE pid[1] # p
    BY <1>1, <2>1, <2>4
  <2> QED
    BY <2>3, <2>4
<1>3. CASE ~IsAlive(pid)
  BY <1>3, Zenon DEF Post
<1> QED
  BY <1>2, <1>3

\* A message that is appended is about one child, or about none.
LEMMA MailAppended ==
    ASSUME TypeInv, NEW p \in Live, NEW x \in Agents, NEW m \in Letters,
           mail'[p] = Append(mail[p], m), children'[p] = children[p]
    PROVE  /\ Same(p, x)
           /\ (\A t \in News : m # Msg(t, x)) => Silent(p, x)
           /\ \A t \in News : (Told(p, t, x))' => Told(p, t, x) \/ m = Msg(t, x)
           /\ m # Msg("child_restored", x) /\ ToldOnce(p, x) => (ToldOnce(p, x))'
<1>1. mail[p] \in Seq(Letters)
  BY LiveAreAgents DEF TypeInv, ProcType, Boxes
<1>2. ToSet(mail'[p]) = ToSet(mail[p]) \cup {m}
  <2>1. /\ ToSet(Append(mail[p], m)) = ToSet(mail[p]) \cup {m}
        /\ Once(mail[p], x) /\ x # m => Once(Append(mail[p], m), x)
    BY <1>1, OnceAppended
  <2> QED
    BY <2>1
<1>3. m # Msg("child_restored", x) /\ ToldOnce(p, x) => (ToldOnce(p, x))'
  <2> PICK e : e = Msg("child_restored", x)
    OBVIOUS
  <2>1. Once(mail[p], e) /\ e # m => Once(Append(mail[p], m), e)
    BY <1>1, OnceAppended
  <2> QED
    BY <2>1 DEF ToldOnce
<1>4. \A t \in News : (Told(p, t, x))' => Told(p, t, x) \/ m = Msg(t, x)
  BY <1>2 DEF Told
<1>5. Same(p, x)
  BY DEF Same, Listed, Unlisted
<1> QED
  BY <1>3, <1>4, <1>5 DEF Silent, News

\* An agent handles its news.
LEMMA NewsHeard ==
    ASSUME TypeInv, NEW p \in Live, NEW x \in Agents, HandleNews(p)
    PROVE  \/ Same(p, x) /\ Silent(p, x)
           \/ \E type \in News : Heard(p, x, type)
<1>1. /\ p \in Agents /\ mail \in [Agents -> Seq(Letters)] /\ mail[p] \in Seq(Letters)
      /\ children \in [Agents -> Seq(Agents)] /\ children[p] \in Seq(Agents)
  BY LiveAreAgents DEF TypeInv, ProcType, Boxes
<1> PICK c : c = children[p]
  OBVIOUS
<1> PICK q : q = mail[p]
  OBVIOUS
<1> PICK m : m = Head(q)
  OBVIOUS
<1>2. q # <<>> /\ m.type # "stop" /\ q \in Seq(Letters) /\ c \in Seq(Agents)
  BY <1>1 DEF HandleNews
<1>3. mail'[p] = Tail(q)
  BY <1>1 DEF HandleNews
<1>4. children'[p] = IF m.type = "child_spawned" THEN Track(c, m.id)
                     ELSE IF m.type = "child_restored" THEN <<m.id>> \o c
                     ELSE Untrack(c, m.id)
  BY <1>1 DEF HandleNews
<1>5. m \in [type : News, id : Agents] /\ m.type \in News /\ m.id \in Agents
  <2>1. m \in Letters
    BY <1>2
  <2> QED
    BY <1>2, <2>1 DEF Letters, Msg
<1>6. /\ m \in ToSet(q) /\ ToSet(mail'[p]) \subseteq ToSet(q)
      /\ Once(q, Msg("child_restored", x)) /\ Msg("child_restored", x) # m =>
            Once(mail'[p], Msg("child_restored", x))
      /\ Once(q, Msg("child_restored", x)) /\ Msg("child_restored", x) = m =>
            Msg("child_restored", x) \notin ToSet(mail'[p])
  BY <1>2, <1>3, OnceTaken
<1>7. \A t \in News : (Told(p, t, x))' => Told(p, t, x)
  BY <1>6 DEF Told
<1>8. m = Msg(m.type, m.id)
  BY <1>5 DEF Msg
<1>9. CASE m.id # x
  <2>1. Msg("child_restored", x) # m
    BY <1>9 DEF Msg
  <2>2. ToldOnce(p, x) => (ToldOnce(p, x))'
    BY <1>6, <2>1 DEF ToldOnce
  <2>3. /\ Once(c, x) => Once(children'[p], x)
        /\ x \notin ToSet(c) => x \notin ToSet(children'[p])
    <3>1. CASE m.type = "child_spawned"
      <4>1. children'[p] = Track(c, m.id)
        BY <1>4, <3>1
      <4>2. /\ ToSet(Track(c, m.id)) = {m.id} \cup ToSet(c)
            /\ Once(c, x) => Once(Track(c, m.id), x)
        BY <1>2, <1>5, OnceTracked
      <4> QED
        BY <1>9, <4>1, <4>2
    <3>2. CASE m.type = "child_restored"
      <4>1. children'[p] = <<m.id>> \o c
        BY <1>4, <3>2
      <4>2. /\ ToSet(<<m.id>> \o c) = {m.id} \cup ToSet(c)
            /\ Once(c, x) => Once(<<m.id>> \o c, x)
        <5> PICK y \in Agents : y = m.id
          BY <1>5
        <5>1. /\ ToSet(<<y>> \o c) = {y} \cup ToSet(c)
              /\ Once(c, x) /\ x # y => Once(<<y>> \o c, x)
          BY <1>2, OncePushed
        <5> QED
          BY <1>9, <5>1
      <4> QED
        BY <1>9, <4>1, <4>2
    <3>3. CASE m.type \notin {"child_spawned", "child_restored"}
      <4>1. children'[p] = Untrack(c, m.id)
        BY <1>4, <3>3
      <4>2. /\ ToSet(Untrack(c, m.id)) = ToSet(c) \ {m.id}
            /\ Once(c, x) => Once(Untrack(c, m.id), x)
        BY <1>2, <1>9, OnceUntracked
      <4> QED
        BY <4>1, <4>2
    <3> QED
      BY <3>1, <3>2, <3>3
  <2> QED
    BY <1>7, <2>2, <2>3 DEF Same, Silent, Listed, Unlisted
<1>10. CASE m.id = x
  <2> PICK type \in News : type = m.type
    BY <1>5
  <2>1. Told(p, type, x)
    BY <1>6, <1>8, <1>10 DEF Told
  <2>2. type = "child_spawned" => (Listed(p, x) => (Listed(p, x))')
    <3>1. m.type = "child_spawned" => children'[p] = Track(c, x)
      BY <1>4, <1>10
    <3>2. Once(c, x) => Once(Track(c, x), x)
      BY <1>2, OnceTracked
    <3> QED
      BY <3>1, <3>2 DEF Listed
  <2>3. type = "child_restored" =>
          /\ Unlisted(p, x) => (Listed(p, x))'
          /\ ToldOnce(p, x) => ~(Told(p, "child_restored", x))'
    <3>1. m.type = "child_restored" => children'[p] = <<x>> \o c /\ m = Msg("child_restored", x)
      BY <1>4, <1>8, <1>10
    <3>2. x \notin ToSet(c) => Once(<<x>> \o c, x)
      BY <1>2, OncePushed
    <3> QED
      BY <1>6, <3>1, <3>2 DEF Listed, Unlisted, ToldOnce, Told
  <2>4. type \in {"spawn_failed", "child_dismissed"} => (Unlisted(p, x) => (Unlisted(p, x))')
    <3>1. m.type \in {"spawn_failed", "child_dismissed"} => children'[p] = Untrack(c, x)
      BY <1>4, <1>10
    <3>2. ToSet(Untrack(c, x)) = ToSet(c) \ {x}
      BY <1>2, OnceUntracked
    <3> QED
      BY <3>1, <3>2 DEF Unlisted
  <2>5. type # "child_restored" => (ToldOnce(p, x) => (ToldOnce(p, x))')
    <3>1. m.type # "child_restored" => Msg("child_restored", x) # m
      BY DEF Msg
    <3> QED
      BY <1>6, <3>1 DEF ToldOnce
  <2> QED
    BY <1>7, <2>1, <2>2, <2>3, <2>4, <2>5 DEF Heard
<1> QED
  BY <1>9, <1>10

\* An agent asks for a child.
LEMMA ChildAsked ==
    ASSUME TypeInv, NEW p \in Live, NEW y \in Agents, AcceptSpawn(p, y), NEW x \in Agents
    PROVE  /\ Silent(p, x)
           /\ x = y => Asked(p, x)
           /\ x # y => Same(p, x)
<1>1. p \in Agents /\ children \in [Agents -> Seq(Agents)] /\ children[p] \in Seq(Agents)
  BY LiveAreAgents DEF TypeInv, ProcType
<1>2. mail' = mail /\ children'[p] = Track(children[p], y)
  BY <1>1 DEF AcceptSpawn
<1>3. /\ ToSet(Track(children[p], y)) = {y} \cup ToSet(children[p])
      /\ Once(children[p], x) => Once(Track(children[p], y), x)
      /\ x \notin ToSet(children[p]) /\ x = y => Once(Track(children[p], y), x)
  BY <1>1, OnceTracked
<1>4. Silent(p, x)
  BY <1>2 DEF Silent, Told, ToldOnce
<1> QED
  BY <1>2, <1>3, <1>4 DEF Asked, Same, Listed, Unlisted

\* A restoration tells each live parent of each of its children once.
LEMMA ChildrenRenewed ==
    ASSUME TypeInv, RebuildChildren, NEW p \in Live', NEW x \in Agents
    PROVE  IF ToTell(x) /\ parent[x] = p THEN Renewed(p, x) ELSE Same(p, x) /\ Silent(p, x)
<1>1. PICK gone : /\ gone \subseteq Live /\ Exit(gone) /\ Live' = Live \ gone
                  /\ \A q \in Live \ gone :
                         /\ mail[q] \in Seq(Letters) /\ mail'[q] \in Seq(Letters)
                         /\ \E news \in Seq(Letters) :
                               /\ mail'[q] = mail[q] \o news
                               /\ news = [i \in DOMAIN ChildrenToTell(q) |->
                                           Msg("child_restored", ChildrenToTell(q)[i])]
  BY RebuildProc
<1>2. p \in Live \ gone /\ mail[p] \in Seq(Letters)
  BY <1>1
<1>3. PICK news \in Seq(Letters) :
          /\ mail'[p] = mail[p] \o news
          /\ news = [i \in DOMAIN ChildrenToTell(p) |-> Msg("child_restored", ChildrenToTell(p)[i])]
  BY <1>1, <1>2
<1> DEFINE kids == {y \in restore.all : HasParent(y) /\ parent[y] = p /\ ~Cut[y]}
<1>4. kids \subseteq Agents /\ ChildrenToTell(p) = InOrder(kids)
  BY DEF TypeInv, RestoreType, ChildrenToTell
<1> PICK told : told = ChildrenToTell(p)
  OBVIOUS
<1>5. told \in Seq(kids) /\ ToSet(told) = kids /\ Distinct(told)
  <2> HIDE DEF kids
  <2> QED
    BY <1>4, AgentSets, InOrderElements
<1>6. x \in kids <=> ToTell(x) /\ parent[x] = p
  BY DEF ToTell
<1> HIDE DEF kids
<1>7. news = [i \in DOMAIN told |-> Msg("child_restored", told[i])]
  BY <1>3
<1>8. /\ \A t \in News : Msg(t, x) \in ToSet(news) => t = "child_restored" /\ x \in kids
      /\ x \in kids => Once(news, Msg("child_restored", x))
  <2>1. DOMAIN news = DOMAIN told /\ \A i \in DOMAIN news : news[i] = Msg("child_restored", told[i])
    BY <1>7
  <2>2. \A t, y, u, z : Msg(t, y) = Msg(u, z) <=> t = u /\ y = z
    BY DEF Msg
  <2>3. ASSUME NEW t \in News, Msg(t, x) \in ToSet(news) PROVE t = "child_restored" /\ x \in kids
    <3>1. PICK i \in DOMAIN news : news[i] = Msg(t, x)
      BY <2>3 DEF ToSet
    <3>2. Msg("child_restored", told[i]) = Msg(t, x)
      BY <2>1, <3>1
    <3>3. t = "child_restored" /\ told[i] = x
      BY <2>2, <3>2
    <3> QED
      BY <1>5, <2>1, <3>3 DEF ToSet
  <2>4. ASSUME x \in kids PROVE Once(news, Msg("child_restored", x))
    <3>1. PICK i \in DOMAIN told : told[i] = x
      BY <1>5, <2>4 DEF ToSet
    <3>2. \A j \in DOMAIN told : told[j] = x => j = i
      BY <1>5, <3>1 DEF Distinct
    <3>3. \A j \in DOMAIN news : news[j] = Msg("child_restored", x) => told[j] = x
      BY <2>1, <2>2
    <3> QED
      BY <2>1, <3>1, <3>2, <3>3 DEF Once
  <2> QED
    BY <2>3, <2>4
<1>9. Same(p, x)
  <2>1. p \in Agents /\ p \notin gone
    BY <1>2, LiveAreAgents DEF TypeInv, ProcType
  <2>2. children'[p] = children[p]
    BY <1>1, <2>1, ExitRegistry DEF TypeInv
  <2> QED
    BY <2>2 DEF Same, Listed, Unlisted
<1> PICK m : m = Msg("child_restored", x)
  OBVIOUS
<1>10. /\ ToSet(mail'[p]) = ToSet(mail[p]) \cup ToSet(news)
       /\ Once(mail[p], m) /\ m \notin ToSet(news) => Once(mail'[p], m)
       /\ Once(news, m) /\ m \notin ToSet(mail[p]) => Once(mail'[p], m)
  <2>1. /\ ToSet(mail[p] \o news) = ToSet(mail[p]) \cup ToSet(news)
        /\ Once(mail[p], m) /\ m \notin ToSet(news) => Once(mail[p] \o news, m)
        /\ Once(news, m) /\ m \notin ToSet(mail[p]) => Once(mail[p] \o news, m)
    BY <1>2, OnceJoined
  <2> QED
    BY <1>3, <2>1
<1>11. "child_restored" \in News
  BY DEF News
<1>12. CASE x \in kids
  BY <1>6, <1>8, <1>9, <1>10, <1>12 DEF Renewed, Told, ToldOnce
<1>13. CASE x \notin kids
  <2>1. \A t \in News : Msg(t, x) \notin ToSet(news)
    BY <1>8, <1>13
  <2>2. Silent(p, x)
    BY <1>10, <1>11, <2>1 DEF Silent, Told, ToldOnce
  <2> QED
    BY <1>6, <1>9, <1>13, <2>2
<1> QED
  BY <1>12, <1>13

\* A step changes what a process knows of a child only by the moves above.
LEMMA EntryStep ==
    ASSUME TypeInv, [Next]_vars, NEW p \in Live, p \in Live', inc'[p] = inc[p], NEW x \in Agents
    PROVE  \/ Same(p, x) /\ Silent(p, x)
           \/ AcceptSpawn(p, x) /\ Asked(p, x)
           \/ \E type \in News : Heard(p, x, type) \/ Reported(p, x, type)
           \/ RebuildChildren /\ ToTell(x) /\ parent[x] = p /\ Renewed(p, x)
<1> DEFINE kept == Same(p, x) /\ Silent(p, x)
           goal == \/ kept
                   \/ AcceptSpawn(p, x) /\ Asked(p, x)
                   \/ \E type \in News : Heard(p, x, type) \/ Reported(p, x, type)
                   \/ RebuildChildren /\ ToTell(x) /\ parent[x] = p /\ Renewed(p, x)
<1> SUFFICES goal
  OBVIOUS
<1>1. /\ ProcType /\ Live \subseteq Agents /\ mail \in [Agents -> Seq(Letters)] /\ p \in Agents
      /\ children \in [Agents -> Seq(Agents)]
      /\ mail[p] \in Seq(Letters) /\ SpawnType /\ UnstartedInv /\ DismissalType /\ RestoreType
      /\ inc \in [Agents -> Nat]
      /\ stage \in [Agents -> {"unborn", "start", "announce", "wait", "tell", "done"}]
  <2>1. ProcType /\ Live \subseteq Agents /\ SpawnType /\ UnstartedInv /\ DismissalType /\ RestoreType
    BY LiveAreAgents DEF TypeInv, ProcType
  <2> QED
    BY <2>1 DEF ProcType, Boxes, SpawnType
<1>2. ASSUME mail'[p] = mail[p], children'[p] = children[p] PROVE kept
  BY <1>2 DEF Same, Silent, Listed, Unlisted, Told, ToldOnce
<1>3. ASSUME UNCHANGED <<mail, children>> PROVE kept
  BY <1>2, <1>3
<1>4. ASSUME NEW S, Exit(S), mail' = Emptied(mail, S) PROVE kept
  <2>1. Live' = Live \ S /\ \A y \in Agents : children'[y] = IF y \in S THEN <<>> ELSE children[y]
    BY <1>1, <1>4, ExitRegistry
  <2>2. p \notin S => mail'[p] = mail[p]
    BY <1>1, <1>4 DEF Emptied
  <2> QED
    BY <1>1, <1>2, <2>1, <2>2
<1>5. ASSUME NEW m \in Letters, mail'[p] = Append(mail[p], m), children' = children,
             \A t \in News : m # Msg(t, x)
      PROVE  kept
  BY <1>5, MailAppended
<1>6. ASSUME NEW y \in Agents, NEW t \in News, mail'[p] = Append(mail[p], Msg(t, y)),
             children' = children, t # "child_restored", y = x =>
                \/ /\ t \in {"child_spawned", "spawn_failed"} /\ Asker(x) = Pid(p)
                   /\ stage[x] # "unborn" /\ (t = "spawn_failed" => ~(Fresh(x))')
                \/ t = "child_dismissed" /\ TellDismisser /\ x = dismissal.root
      PROVE  goal
  <2> PICK m \in Letters : m = Msg(t, y)
    BY DEF Msg, Letters
  <2>1. /\ Same(p, x)
        /\ (\A u \in News : m # Msg(u, x)) => Silent(p, x)
        /\ \A u \in News : (Told(p, u, x))' => Told(p, u, x) \/ m = Msg(u, x)
        /\ m # Msg("child_restored", x) /\ ToldOnce(p, x) => (ToldOnce(p, x))'
    BY <1>6, MailAppended
  <2>2. \A u, z : m = Msg(u, z) <=> u = t /\ y = z
    BY DEF Msg
  <2>3. CASE y = x
    <3>1. Reported(p, x, t)
      BY <1>6, <2>1, <2>2, <2>3 DEF Reported
    <3> QED
      BY <3>1
  <2>4. CASE y # x
    <3>1. kept
      BY <2>1, <2>2, <2>4
    <3> QED
      BY <3>1
  <2> QED
    BY <2>3, <2>4
<1> HIDE DEF kept
<1>7. ASSUME NEW y \in Agents, AgentStep(y) \/ Crash(y) PROVE goal
  <2>1. CASE SetUp(y) \/ Restart(y)
    BY <1>3, <2>1 DEF SetUp, Restart, Start
  <2>2. CASE HandleStopRequested(y) \/ Crash(y)
    BY <1>4, <2>2 DEF HandleStopRequested, Crash
  <2>3. CASE HandleNews(y)
    <3>1. CASE y = p
      BY <2>3, <3>1, NewsHeard DEF kept
    <3>2. CASE y # p
      <4>1. mail'[p] = mail[p] /\ children'[p] = children[p]
        BY <1>1, <2>3, <3>2 DEF HandleNews
      <4> QED
        BY <1>2, <4>1
    <3> QED
      BY <3>1, <3>2
  <2> QED
    BY <1>7, <2>1, <2>2, <2>3 DEF AgentStep
<1>8. ASSUME NEW y \in Agents, NEW t \in {"child_spawned", "spawn_failed"}, children' = children,
             mail' = Post(mail, Asker(y), Msg(t, y)), stage[y] # "unborn",
             t = "spawn_failed" => ~(Fresh(y))'
      PROVE  goal
  <2>1. Asker(y) \in Pids /\ t \in News
    BY <1>1, PidsOfAgents DEF News
  <2>2. CASE mail'[p] = mail[p]
    BY <1>2, <1>8, <2>2
  <2>3. CASE Asker(y) = Pid(p) /\ mail'[p] = Append(mail[p], Msg(t, y))
    <3>1. t # "child_restored"
      OBVIOUS
    <3>2. y = x => /\ t \in {"child_spawned", "spawn_failed"} /\ Asker(x) = Pid(p)
                   /\ stage[x] # "unborn" /\ (t = "spawn_failed" => ~(Fresh(x))')
      BY <1>8, <2>3
    <3> HIDE DEF goal
    <3> QED
      BY <1>6, <1>8, <2>1, <2>3, <3>1, <3>2
  <2> QED
    BY <1>1, <1>8, <2>1, <2>2, <2>3, PostReaches
<1>9. ASSUME NEW y \in Agents,
             SpawnStep(y) \/ FailSpawn(y) \/ (\E q \in Agents : AcceptSpawn(q, y))
      PROVE  goal
  <2>1. CASE StartChild(y) \/ Announce(y)
    BY <1>3, <2>1 DEF StartChild, Start, Announce, procVars
  <2>2. CASE TellParent(y)
    <3>1. children' = children /\ mail' = Post(mail, Asker(y), Msg("child_spawned", y))
          /\ stage[y] # "unborn"
      BY <2>2 DEF TellParent, procVars
    <3> HIDE DEF goal
    <3> QED
      BY <1>8, <3>1
  <2>3. CASE AwaitChild(y)
    <3>1. children' = children /\ stage[y] # "unborn" /\ registry' = registry /\ inc' = inc
      BY <2>3 DEF AwaitChild, procVars
    <3>2. CASE mail' = mail
      BY <1>3, <3>1, <3>2
    <3>3. CASE mail' # mail
      <4>1. /\ mail' = Post(mail, Asker(y), Msg("spawn_failed", y)) /\ ~IsAlive(<<y, 1>>)
            /\ stage' = [stage EXCEPT ![y] = "done"]
        BY <2>3, <3>3 DEF AwaitChild
      <4>2. stage'[y] = "done" /\ ~(IsAlive(<<y, 1>>))'
        BY <1>1, <3>1, <4>1 DEF IsAlive, Live
      <4>3. ~(Fresh(y))'
        BY <4>2 DEF Fresh
      <4> HIDE DEF goal
      <4> QED
        BY <1>8, <3>1, <4>1, <4>3
    <3> QED
      BY <3>2, <3>3
  <2>4. CASE FailSpawn(y)
    <3>1. /\ children' = children /\ stage[y] = "start" /\ registry' = registry /\ inc' = inc
          /\ mail' = Post(mail, Asker(y), Msg("spawn_failed", y))
          /\ stage' = [stage EXCEPT ![y] = "done"]
      BY <2>4 DEF FailSpawn, procVars
    <3>2. inc'[y] = 0 /\ stage'[y] = "done"
      BY <1>1, <3>1 DEF UnstartedInv
    <3>3. ~(Fresh(y))'
      BY <3>2 DEF Fresh, IsAlive
    <3> HIDE DEF goal
    <3> QED
      BY <1>8, <3>1, <3>3
  <2>5. ASSUME NEW q \in Agents, AcceptSpawn(q, y) PROVE goal
    <3>1. CASE q # p
      <4>1. mail'[p] = mail[p] /\ children'[p] = children[p]
        BY <1>1, <2>5, <3>1 DEF AcceptSpawn
      <4> QED
        BY <1>2, <4>1
    <3>2. CASE q = p
      BY <2>5, <3>2, ChildAsked DEF kept
    <3> QED
      BY <3>1, <3>2
  <2> QED
    BY <1>9, <2>1, <2>2, <2>3, <2>4, <2>5 DEF SpawnStep
<1>10. CASE DismissalStep \/ RollBackCosts \/ (\E q, y \in Agents : BeginDismissal(q, y))
  <2>1. CASE StopFound
    BY <1>3, <1>4, <2>1 DEF StopFound
  <2>2. CASE TellDismisser
    <3> PICK root : root = dismissal.root
      OBVIOUS
    <3>1. /\ dismissal.by \in Pids /\ root \in Agents /\ children' = children
          /\ mail' = Post(mail, dismissal.by, Msg("child_dismissed", root))
      BY <1>1, <2>2 DEF DismissalType, TellDismisser, None, Agents, procVars
    <3>2. mail'[p] = mail[p] \/ mail'[p] = Append(mail[p], Msg("child_dismissed", root))
      BY <1>1, <3>1, PostReaches
    <3>3. "child_dismissed" \in News
      BY DEF News
    <3> HIDE DEF goal
    <3>4. kept => goal
      BY DEF goal
    <3> QED
      BY <1>2, <1>6, <2>2, <3>1, <3>2, <3>3, <3>4
  <2>3. CASE ~StopFound /\ ~TellDismisser
    BY <1>3, <1>10, <2>3 DEF DismissalStep, RollBackCosts, BeginDismissal, MarkSubtree, Flags,
                            AbsorbCosts, FlagAgent, ScanChildren, FindNext, procVars
  <2> QED
    BY <2>1, <2>2, <2>3
<1>11. ASSUME NEW S, StopOrKill(S) PROVE goal
  <2>1. CASE job.kill
    BY <1>4, <1>11, <2>1 DEF StopOrKill
  <2>2. CASE ~job.kill
    <3> PICK stop \in Letters : stop = Msg("stop", None)
      BY DEF Letters
    <3>1. (mail'[p] = mail[p] \/ mail'[p] = Append(mail[p], stop)) /\ children' = children
      BY <1>1, <1>11, <2>2 DEF StopOrKill
    <3>2. \A t \in News : stop # Msg(t, x)
      BY DEF Msg, News
    <3> QED
      BY <1>2, <1>5, <3>1, <3>2
  <2> QED
    BY <2>1, <2>2
<1>12. CASE SendStop \/ SweepLate
  BY <1>11, <1>12 DEF SendStop, SweepLate
<1>13. CASE \/ ShowPausing \/ DeleteTask \/ HandleAgentSpawned \/ HandleAgentTerminated
            \/ ClickPause \/ ClickResume \/ ClickDelete \/ Reload
  BY <1>3, <1>13 DEF ShowPausing, DeleteTask, HandleAgentSpawned, HandleAgentTerminated, ClickPause,
                    ClickResume, ClickDelete, Reload, procVars
<1>14. CASE SkipAgent \/ GiveUp \/ FailToRestore
  BY <1>3, <1>14 DEF SkipAgent, GiveUp, FailToRestore, procVars
<1>15. CASE RestoreAgent
  <2>1. inc' = [inc EXCEPT ![Head(restore.todo)] = @ + 1]
        /\ children' = [children EXCEPT ![Head(restore.todo)] = <<>>]
        /\ mail' = Emptied(mail, {Head(restore.todo)})
    BY <1>15 DEF RestoreAgent
  <2>2. p # Head(restore.todo)
    BY <1>1, <2>1
  <2>3. mail'[p] = mail[p] /\ children'[p] = children[p]
    BY <1>1, <2>1, <2>2 DEF Emptied
  <2> QED
    BY <1>2, <2>3
<1>16. CASE RebuildChildren
  BY <1>16, ChildrenRenewed DEF kept
<1>17. CASE SweepOrphans
  BY <1>4, <1>17 DEF SweepOrphans
<1>18. CASE NodeCrash
  <2>1. Live' = Live \ Live
    BY <1>1, <1>18, ExitRegistry DEF NodeCrash
  <2> QED
    BY <2>1
<1>19. CASE UNCHANGED vars
  BY <1>3, <1>19 DEF vars, procVars
<1> HIDE DEF goal
<1> QED
  BY <1>7, <1>9, <1>10, <1>12, <1>13, <1>14, <1>15, <1>16, <1>17, <1>18, <1>19, NextCases
     DEF PageStep, RestoreStep

\* A process that starts knows nobody and has no mail.
LEMMA NewProcess ==
    ASSUME TypeInv, [Next]_vars, NEW p \in Live'
    PROVE  \/ p \in Live /\ inc'[p] = inc[p]
           \/ /\ p \in Agents /\ inc'[p] = inc[p] + 1
              /\ children'[p] = <<>> /\ mail'[p] = <<>>
<1>1. /\ ProcType /\ Live \subseteq Agents /\ inc \in [Agents -> Nat] /\ UnstartedInv
      /\ children \in [Agents -> Seq(Agents)]
      /\ \A y \in Agents \ Live : children[y] = <<>> /\ mail[y] = <<>>
      /\ restarting \subseteq Agents \ Live
  BY LiveAreAgents DEF TypeInv, ProcType
<1>2. CASE Ends
  BY <1>1, <1>2 DEF Ends
<1>3. ASSUME NEW y \in Agents, Starts(y), y # p PROVE p \in Live /\ inc'[p] = inc[p]
  BY <1>1, <1>3 DEF Starts
<1>4. CASE p \in Agents /\ Starts(p)
  <2>1. inc'[p] = inc[p] + 1
    BY <1>1, <1>4 DEF Starts
  <2>2. CASE Restart(p) \/ StartChild(p)
    <3>1. p \notin Live
      BY <1>1, <1>4, <2>2 DEF Restart, StartChild, UnstartedInv
    <3>2. children' = children /\ mail' = mail
      BY <2>2 DEF Restart, StartChild, Start
    <3> QED
      BY <1>1, <1>4, <2>1, <3>1, <3>2
  <2>3. CASE RestoreAgent /\ p = Head(restore.todo)
    <3>1. children'[p] = <<>> /\ mail'[p] = <<>>
      BY <1>1, <1>4, <2>3 DEF RestoreAgent, Emptied
    <3> QED
      BY <1>4, <2>1, <3>1
  <2> QED
    BY <1>4, <2>2, <2>3 DEF Starts
<1> QED
  BY <1>2, <1>3, <1>4, LiveStep

\* What a child was started with: by a spawn, the process that asked for it; by a restoration, a
\* later process of its parent.
PidsInv ==
    \A x \in Agents :
        /\ inc[x] # 0 /\ ~config[x].restored =>
              config[x].parent = Asker(x) /\ (x \notin crashed => inc[x] = 1)
        /\ config[x].restored =>
              inc[x] # 0 /\ (config[x].parent[1] # None => spawner[x] < config[x].parent[2])
        /\ x \in restarting => x \in crashed

\* The restoration under way has given its agents the new processes of their parents, and nobody
\* else has those.
RenewInv ==
    /\ \A x \in Restored : config[x] = RestoreConfig(x)
    /\ \A x \in restore.all : parent[x] \in Restored => spawner[x] < restore.pids[parent[x]]
    /\ \A x \in Agents \ Restored :
          parent[x] \in Restored /\ config[x].restored /\ config[x].parent[1] # None =>
              config[x].parent[2] < restore.pids[parent[x]]

\* The background task of a dismissal is no supervisor and spawns nobody.
LEMMA DismissalFrame ==
    ASSUME DismissalStep \/ RollBackCosts \/ (\E p, x \in Agents : BeginDismissal(p, x))
    PROVE  UNCHANGED <<restarting, spawnVars>>
<1>1. CASE MarkSubtree
  BY <1>1 DEF MarkSubtree, Flags
<1>2. CASE FlagAgent
  BY <1>2 DEF FlagAgent, Flags
<1>3. CASE AbsorbCosts \/ ScanChildren \/ TellDismisser \/ RollBackCosts
  BY <1>3 DEF AbsorbCosts, ScanChildren, TellDismisser, RollBackCosts
<1>4. CASE FindNext
  BY <1>4 DEF FindNext
<1>5. CASE StopFound
  BY <1>5 DEF StopFound
<1>6. ASSUME NEW p \in Agents, NEW x \in Agents, BeginDismissal(p, x)
      PROVE  UNCHANGED <<restarting, spawnVars>>
  BY <1>6, Zenon DEF BeginDismissal
<1> QED
  BY <1>1, <1>2, <1>3, <1>4, <1>5, <1>6 DEF DismissalStep

\* Whoever the supervisor starts again has crashed.
LEMMA CrashedStep ==
    ASSUME TypeInv, [Next]_vars
    PROVE  restarting' \subseteq restarting \cup crashed'
<1>1. ASSUME NEW x \in Agents, AgentStep(x) \/ Crash(x)
      PROVE  restarting' \subseteq restarting \cup crashed'
  <2>1. CASE Crash(x)
    BY <2>1 DEF Crash
  <2>2. CASE AgentStep(x)
    BY <2>2 DEF AgentStep, SetUp, HandleStopRequested, HandleNews, Restart
  <2> QED
    BY <1>1, <2>1, <2>2
<1>2. ASSUME NEW x \in Agents,
             SpawnStep(x) \/ FailSpawn(x) \/ (\E p \in Agents : AcceptSpawn(p, x))
      PROVE  restarting' = restarting
  BY <1>2 DEF SpawnStep, StartChild, Announce, AwaitChild, TellParent, FailSpawn, AcceptSpawn
<1>3. ASSUME DismissalStep \/ RollBackCosts \/ (\E p, x \in Agents : BeginDismissal(p, x))
      PROVE  restarting' = restarting
  BY <1>3, DismissalFrame
<1>4. ASSUME NEW S, StopOrKill(S) PROVE restarting' \subseteq restarting \cup crashed'
  BY <1>4 DEF StopOrKill
<1>5. CASE SendStop \/ SweepLate
  BY <1>4, <1>5 DEF SendStop, SweepLate
<1>6. ASSUME \/ ShowPausing \/ DeleteTask \/ HandleAgentSpawned \/ HandleAgentTerminated
             \/ ClickPause \/ ClickResume \/ ClickDelete \/ Reload
      PROVE  restarting' = restarting
  BY <1>6 DEF ShowPausing, DeleteTask, HandleAgentSpawned, HandleAgentTerminated, ClickPause,
              ClickResume, ClickDelete, Reload
<1>7. ASSUME RestoreStep \/ FailToRestore \/ NodeCrash PROVE restarting' \subseteq restarting
  BY <1>7 DEF RestoreStep, SkipAgent, RestoreAgent, GiveUp, RebuildChildren, SweepOrphans,
              FailToRestore, NodeCrash
<1>8. ASSUME UNCHANGED vars PROVE restarting' = restarting
  BY <1>8 DEF vars
<1> QED
  BY <1>1, <1>2, <1>3, <1>5, <1>6, <1>7, <1>8, NextCases DEF PageStep

\* Who asked for an agent is settled when it is asked for.
LEMMA AskerStep ==
    ASSUME TypeInv, [Next]_vars, NEW x \in Agents
    PROVE  \/ \E p \in Agents : AcceptSpawn(p, x)
           \/ parent'[x] = parent[x] /\ spawner'[x] = spawner[x] /\ (Asker(x))' = Asker(x)
<1>1. SpawnType
  BY DEF TypeInv
<1>2. ASSUME NEW p \in Agents, NEW y \in Agents, AcceptSpawn(p, y), y # x
      PROVE  parent'[x] = parent[x] /\ spawner'[x] = spawner[x]
  BY <1>1, <1>2 DEF AcceptSpawn, SpawnType
<1>3. ASSUME parent'[x] = parent[x], spawner'[x] = spawner[x] PROVE (Asker(x))' = Asker(x)
  BY <1>3 DEF Asker
<1> QED
  BY <1>2, <1>3, StageStep

\* A process that starts is of one of three kinds.
LEMMA StartCases ==
    ASSUME TypeInv, [Next]_vars, NEW x \in Agents
    PROVE  \/ inc'[x] = inc[x] /\ (x \in Live' => x \in Live)
           \/ inc'[x] = inc[x] + 1 /\ Restart(x) /\ x \in restarting /\ inc[x] # 0
           \/ inc'[x] = inc[x] + 1 /\ StartChild(x) /\ inc[x] = 0
           \/ /\ inc'[x] = inc[x] + 1 /\ RestoreAgent /\ x = Head(restore.todo)
              /\ x \in ToSet(restore.todo) /\ inc[x] # 0
<1>1. UnstartedInv /\ inc \in [Agents -> Nat] /\ restore.todo \in Seq(Agents)
  BY DEF TypeInv, ProcType, RestoreType
<1>2. CASE Ends
  BY <1>2 DEF Ends
<1>3. ASSUME NEW y \in Agents, Starts(y), y # x PROVE inc'[x] = inc[x] /\ (x \in Live' => x \in Live)
  BY <1>1, <1>3 DEF Starts
<1>4. CASE Starts(x)
  <2>1. inc'[x] = inc[x] + 1
    BY <1>1, <1>4 DEF Starts
  <2>2. Restart(x) => x \in restarting /\ inc[x] # 0
    BY <1>1 DEF Restart, UnstartedInv
  <2>3. StartChild(x) => inc[x] = 0
    BY <1>1 DEF StartChild, UnstartedInv
  <2>4. RestoreAgent /\ x = Head(restore.todo) => x \in ToSet(restore.todo) /\ inc[x] # 0
    <3>1. RestoreAgent => restore.todo # <<>>
      BY DEF RestoreAgent
    <3>2. restore.todo # <<>> => Head(restore.todo) \in ToSet(restore.todo)
      BY <1>1, ElementsOfParts
    <3> QED
      BY <1>1, <3>1, <3>2 DEF UnstartedInv
  <2> QED
    BY <1>4, <2>1, <2>2, <2>3, <2>4 DEF Starts
<1> QED
  BY <1>2, <1>3, <1>4, LiveStep

\* The pids of a restoration are all new, or as they were, or one is added.
LEMMA PidsMoves ==
    ASSUME TypeInv, RebuildInv, [Next]_vars
    PROVE  \/ Restored' = {}
           \/ /\ Restored' = Restored /\ restore'.pids = restore.pids /\ restore'.all = restore.all
              /\ ~RestoreAgent
              /\ restore'.step = restore.step \/ (RebuildChildren /\ restore'.step = "sweep")
           \/ \E c \in ToSet(restore.todo) :
                 /\ RestoreAgent /\ c = Head(restore.todo) /\ c \in Agents
                 /\ restore.step = "restore" /\ restore'.step = "restore"
                 /\ restore'.all = restore.all /\ Restored' = Restored \cup {c}
                 /\ restore'.pids = [restore.pids EXCEPT ![c] = inc[c] + 1]
                 /\ config'[c] = RestoreConfig(c) /\ inc'[c] = inc[c] + 1
<1>1. RestoreType /\ restore.todo \in Seq(Agents) /\ inc \in [Agents -> Nat]
  BY DEF TypeInv, ProcType, RestoreType
<1>2. CASE RestoreAgent
  <2> PICK c : c = Head(restore.todo)
    OBVIOUS
  <2>1. /\ c \in ToSet(restore.todo) /\ Restored' = Restored \cup {c} /\ config'[c] = RestoreConfig(c)
    BY <1>2, TodoStep
  <2>2. c \in Agents
    BY <1>1, <2>1 DEF ToSet
  <2>3. /\ restore.step = "restore" /\ inc' = [inc EXCEPT ![c] = @ + 1]
        /\ restore' = [restore EXCEPT !.todo = Tail(@), !.pids[c] = inc[c] + 1]
    BY <1>2 DEF RestoreAgent
  <2>4. /\ restore'.step = "restore" /\ restore'.all = restore.all
        /\ restore'.pids = [restore.pids EXCEPT ![c] = inc[c] + 1] /\ inc'[c] = inc[c] + 1
    BY <1>1, <2>2, <2>3 DEF RestoreType
  <2> QED
    BY <1>2, <2>1, <2>2, <2>3, <2>4
<1>3. CASE ~RestoreAgent
  <2>1. ASSUME restore'.pids = [x \in Agents |-> 0] PROVE Restored' = {}
    BY <2>1 DEF Restored
  <2>2. NoRestore.pids = [x \in Agents |-> 0]
    BY DEF NoRestore
  <2>3. \A by \in {"page", "boot"} : BeginRestore(by, RunningRows).pids = [x \in Agents |-> 0]
    BY DEF BeginRestore, NoRestore
  <2>4. CASE restore' = restore
    BY <1>3, <2>4 DEF Restored
  <2>5. CASE restore' = [restore EXCEPT !.step = "sweep"] /\ RebuildChildren
    <3>1. restore'.pids = restore.pids /\ restore'.all = restore.all /\ restore'.step = "sweep"
      BY <1>1, <2>5 DEF RestoreType
    <3> QED
      BY <1>3, <2>5, <3>1 DEF Restored
  <2>6. CASE /\ restore'.step = restore.step /\ restore'.pids = restore.pids
             /\ restore'.all = restore.all
    BY <1>3, <2>6 DEF Restored
  <2> QED
    BY <1>3, <2>1, <2>2, <2>3, <2>4, <2>5, <2>6, RestoreStepMoves DEF RestoreMoves
<1> QED
  BY <1>2, <1>3

\* The links of spawns and of restorations stay apart.
LEMMA PidsStep ==
    ASSUME TypeInv, RebuildInv, PidsInv, RenewInv, [Next]_vars
    PROVE  PidsInv'
<1>1. /\ config \in [Agents -> [parent : Pids, restored : BOOLEAN]] /\ inc \in [Agents -> Nat]
      /\ UnstartedInv
  BY DEF TypeInv, ProcType
<1> SUFFICES ASSUME NEW x \in Agents
             PROVE  /\ inc'[x] # 0 /\ ~config'[x].restored =>
                          config'[x].parent = (Asker(x))' /\ (x \notin crashed' => inc'[x] = 1)
                    /\ config'[x].restored =>
                          inc'[x] # 0 /\ (config'[x].parent[1] # None =>
                                             spawner'[x] < config'[x].parent[2])
                    /\ x \in restarting' => x \in crashed'
  BY DEF PidsInv
<1>2. x \in restarting' => x \in crashed'
  BY CrashedStep, HistoryStep DEF PidsInv
<1>3. inc'[x] \in Nat /\ (inc[x] # 0 => inc'[x] # 0)
  BY <1>1, IncStep
<1>4. CASE \E p \in Agents : AcceptSpawn(p, x)
  <2>1. stage[x] = "unborn" /\ config' = config /\ inc' = inc
    BY <1>4 DEF AcceptSpawn
  <2>2. inc[x] = 0
    BY <1>1, <2>1 DEF UnstartedInv
  <2> QED
    BY <1>2, <2>1, <2>2 DEF PidsInv
<1>5. CASE ~(\E p \in Agents : AcceptSpawn(p, x))
  <2>1. parent'[x] = parent[x] /\ spawner'[x] = spawner[x] /\ (Asker(x))' = Asker(x)
    BY <1>5, AskerStep
  <2>2. CASE config'[x] = config[x] /\ inc'[x] = inc[x]
    BY <1>2, <2>1, <2>2, HistoryStep DEF PidsInv
  <2>3. CASE config'[x] = config[x] /\ inc'[x] = inc[x] + 1 /\ Restart(x)
    <3>1. x \in restarting /\ inc[x] # 0
      BY <1>1, <2>3 DEF Restart, UnstartedInv
    <3>2. x \in crashed'
      BY <3>1, HistoryStep DEF PidsInv
    <3> QED
      BY <1>2, <1>3, <2>1, <2>3, <3>1, <3>2 DEF PidsInv
  <2>4. CASE StartChild(x)
    <3>1. inc[x] = 0 /\ inc' = [inc EXCEPT ![x] = @ + 1]
          /\ config' = [config EXCEPT ![x] = [parent |-> Asker(x), restored |-> FALSE]]
      BY <1>1, <2>4 DEF StartChild, Start, UnstartedInv
    <3>2. inc'[x] = 1 /\ config'[x] = [parent |-> Asker(x), restored |-> FALSE]
      BY <1>1, <3>1
    <3> QED
      BY <1>2, <2>1, <3>2
  <2>5. CASE RestoreAgent /\ x = Head(restore.todo) /\ x \in ToSet(restore.todo)
    <3>1. config'[x] = RestoreConfig(x) /\ inc[x] # 0
      BY <1>1, <2>5, TodoStep DEF UnstartedInv
    <3>2. config'[x].restored
      BY <3>1 DEF RestoreConfig
    <3>3. x \in restore.all
      BY <2>5 DEF RebuildInv, RestoreSets
    <3>4. ASSUME config'[x].parent[1] # None PROVE spawner[x] < config'[x].parent[2]
      <4>1. CASE parent[x] \in Restored
        <5>1. config'[x].parent[2] = restore.pids[parent[x]]
          BY <3>1, <4>1 DEF RestoreConfig
        <5> QED
          BY <3>3, <4>1, <5>1 DEF RenewInv
      <4>2. CASE parent[x] \notin Restored
        <5>1. config'[x].parent = NoPid
          BY <3>1, <4>2 DEF RestoreConfig
        <5> QED
          BY <3>4, <5>1 DEF NoPid, None
      <4> QED
        BY <4>1, <4>2
    <3> QED
      BY <1>2, <1>3, <2>1, <3>1, <3>2, <3>4
  <2> QED
    <3>1. Restart(x) => config'[x] = config[x]
      BY <1>1 DEF Restart, Start
    <3>2. StartChild(x) => inc'[x] = inc[x] + 1
      BY <1>1 DEF StartChild, Start
    <3>3. RestoreAgent /\ x = Head(restore.todo) => inc'[x] = inc[x] + 1
      BY <1>1 DEF RestoreAgent
    <3>4. ASSUME inc'[x] = inc[x] PROVE config'[x] = config[x]
      <4>1. inc'[x] # inc[x] + 1
        BY <1>1, <3>4
      <4>2. ~StartChild(x) /\ ~(RestoreAgent /\ x = Head(restore.todo))
        BY <3>2, <3>3, <4>1
      <4> QED
        BY <4>2, ConfigCases
    <3> QED
      BY <2>2, <2>3, <2>4, <2>5, <3>1, <3>4, StartCases
<1> QED
  BY <1>4, <1>5

\* The links that a restoration gives are newer than all others.
LEMMA RenewStep ==
    ASSUME TypeInv, RebuildInv, KinInv, LinksInv, PidsInv, RenewInv, [Next]_vars
    PROVE  RenewInv'
<1>1. /\ config \in [Agents -> [parent : Pids, restored : BOOLEAN]] /\ inc \in [Agents -> Nat]
      /\ UnstartedInv /\ SpawnType /\ RestoreType
      /\ restore.pids \in [Agents -> Nat] /\ restore.all \subseteq Agents
      /\ Restored \subseteq Agents
      /\ \A x \in Restored : inc[x] # 0
      /\ \A x \in restore.all : inc[x] # 0 /\ stage[x] # "unborn"
  BY DEF TypeInv, ProcType, RestoreType, Restored, RebuildInv, RestoreSets, UnstartedInv
<1>2. \A x \in restore.all \cup Restored : /\ parent'[x] = parent[x] /\ spawner'[x] = spawner[x]
                                           /\ x \in Agents /\ ~StartChild(x)
  <2> SUFFICES ASSUME NEW x \in restore.all \cup Restored
               PROVE  /\ parent'[x] = parent[x] /\ spawner'[x] = spawner[x]
                      /\ x \in Agents /\ ~StartChild(x)
    OBVIOUS
  <2>1. x \in Agents /\ inc[x] # 0 /\ stage[x] # "unborn" /\ stage[x] # "start"
    BY <1>1 DEF UnstartedInv
  <2>2. \A p \in Agents : ~AcceptSpawn(p, x)
    BY <2>1 DEF AcceptSpawn
  <2> QED
    BY <2>1, <2>2, AskerStep DEF StartChild
<1>3. ASSUME NEW x \in Agents, config'[x].restored, ~(RestoreAgent /\ x = Head(restore.todo))
      PROVE  config'[x] = config[x] /\ parent'[x] = parent[x] /\ config[x].restored
  <2>1. config'[x] = config[x]
    <3>1. [parent |-> Asker(x), restored |-> FALSE].restored = FALSE
      OBVIOUS
    <3> QED
      BY <1>3, <3>1, ConfigCases
  <2>2. inc[x] # 0
    BY <1>3, <2>1 DEF PidsInv
  <2> QED
    BY <1>1, <1>3, <2>1, <2>2, ParentStep DEF UnstartedInv
<1>4. CASE Restored' = {}
  <2>1. \A x : x \notin Restored'
    BY <1>4
  <2> QED
    BY <2>1 DEF RenewInv
<1>5. CASE /\ Restored' = Restored /\ restore'.pids = restore.pids /\ restore'.all = restore.all
           /\ ~RestoreAgent
  <2>1. ASSUME NEW x \in Restored PROVE config'[x] = (RestoreConfig(x))'
    <3>1. config'[x] = config[x] /\ parent'[x] = parent[x]
      BY <1>2, <1>5, ConfigCases
    <3>2. (RestoreConfig(x))' = RestoreConfig(x)
      BY <1>5, <3>1 DEF RestoreConfig
    <3> QED
      BY <3>1, <3>2 DEF RenewInv
  <2>2. \A x \in restore.all : parent'[x] \in Restored => spawner'[x] < restore.pids[parent'[x]]
    BY <1>2 DEF RenewInv
  <2>3. ASSUME NEW x \in Agents \ Restored, parent'[x] \in Restored, config'[x].restored,
               config'[x].parent[1] # None
        PROVE  config'[x].parent[2] < restore.pids[parent'[x]]
    <3>1. config'[x] = config[x] /\ parent'[x] = parent[x] /\ config[x].restored
      BY <1>3, <1>5, <2>3
    <3> QED
      BY <2>3, <3>1 DEF RenewInv
  <2> QED
    BY <1>5, <2>1, <2>2, <2>3 DEF RenewInv
<1>6. ASSUME NEW c \in ToSet(restore.todo), c = Head(restore.todo), c \in Agents,
             restore'.all = restore.all, Restored' = Restored \cup {c},
             restore'.pids = [restore.pids EXCEPT ![c] = inc[c] + 1],
             config'[c] = RestoreConfig(c)
      PROVE  RenewInv'
  <2>1. c \in restore.all /\ c \notin Restored /\ parent[c] # c
    BY <1>1, <1>6 DEF RebuildInv, RestoreSets, SpawnType, Agents
  <2>2. /\ restore'.pids[c] = inc[c] + 1
        /\ \A y \in Agents : y # c => restore'.pids[y] = restore.pids[y]
    BY <1>1, <1>6
  <2>3. (RestoreConfig(c))' = RestoreConfig(c)
    <3>1. parent'[c] = parent[c]
      BY <1>2, <2>1
    <3>2. parent[c] \in Restored' <=> parent[c] \in Restored
      BY <1>6, <2>1
    <3>3. parent[c] \in Restored => restore'.pids[parent[c]] = restore.pids[parent[c]]
      BY <1>1, <2>1, <2>2
    <3> QED
      BY <3>1, <3>2, <3>3 DEF RestoreConfig
  <2>4. ASSUME NEW x \in Restored PROVE config'[x] = (RestoreConfig(x))'
    <3>1. x # c /\ x \in Agents
      BY <1>1, <2>1
    <3>2. config'[x] = config[x] /\ parent'[x] = parent[x]
      BY <1>2, <1>6, <3>1, ConfigCases
    <3>3. parent[x] # c
      BY <1>6 DEF LinksInv
    <3>4. parent[x] \in Restored' <=> parent[x] \in Restored
      BY <1>6, <3>3
    <3>5. parent[x] \in Restored => restore'.pids[parent[x]] = restore.pids[parent[x]]
      BY <1>1, <2>2, <3>3
    <3>6. (RestoreConfig(x))' = RestoreConfig(x)
      BY <3>2, <3>4, <3>5 DEF RestoreConfig
    <3> QED
      BY <3>2, <3>6 DEF RenewInv
  <2>5. ASSUME NEW x \in restore.all, parent'[x] \in Restored'
        PROVE  spawner'[x] < restore'.pids[parent'[x]]
    <3>1. parent'[x] = parent[x] /\ spawner'[x] = spawner[x] /\ x \in Agents
      BY <1>2
    <3>2. CASE parent[x] = c
      <4>1. spawner[x] <= inc[c] /\ spawner[x] \in Nat /\ inc[c] \in Nat
        BY <1>1, <1>6, <3>1, <3>2 DEF KinInv, SpawnType, None, Agents
      <4> QED
        BY <2>2, <3>1, <3>2, <4>1
    <3>3. CASE parent[x] # c
      <4>1. parent[x] \in Restored
        BY <1>6, <2>5, <3>1, <3>3
      <4> QED
        BY <1>1, <2>2, <3>1, <3>3, <4>1 DEF RenewInv
    <3> QED
      BY <3>2, <3>3
  <2>6. ASSUME NEW x \in Agents \ Restored', parent'[x] \in Restored', config'[x].restored,
               config'[x].parent[1] # None
        PROVE  config'[x].parent[2] < restore'.pids[parent'[x]]
    <3>1. x # c /\ x \notin Restored
      BY <1>6, <2>6
    <3>2. config'[x] = config[x] /\ parent'[x] = parent[x] /\ config[x].restored
      BY <1>3, <1>6, <2>6, <3>1
    <3>3. CASE parent[x] = c
      <4>1. config[x].parent[2] <= inc[c] /\ config[x].parent \in Pids
        BY <1>1, <2>6, <3>2, <3>3 DEF KinInv
      <4>2. config[x].parent[2] \in Nat /\ inc[c] \in Nat
        BY <1>1, <1>6, <4>1 DEF Pids
      <4> QED
        BY <2>2, <3>2, <3>3, <4>1, <4>2
    <3>4. CASE parent[x] # c
      <4>1. parent[x] \in Restored
        BY <1>6, <2>6, <3>2, <3>4
      <4> QED
        BY <1>1, <2>2, <2>6, <3>1, <3>2, <3>4, <4>1 DEF RenewInv
    <3> QED
      BY <3>3, <3>4
  <2>7. \A x \in Restored' : config'[x] = (RestoreConfig(x))'
    BY <1>6, <2>3, <2>4
  <2> QED
    BY <1>6, <2>5, <2>6, <2>7 DEF RenewInv
<1> QED
  BY <1>4, <1>5, <1>6, PidsMoves

\* What is in a mailbox about a child: nothing before it is asked for; what its spawn reports, only
\* with the process that asked; its dismissal, only when that has ended.
LettersInv ==
    \A p \in Live, x \in Agents :
        /\ stage[x] = "unborn" => Unlisted(p, x) /\ \A t \in News : ~Told(p, t, x)
        /\ Told(p, "child_spawned", x) \/ Told(p, "spawn_failed", x) => Asker(x) = Pid(p)
        /\ Told(p, "child_dismissed", x) => x \in dismissed

\* A process that a restoration has started knows none of the children it is to be told of.
UntoldInv ==
    \A p \in Live, x \in restore.all :
        parent[x] = p /\ restore.step = "restore" /\ restore.pids[p] = inc[p] =>
            Unlisted(p, x) /\ ~Told(p, "child_restored", x)

\* The process that asked for a child has it on its list as long as the spawn may succeed.
FreshInv ==
    \A p \in Live, x \in Agents \ dismissed :
        Asker(x) = Pid(p) /\ Fresh(x) =>
            Listed(p, x) /\ ~Told(p, "spawn_failed", x) /\ ~Told(p, "child_restored", x)

\* The parent of a restored agent has it on its list, or will when it has read its mail, unless
\* the restoration has yet to tell it.
KnownInv ==
    \A p \in Live, x \in Agents \ dismissed :
        (/\ config[x].restored /\ config[x].parent = Pid(p)
         /\ restore.step = "restore" => x \notin Restored)
            => \/ Listed(p, x) /\ ~Told(p, "child_restored", x)
               \/ Unlisted(p, x) /\ ToldOnce(p, x)

\* What a process that has just started knows of a child.
LEMMA NothingKnown ==
    ASSUME NEW p, NEW x, children'[p] = <<>>, mail'[p] = <<>>
    PROVE  (Unlisted(p, x))' /\ \A t : ~(Told(p, t, x))'
<1>1. ToSet(<<>>) = {}
  BY DEF ToSet
<1> QED
  BY <1>1 DEF Unlisted, Told

LEMMA NewsAre ==
    /\ "child_spawned" \in News /\ "spawn_failed" \in News
    /\ "child_dismissed" \in News /\ "child_restored" \in News
    /\ \A t \in News : t \in {"child_spawned", "spawn_failed", "child_dismissed", "child_restored"}
  BY DEF News

\* Letters go where they belong.
LEMMA LettersStep ==
    ASSUME TypeInv, RebuildInv, DismissInv, LettersInv, [Next]_vars
    PROVE  LettersInv'
<1>1. UnstartedInv /\ Live \subseteq Agents /\ SpawnType /\ restore.all \subseteq Agents
      /\ \A x \in restore.all : inc[x] # 0
  BY LiveAreAgents DEF TypeInv, ProcType, RestoreType, RebuildInv, RestoreSets
<1> SUFFICES ASSUME NEW p \in Live', NEW x \in Agents
             PROVE  /\ stage'[x] = "unborn" =>
                           (Unlisted(p, x))' /\ \A t \in News : ~(Told(p, t, x))'
                    /\ (Told(p, "child_spawned", x))' \/ (Told(p, "spawn_failed", x))' =>
                           (Asker(x))' = (Pid(p))'
                    /\ (Told(p, "child_dismissed", x))' => x \in dismissed'
  BY DEF LettersInv
<1>2. CASE children'[p] = <<>> /\ mail'[p] = <<>>
  BY <1>2, NothingKnown
<1>3. CASE p \in Live /\ inc'[p] = inc[p]
  <2>1. (Pid(p))' = Pid(p)
    BY <1>3 DEF Pid
  <2>2. /\ stage[x] = "unborn" => Unlisted(p, x) /\ \A t \in News : ~Told(p, t, x)
        /\ Told(p, "child_spawned", x) \/ Told(p, "spawn_failed", x) => Asker(x) = Pid(p)
        /\ Told(p, "child_dismissed", x) => x \in dismissed
    BY <1>3 DEF LettersInv
  <2>3. dismissed \subseteq dismissed'
    BY HistoryStep
  <2>4. CASE \E q \in Agents : AcceptSpawn(q, x)
    <3>1. stage[x] = "unborn" /\ mail' = mail /\ stage' = [stage EXCEPT ![x] = "start"]
      BY <2>4 DEF AcceptSpawn
    <3>2. stage'[x] # "unborn"
      BY <1>1, <3>1 DEF SpawnType
    <3>3. \A t \in News : ~(Told(p, t, x))'
      BY <2>2, <3>1 DEF Told
    <3> QED
      BY <3>2, <3>3, NewsAre
  <2>5. CASE ~(\E q \in Agents : AcceptSpawn(q, x))
    <3>1. (Asker(x))' = Asker(x)
      BY <2>5, AskerStep
    <3>2. stage'[x] = "unborn" => stage[x] = "unborn"
      <4>1. ASSUME NEW q \in Agents, NEW y \in Agents, AcceptSpawn(q, y), y # x
            PROVE  stage'[x] = stage[x]
        BY <1>1, <4>1 DEF AcceptSpawn, SpawnType
      <4> QED
        BY <2>5, <4>1, StageStep
    <3>3. CASE Same(p, x) /\ Silent(p, x)
      BY <2>1, <2>2, <2>3, <3>1, <3>2, <3>3, NewsAre DEF Same, Silent
    <3>4. ASSUME NEW type \in News, Heard(p, x, type)
          PROVE  stage[x] # "unborn" /\ \A t \in News : (Told(p, t, x))' => Told(p, t, x)
      BY <2>2, <3>4 DEF Heard
    <3>5. ASSUME NEW type \in News, Heard(p, x, type)
          PROVE  /\ stage'[x] = "unborn" =>
                       (Unlisted(p, x))' /\ \A t \in News : ~(Told(p, t, x))'
                 /\ (Told(p, "child_spawned", x))' \/ (Told(p, "spawn_failed", x))' =>
                       (Asker(x))' = (Pid(p))'
                 /\ (Told(p, "child_dismissed", x))' => x \in dismissed'
      BY <2>1, <2>2, <2>3, <3>1, <3>2, <3>4, <3>5, NewsAre
    <3>6. ASSUME NEW type \in News, Reported(p, x, type)
          PROVE  /\ stage'[x] = "unborn" =>
                       (Unlisted(p, x))' /\ \A t \in News : ~(Told(p, t, x))'
                 /\ (Told(p, "child_spawned", x))' \/ (Told(p, "spawn_failed", x))' =>
                       (Asker(x))' = (Pid(p))'
                 /\ (Told(p, "child_dismissed", x))' => x \in dismissed'
      <4>1. \A t \in News : (Told(p, t, x))' => Told(p, t, x) \/ t = type
        BY <3>6 DEF Reported
      <4>2. CASE /\ type \in {"child_spawned", "spawn_failed"} /\ Asker(x) = Pid(p)
                 /\ stage[x] # "unborn"
        BY <2>1, <2>2, <2>3, <3>1, <3>2, <4>1, <4>2, NewsAre
      <4>3. CASE type = "child_dismissed" /\ TellDismisser /\ x = dismissal.root
        <5>1. dismissal.step = "tell" /\ dismissed' = dismissed \cup {dismissal.root}
          BY <4>3 DEF TellDismisser
        <5>2. inc[x] # 0
          BY <4>3, <5>1 DEF DismissInv
        <5>3. stage[x] # "unborn" /\ x \in dismissed'
          BY <1>1, <4>3, <5>1, <5>2 DEF UnstartedInv
        <5> QED
          BY <2>1, <2>2, <3>1, <3>2, <4>1, <4>3, <5>3, NewsAre
      <4> QED
        BY <3>6, <4>2, <4>3 DEF Reported
    <3>7. ASSUME ToTell(x), Renewed(p, x)
          PROVE  /\ stage'[x] = "unborn" =>
                       (Unlisted(p, x))' /\ \A t \in News : ~(Told(p, t, x))'
                 /\ (Told(p, "child_spawned", x))' \/ (Told(p, "spawn_failed", x))' =>
                       (Asker(x))' = (Pid(p))'
                 /\ (Told(p, "child_dismissed", x))' => x \in dismissed'
      <4>1. stage[x] # "unborn"
        BY <1>1, <3>7 DEF ToTell, UnstartedInv
      <4>2. \A t \in News \ {"child_restored"} : (Told(p, t, x))' => Told(p, t, x)
        BY <3>7 DEF Renewed
      <4> QED
        BY <2>1, <2>2, <2>3, <3>1, <3>2, <4>1, <4>2, NewsAre
    <3>8. \/ Same(p, x) /\ Silent(p, x)
          \/ \E type \in News : Heard(p, x, type) \/ Reported(p, x, type)
          \/ ToTell(x) /\ Renewed(p, x)
      BY <1>1, <1>3, <2>5, EntryStep
    <3> QED
      BY <3>3, <3>5, <3>6, <3>7, <3>8
  <2> QED
    BY <2>4, <2>5
<1> QED
  BY <1>2, <1>3, NewProcess

\* A restored parent hears nothing of its children before it is told of them.
LEMMA UntoldStep ==
    ASSUME TypeInv, RebuildInv, LettersInv, RenewInv, UntoldInv, [Next]_vars
    PROVE  UntoldInv'
<1>1. /\ UnstartedInv /\ Live \subseteq Agents /\ inc \in [Agents -> Nat]
      /\ RestoreType /\ restore.pids \in [Agents -> Nat] /\ restore.all \subseteq Agents
      /\ \A x \in restore.all : inc[x] # 0 /\ parent'[x] = parent[x]
  BY LiveAreAgents, RestoreKin DEF TypeInv, ProcType, RestoreType, RebuildInv, RestoreSets
<1> SUFFICES ASSUME NEW p \in Live', NEW x \in restore'.all, parent'[x] = p,
                    restore'.step = "restore", restore'.pids[p] = inc'[p]
             PROVE  (Unlisted(p, x))' /\ ~(Told(p, "child_restored", x))'
  BY DEF UntoldInv
<1>2. CASE children'[p] = <<>> /\ mail'[p] = <<>>
  BY <1>2, NothingKnown
<1>3. CASE p \in Live /\ inc'[p] = inc[p]
  <2>1. p \in Agents /\ inc[p] # 0 /\ inc[p] \in Nat
    BY <1>1, <1>3 DEF UnstartedInv
  <2>2. p \in Restored'
    BY <1>3, <2>1 DEF Restored
  <2>3. restore'.all = restore.all /\ restore.step = "restore" /\ restore.pids[p] = inc[p]
    <3>1. CASE Restored' = {}
      BY <2>2, <3>1
    <3>2. CASE /\ restore'.pids = restore.pids /\ restore'.all = restore.all
               /\ restore'.step = restore.step \/ restore'.step = "sweep"
      BY <1>3, <3>2
    <3>3. ASSUME NEW c \in Agents, restore'.pids = [restore.pids EXCEPT ![c] = inc[c] + 1],
                 restore.step = "restore", restore'.all = restore.all, inc'[c] = inc[c] + 1
          PROVE  restore'.all = restore.all /\ restore.step = "restore" /\ restore.pids[p] = inc[p]
      <4>1. p # c
        BY <1>3, <2>1, <3>3
      <4>2. restore'.pids[p] = restore.pids[p]
        BY <1>1, <2>1, <3>3, <4>1
      <4> QED
        BY <1>3, <3>3, <4>2
    <3> QED
      BY <3>1, <3>2, <3>3, PidsMoves
  <2>4. x \in restore.all /\ x \in Agents /\ parent[x] = p /\ inc[x] # 0
    BY <1>1, <2>3
  <2>5. Unlisted(p, x) /\ ~Told(p, "child_restored", x)
    BY <1>3, <2>3, <2>4 DEF UntoldInv
  <2>6. ~Told(p, "child_spawned", x)
    <3>1. p \in Restored
      BY <2>1, <2>3 DEF Restored
    <3>2. spawner[x] < inc[p]
      BY <2>3, <2>4, <3>1 DEF RenewInv
    <3>3. Asker(x) # Pid(p)
      BY <2>1, <2>4, <3>2 DEF Asker, Pid
    <3> QED
      BY <1>3, <2>4, <3>3 DEF LettersInv
  <2>7. CASE Same(p, x) /\ Silent(p, x)
    BY <2>5, <2>7, NewsAre DEF Same, Silent
  <2>8. \A q \in Agents : ~AcceptSpawn(q, x)
    BY <1>1, <2>4 DEF AcceptSpawn, UnstartedInv
  <2>9. ASSUME NEW type \in News, Heard(p, x, type)
        PROVE  (Unlisted(p, x))' /\ ~(Told(p, "child_restored", x))'
    <3>1. Told(p, type, x) /\ ~(Told(p, "child_restored", x))'
      BY <2>5, <2>9, NewsAre DEF Heard
    <3>2. type \in {"spawn_failed", "child_dismissed"}
      BY <2>5, <2>6, <3>1, NewsAre
    <3> QED
      BY <2>5, <2>9, <3>1, <3>2 DEF Heard
  <2>10. ASSUME NEW type \in News, Reported(p, x, type)
         PROVE  (Unlisted(p, x))' /\ ~(Told(p, "child_restored", x))'
    BY <2>5, <2>10, NewsAre DEF Reported, Same
  <2>11. ~RebuildChildren
    <3>1. RebuildChildren => restore'.step = "sweep"
      BY <1>1 DEF RebuildChildren, RestoreType
    <3> QED
      BY <3>1
  <2> QED
    BY <1>3, <2>1, <2>4, <2>7, <2>8, <2>9, <2>10, <2>11, EntryStep
<1> QED
  BY <1>2, <1>3, NewProcess

\* The background task of a spawn that is over stays over.
LEMMA DoneStays ==
    ASSUME TypeInv, [Next]_vars, NEW x \in Agents, stage[x] = "done"
    PROVE  stage'[x] = "done"
<1>1. stage \in [Agents -> {"unborn", "start", "announce", "wait", "tell", "done"}]
  BY DEF TypeInv, SpawnType
<1>2. ASSUME stage' = stage PROVE stage'[x] = "done"
  BY <1>2
<1>3. ASSUME NEW y \in Agents, NEW s, stage' = [stage EXCEPT ![y] = s], y = x => s = "done"
      PROVE  stage'[x] = "done"
  BY <1>1, <1>3
<1>4. ASSUME NEW y \in Agents, AgentStep(y) \/ Crash(y) PROVE stage' = stage
  BY <1>4 DEF AgentStep, SetUp, HandleStopRequested, HandleNews, Restart, Crash, spawnVars
<1>5. ASSUME NEW y \in Agents, SpawnStep(y) \/ FailSpawn(y)
      PROVE  stage[y] # "done" /\ \E s : stage' = [stage EXCEPT ![y] = s]
  BY <1>5 DEF SpawnStep, StartChild, Announce, AwaitChild, TellParent, FailSpawn
<1>6. ASSUME NEW q \in Agents, NEW y \in Agents, AcceptSpawn(q, y)
      PROVE  stage[y] # "done" /\ stage' = [stage EXCEPT ![y] = "start"]
  BY <1>6 DEF AcceptSpawn
<1>7. ASSUME DismissalStep \/ RollBackCosts \/ (\E q, y \in Agents : BeginDismissal(q, y))
      PROVE  stage' = stage
  BY <1>7, DismissalFrame DEF spawnVars
<1>8. ASSUME PageStep \/ ClickPause \/ ClickResume \/ ClickDelete \/ Reload PROVE stage' = stage
  BY <1>8 DEF PageStep, SendStop, SweepLate, ShowPausing, DeleteTask, HandleAgentSpawned,
              HandleAgentTerminated, ClickPause, ClickResume, ClickDelete, Reload, spawnVars
<1>9. ASSUME RestoreStep \/ FailToRestore PROVE stage' = stage
  BY <1>9 DEF RestoreStep, SkipAgent, RestoreAgent, GiveUp, RebuildChildren, SweepOrphans,
              FailToRestore, spawnVars
<1>10. CASE NodeCrash
  BY <1>1, <1>10 DEF NodeCrash
<1>11. ASSUME UNCHANGED vars PROVE stage' = stage
  BY <1>11 DEF vars, spawnVars
<1> QED
  BY <1>2, <1>3, <1>4, <1>5, <1>6, <1>7, <1>8, <1>9, <1>10, <1>11, NextCases

\* A spawn that may succeed is a new one, or one that might before.
LEMMA FreshStep ==
    ASSUME TypeInv, [Next]_vars, NEW x \in Agents, ~(\E q \in Agents : AcceptSpawn(q, x)),
           (Fresh(x))'
    PROVE  Fresh(x)
<1>1. /\ stage \in [Agents -> {"unborn", "start", "announce", "wait", "tell", "done"}]
      /\ inc \in [Agents -> Nat] /\ UnstartedInv
  BY DEF TypeInv, ProcType, SpawnType
<1>2. stage[x] # "unborn"
  <2>1. ASSUME NEW q \in Agents, NEW y \in Agents, AcceptSpawn(q, y), y # x
        PROVE  stage'[x] = stage[x]
    BY <1>1, <2>1 DEF AcceptSpawn
  <2>2. stage[x] = "unborn" => stage'[x] = "unborn"
    BY <2>1, StageStep
  <2> QED
    BY <2>2 DEF Fresh
<1>3. CASE stage[x] = "done"
  <2>1. stage'[x] = "done"
    BY <1>3, DoneStays
  <2>2. x \in Live' /\ inc'[x] = 1
    BY <2>1 DEF Fresh, IsAlive
  <2>3. ~StartChild(x)
    BY <1>3 DEF StartChild
  <2>4. inc[x] \in Nat /\ (inc'[x] = inc[x] + 1 => inc[x] = 0)
    BY <1>1, <2>2
  <2>5. inc'[x] = inc[x] /\ x \in Live
    BY <2>2, <2>3, <2>4, StartCases
  <2> QED
    BY <1>3, <2>2, <2>5 DEF Fresh, IsAlive
<1>4. CASE stage[x] # "done"
  BY <1>1, <1>2, <1>4 DEF Fresh
<1> QED
  BY <1>3, <1>4

\* Who is told by a restoration has a parent that the restoration has started.
LEMMA ToldParent ==
    ASSUME TypeInv, NEW x \in Agents, ToTell(x)
    PROVE  /\ x \in restore.all /\ parent[x] \in Restored
           /\ restore.pids[parent[x]] = inc[parent[x]]
<1>1. SpawnType
  BY DEF TypeInv
<1>2. Cut[x] = (/\ x \in restore.all /\ HasParent(x)
                /\ \/ parent[x] \notin Restored
                   \/ ~IsAlive(<<parent[x], restore.pids[parent[x]]>>)
                   \/ parent[x] < x /\ Cut[parent[x]])
  BY <1>1, CutEquation
<1> QED
  BY <1>2 DEF ToTell, IsAlive

\* A process keeps the children it has asked for.
LEMMA FreshKept ==
    ASSUME TypeInv, KinInv, LettersInv, RenewInv, FreshInv, [Next]_vars
    PROVE  FreshInv'
<1>1. /\ UnstartedInv /\ Live \subseteq Agents /\ inc \in [Agents -> Nat] /\ SpawnType
      /\ spawner \in [Agents -> Nat]
  BY LiveAreAgents DEF TypeInv, ProcType, SpawnType
<1> SUFFICES ASSUME NEW p \in Live', NEW x \in Agents \ dismissed', (Asker(x))' = (Pid(p))',
                    (Fresh(x))'
             PROVE  (Listed(p, x))' /\ ~(Told(p, "spawn_failed", x))'
                    /\ ~(Told(p, "child_restored", x))'
  BY DEF FreshInv
<1>2. x \in Agents \ dismissed
  BY HistoryStep
<1>3. parent'[x] = p /\ spawner'[x] = inc'[p]
  BY DEF Asker, Pid
<1>4. CASE p \in Agents /\ inc'[p] = inc[p] + 1
  <2>1. ASSUME NEW q \in Agents, AcceptSpawn(q, x) PROVE FALSE
    BY <1>1, <1>4, <2>1 DEF AcceptSpawn
  <2>2. parent[x] = p /\ spawner[x] = inc[p] + 1
    BY <1>3, <1>4, <2>1, AskerStep
  <2>3. spawner[x] <= inc[p]
    BY <1>4, <2>2 DEF KinInv, Agents, None
  <2> QED
    BY <1>1, <1>4, <2>2, <2>3
<1>5. CASE p \in Live /\ inc'[p] = inc[p]
  <2>1. (Pid(p))' = Pid(p) /\ p \in Agents
    BY <1>1, <1>5 DEF Pid
  <2>2. CASE \E q \in Agents : AcceptSpawn(q, x)
    <3>1. PICK q \in Agents : AcceptSpawn(q, x)
      BY <2>2
    <3>2. q = p
      BY <1>1, <1>3, <3>1 DEF AcceptSpawn, SpawnType
    <3>3. Asked(p, x) /\ Silent(p, x)
      BY <1>2, <1>5, <3>1, <3>2, ChildAsked
    <3>4. Unlisted(p, x) /\ \A t \in News : ~Told(p, t, x)
      BY <1>2, <1>5, <3>1 DEF LettersInv, AcceptSpawn
    <3> QED
      BY <3>3, <3>4, NewsAre DEF Asked, Silent
  <2>3. CASE ~(\E q \in Agents : AcceptSpawn(q, x))
    <3>1. Asker(x) = Pid(p) /\ Fresh(x) /\ parent[x] = p /\ spawner[x] = inc[p]
      BY <1>2, <1>3, <1>5, <2>1, <2>3, AskerStep, FreshStep
    <3>2. Listed(p, x) /\ ~Told(p, "spawn_failed", x) /\ ~Told(p, "child_restored", x)
      BY <1>2, <1>5, <3>1 DEF FreshInv
    <3>3. ~Told(p, "child_dismissed", x)
      BY <1>2, <1>5 DEF LettersInv
    <3>4. CASE Same(p, x) /\ Silent(p, x)
      BY <3>2, <3>4, NewsAre DEF Same, Silent
    <3>5. ASSUME NEW type \in News, Heard(p, x, type)
          PROVE  (Listed(p, x))' /\ ~(Told(p, "spawn_failed", x))'
                 /\ ~(Told(p, "child_restored", x))'
      <4>1. Told(p, type, x) /\ \A t \in News : (Told(p, t, x))' => Told(p, t, x)
        BY <3>5 DEF Heard
      <4>2. type = "child_spawned"
        BY <3>2, <3>3, <4>1, NewsAre
      <4> QED
        BY <3>2, <3>5, <4>1, <4>2, NewsAre DEF Heard
    <3>6. ASSUME NEW type \in News, Reported(p, x, type)
          PROVE  (Listed(p, x))' /\ ~(Told(p, "spawn_failed", x))'
                 /\ ~(Told(p, "child_restored", x))'
      <4>1. type # "spawn_failed" /\ type # "child_restored"
        BY <3>6 DEF Reported
      <4> QED
        BY <3>2, <3>6, <4>1, NewsAre DEF Reported, Same
    <3>7. ~ToTell(x)
      <4> SUFFICES ASSUME ToTell(x) PROVE FALSE
        OBVIOUS
      <4>1. x \in restore.all /\ p \in Restored /\ restore.pids[p] = inc[p]
        BY <1>2, <3>1, ToldParent
      <4>2. spawner[x] < inc[p]
        BY <3>1, <4>1 DEF RenewInv
      <4> QED
        BY <1>1, <1>2, <2>1, <3>1, <4>2
    <3>8. \/ Same(p, x) /\ Silent(p, x)
          \/ \E type \in News : Heard(p, x, type) \/ Reported(p, x, type)
      BY <1>2, <1>5, <2>1, <2>3, <3>7, EntryStep
    <3> QED
      BY <3>4, <3>5, <3>6, <3>8
  <2> QED
    BY <2>2, <2>3
<1> QED
  BY <1>4, <1>5, NewProcess

\* The restoration rebuilds the lists when it has started its agents, and not before.
LEMMA RestoreEnds ==
    ASSUME TypeInv, RebuildInv, [Next]_vars, Live' # {}, NEW x \in Restored,
           restore.step = "restore", restore'.step # "restore" \/ x \notin Restored'
    PROVE  RebuildChildren
<1>1. RestoreType
  BY DEF TypeInv
<1>2. ~NodeCrash
  <2>1. NodeCrash => Live' = Live \ Live
    BY ExitRegistry DEF NodeCrash, TypeInv
  <2> QED
    BY <2>1
<1>3. ~GiveUp /\ ~SweepOrphans /\ ~ClickResume
  BY DEF GiveUp, SweepOrphans, ClickResume
<1>4. CASE Restored' = {} /\ ~RestoreAgent
  <2>1. restore'.pids # restore.pids
    BY <1>4 DEF Restored
  <2>2. RebuildChildren => restore'.pids = restore.pids
    BY <1>1 DEF RebuildChildren, RestoreType
  <2> QED
    BY <1>2, <1>3, <1>4, <2>1, <2>2, RestoreStepMoves DEF RestoreMoves
<1>5. CASE RestoreAgent
  <2>1. Restored' = Restored \cup {Head(restore.todo)}
    BY <1>5, TodoStep
  <2>2. restore'.step = "restore"
    BY <1>1, <1>5 DEF RestoreAgent, RestoreType
  <2> QED
    BY <2>1, <2>2
<1> QED
  BY <1>4, <1>5, PidsMoves

\* A restored agent stays known, or is about to be told of.
LEMMA KnownStep ==
    ASSUME TypeInv, SubtreeInv, PidsInv, RenewInv, LettersInv, UntoldInv, KnownInv, [Next]_vars
    PROVE  KnownInv'
<1>1. /\ UnstartedInv /\ Live \subseteq Agents /\ inc \in [Agents -> Nat] /\ SpawnType
      /\ config \in [Agents -> [parent : Pids, restored : BOOLEAN]] /\ ProcType
      /\ RebuildInv /\ KinInv
  BY LiveAreAgents DEF TypeInv, ProcType, SubtreeInv
<1> SUFFICES ASSUME NEW p \in Live', NEW x \in Agents \ dismissed', config'[x].restored,
                    config'[x].parent = (Pid(p))', restore'.step = "restore" => x \notin Restored'
             PROVE  \/ (Listed(p, x))' /\ ~(Told(p, "child_restored", x))'
                    \/ (Unlisted(p, x))' /\ (ToldOnce(p, x))'
  BY DEF KnownInv
<1> DEFINE goal == \/ (Listed(p, x))' /\ ~(Told(p, "child_restored", x))'
                   \/ (Unlisted(p, x))' /\ (ToldOnce(p, x))'
<1>2. x \in Agents \ dismissed
  BY HistoryStep
<1>3. config'[x] = config[x]
  <2>1. ~(RestoreAgent /\ x = Head(restore.todo))
    <3> SUFFICES ASSUME RestoreAgent, x = Head(restore.todo) PROVE FALSE
      OBVIOUS
    <3>1. Restored' = Restored \cup {x}
      BY <1>1, TodoStep
    <3>2. restore'.step = "restore"
      BY DEF RestoreAgent, TypeInv, RestoreType
    <3> QED
      BY <3>1, <3>2
  <2>2. [parent |-> Asker(x), restored |-> FALSE].restored = FALSE
    OBVIOUS
  <2> QED
    BY <1>2, <2>1, <2>2, ConfigCases
<1>4. /\ config[x].restored /\ config[x].parent[1] = p /\ config[x].parent[2] = inc'[p]
      /\ p \in Agents /\ p # None
  <2>1. p \in Agents
    BY <1>1, NewProcess
  <2> QED
    BY <1>3, <2>1 DEF Pid, Agents, None
<1>5. parent[x] = p /\ inc'[p] <= inc[p] /\ inc[x] # 0 /\ spawner[x] < inc'[p]
  BY <1>1, <1>2, <1>4 DEF KinInv, PidsInv
<1>6. p \in Live /\ inc'[p] = inc[p]
  BY <1>1, <1>4, <1>5, NewProcess
<1>7. Pid(p) = (Pid(p))' /\ config[x].parent = Pid(p) /\ Asker(x) # Pid(p)
  <2>1. Pid(p) = (Pid(p))'
    BY <1>6 DEF Pid
  <2>2. spawner[x] # inc[p]
    BY <1>1, <1>2, <1>4, <1>5, <1>6 DEF SpawnType
  <2> QED
    BY <1>3, <2>1, <2>2 DEF Asker, Pid
<1>8. /\ ~Told(p, "child_spawned", x) /\ ~Told(p, "spawn_failed", x)
      /\ ~Told(p, "child_dismissed", x)
  BY <1>2, <1>6, <1>7 DEF LettersInv
<1>9. ASSUME restore.step = "restore" => x \notin Restored PROVE goal
  <2>1. \/ Listed(p, x) /\ ~Told(p, "child_restored", x)
        \/ Unlisted(p, x) /\ ToldOnce(p, x)
    BY <1>2, <1>4, <1>6, <1>7, <1>9 DEF KnownInv
  <2>2. CASE Same(p, x) /\ Silent(p, x)
    BY <2>1, <2>2, NewsAre DEF Same, Silent
  <2>3. ~AcceptSpawn(p, x)
    BY <1>1, <1>2, <1>5 DEF AcceptSpawn, UnstartedInv
  <2>4. ASSUME NEW type \in News, Heard(p, x, type) PROVE goal
    <3>1. Told(p, type, x)
      BY <2>4 DEF Heard
    <3>2. type = "child_restored"
      BY <1>8, <3>1, NewsAre
    <3>3. Unlisted(p, x) /\ ToldOnce(p, x)
      BY <2>1, <3>1, <3>2
    <3> QED
      BY <2>4, <3>2, <3>3 DEF Heard
  <2>5. ASSUME NEW type \in News, Reported(p, x, type) PROVE goal
    <3>1. type # "child_restored"
      BY <2>5 DEF Reported
    <3> QED
      BY <2>1, <2>5, <3>1, NewsAre DEF Reported, Same
  <2>6. ~(RebuildChildren /\ ToTell(x))
    <3> SUFFICES ASSUME RebuildChildren, ToTell(x) PROVE FALSE
      OBVIOUS
    <3>1. restore.pids[p] = inc[p] /\ p \in Restored
      BY <1>2, <1>5, ToldParent
    <3>2. x \in Agents \ Restored
      BY <1>2, <1>9 DEF RebuildChildren
    <3>3. config[x].parent[2] < restore.pids[p]
      BY <1>4, <1>5, <3>1, <3>2 DEF RenewInv
    <3> QED
      BY <1>1, <1>4, <1>6, <3>1, <3>3
  <2>7. \/ Same(p, x) /\ Silent(p, x)
        \/ \E type \in News : Heard(p, x, type) \/ Reported(p, x, type)
    BY <1>2, <1>6, <2>3, <2>6, EntryStep
  <2> QED
    BY <2>2, <2>4, <2>5, <2>7
<1>10. ASSUME restore.step = "restore", x \in Restored PROVE goal
  <2>1. RebuildChildren
    BY <1>1, <1>10, RestoreEnds
  <2>2. p \in Restored /\ restore.pids[p] = inc[p]
    <3>1. config[x] = RestoreConfig(x)
      BY <1>10 DEF RenewInv
    <3>2. CASE parent[x] \notin Restored
      <4>1. config[x].parent = NoPid
        BY <3>1, <3>2 DEF RestoreConfig
      <4> QED
        BY <1>4, <4>1 DEF NoPid, None
    <3>3. CASE parent[x] \in Restored
      <4>1. config[x].parent = <<p, restore.pids[p]>>
        BY <1>5, <3>1, <3>3 DEF RestoreConfig
      <4> QED
        BY <1>4, <1>5, <1>6, <3>3, <4>1
    <3> QED
      BY <3>2, <3>3
  <2>3. IsAlive(<<p, restore.pids[p]>>)
    BY <1>6, <2>2 DEF IsAlive
  <2>4. ~Cut[p]
    <3>1. PICK gone : /\ gone = {y \in Agents : Cut[y] /\ y \in Restored
                                                    /\ IsAlive(<<y, restore.pids[y]>>)}
                      /\ Live' = Live \ gone
      BY <2>1, RebuildProc
    <3> QED
      BY <1>4, <2>2, <2>3, <3>1
  <2>5. Cut[x] = (/\ x \in restore.all /\ HasParent(x)
                  /\ \/ parent[x] \notin Restored
                     \/ ~IsAlive(<<parent[x], restore.pids[parent[x]]>>)
                     \/ parent[x] < x /\ Cut[parent[x]])
    BY <1>1, <1>2, CutEquation
  <2>6. x \in restore.all
    BY <1>1, <1>10 DEF RebuildInv, RestoreSets
  <2>7. ToTell(x)
    BY <1>4, <1>5, <2>2, <2>3, <2>4, <2>5, <2>6 DEF ToTell, HasParent
  <2>8. Renewed(p, x)
    BY <1>2, <1>5, <2>1, <2>7, ChildrenRenewed
  <2>9. Unlisted(p, x) /\ ~Told(p, "child_restored", x)
    BY <1>5, <1>6, <1>10, <2>2, <2>6 DEF UntoldInv
  <2> QED
    BY <2>8, <2>9 DEF Renewed, Same
<1> QED
  BY <1>9, <1>10

FamilyInv == PidsInv /\ RenewInv /\ LettersInv /\ UntoldInv /\ FreshInv /\ KnownInv

\* At the start every agent has its one child on its list.
LEMMA FamilyInit == Init => FamilyInv
<1> SUFFICES ASSUME Init PROVE FamilyInv
  OBVIOUS
<1>1. /\ restore = NoRestore /\ restarting = {} /\ dismissed = {}
      /\ registry = [x \in 1..Initial |-> x]
      /\ inc = [x \in Agents |-> IF x <= Initial THEN 1 ELSE 0]
      /\ parent = [x \in Agents |-> IF x <= Initial THEN x - 1 ELSE None]
      /\ spawner = [x \in Agents |-> IF x \in 2..Initial THEN 1 ELSE 0]
      /\ config = [x \in Agents |-> [parent |-> <<parent[x], spawner[x]>>, restored |-> FALSE]]
      /\ stage = [x \in Agents |-> IF x <= Initial THEN "done" ELSE "unborn"]
      /\ children = [x \in Agents |-> IF x < Initial THEN <<x + 1>> ELSE <<>>]
      /\ mail = [x \in Agents |-> <<>>]
  BY DEF Init
<1>2. restore.step = "idle" /\ restore.all = {} /\ \A x \in Agents : restore.pids[x] = 0
  BY <1>1 DEF NoRestore
<1>3. Restored = {} /\ \A x \in Agents : ~config[x].restored /\ config[x].parent = Asker(x)
  BY <1>1, <1>2 DEF Restored, Asker
<1>4. Live = 1..Initial /\ Live \subseteq Agents
  BY <1>1 DEF Live, ToSet, Agents
<1>5. \A p \in Agents : \A t, x : ~Told(p, t, x)
  BY <1>1 DEF Told, ToSet
<1>6. PidsInv
  BY <1>1, <1>3 DEF PidsInv
<1>7. RenewInv /\ UntoldInv /\ KnownInv
  BY <1>2, <1>3 DEF RenewInv, UntoldInv, KnownInv
<1>8. ASSUME NEW p \in Live, NEW x \in Agents, stage[x] = "unborn" PROVE Unlisted(p, x)
  <2>1. p \in Agents /\ x > Initial
    BY <1>1, <1>4, <1>8 DEF Agents
  <2>2. \A i \in DOMAIN children[p] : children[p][i] <= Initial
    BY <1>1, <2>1 DEF Agents
  <2> QED
    BY <2>1, <2>2 DEF Unlisted, ToSet, Agents
<1>9. LettersInv
  BY <1>4, <1>5, <1>8 DEF LettersInv
<1>10. ASSUME NEW p \in Live, NEW x \in Agents, Asker(x) = Pid(p), Fresh(x) PROVE Listed(p, x)
  <2>1. x <= Initial /\ p \in Agents /\ p # 0
    BY <1>1, <1>4, <1>10 DEF Fresh, Agents
  <2>2. parent[x] = p /\ parent[x] = x - 1
    BY <1>1, <1>10, <2>1 DEF Asker, Pid
  <2>3. children[p] = <<x>>
    BY <1>1, <2>1, <2>2 DEF Agents
  <2> QED
    BY <2>3 DEF Listed, Once
<1>11. FreshInv
  BY <1>4, <1>5, <1>10 DEF FreshInv
<1> QED
  BY <1>6, <1>7, <1>9, <1>11 DEF FamilyInv

\* A live parent lists each live child exactly once, whichever of the spawn, the child's end and
\* the restoration is reported first, as soon as its message from a restoration is handled.
THEOREM ParentsKnowTheirChildren == Spec => []ParentKnowsChildren
<1>1. TypeInv /\ SubtreeInv /\ FamilyInv /\ [Next]_vars => FamilyInv'
  BY PidsStep, RenewStep, LettersStep, UntoldStep, FreshKept, KnownStep DEF FamilyInv, SubtreeInv
<1>2. TypeInv /\ SubtreeInv /\ FamilyInv => ParentKnowsChildren
  <2> SUFFICES ASSUME TypeInv, SubtreeInv, FamilyInv, restore.step # "restore",
                      NEW p \in Live, NEW x \in Live, config[x].parent = Pid(p),
                      Msg("child_restored", x) \notin ToSet(mail[p]),
                      x \notin crashed \cup missed
               PROVE  Cardinality({i \in DOMAIN children[p] : children[p][i] = x}) = 1
    BY DEF ParentKnowsChildren
  <2>1. p \in Agents /\ x \in Agents /\ inc[x] # 0 /\ stage[x] \notin {"unborn", "start"}
    BY LiveAreAgents DEF TypeInv, ProcType, UnstartedInv
  <2>2. x \notin dismissed
    BY DEF SubtreeInv, DoneInv, Finished, Dead
  <2>3. Listed(p, x)
    <3>1. CASE config[x].restored
      <4>1. \/ Listed(p, x) /\ ~Told(p, "child_restored", x)
            \/ Unlisted(p, x) /\ ToldOnce(p, x)
        BY <2>1, <2>2, <3>1 DEF FamilyInv, KnownInv
      <4> QED
        BY <4>1 DEF ToldOnce, Once, ToSet
    <3>2. CASE ~config[x].restored
      <4>1. Asker(x) = Pid(p) /\ inc[x] = 1
        BY <2>1, <3>2 DEF FamilyInv, PidsInv
      <4>2. Fresh(x)
        BY <2>1, <4>1 DEF Fresh, IsAlive, TypeInv, SpawnType
      <4> QED
        BY <2>1, <2>2, <4>1, <4>2 DEF FamilyInv, FreshInv
    <3> QED
      BY <3>1, <3>2
  <2>4. PICK i : {j \in DOMAIN children[p] : children[p][j] = x} = {i}
    BY <2>3 DEF Listed, Once
  <2> QED
    BY <2>4, FS_Singleton
<1> QED
  BY <1>1, <1>2, FamilyInit, TypesInvariant, SubtreeInvariant, PTL DEF Spec

=============================================================================
