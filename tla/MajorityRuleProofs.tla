-------------------------- MODULE MajorityRuleProofs --------------------------
(***************************************************************************)
(* What the voting rule guarantees, for any models, proposals, priorities  *)
(* and number of rounds.  Hypotheses on the constants are stated with each *)
(* theorem: Consensus assumes them of its own.                             *)
(***************************************************************************)
EXTENDS MajorityRule, Integers, FiniteSetTheorems, WellFoundedInduction, TLAPS

\* A set of natural numbers has a least element.
LEMMA LeastNatural ==
    ASSUME NEW T \in SUBSET Nat, T # {}
    PROVE  \E x \in T : \A y \in T : x <= y
<1> DEFINE R == OpToRel(<, Nat)
<1>1. IsWellFoundedOn(R, Nat)
  BY NatLessThanWellFounded
<1>2. \A x, y \in Nat : y < x => <<y, x>> \in R
  BY DEF OpToRel
<1> HIDE DEF R
<1>3. \E x \in T : \A y \in T : ~ (<<y, x>> \in R)
  BY <1>1, WFMin
<1>4. PICK x \in T : \A y \in T : ~ (<<y, x>> \in R)
  BY <1>3
<1>5. ASSUME NEW y \in T PROVE x <= y
  <2>1. x \in Nat /\ y \in Nat /\ ~ (y < x)
    BY <1>2, <1>4
  <2> QED
    BY <2>1
<1> QED
  BY <1>5

\* Votes for a proposal are cast by some of the voters.
LEMMA VotesType ==
    ASSUME NEW b, IsFiniteSet(DOMAIN b), NEW p
    PROVE  /\ Cardinality(DOMAIN b) \in Nat
           /\ Votes(b, p) \in Nat /\ Votes(b, p) <= Cardinality(DOMAIN b)
           /\ IsFiniteSet({m \in DOMAIN b : b[m] = p})
<1>1. {m \in DOMAIN b : b[m] = p} \in SUBSET DOMAIN b
  OBVIOUS
<1> QED
  BY <1>1, FS_CardinalityType, FS_Subset DEF Votes

\* Some proposal of a ballot has the most votes.
LEMMA MostVotedExists ==
    ASSUME NEW b, IsFiniteSet(DOMAIN b), DOMAIN b # {}
    PROVE  MostVoted(b) # {}
<1> DEFINE total == Cardinality(DOMAIN b)
           short == {n \in Nat : \E p \in Named(b) : n = total - Votes(b, p)}
<1>1. total \in Nat /\ \A p : Votes(b, p) \in Nat /\ Votes(b, p) <= total
  BY VotesType
<1>2. PICK q \in Named(b) : TRUE
  BY DEF Named
<1> HIDE DEF total
<1>3. total - Votes(b, q) \in short
  BY <1>1, <1>2
<1>4. PICK least \in short : \A n \in short : least <= n
  BY <1>3, LeastNatural
<1>5. PICK p \in Named(b) : least = total - Votes(b, p)
  OBVIOUS
<1>6. ASSUME NEW r \in Named(b) PROVE Votes(b, p) >= Votes(b, r)
  <2>1. total - Votes(b, r) \in short
    BY <1>1
  <2>2. total - Votes(b, p) <= total - Votes(b, r)
    BY <1>4, <1>5, <2>1
  <2> QED
    BY <1>1, <2>2
<1> QED
  BY <1>6 DEF MostVoted

\* A round that brought votes always has a verdict, whatever they are: the
\* majority's or the most voted proposal of the lowest priority (result.ex).
THEOREM VerdictExists ==
    ASSUME NEW b, IsFiniteSet(DOMAIN b), DOMAIN b # {}, NEW total,
           Priority \in [Proposals -> Nat], \A m \in DOMAIN b : b[m] \in Proposals
    PROVE  Verdicts(b, total) # {}
<1> DEFINE major == {p \in Named(b) : 2 * Votes(b, p) > total}
           first == {p \in MostVoted(b) : \A q \in MostVoted(b) : Priority[p] <= Priority[q]}
           ranks == {n \in Nat : \E p \in MostVoted(b) : n = Priority[p]}
<1>1. first # {}
  <2>1. \A p \in MostVoted(b) : Priority[p] \in Nat
    BY DEF MostVoted, Named
  <2>2. PICK q \in MostVoted(b) : TRUE
    BY MostVotedExists
  <2>3. Priority[q] \in ranks
    BY <2>1
  <2>4. PICK least \in ranks : \A n \in ranks : least <= n
    BY <2>3, LeastNatural
  <2>5. PICK p \in MostVoted(b) : least = Priority[p]
    OBVIOUS
  <2>6. \A r \in MostVoted(b) : Priority[p] <= Priority[r]
    BY <2>1, <2>4, <2>5
  <2> QED
    BY <2>6
<1>2. CASE major # {}
  <2>1. PICK p \in major : TRUE
    BY <1>2
  <2>2. [kind |-> "consensus", choice |-> p] \in Verdicts(b, total)
    BY <1>2, <2>1 DEF Verdicts
  <2> QED
    BY <2>2
<1>3. CASE major = {}
  <2>1. PICK p \in first : TRUE
    BY <1>1
  <2>2. [kind |-> "forced", choice |-> p] \in Verdicts(b, total)
    BY <1>3, <2>1 DEF Verdicts
  <2> QED
    BY <2>2
<1> QED
  BY <1>2, <1>3

\* Two proposals cannot both have more than half of the votes of those who were
\* asked.
LEMMA MajorityIsUnique ==
    ASSUME NEW b, NEW pool, IsFiniteSet(pool), DOMAIN b \subseteq pool,
           NEW p, NEW q,
           2 * Votes(b, p) > Cardinality(pool), 2 * Votes(b, q) > Cardinality(pool)
    PROVE  p = q
<1> DEFINE for(x) == {m \in DOMAIN b : b[m] = x}
<1>1. IsFiniteSet(DOMAIN b) /\ Cardinality(pool) \in Nat
  BY FS_Subset, FS_CardinalityType
<1>2. /\ Votes(b, p) \in Nat /\ Votes(b, q) \in Nat
      /\ Votes(b, p) = Cardinality(for(p)) /\ Votes(b, q) = Cardinality(for(q))
  BY <1>1, VotesType DEF Votes
<1>3. Cardinality(for(p)) + Cardinality(for(q)) > Cardinality(pool)
  BY <1>1, <1>2
<1>4. for(p) \subseteq pool /\ for(q) \subseteq pool
  OBVIOUS
<1>5. for(p) \cap for(q) # {}
  BY <1>3, <1>4, FS_MajoritiesIntersect
<1> QED
  BY <1>5

\* The code counts twice: once to see whether the round settles the question
\* (find_majority_cluster, unanimity in the first round), once to name the winner
\* (find_winner).  The two agree: what the models agreed on is the only verdict,
\* named consensus, whatever tie-breaking would say; and a refinement without
\* agreement never passes for one.
THEOREM AgreementDecides ==
    ASSUME NEW b, NEW pool, IsFiniteSet(pool), DOMAIN b \subseteq pool, NEW r
    PROVE  LET total == Cardinality(pool)
           IN  /\ Agreed(b, total, r) =>
                     \E p \in Named(b) : Verdicts(b, total) = {[kind |-> "consensus", choice |-> p]}
               /\ ~Agreed(b, total, r) /\ r # 1 =>
                     \A v \in Verdicts(b, total) : v.kind = "forced"
<1> DEFINE total == Cardinality(pool)
           major == {p \in Named(b) : 2 * Votes(b, p) > total}
<1>1. total \in Nat /\ IsFiniteSet(DOMAIN b) /\ \A p : Votes(b, p) \in Nat
  BY FS_Subset, FS_CardinalityType, VotesType
<1>2. ASSUME Agreed(b, total, r)
      PROVE  \E p \in Named(b) : Verdicts(b, total) = {[kind |-> "consensus", choice |-> p]}
  <2>1. PICK p \in Named(b) : IF r = 1 THEN Votes(b, p) = total ELSE 2 * Votes(b, p) > total
    BY <1>2 DEF Agreed
  <2>2. Votes(b, p) # 0
    <3>1. {m \in DOMAIN b : b[m] = p} # {} /\ IsFiniteSet({m \in DOMAIN b : b[m] = p})
      BY <1>1, VotesType DEF Named
    <3> QED
      BY <3>1, FS_EmptySet DEF Votes
  <2>3. 2 * Votes(b, p) > total
    BY <1>1, <2>1, <2>2
  <2>4. \A q \in major : q = p
    BY <2>3, MajorityIsUnique
  <2>5. major = {p}
    BY <2>1, <2>3, <2>4
  <2>6. Verdicts(b, total) = [kind : {"consensus"}, choice : {p}]
    BY <2>5 DEF Verdicts
  <2>7. [kind : {"consensus"}, choice : {p}] = {[kind |-> "consensus", choice |-> p]}
    <3> DEFINE v == [kind |-> "consensus", choice |-> p]
    <3>1. v \in [kind : {"consensus"}, choice : {p}]
      OBVIOUS
    <3>2. ASSUME NEW x \in [kind : {"consensus"}, choice : {p}] PROVE x = v
      OBVIOUS
    <3> HIDE DEF v
    <3>3. [kind : {"consensus"}, choice : {p}] = {v}
      BY <3>1, <3>2
    <3> QED
      BY <3>3 DEF v
  <2> QED
    BY <2>1, <2>6, <2>7
<1>3. ASSUME ~Agreed(b, total, r), r # 1, NEW v \in Verdicts(b, total)
      PROVE  v.kind = "forced"
  <2>1. major = {}
    BY <1>3 DEF Agreed
  <2> QED
    BY <1>3, <2>1 DEF Verdicts
<1> QED
  BY <1>2, <1>3

-----------------------------------------------------------------------------
(* The rounds *)

\* Refinement rounds that the profile allows, or the one reflection
RoundsInv ==
    /\ round \in Nat
    /\ round <= MaxRounds \/ (round = 1 /\ ForceReflection)

\* No question is refined more often than the profile allows, except that a single
\* model which must reflect is asked twice even without refinement rounds.
THEOREM RoundsAreBounded ==
    ASSUME MaxRounds \in Nat
    PROVE  Spec => []RoundsInv
<1>1. Init => RoundsInv
  BY DEF Init, RoundsInv
<1>2. RoundsInv /\ [Next]_vars => RoundsInv'
  <2> SUFFICES ASSUME RoundsInv, [Next]_vars PROVE RoundsInv'
    OBVIOUS
  <2>1. CASE UNCHANGED vars
    BY <2>1 DEF vars, RoundsInv
  <2>2. ASSUME NEW pool, Pose(pool) PROVE RoundsInv'
    BY <2>2 DEF Pose, RoundsInv
  <2>3. ASSUME NEW m, NEW reply, Reply(m, reply) PROVE RoundsInv'
    BY <2>3 DEF Reply, RoundsInv
  <2>4. ASSUME NEW v, Close(v) PROVE RoundsInv'
    BY <2>4 DEF Close, RoundsInv
  <2>5. CASE NextRound
    <3>1. /\ round' = round + 1 /\ ~ Settled(votes, asked, round + 1)
      BY <2>5 DEF NextRound
    <3>2. round + 1 <= MaxRounds \/ (round + 1 = 1 /\ ForceReflection)
      BY <3>1 DEF Settled, MustReflect, RoundsInv
    <3> QED
      BY <3>1, <3>2 DEF RoundsInv
  <2> QED
    BY <2>1, <2>2, <2>3, <2>4, <2>5 DEF Next, LastRound, EmptyRound, Abandon
<1> QED
  BY <1>1, <1>2, PTL DEF Spec
=============================================================================
