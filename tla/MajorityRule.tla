---------------------------- MODULE MajorityRule ----------------------------
(***************************************************************************)
(* What the consensus pipeline promises, without prompts, queries and      *)
(* histories: a question is put to a set of models, they vote in rounds,   *)
(* and one proposal of the last ballot wins.  Consensus.tla implements     *)
(* it.                                                                     *)
(***************************************************************************)
EXTENDS Naturals, FiniteSets

CONSTANTS
    Models,
    Proposals,        \* the action fingerprints a vote can be for
    Priority,         \* [Proposals -> Nat], lower wins a tie
    MaxRounds,        \* max_refinement_rounds of the profile
    ForceReflection   \* force_reflection of the profile

VARIABLES
    replies,   \* what each model asked in this round has replied so far
    ballot,    \* the votes of its last round that brought any
    round,     \* the number of that round, 0 before the first
    verdict    \* None, Open, Failed, or the decision

vars == <<replies, ballot, round, verdict>>

None == [kind |-> "none"]
Open == [kind |-> "open"]
Failed == [kind |-> "failed"]

Waiting == "running"
Nothing == "nothing"

NoVotes == [m \in {} |-> {}]

Votes(b, p) == Cardinality({m \in DOMAIN b : b[m] = p})

Named(b) == {b[m] : m \in DOMAIN b}

\* The first round ends on unanimity of all who were asked, the others on
\* more than half of them.
Agreed(b, total, r) ==
    \E p \in Named(b) : IF r = 1 THEN Votes(b, p) = total ELSE 2 * Votes(b, p) > total

\* A single model that must reflect is asked again whatever it said first.
MustReflect(pool, r) == ForceReflection /\ Cardinality(pool) = 1 /\ r = 1

Settled(b, pool, r) ==
    \/ Agreed(b, Cardinality(pool), r) /\ ~MustReflect(pool, r)
    \/ ~Agreed(b, Cardinality(pool), r) /\ r > MaxRounds

MostVoted(b) == {p \in Named(b) : \A q \in Named(b) : Votes(b, p) >= Votes(b, q)}

\* The majority of the total if there is one; otherwise the most voted
\* proposals, of which the lowest priority wins.
Verdicts(b, total) ==
    LET major == {p \in Named(b) : 2 * Votes(b, p) > total}
        first == {p \in MostVoted(b) : \A q \in MostVoted(b) : Priority[p] <= Priority[q]}
    IN  IF major # {}
        THEN [kind : {"consensus"}, choice : major]
        ELSE [kind : {"forced"}, choice : first]

asked == DOMAIN replies
voters == {m \in asked : replies[m] \in Proposals}
votes == [m \in voters |-> replies[m]]
Complete == verdict = Open /\ \A m \in asked : replies[m] # Waiting

Init ==
    /\ replies = NoVotes
    /\ ballot = NoVotes
    /\ round = 0
    /\ verdict = None

Ask(pool) == replies' = [m \in pool |-> Waiting]

Pose(pool) ==
    /\ verdict # Open
    /\ verdict' = Open
    /\ Ask(pool)
    /\ UNCHANGED <<ballot, round>>

Reply(m, reply) ==
    /\ replies[m] = Waiting
    /\ replies' = [replies EXCEPT ![m] = reply]
    /\ UNCHANGED <<ballot, round, verdict>>

Close(result) ==
    /\ verdict' = result
    /\ replies' = NoVotes
    /\ ballot' = NoVotes
    /\ round' = 0

\* A round whose votes settle the question.
LastRound ==
    /\ Complete
    /\ voters # {}
    /\ Settled(votes, asked, round + 1)
    /\ \E v \in Verdicts(votes, Cardinality(asked)) : Close(v)

\* A round whose votes do not: all vote again.
NextRound ==
    /\ Complete
    /\ voters # {}
    /\ ~Settled(votes, asked, round + 1)
    /\ ballot' = votes
    /\ round' = round + 1
    /\ Ask(asked)
    /\ UNCHANGED verdict

\* A round without votes: the last ballot decides among those who cast it, and
\* without one the question fails.
EmptyRound ==
    /\ Complete
    /\ voters = {}
    /\ IF round = 0
       THEN Close(Failed)
       ELSE \E v \in Verdicts(ballot, Cardinality(DOMAIN ballot)) : Close(v)

\* The agent dies with the question open.
Abandon == verdict = Open /\ Close(None)

Next ==
    \/ \E pool \in (SUBSET Models) \ {{}} : Pose(pool)
    \/ \E m \in asked, reply \in Proposals \cup {Nothing} : Reply(m, reply)
    \/ LastRound
    \/ NextRound
    \/ EmptyRound
    \/ Abandon

Spec == Init /\ [][Next]_vars
=============================================================================
