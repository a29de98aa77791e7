----------------------------- MODULE Consensus ------------------------------
(***************************************************************************)
(* One agent making up its mind (agent/consensus.ex,                       *)
(* agent/consensus/per_model_query.ex and condensation.ex,                 *)
(* consensus/aggregator.ex, consensus/result.ex, agent/history_transfer.ex *)
(* and the parts of message_handler.ex, action_executor.ex, state_utils.ex *)
(* and core.ex that keep and store the histories).                         *)
(*                                                                         *)
(* Every model of the pool has its own history.  A callback of the agent   *)
(* adds an event to all of them, asks all models in parallel, each in a    *)
(* task that may condense its own history, gathers the answers and decides *)
(* or asks again.  The process state changes only when the callback        *)
(* returns; the database row is written in the middle of it.               *)
(*                                                                         *)
(* Of the lessons (context_lessons, model_states) the model keeps what     *)
(* they were made from, never what they say.  A reflection may find        *)
(* nothing, a similar lesson is replaced, and of more than 100 the least   *)
(* confident go, fallback artifacts first (lesson_manager.ex): what is     *)
(* left of a condensed entry is not claimed anywhere below.                *)
(***************************************************************************)
EXTENDS Integers, FiniteSets, Sequences

CONSTANTS
    Models,
    InitialPool,       \* the pool in the agent's start configuration
    Pools,             \* the pools a profile may switch to
    Proposals,         \* action fingerprints
    Priority,          \* [Proposals -> Nat], lower wins a tie
    MaxRounds,         \* max_refinement_rounds of the profile
    ForceReflection,   \* force_reflection of the profile
    Default,           \* the key "default" of state_utils.ex
    MaxCycles,         \* bound: consensus cycles
    MaxDisturbances    \* bound: condensations, restarts and pool switches together

ASSUME ConsensusAssumption ==
    /\ IsFiniteSet(Models)
    /\ Pools \subseteq (SUBSET Models) \ {{}}
    /\ InitialPool \in Pools
    /\ Default \notin Models
    /\ Proposals \cap {"running", "nothing"} = {}
    /\ Priority \in [Proposals -> Nat]
    /\ MaxRounds \in Nat /\ MaxCycles \in Nat /\ MaxDisturbances \in Nat
    /\ ForceReflection \in BOOLEAN

VARIABLES
    memory,      \* the ACE state of the process: pool, histories, and per model
                 \* the entries whose reflection went into its lessons and state
    stored,      \* the ACE state in the agent's row
    working,     \* ... in the context of the running callback
    settled,     \* ... as the callback will return it: before the first round with
                 \* its event, after it with the condensation of that round
    event,       \* the entry of the running callback's event, 0 without one
    tasks,       \* the query tasks: Running, or the answer and the task's state
    ballot, round, verdict,
    clock,       \* the number of the last history entry
    cycles, disturbances,
    heard,       \* history: entries that returned callbacks recorded
    decided,     \* history: entries of the last decision and before
    safe,        \* history: entries the last write of the row covered
    gone,        \* history: heard entries a kill took
    astray       \* history: a restart found no histories of its pool

questions == <<tasks, ballot, round, verdict>>
counters == <<clock, cycles, disturbances>>
records == <<heard, decided, safe, gone, astray>>
callback == <<working, settled, event>>
vars == <<memory, stored, callback, questions, counters, records>>

Rule == INSTANCE MajorityRule WITH replies <- [m \in DOMAIN tasks |-> tasks[m].answer]

None == Rule!None
Open == Rule!Open
Failed == Rule!Failed
Running == [answer |-> "running"]
Answers == Proposals \cup {"nothing"}  \* an error, or no JSON of a valid action
Entries == 1 .. 2 * MaxCycles

Empty == [m \in {} |-> {}]
NoAce == [histories |-> Empty, reflected |-> Empty]

-----------------------------------------------------------------------------
(* Histories, oldest entry first                                           *)

HistoryOf(ace, m) == IF m \in DOMAIN ace.histories THEN ace.histories[m] ELSE <<>>
ReflectedOn(ace, m) == IF m \in DOMAIN ace.reflected THEN ace.reflected[m] ELSE {}
InHistory(ace, m) == {HistoryOf(ace, m)[i] : i \in DOMAIN HistoryOf(ace, m)}
AccountedFor(ace, m) == InHistory(ace, m) \cup ReflectedOn(ace, m)

Put(f, k, v) == [x \in DOMAIN f \cup {k} |-> IF x = k THEN v ELSE f[x]]

\* An entry goes into every history there is; with none it goes under "default".
AddEntry(ace, e) ==
    [histories |-> IF DOMAIN ace.histories = {}
                   THEN Put(ace.histories, Default, <<e>>)
                   ELSE [m \in DOMAIN ace.histories |-> Append(ace.histories[m], e)],
     reflected |-> ace.reflected]

\* A slip for OldestCondensedFirst: the list is cut at its wrong end.
CondenseNewest(ace, m, n) ==
    LET old == HistoryOf(ace, m)
        kept == Len(old) - n
    IN  [histories |-> Put(ace.histories, m, SubSeq(old, 1, kept)),
         reflected |-> Put(ace.reflected, m,
                         ReflectedOn(ace, m) \cup {old[i] : i \in kept + 1 .. Len(old)})]

\* What is cut off is handed to the reflection, in batches, and the results are
\* accumulated in the lessons of the model; a batch whose reflection fails counts
\* with its fallback artifact.  Whether a lesson comes of it and how long it stays
\* is left open.  With nothing to cut only the history's key is written.
Condense(ace, m, n) ==
    LET old == HistoryOf(ace, m)
        cut == {old[i] : i \in 1 .. n}
    IN  [histories |-> Put(ace.histories, m, SubSeq(old, n + 1, Len(old))),
         reflected |-> IF n = 0 THEN ace.reflected
                     ELSE Put(ace.reflected, m, ReflectedOn(ace, m) \cup cut)]

\* By tokens, before a query: any positive number of the oldest entries, all of
\* them included, according to their sizes and the model's limits.
Shortened(ace, m) ==
    {Condense(ace, m, n) :
        n \in IF HistoryOf(ace, m) = <<>> THEN {0} ELSE 1 .. Len(HistoryOf(ace, m))}

\* At the model's own request, after it answered: the last two entries stay.
ShortenedOnRequest(ace, m) ==
    {Condense(ace, m, n) : n \in 1 .. Len(HistoryOf(ace, m)) - 2}

\* The entries of a field that a task changed replace those of the callback.
MergeField(old, new) ==
    [k \in DOMAIN old \cup UNION {DOMAIN new[m] : m \in DOMAIN new} |->
        LET changed == {m \in DOMAIN new : /\ k \in DOMAIN new[m]
                                           /\ k \in DOMAIN old => new[m][k] # old[k]}
        IN  IF changed = {} THEN old[k] ELSE new[CHOOSE m \in changed : TRUE][k]]

\* A slip for KeptOrReflectedOnce: the tasks' reflections are not merged.
MergedHistoriesOnly ==
    [histories |-> MergeField(working.histories,
                              [m \in DOMAIN tasks |-> tasks[m].ace.histories]),
     reflected |-> working.reflected]

Merged ==
    [histories |-> MergeField(working.histories,
                              [m \in DOMAIN tasks |-> tasks[m].ace.histories]),
     reflected |-> MergeField(working.reflected,
                            [m \in DOMAIN tasks |-> tasks[m].ace.reflected])]

-----------------------------------------------------------------------------
(* Steps                                                                   *)

Ace(state) == [histories |-> state.histories, reflected |-> state.reflected]

Init ==
    /\ memory = [pool |-> InitialPool, histories |-> [m \in InitialPool |-> <<>>],
                 reflected |-> Empty]
    /\ stored = NoAce
    /\ working = NoAce /\ settled = NoAce /\ event = 0
    /\ tasks = Empty /\ ballot = Rule!NoVotes /\ round = 0 /\ verdict = None
    /\ clock = 0 /\ cycles = 0 /\ disturbances = 0
    /\ heard = {} /\ decided = {} /\ safe = {} /\ gone = {} /\ astray = FALSE

AskAll(pool) == tasks' = [m \in pool |-> Running]

\* A callback starts a cycle, mostly with an event to record.
Begin(withEvent) ==
    /\ verdict # Open
    /\ cycles < MaxCycles
    /\ cycles' = cycles + 1
    /\ clock' = IF withEvent THEN clock + 1 ELSE clock
    /\ event' = IF withEvent THEN clock + 1 ELSE 0
    /\ working' = IF withEvent THEN AddEntry(Ace(memory), clock + 1) ELSE Ace(memory)
    /\ settled' = working'
    /\ AskAll(memory.pool)
    /\ verdict' = Open
    /\ UNCHANGED <<memory, stored, ballot, round, disturbances, records>>

\* One model's task, which works on its own copy of the state: it condenses when
\* the context is too long (before the query, or before the second attempt after
\* an overflow), asks, and condenses again if the answer says so.
Answer(m, answer) ==
    /\ verdict = Open
    /\ m \in DOMAIN tasks
    /\ tasks[m] = Running
    /\ \E before \in {working} \cup Shortened(working, m) :
          \E after \in {before} \cup ShortenedOnRequest(before, m) :
             /\ disturbances' = disturbances + (IF before # working THEN 1 ELSE 0)
                                             + (IF after # before THEN 1 ELSE 0)
             /\ disturbances' <= MaxDisturbances
             /\ tasks' = [tasks EXCEPT ![m] = [answer |-> answer, ace |-> after]]
    /\ UNCHANGED <<memory, stored, callback, ballot, round, verdict, clock,
                   cycles, records>>

\* A slip for EveryQuestionCloses: an answer that is none is waited for.
AllSucceeded ==
    verdict = Open /\ \A m \in DOMAIN tasks : tasks[m].answer \in Proposals

AllAnswered == verdict = Open /\ \A m \in DOMAIN tasks : tasks[m] # Running

Usable == {m \in DOMAIN tasks : tasks[m].answer \in Proposals}
NewBallot == [m \in Usable |-> tasks[m].answer]

\* The entries the process will have recorded when the callback returns.
Recorded == heard \cup ({event} \ {0})

\* A slip for TypeOK: the event outlives its callback.
CallbackKeepsEvent ==
    /\ working' = NoAce /\ settled' = NoAce /\ UNCHANGED event
    /\ tasks' = Empty /\ ballot' = Rule!NoVotes /\ round' = 0

CallbackEnds ==
    /\ working' = NoAce /\ settled' = NoAce /\ event' = 0
    /\ tasks' = Empty /\ ballot' = Rule!NoVotes /\ round' = 0

\* The row holds what the tasks made of the state, or none of them condensed.
Persisted == Merged = working \/ (stored = Merged /\ safe = Recorded)

\* A slip for RowAccountsForDecisions: the row gets the short histories alone.
PersistHistories ==
    /\ AllAnswered
    /\ ~Persisted
    /\ stored' = [Merged EXCEPT !.reflected = stored.reflected]
    /\ safe' = Recorded
    /\ UNCHANGED <<memory, callback, questions, counters, heard, decided, gone, astray>>

\* All models answered: one write for all of them, if any condensed, in the middle
\* of the callback.  The process may die between it and the decision.
PersistMerged ==
    /\ AllAnswered
    /\ ~Persisted
    /\ stored' = Merged
    /\ safe' = Recorded
    /\ UNCHANGED <<memory, callback, questions, counters, heard, decided, gone, astray>>

\* The action is executed and the callback returns: the state of the first round
\* is merged back, the decision recorded and the conversation stored.
Decide(choice, first) ==
    LET next == AddEntry(first, clock + 1)
    IN  /\ verdict' = choice
        /\ memory' = [memory EXCEPT !.histories = next.histories, !.reflected = next.reflected]
        /\ stored' = next
        /\ clock' = clock + 1
        /\ heard' = Recorded \cup {clock + 1}
        /\ decided' = heard'
        /\ safe' = heard'
        /\ CallbackEnds
        /\ UNCHANGED <<cycles, disturbances, gone, astray>>

FirstRound == IF round = 0 THEN Merged ELSE settled

\* A slip for ImplementsMajorityRule: the models that failed are not counted.
GatherOwnMajority ==
    /\ AllAnswered
    /\ Persisted
    /\ Usable # {}
    /\ Rule!Settled(NewBallot, Usable, round + 1)
    /\ \E choice \in Rule!Verdicts(NewBallot, Cardinality(Usable)) :
           Decide(choice, FirstRound)

\* Votes that settle the question.
GatherDecision ==
    /\ AllAnswered
    /\ Persisted
    /\ Usable # {}
    /\ Rule!Settled(NewBallot, DOMAIN tasks, round + 1)
    /\ \E choice \in Rule!Verdicts(NewBallot, Cardinality(DOMAIN tasks)) :
           Decide(choice, FirstRound)

\* Votes that do not: all models are asked again with the proposals.
GatherRefinement ==
    /\ AllAnswered
    /\ Persisted
    /\ Usable # {}
    /\ ~Rule!Settled(NewBallot, DOMAIN tasks, round + 1)
    /\ working' = Merged
    /\ settled' = FirstRound
    /\ ballot' = NewBallot
    /\ round' = round + 1
    /\ AskAll(DOMAIN tasks)
    /\ UNCHANGED <<memory, stored, event, verdict, counters, records>>

\* A refinement without a usable answer: the votes before it decide.
GatherFallback ==
    /\ AllAnswered
    /\ Persisted
    /\ Usable = {}
    /\ round > 0
    /\ \E choice \in Rule!Verdicts(ballot, Cardinality(DOMAIN ballot)) :
           Decide(choice, settled)

\* A first round without one: the callback returns an error and keeps the event
\* but none of the condensation, which is stored all the same.
GatherFailure ==
    /\ AllAnswered
    /\ Persisted
    /\ Usable = {}
    /\ round = 0
    /\ verdict' = Failed
    /\ memory' = [memory EXCEPT !.histories = settled.histories]
    /\ heard' = Recorded
    /\ CallbackEnds
    /\ UNCHANGED <<stored, counters, decided, safe, gone, astray>>

-----------------------------------------------------------------------------
(* Restarts and pool switches                                              *)

\* The process ends and starts again with the configuration it was first started
\* with and the histories of its row: restarted by its supervisor, or stopped and
\* restored with its task, which alone replaces missing histories by empty ones.
\* terminate/2 stores what the last callback returned, unless it is killed.
Restart(killed, restored) ==
    /\ disturbances < MaxDisturbances
    /\ disturbances' = disturbances + 1
    /\ stored' = IF killed THEN stored ELSE Ace(memory)
    /\ memory' = [pool |-> InitialPool,
                  histories |-> IF restored /\ stored' = NoAce
                                THEN [m \in InitialPool |-> <<>>] ELSE stored'.histories,
                  reflected |-> stored'.reflected]
    /\ verdict' = IF verdict = Open THEN None ELSE verdict
    /\ CallbackEnds
    /\ safe' = IF killed THEN safe ELSE heard
    /\ gone' = IF killed THEN gone \cup (heard \ safe) ELSE gone
    /\ astray' = (astray \/ ~(InitialPool \subseteq DOMAIN memory'.histories))
    /\ UNCHANGED <<clock, cycles, heard, decided>>

\* The profile brings another pool: every model of it gets the history and the
\* lessons of one old model, the longest history that fits the smallest of the
\* new contexts, or else the shortest one condensed until it fits.  This
\* condensation reaches no row.
SwitchPool(pool, limit) ==
    LET keys == DOMAIN memory.histories
        size(m) == Len(memory.histories[m])
        fitting == {m \in keys : size(m) <= limit}
        Inherit(ace, m) ==
            [pool |-> pool,
             histories |-> [x \in pool |-> HistoryOf(ace, m)],
             reflected |-> [x \in pool |-> ReflectedOn(ace, m)]]
    IN  /\ verdict # Open
        /\ pool # memory.pool
        /\ disturbances < MaxDisturbances
        /\ \/ /\ keys = {}
              /\ memory' = [pool |-> pool, histories |-> [x \in pool |-> <<>>],
                            reflected |-> [x \in pool |-> {}]]
              /\ disturbances' = disturbances + 1
           \/ /\ \E m \in fitting : /\ \A x \in fitting : size(x) <= size(m)
                                     /\ memory' = Inherit(Ace(memory), m)
              /\ disturbances' = disturbances + 1
           \/ /\ fitting = {}
              /\ disturbances' = disturbances + 2
              /\ disturbances' <= MaxDisturbances
              /\ \E m \in keys :
                    /\ \A x \in keys : size(m) <= size(x)
                    /\ \E ace \in Shortened(Ace(memory), m) :
                          /\ Len(HistoryOf(ace, m)) <= limit
                          /\ memory' = Inherit(ace, m)
        /\ UNCHANGED <<stored, callback, questions, clock, cycles, records>>

ModelAnswers(m) == \E answer \in Answers : Answer(m, answer)

Gather ==
    \/ PersistMerged
    \/ GatherDecision
    \/ GatherRefinement
    \/ GatherFallback
    \/ GatherFailure

Next ==
    \/ \E withEvent \in BOOLEAN : Begin(withEvent)
    \/ \E m \in Models : ModelAnswers(m)
    \/ Gather
    \/ \E killed, restored \in BOOLEAN : Restart(killed, restored)
    \/ \E pool \in Pools, limit \in 0 .. 2 * MaxCycles : SwitchPool(pool, limit)

\* Every query returns in the end, with an answer or an error, and the callback
\* goes on.  Nobody has to send events, restart agents or edit profiles.
Fairness == WF_vars(Gather) /\ \A m \in Models : WF_vars(ModelAnswers(m))

Spec == Init /\ [][Next]_vars /\ Fairness

-----------------------------------------------------------------------------
(* Properties                                                              *)

IsAce(ace) ==
    /\ DOMAIN ace.histories \subseteq Models \cup {Default}
    /\ DOMAIN ace.reflected \subseteq Models \cup {Default}
    /\ \A m \in DOMAIN ace.histories : ace.histories[m] \in Seq(Entries)
    /\ \A m \in DOMAIN ace.reflected : ace.reflected[m] \subseteq Entries

\* The variables have their types; a callback's state exists only while it runs.
TypeOK ==
    /\ memory.pool \in Pools /\ IsAce(Ace(memory))
    /\ IsAce(stored) /\ IsAce(working) /\ IsAce(settled)
    /\ event \in 0 .. 2 * MaxCycles
    /\ verdict # Open => /\ working = NoAce /\ settled = NoAce /\ event = 0
                         /\ tasks = Empty /\ ballot = Rule!NoVotes /\ round = 0
    /\ DOMAIN tasks \subseteq Models
    /\ \A m \in DOMAIN tasks :
          tasks[m] = Running \/ (tasks[m].answer \in Answers /\ IsAce(tasks[m].ace))
    /\ DOMAIN ballot \subseteq DOMAIN tasks
    /\ \A m \in DOMAIN ballot : ballot[m] \in Proposals
    /\ round \in 0 .. MaxRounds + 2
    /\ verdict \in {None, Open, Failed} \cup [kind : {"consensus", "forced"}, choice : Proposals]
    /\ clock \in 0 .. 2 * MaxCycles
    /\ cycles \in 0 .. MaxCycles
    /\ disturbances \in 0 .. MaxDisturbances
    /\ heard \subseteq Entries /\ decided \subseteq heard
    /\ safe \subseteq Entries /\ gone \subseteq heard
    /\ astray \in BOOLEAN

\* Whatever the agent heard or decided stands in the history of every model it
\* will ask next, or was reflected on for that model, and never both: no parallel
\* condensation, round whose condensation is dropped, failed cycle or pool switch
\* cuts an entry without its reflection or reflects on one that will be cut again
\* (which would raise its lessons' confidence twice).  Excepted is what a kill
\* takes before it was stored, and an agent whose restart found no histories of
\* its pool (initialization.ex, state_utils.ex).
KeptOrReflectedOnce ==
    /\ astray \/ memory.pool \subseteq DOMAIN memory.histories
    /\ \A m \in DOMAIN memory.histories :
          /\ astray \/ heard \ gone \subseteq AccountedFor(Ace(memory), m)
          /\ InHistory(Ace(memory), m) \cap ReflectedOn(Ace(memory), m) = {}

\* The row accounts for everything up to the last decision, in each of its
\* histories, also while later cycles condense, fail and write it: it never has a
\* shortened history with the lessons from before the shortening.
RowAccountsForDecisions ==
    \A m \in DOMAIN stored.histories :
        /\ astray \/ decided \ gone \subseteq AccountedFor(stored, m)
        /\ InHistory(stored, m) \cap ReflectedOn(stored, m) = {}

\* Condensation eats a history from its oldest end: entries stay in order, and
\* none that was reflected on is younger than one that is still there.
OldestCondensedFirst ==
    \A ace \in {Ace(memory), stored, working} : \A m \in DOMAIN ace.histories :
        LET h == ace.histories[m]
        IN  /\ \A i, j \in DOMAIN h : i < j => h[i] < h[j]
            /\ \A e \in ReflectedOn(ace, m), i \in DOMAIN h : e < h[i]

\* The pipeline implements the voting rule: who decides, in which round, by
\* which majority and under which name.
ImplementsMajorityRule == Rule!Spec

\* A question that was put is decided or fails: no vote, error or condensation
\* keeps the models refining for ever.
EveryQuestionCloses == verdict = Open ~> verdict # Open
=============================================================================
