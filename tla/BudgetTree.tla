----------------------------- MODULE BudgetTree -----------------------------
(***************************************************************************)
(* Budgets and costs in a tree of agents.                                  *)
(*                                                                         *)
(* An agent may spend what it was allocated, less what it spent itself and *)
(* what it committed to its children (the escrow).  Three actions of a     *)
(* parent change the ledger: spawn_child commits, adjust_budget moves the  *)
(* difference, dismiss_child absorbs the child's costs and releases its    *)
(* allocation.  None of them is atomic: the action works on a snapshot of  *)
(* the parent's state, a child is started and dismissed by a background    *)
(* task, and what the task reports is a message among others.              *)
(*                                                                         *)
(* AgentCore describes how an agent takes one action at a time; here an    *)
(* agent waits for the reply of its action, except for the actions of a    *)
(* batch, which share one snapshot and reply to nobody.  The termination   *)
(* of a subtree is one step (AgentTree).  Amounts are natural numbers.     *)
(***************************************************************************)
EXTENDS Integers, Sequences, FiniteSets, FiniteSetsExt

CONSTANTS
    Agents,      \* agent ids, each used once
    Root,        \* the task's root agent
    Amounts,     \* the budgets the models and the user may name
    RootBudget,  \* the task's budget_limit, NA for none
    MaxOps,      \* bound: budget actions taken
    MaxLoad,     \* bound: actions, cost rows and edits together, see Load
    Batching     \* may the models put these actions into a batch?

NA == -1   \* nil: no allocation

ASSUME ParametersAssumption ==
    /\ Root \in Agents /\ IsFiniteSet(Agents)
    /\ Amounts \subseteq Nat \ {0}
    /\ RootBudget \in Nat \cup {NA}
    /\ MaxOps \in Nat /\ MaxLoad \in Nat
    /\ Batching \in BOOLEAN

Ops == 1..MaxOps

VARIABLES
    alive,       \* registered agents
    budget,      \* budget_data of every agent
    listed,      \* agents in their parent's children list
    known,       \* budget_allocated in that list
    dismissing,  \* agents whose dismissing flag is set
    busy,        \* the action an agent waits for, 0 for none
    mailbox,     \* the messages of an agent that concern the ledger
    op,          \* the actions taken: who, what, and the snapshot they work on
    stage,       \* how far each action, and then its background task, is
    reply,       \* what became of its reply
    seen,        \* the budget_data a dismissal read from the child
    ids,         \* the subtree whose costs a dismissal absorbs
    sum,         \* what its transaction read of them
    costs,       \* cost rows per agent, summed
    incurred,    \* history: every cost ever recorded
    raced,       \* history: rows changed under a transaction that had read them
    edit,        \* the budget the dashboard is about to write
    edits,       \* number of edits begun
    torn         \* history: an edit overwrote a ledger that had changed meanwhile

treeVars   == <<alive, dismissing>>
ledgerVars == <<budget, listed, known>>
opVars     == <<op, stage, reply>>
workVars   == <<seen, ids, sum>>
costVars   == <<costs, incurred, raced>>
editVars   == <<edit, edits, torn>>
vars == <<treeVars, ledgerVars, busy, mailbox, opVars, workVars, costVars, editVars>>

-----------------------------------------------------------------------------
(* Budget.Schema, Budget.Tracker and Budget.Escrow *)

Modes == {"root", "allocated", "na"}

Budgets == [mode : Modes, allocated : Nat \cup {NA}, committed : Nat]

NewRoot == [mode |-> IF RootBudget = NA THEN "na" ELSE "root",
            allocated |-> RootBudget, committed |-> 0]

\* The budget of a new child: N/A when the spawn named none
NewChild(amount) == [mode |-> IF amount = NA THEN "na" ELSE "allocated",
                     allocated |-> amount, committed |-> 0]

Available(b, spent) == b.allocated - spent - b.committed

HasAvailable(b, spent, required) ==
    b.allocated = NA \/ Available(b, spent) >= required

AddCommitted(b, amount) == [b EXCEPT !.committed = @ + amount]

\* Mutant: not clamped at zero
ReleaseUnclamped(b, amount) == [b EXCEPT !.committed = @ - amount]

ReleaseCommitted(b, amount) ==
    [b EXCEPT !.committed = IF @ < amount THEN 0 ELSE @ - amount]

\* Mutant: an increase is allowed but not locked
AdjustWithoutLock(b, current, new) ==
    IF b.allocated = NA \/ new >= current THEN b ELSE ReleaseCommitted(b, current - new)

\* adjust_child_allocation, when it is allowed
AdjustEscrow(b, current, new) ==
    IF b.allocated = NA THEN b
    ELSE IF new >= current THEN AddCommitted(b, new - current)
    ELSE ReleaseCommitted(b, current - new)

MayAdjustEscrow(b, current, new, spent) ==
    new > current => HasAvailable(b, spent, new - current)

-----------------------------------------------------------------------------
(* The tree *)

OpsOn(kind, c) == {i \in DOMAIN op : op[i].kind = kind /\ op[i].child = c}

IsSpawned(c) == OpsOn("spawn", c) # {}

\* Every spawn names a new id
ParentOf(c) == op[CHOOSE i \in OpsOn("spawn", c) : TRUE].by

ChildrenOf(a) == {c \in Agents : IsSpawned(c) /\ ParentOf(c) = a}

\* get_descendant_agent_ids: an agent and those below it, through living agents
ClosedDownwards(S) == \A c \in alive \ {Root} : ParentOf(c) \in S => c \in S

Subtree(a) ==
    {a} \cup {c \in alive \ {Root} :
                 \A S \in SUBSET Agents : a \in S /\ ClosedDownwards(S) => c \in S}

\* What the walk over the registry finds: nothing if its start is gone
LiveSubtree(a) == IF a \in alive THEN Subtree(a) ELSE {}

-----------------------------------------------------------------------------
(* Actions and messages *)

Kinds == {"spawn", "adjust", "dismiss"}

Snapshots == [dismissing : BOOLEAN, budget : Budgets, spent : Nat]

OpType == [kind : Kinds, by : Agents, child : Agents, amount : Amounts \cup {NA},
           batched : BOOLEAN, snap : Snapshots]

Stages == {"none", "dispatched", "rejected",
           "starting", "started", "failed",
           "calling",
           "asked", "known", "selected", "absorbed", "releasing", "released",
           "done"}

Replies == {"none", "ready", "sent", "handled"}

\* The messages and the kinds of action each may be about; update_budget_data is
\* the dashboard's and about none
About(type) ==
    CASE type = "result" -> Kinds
      [] type \in {"child_spawned", "spawn_failed"} -> {"spawn"}
      [] type \in {"adjust", "set_allocated"} -> {"adjust"}
      [] OTHER -> {"dismiss"}

Messages ==
    {m \in [type : {"result", "child_spawned", "spawn_failed", "adjust", "set_allocated",
                    "get_state", "release", "child_dismissed"},
            id : DOMAIN op] : op[m.id].kind \in About(m.type)}
    \cup [type : {"update_budget_data"}, id : {0}]

Msg(type, i) == [type |-> type, id |-> i]

\* A message to an agent that is gone is dropped
Post(box, a, m) == IF a \in alive THEN [box EXCEPT ![a] = Append(@, m)] ELSE box

Receives(a, type) ==
    /\ a \in alive
    /\ mailbox[a] # <<>>
    /\ Head(mailbox[a]).type = type

Handled(a) == [mailbox EXCEPT ![a] = Tail(@)]

\* The budget actions a model may choose for agent a
Options(a) ==
    {[kind |-> "spawn", child |-> c, amount |-> m] :
         c \in {x \in Agents \ {Root} : ~IsSpawned(x)}, m \in Amounts \cup {NA}}
    \cup {[kind |-> "adjust", child |-> c, amount |-> m] :
         c \in ChildrenOf(a), m \in Amounts}
    \cup {[kind |-> "dismiss", child |-> c, amount |-> NA] :
         c \in ChildrenOf(a)}

\* build_execute_opts: what the action will work on, copied from the agent's state
Snapshot(a) ==
    [dismissing |-> a \in dismissing,
     budget |-> budget[a],
     spent |-> IF budget[a].mode = "na" THEN 0 ELSE costs[a]]

NewOp(a, choice, batched) ==
    [kind |-> choice.kind, by |-> a, child |-> choice.child, amount |-> choice.amount,
     batched |-> batched, snap |-> Snapshot(a)]

At(i, kind, where) ==
    i \in DOMAIN op /\ op[i].kind = kind /\ stage[i] = where

Goes(i, to) == stage' = [stage EXCEPT ![i] = to]

Replied(i) == reply' = [reply EXCEPT ![i] = IF @ = "none" THEN "ready" ELSE @]

\* Routers of a batch outlive the agent, any other stops with it
HasRouter(i) == op[i].batched \/ op[i].by \in alive

\* The bounds; an action of a batch and an edit weigh two
Load(ops) ==
    Len(ops) + Cardinality({i \in DOMAIN ops : ops[i].batched}) + incurred + 2 * edits

FitsOps(ops) == Len(ops) <= MaxOps /\ Load(ops) <= MaxLoad
Fits(weight) == Load(op) + weight <= MaxLoad

-----------------------------------------------------------------------------
(* Taking an action *)

TakeAction(a) ==
    /\ a \in alive /\ busy[a] = 0
    /\ \E choice \in Options(a) : op' = Append(op, NewOp(a, choice, FALSE))
    /\ FitsOps(op')
    /\ stage' = [stage EXCEPT ![Len(op) + 1] = "dispatched"]
    /\ busy' = [busy EXCEPT ![a] = Len(op) + 1]
    /\ UNCHANGED <<treeVars, ledgerVars, mailbox, reply, workVars, costVars, editVars>>

\* batch_sync and batch_async: one or two of the sub-actions concern the ledger
TakeBatch(a) ==
    /\ Batching
    /\ a \in alive /\ busy[a] = 0
    /\ \E first \in Options(a), second \in Options(a) :
          LET batch == IF first = second THEN <<NewOp(a, first, TRUE)>>
                       ELSE <<NewOp(a, first, TRUE), NewOp(a, second, TRUE)>>
          IN /\ first.kind = "spawn" /\ first # second => first.child # second.child
             /\ op' = op \o batch
             /\ FitsOps(op')
             /\ stage' = [i \in Ops |-> IF i \in DOMAIN op' \ DOMAIN op
                                        THEN "dispatched" ELSE stage[i]]
    /\ UNCHANGED <<treeVars, ledgerVars, busy, mailbox, reply, workVars, costVars, editVars>>

\* What the dispatch Task casts; the actions of a batch have no reply
Answer(i) ==
    /\ reply' = [reply EXCEPT ![i] = "sent"]
    /\ mailbox' = Post(mailbox, op[i].by, Msg("result", i))

\* The Router refuses it, or the action's own validation of other parameters
RejectAction(i) ==
    /\ i \in DOMAIN op /\ stage[i] = "dispatched" /\ HasRouter(i)
    /\ Goes(i, "rejected")
    /\ IF op[i].batched \/ reply[i] # "none" THEN UNCHANGED <<reply, mailbox>> ELSE Answer(i)
    /\ UNCHANGED <<treeVars, ledgerVars, busy, op, workVars, costVars, editVars>>

CastReply(i) ==
    /\ i \in DOMAIN op /\ ~op[i].batched /\ reply[i] = "ready"
    /\ Answer(i)
    /\ UNCHANGED <<treeVars, ledgerVars, busy, op, stage, workVars, costVars, editVars>>

\* dismiss_child is acknowledged after 100ms, whether it has run or not
AcknowledgeDismiss(i) ==
    /\ At(i, "dismiss", "dispatched") /\ ~op[i].batched /\ reply[i] = "none"
    /\ op[i].by \in alive
    /\ Answer(i)
    /\ UNCHANGED <<treeVars, ledgerVars, busy, op, stage, workVars, costVars, editVars>>

\* maybe_track_child and maybe_update_budget_committed: the spawn was accepted
TracksChild(i) ==
    op[i].kind = "spawn" /\ stage[i] # "rejected"

CommitAmount(b, amount) == IF amount = NA THEN b ELSE AddCommitted(b, amount)

HandleResult(a) ==
    /\ Receives(a, "result")
    /\ LET i == Head(mailbox[a]).id
           c == op[i].child
       IN /\ busy' = [busy EXCEPT ![a] = IF @ = i THEN 0 ELSE @]
          /\ reply' = [reply EXCEPT ![i] = "handled"]
          /\ IF TracksChild(i)
             THEN /\ listed' = listed \cup {c}
                  /\ known' = IF c \in listed THEN known
                              ELSE [known EXCEPT ![c] = op[i].amount]
                  /\ budget' = [budget EXCEPT ![a] = CommitAmount(@, op[i].amount)]
             ELSE UNCHANGED ledgerVars
    /\ mailbox' = Handled(a)
    /\ UNCHANGED <<treeVars, op, stage, workVars, costVars, editVars>>

-----------------------------------------------------------------------------
(* spawn_child *)

\* Mutants: the escrow is not counted; a child may go without a budget
ValidIgnoringEscrow(snap, amount) ==
    IF amount = NA THEN snap.budget.mode = "na"
    ELSE snap.budget.mode = "na" \/ snap.budget.allocated - snap.spent >= amount

ValidWithoutBudget(snap, amount) ==
    \/ amount = NA \/ snap.budget.mode = "na"
    \/ snap.budget.allocated - snap.budget.committed - snap.spent >= amount

\* validate_and_check_budget, on the snapshot
BudgetValid(snap, amount) ==
    IF amount = NA THEN snap.budget.mode = "na"
    ELSE \/ snap.budget.mode = "na"
         \/ snap.budget.allocated - snap.budget.committed - snap.spent >= amount

ExecuteSpawn(i) ==
    /\ At(i, "spawn", "dispatched") /\ HasRouter(i)
    /\ ~op[i].snap.dismissing
    /\ BudgetValid(op[i].snap, op[i].amount)
    /\ Goes(i, "starting")
    /\ Replied(i)
    /\ UNCHANGED <<treeVars, ledgerVars, busy, mailbox, op, workVars, costVars, editVars>>

\* The background task starts the child whatever happened to the parent since
StartChild(i) ==
    /\ At(i, "spawn", "starting")
    /\ alive' = alive \cup {op[i].child}
    /\ budget' = [budget EXCEPT ![op[i].child] = NewChild(op[i].amount)]
    /\ Goes(i, "started")
    /\ UNCHANGED <<dismissing, listed, known, busy, mailbox, op, reply, workVars,
                   costVars, editVars>>

\* Three attempts failed, or the task crashed; the parent's escrow is left alone
FailSpawn(i) ==
    /\ \/ At(i, "spawn", "starting")
       \/ At(i, "spawn", "started") /\ op[i].child \notin alive
    /\ Goes(i, "failed")
    /\ mailbox' = Post(mailbox, op[i].by, Msg("spawn_failed", i))
    /\ UNCHANGED <<treeVars, ledgerVars, busy, op, reply, workVars, costVars, editVars>>

AnnounceChild(i) ==
    /\ At(i, "spawn", "started")
    /\ Goes(i, "done")
    /\ mailbox' = Post(mailbox, op[i].by, Msg("child_spawned", i))
    /\ UNCHANGED <<treeVars, ledgerVars, busy, op, reply, workVars, costVars, editVars>>

\* The cast names no budget: a child it lists first has a nil allocation
HandleChildSpawned(a) ==
    /\ Receives(a, "child_spawned")
    /\ listed' = listed \cup {op[Head(mailbox[a]).id].child}
    /\ mailbox' = Handled(a)
    /\ UNCHANGED <<treeVars, budget, known, busy, opVars, workVars, costVars, editVars>>

Unlist(c) ==
    /\ listed' = listed \ {c}
    /\ known' = [known EXCEPT ![c] = NA]

HandleSpawnFailed(a) ==
    /\ Receives(a, "spawn_failed")
    /\ Unlist(op[Head(mailbox[a]).id].child)
    /\ mailbox' = Handled(a)
    /\ UNCHANGED <<treeVars, budget, busy, opVars, workVars, costVars, editVars>>

-----------------------------------------------------------------------------
(* adjust_budget *)

\* The Router's process calls the parent and waits, without a timeout
ExecuteAdjust(i) ==
    /\ At(i, "adjust", "dispatched") /\ HasRouter(i)
    /\ {op[i].child, op[i].by} \subseteq alive
    /\ Goes(i, "calling")
    /\ mailbox' = Post(mailbox, op[i].by, Msg("adjust", i))
    /\ UNCHANGED <<treeVars, ledgerVars, busy, op, reply, workVars, costVars, editVars>>

Current(c) == IF known[c] = NA THEN 0 ELSE known[c]

\* adjust_child_budget; a decrease looks at what the child itself spent, no more
MayAdjust(a, c, new) ==
    /\ c \in listed
    /\ new < Current(c) => new >= costs[c]
    /\ MayAdjustEscrow(budget[a], Current(c), new, costs[a])

HandleAdjust(a) ==
    /\ Receives(a, "adjust")
    /\ LET i == Head(mailbox[a]).id
           c == op[i].child
           new == op[i].amount
       IN /\ Replied(i)
          /\ Goes(i, "done")
          /\ IF MayAdjust(a, c, new)
             THEN /\ budget' = [budget EXCEPT ![a] = AdjustEscrow(@, Current(c), new)]
                  /\ known' = [known EXCEPT ![c] = new]
                  /\ mailbox' = Post(Handled(a), c, Msg("set_allocated", i))
             ELSE /\ mailbox' = Handled(a)
                  /\ UNCHANGED <<budget, known>>
    /\ UNCHANGED <<treeVars, listed, busy, op, workVars, costVars, editVars>>

\* The mode stays what it was, "na" too
HandleSetAllocated(a) ==
    /\ Receives(a, "set_allocated")
    /\ budget' = [budget EXCEPT ![a].allocated = op[Head(mailbox[a]).id].amount]
    /\ mailbox' = Handled(a)
    /\ UNCHANGED <<treeVars, listed, known, busy, opVars, workVars, costVars, editVars>>

-----------------------------------------------------------------------------
(* dismiss_child *)

\* Its background task starts by reading the child's budget; a child that is
\* not registered was dismissed already
ExecuteDismiss(i) ==
    /\ At(i, "dismiss", "dispatched") /\ HasRouter(i)
    /\ Goes(i, IF op[i].child \in alive THEN "asked" ELSE "done")
    /\ Replied(i)
    /\ mailbox' = Post(mailbox, op[i].child, Msg("get_state", i))
    /\ UNCHANGED <<treeVars, ledgerVars, busy, op, workVars, costVars, editVars>>

HandleGetState(a) ==
    /\ Receives(a, "get_state")
    /\ LET i == Head(mailbox[a]).id
       IN /\ seen' = [seen EXCEPT ![i] = budget[a]]
          /\ Goes(i, "known")
    /\ mailbox' = Handled(a)
    /\ UNCHANGED <<treeVars, ledgerVars, busy, op, reply, ids, sum, costVars, editVars>>

\* The child died first: nil, which releases nothing
GetStateExits(i) ==
    /\ At(i, "dismiss", "asked") /\ op[i].child \notin alive
    /\ Goes(i, "known")
    /\ UNCHANGED <<treeVars, ledgerVars, busy, mailbox, op, reply, workVars, costVars, editVars>>

SumOf(S) == MapThenSumSet(LAMBDA a : costs[a], S)

\* mark_subtree_dismissing, then the SELECT of the cost transaction
SelectCosts(i) ==
    /\ At(i, "dismiss", "known")
    /\ dismissing' = dismissing \cup LiveSubtree(op[i].child)
    /\ ids' = [ids EXCEPT ![i] = Subtree(op[i].child)]
    /\ sum' = [sum EXCEPT ![i] = SumOf(Subtree(op[i].child))]
    /\ Goes(i, "selected")
    /\ UNCHANGED <<alive, ledgerVars, busy, mailbox, op, reply, seen, costVars, editVars>>

\* Rows of S changed while another transaction had read them
Races(i, S) ==
    \E j \in Ops \ {i} : At(j, "dismiss", "selected") /\ ids[j] \cap S # {}

\* Mutant: what was read is not deleted
Copied(i) ==
    [a \in Agents |-> costs[a] + (IF a = op[i].by THEN sum[i] ELSE 0)]

Moved(i) ==
    [a \in Agents |-> IF a \in ids[i] THEN 0
                      ELSE costs[a] + (IF a = op[i].by THEN sum[i] ELSE 0)]

\* DELETE of the rows and INSERT of what was read, for the parent; nothing to
\* absorb deletes nothing
CommitAbsorption(i) ==
    /\ At(i, "dismiss", "selected")
    /\ IF sum[i] = 0 THEN UNCHANGED <<costs, raced>>
       ELSE /\ costs' = Moved(i)
            /\ raced' = (raced \/ Races(i, ids[i] \cup {op[i].by}))
    /\ Goes(i, "absorbed")
    /\ UNCHANGED <<treeVars, ledgerVars, busy, mailbox, op, reply, workVars, incurred, editVars>>

\* The transaction is rolled back; the dismissing flags stay set
AbsorptionFails(i) ==
    /\ At(i, "dismiss", "selected")
    /\ Goes(i, "failed")
    /\ UNCHANGED <<treeVars, ledgerVars, busy, mailbox, op, reply, workVars, costVars, editVars>>

\* Mutant: an allocation that was adjusted away from the spawn's is not released
ReleasesSpawned(i) ==
    /\ seen[i].mode = "allocated"
    /\ \E j \in OpsOn("spawn", op[i].child) : seen[i].allocated = op[j].amount
    /\ op[i].by \in alive

\* maybe_release_escrow: a call to the parent, if the child had an allocation
Releases(i) ==
    /\ seen[i].mode = "allocated" /\ seen[i].allocated # NA
    /\ op[i].by \in alive

TerminateSubtree(i) ==
    /\ At(i, "dismiss", "absorbed")
    /\ LET dead == LiveSubtree(op[i].child)
           gone == UNION {ChildrenOf(a) : a \in dead}
           left == [a \in Agents |-> IF a \in dead THEN <<>> ELSE mailbox[a]]
       IN /\ alive' = alive \ dead
          /\ dismissing' = dismissing \ dead
          /\ busy' = [a \in Agents |-> IF a \in dead THEN 0 ELSE busy[a]]
          /\ budget' = [a \in Agents |-> IF a \in dead THEN NewChild(NA) ELSE budget[a]]
          /\ listed' = listed \ gone
          /\ known' = [a \in Agents |-> IF a \in gone THEN NA ELSE known[a]]
          /\ mailbox' = IF Releases(i) THEN Post(left, op[i].by, Msg("release", i)) ELSE left
    /\ Goes(i, IF Releases(i) THEN "releasing" ELSE "released")
    /\ UNCHANGED <<op, reply, workVars, costVars, editVars>>

\* handle_release_child_budget
HandleRelease(a) ==
    /\ Receives(a, "release")
    /\ LET i == Head(mailbox[a]).id
       IN /\ budget' = [budget EXCEPT ![a] = ReleaseCommitted(@, seen[i].allocated)]
          /\ Goes(i, "released")
    /\ mailbox' = Handled(a)
    /\ UNCHANGED <<treeVars, listed, known, busy, op, reply, workVars, costVars, editVars>>

\* The release done, or its call broken off by the parent's end
FinishDismissal(i) ==
    /\ \/ At(i, "dismiss", "released")
       \/ At(i, "dismiss", "releasing") /\ op[i].by \notin alive
    /\ Goes(i, "done")
    /\ mailbox' = Post(mailbox, op[i].by, Msg("child_dismissed", i))
    /\ UNCHANGED <<treeVars, ledgerVars, busy, op, reply, workVars, costVars, editVars>>

HandleChildDismissed(a) ==
    /\ Receives(a, "child_dismissed")
    /\ Unlist(op[Head(mailbox[a]).id].child)
    /\ mailbox' = Handled(a)
    /\ UNCHANGED <<treeVars, budget, busy, opVars, workVars, costVars, editVars>>

-----------------------------------------------------------------------------
(* Costs, and the user's edit of the task's budget *)

RecordCost(a) ==
    /\ a \in alive /\ Fits(1)
    /\ costs' = [costs EXCEPT ![a] = @ + 1]
    /\ incurred' = incurred + 1
    /\ raced' = (raced \/ Races(0, {a}))
    /\ UNCHANGED <<treeVars, ledgerVars, busy, mailbox, opVars, workVars, editVars>>

\* The dashboard reads the root agent's budget ...
BeginEdit(new) ==
    /\ Root \in alive /\ edit = {} /\ Fits(2)
    /\ edit' = {[budget[Root] EXCEPT !.allocated = new]}
    /\ edits' = edits + 1
    /\ UNCHANGED <<treeVars, ledgerVars, busy, mailbox, opVars, workVars, costVars, torn>>

\* ... and sends the whole of it back with the new limit
SendEdit ==
    /\ edit # {} /\ Root \in alive
    /\ \A k \in DOMAIN mailbox[Root] : mailbox[Root][k].type # "update_budget_data"
    /\ mailbox' = Post(mailbox, Root, Msg("update_budget_data", 0))
    /\ UNCHANGED <<treeVars, ledgerVars, busy, opVars, workVars, costVars, editVars>>

HandleUpdateBudgetData ==
    /\ Receives(Root, "update_budget_data")
    /\ \E new \in edit :
          /\ budget' = [budget EXCEPT ![Root] = new]
          /\ torn' = (torn \/ new.committed # budget[Root].committed)
    /\ edit' = {}
    /\ mailbox' = Handled(Root)
    /\ UNCHANGED <<treeVars, listed, known, busy, opVars, workVars, costVars, edits>>

-----------------------------------------------------------------------------
Init ==
    /\ alive = {Root}
    /\ budget = [a \in Agents |-> IF a = Root THEN NewRoot ELSE NewChild(NA)]
    /\ listed = {} /\ known = [a \in Agents |-> NA]
    /\ dismissing = {}
    /\ busy = [a \in Agents |-> 0]
    /\ mailbox = [a \in Agents |-> <<>>]
    /\ op = <<>>
    /\ stage = [i \in Ops |-> "none"] /\ reply = [i \in Ops |-> "none"]
    /\ seen = [i \in Ops |-> NewChild(NA)]
    /\ ids = [i \in Ops |-> {}] /\ sum = [i \in Ops |-> 0]
    /\ costs = [a \in Agents |-> 0] /\ incurred = 0 /\ raced = FALSE
    /\ edit = {} /\ edits = 0 /\ torn = FALSE

AgentStep(a) ==
    \/ TakeAction(a) \/ TakeBatch(a)
    \/ HandleResult(a) \/ HandleChildSpawned(a) \/ HandleSpawnFailed(a)
    \/ HandleAdjust(a) \/ HandleSetAllocated(a)
    \/ HandleGetState(a) \/ HandleRelease(a) \/ HandleChildDismissed(a)
    \/ RecordCost(a)

OpStep(i) ==
    \/ RejectAction(i) \/ CastReply(i) \/ AcknowledgeDismiss(i)
    \/ ExecuteSpawn(i) \/ StartChild(i) \/ FailSpawn(i) \/ AnnounceChild(i)
    \/ ExecuteAdjust(i)
    \/ ExecuteDismiss(i) \/ GetStateExits(i) \/ SelectCosts(i) \/ CommitAbsorption(i)
    \/ AbsorptionFails(i) \/ TerminateSubtree(i) \/ FinishDismissal(i)

EditStep == (\E new \in Amounts : BeginEdit(new)) \/ SendEdit \/ HandleUpdateBudgetData

Next == (\E a \in Agents : AgentStep(a)) \/ (\E i \in Ops : OpStep(i)) \/ EditStep

Spec == Init /\ [][Next]_vars

-----------------------------------------------------------------------------
(***************************************************************************)
(* Properties                                                              *)
(***************************************************************************)

\* The ledger has its types, and every message and waiting agent names an action
\* that was taken, of the kind its handler expects.
LedgerTypeOK ==
    /\ alive \subseteq Agents
    /\ budget \in [Agents -> Budgets]
    /\ listed \subseteq Agents \ {Root} /\ known \in [Agents -> Nat \cup {NA}]
    /\ Len(op) <= MaxOps
    /\ stage \in [Ops -> Stages] /\ reply \in [Ops -> Replies]
    /\ busy \in [Agents -> {0} \cup DOMAIN op]
    /\ mailbox \in [Agents -> Seq(Messages)]
    /\ seen \in [Ops -> Budgets]
    /\ edit \subseteq Budgets

CostTypeOK ==
    /\ op \in Seq(OpType)
    /\ ids \in [Ops -> SUBSET Agents] /\ sum \in [Ops -> Nat]
    /\ costs \in [Agents -> Nat] /\ incurred \in Nat /\ edits \in Nat
    /\ raced \in BOOLEAN /\ torn \in BOOLEAN

\* No handler meets a value it does not expect: committed never becomes negative
\* (schema.ex:75), and what a message refers to exists.
TypeOK == LedgerTypeOK /\ CostTypeOK

HasLimit(p) == p \in alive /\ budget[p].mode # "na"

\* The uses of the actions for which the code does not keep the escrow: a child
\* dismissed twice, dismissed after a batched spawn, or adjusted during or after
\* its dismissal
Misused(c) ==
    /\ OpsOn("dismiss", c) # {}
    /\ \/ Cardinality(OpsOn("dismiss", c)) > 1
       \/ \E i \in OpsOn("spawn", c) : op[i].batched
       \/ \E i \in OpsOn("adjust", c), j \in OpsOn("dismiss", c) : op[i].batched \/ j < i

\* What the parent has decided child c may spend, as far as it was told
Share(c) ==
    IF known[c] # NA THEN known[c]
    ELSE IF \E i \in OpsOn("spawn", c) : reply[i] = "handled" /\ op[i].amount # NA
    THEN op[CHOOSE i \in OpsOn("spawn", c) : TRUE].amount
    ELSE 0

\* Children a dismissal has not released yet
Holding(p) ==
    {c \in listed \cap ChildrenOf(p) :
        \A i \in OpsOn("dismiss", c) : stage[i] \notin {"released", "done"}}

\* The escrow of a parent with a limit covers what it has allocated to the
\* children it lists, however spawns, adjustments, dismissals and their
\* background tasks interleave: lock in action_result_handler.ex:220, move in
\* budget_handler.ex:31, release in dismiss_child.ex:270.
EscrowCoversChildren ==
    \A p \in Agents :
        HasLimit(p) /\ ~(p = Root /\ torn) /\ (\A c \in ChildrenOf(p) : ~Misused(c)) =>
            budget[p].committed >= MapThenSumSet(Share, Holding(p))

\* A dismissal has given the allocation of c back
GivenBack(c) ==
    \E i \in OpsOn("dismiss", c) : seen[i].mode = "allocated" /\ stage[i] \in {"released", "done"}

\* What the parent may still hold back for c.  A child that was listed before the
\* result of its spawn was handled has been listed without its allocation, which
\* its first adjustment then commits a second time.
Owed(c) ==
    LET twice == IF OpsOn("adjust", c) = {} THEN 0
                 ELSE MapThenSumSet(LAMBDA i : IF op[i].amount = NA THEN 0 ELSE op[i].amount,
                                    OpsOn("spawn", c))
    IN  twice + IF GivenBack(c) THEN 0 ELSE Share(c)

\* The other direction: nothing stays committed without a child it was committed
\* for.  A dismissal gives back what the spawn and the adjustments locked
\* (dismiss_child.ex:270), once, and only a spawn that failed keeps its share.
EscrowIsOwed ==
    \A p \in Agents :
        HasLimit(p) /\ ~(p = Root /\ torn) /\ (\A c \in ChildrenOf(p) : ~Misused(c)) =>
            budget[p].committed <= MapThenSumSet(Owed, ChildrenOf(p))

\* The parent was never given less than it started with
Undisturbed(p) == OpsOn("adjust", p) = {} /\ (p = Root => edits = 0)

\* Nobody commits more than it was allocated although every spawn is checked
\* against a copy of the budget: the parent waits for the reply before its next
\* action (budget_validation.ex:84).  Batches share one copy and do not wait.
CommittedWithinAllocation ==
    \A p \in Agents :
        HasLimit(p) /\ Undisturbed(p) /\ (\A i \in DOMAIN op : op[i].by = p => ~op[i].batched) =>
            budget[p].committed <= budget[p].allocated

\* Below a budgeted agent nobody is without a limit: budget_required
\* (budget_validation.ex:18), whatever was adjusted in between.
BudgetIsInherited ==
    \A c \in alive \ {Root} :
        HasLimit(ParentOf(c)) => budget[c].mode = "allocated" /\ budget[c].allocated # NA

\* Absorbing costs neither loses nor duplicates one unless the rows changed
\* between the transaction's SELECT and its DELETE (cost_transaction.ex:24).
CostsConservedUnlessRaced == ~raced => SumOf(Agents) = incurred

\* The same without the exception: cost_transaction.ex:19 promises to move the
\* costs of a subtree atomically.
CostsConserved == SumOf(Agents) = incurred

\* Escrow.ex:5: a parent commits funds when spawning a child, in a batch or not
SpawnCommits ==
    \A p \in alive :
        HasLimit(p) /\ busy[p] = 0 /\ mailbox[p] = <<>> =>
            budget[p].committed >=
                MapThenSumSet(LAMBDA c : budget[c].allocated, listed \cap ChildrenOf(p) \cap alive)
=============================================================================
