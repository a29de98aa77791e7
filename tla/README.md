# Quoracle in TLA+

Quoracle runs a tree of LLM agents. Every agent is an Elixir process that asks
several models what to do next, takes the action they agree on, executes it in a
process of its own and continues when the result arrives. This directory holds
specifications of the parts of that machinery where the order of messages,
timers, crashes and decisions matters, the TLC configurations that check them on
small instances, and TLAPS proofs of the invariants for every value of the
constants. Source paths below are relative to `src/lib/quoracle/`, but for those
of the LiveBench scoring scripts, which are in `src/priv/groves/livebench/scripts/`.

## Inventory

| Component | State it keeps | Operations | Works with | What makes it correct |
|---|---|---|---|---|
| Agent process: `agent/core*`, `agent/message_handler*`, `agent/state_utils.ex`, `agent/consensus_handler/action_executor.ex` | `pending_actions`, `queued_messages`, `consensus_scheduled`, `wait_timer`, `consensus_retry_count`, `correction_feedback`, `action_counter`, `active_routers`, `shell_routers`, model histories | receive a message, a result, a trigger, a timer; run a consensus cycle; dispatch an action; stop | its dispatch Tasks, Routers, parent, children, the task manager | nothing received is lost, duplicated or left waiting; one action at a time; every wait ends |
| Router: `actions/router*` | one action, its timer or shell port | execute, acknowledge early, finish a command, forward a timer | agent (casts, monitor), Task (call) | exactly one answer to the caller, then the announced notification |
| Budget: `budget/`, `agent/core/budget_handler.ex`, `actions/adjust_budget.ex`, `actions/spawn/budget_validation.ex` | `budget_data` (mode, allocated, committed) and `over_budget` per agent, recorded costs | allocate at spawn, adjust, release at dismissal, enforce | parent and child agents, costs table | what a parent has promised never exceeds what it has; committed is the sum of its children's allocations |
| Agent tree: `actions/spawn*`, `actions/dismiss_child*`, `agent/tree_terminator.ex`, `agent/core/children_tracker.ex`, registry | `children`, `dismissing`, registry entries, agent records | spawn in the background with retries, dismiss a subtree, track | Registry, DynSup, database, budget | the children list, the registry and the records agree once background work ends; no orphan survives a dismissal |
| Consensus: `agent/consensus*`, `consensus/`, `actions/consensus_rules.ex` | round, proposals, clusters | query models, cluster, refine, force a decision, merge parameters | model queries | a majority wins, the number of rounds is bounded, the result does not depend on the order of answers |
| Model histories: `agent/consensus/per_model_query/`, `agent/token_manager.ex`, `agent/history_transfer.ex`, reflector, lessons | a history and context lessons per model | append, condense, transfer | consensus cycle | an entry leaves a history oldest first, once, and only to be reflected on |
| Task life cycle: `tasks/`, `boot/agent_revival.ex` | task status, agent records | create, pause, resume, restore a tree, revive at boot | supervisor, registry, database | a paused task has no agent left, a restored tree is the one that was paused |
| LiveBench scoring: `score-*.py`, `score-run.sh` | none: text in, score out | find the answer in a response, score it, average | the harness calls one script per answer | the last answer counts, full marks take the whole answer, every score is a fraction |
| Infrastructure: `mcp/`, `providers/`, `ui/`, `pubsub/`, `costs/` | connections, ring buffers, cost rows | connect, retry, buffer, record | everything above | bounds and retries |
| Configuration and text: `fields/`, `groves/`, `profiles/`, `skills/`, `models/`, `security/`, web interface | text, rows, files | assemble, validate, render | | not a subject for model checking |

### What is hard here

* **Interleaving.** An agent has one mailbox and a dozen kinds of message, and
  five flags (`pending_actions`, `queued_messages`, `consensus_scheduled`,
  `wait_timer`, retry count) decide what each of them does.
* **Two senders per action.** The Task that called the Router casts the reply;
  the Router itself casts the second phase, the timer expiry or the late result.
  Erlang orders messages of one sender only.
* **Messages taken out of the middle.** `drain_trigger_messages` removes every
  `:trigger_consensus` from the mailbox, current or not.
* **Background work.** Spawning and dismissing finish in processes that outlive
  the action and report to the parent later, or never.
* **Snapshots.** Spawn, dismiss and budget decisions use values copied when the
  action was dispatched.
* **Shutdown.** `terminate/2` stops every Router and waits for each without a
  timeout.

`PROJECT.json` lists each hazard at its line with the properties that cover it.

## Plan

Order of the modules, most important behaviour first:

1. `AgentCore` with `AgentCoreProofs`: one agent, its Tasks and Routers. *Done.*
2. `BudgetTree` with `BudgetTreeProofs` and `EscrowBalanceProofs`
   (over `SetSums`): parent and children ledgers, spawn, adjust, dismiss, costs.
   *Done*, every invariant is proved.
3. `TaskTree`: registry and supervisor, background spawn, breadth-first dismissal,
   and the task's life cycle (pause, resume, delete, restore, boot revival) with
   the dashboard page that drives it. One module, as all of these act on the same
   processes and race with each other. *Done*, with `TaskTreeProofs`.
4. `MajorityRule` and `Consensus`: the voting rule as an abstract specification,
   and the pipeline with per-model histories, condensation, persistence and pool
   switches, which implements it, with `MajorityRuleProofs` and `ConsensusProofs`.
   *Done.*
5. `Scores` and the modules it extends: the LiveBench scoring scripts. *Done*, with
   `ScoresProofs`.
6. Batch actions and infrastructure (event history, retry helper), where the
   behaviour warrants a module.

`AgentCore`, `BudgetTree`, `TaskTree` and `Consensus` are views of the same agents
at different zooms: what one of them treats as a single step (a consensus cycle in
`AgentCore`, a termination in `BudgetTree`, a spawn's escrow in `TaskTree`) another
takes apart. They share no variables; each section says what it leaves to which
other module. The one composition by refinement is `Consensus` with `MajorityRule`.

## AgentCore

`AgentCore.tla` models one agent process and, for each action it decides on, the
Task that dispatches it and the Router that executes it.

| Specification | Code |
|---|---|
| `mailbox` | the process mailbox, a sequence handled at its head; `taken` marks a slot whose message was drained |
| `HandleAgentMessage` | `agent/message_handler.ex` `handle_agent_message` |
| `HandleTrigger`, `IgnoreStaleTrigger` | `message_info_handler.ex` `handle_trigger_consensus` |
| `HandleWaitExpired`, `IgnoreStaleWaitExpired` | `message_info_handler.ex` `handle_wait_expired` |
| `Decide`, `ExecuteDecision` | `run_consensus_cycle`'s success branch and `execute_consensus_action` |
| `RetryConsensus`, `ExhaustRetries`, `FailFatally` | its error branch, `MaxConsensusAttempts = 3` |
| `HandleResult`, `IgnoreUnknownResult`, `Continue` | `handle_action_result` and `action_result_handler.ex` |
| `HandleBackground` | the handlers of `batch_completed` and `spawn_failed` |
| `RejectAction`, `CrashTask`, `StartExecution`, `CastReply`, ... | the Task of `action_executor.ex` |
| `RouterReplies`, `RouterTimerFires`, `ShellCompletes`, `AsyncCompletes` | `actions/router.ex` and `actions/router/` |
| `RequestStop`, `HandleStopRequested`, `StopRouter`, `FinishStop` | `:stop_requested` and `terminate/2` |

Abstractions. A message is its number, an action its counter. The thirty or so
actions are represented by ten kinds that differ in how their results come back
(the comment above `AlwaysSync` lists them). LLM calls are the time between
`StartCycle` and `EndCycle`, during which messages arrive and nothing is handled.
All model histories receive the same entries, so one history stands for all.
`considered`, `results`, `failures` and `stalls` are history variables.

### Runs

| Run | Bounds | Shows |
|---|---|---|
| `agent_safety` | 2 messages, 2 actions, 3 failures, every kind except `message`/`http`, waits `true` and timed, no pause | the nine safety properties |
| `agent_liveness` | 2 messages, 2 actions, 1 failure, kinds local, message, wait, http, pauses | four liveness properties under `Fairness` |
| `wait_false`, `late_result`, `stop_deadlock` | the smallest instance that shows it | see *Divergences* |

Two actions are enough for a result to meet another action's timer, Router or
pending entry, two messages for one to be queued while the other is recorded, and
three failures exhaust the retries. `message` and `http` differ from `local` only
in how a wait value is treated when the result arrives and are exercised in the
liveness run. `CHECK_DEADLOCK` is off: an agent whose bounded supply of messages
and actions is used up, or that was stopped, has nothing left to do.
`TinyWaits` lets a `:wait` of a fraction of a second expire before its result is
handled; the safety run has it on (and `WaitTimerIsLive` excludes the timers it
affects), the liveness run has it off.

`SingleFlight` holds until a batch, spawn or shell command has been decided on:
those notify the agent later by themselves and start a cycle no matter what is
open. `EveryMessageConsidered` is checked for kinds whose only message is the
Task's reply; with smart-mode or shell actions the run of `late_result` also
leaves a message unconsidered.

### Fairness

`Receive`, `EndCycle`, `Dispatch`, the agent's timer and the `:wait` Router's
timer are weakly fair: a GenServer with a message handles it, an LLM query and an
action end or time out, and a timer fires. No fairness is put on `SendMessage`,
`RequestStop`, `ShellCompletes`, `AsyncCompletes` or `BackgroundReports`: nobody
has to write to the agent, and a command may run forever.

### Divergences of the code from what its documentation says

* `wait_false`: a `:wait` action with `wait: false` is read as
  `params.wait || true` (`action_executor.ex:49`) and parks the agent, although
  the schema documents `false` as immediate.
* `late_result`: the late result of an action that was acknowledged after 100 ms
  cancels the wait timer before it is found to be unknown
  (`message_handler.ex:243`); the timed wait that was running never ends.
* `stop_deadlock`: a pause while `adjust_budget` runs: `terminate/2` waits for
  the Router without a timeout, the Router waits for the agent's answer.

Also met while modelling, without a run of their own: a Router stays alive after a
rejected, smart-mode or `batch_async` action, although `router.ex:5-6` says it
terminates after completion; a trigger from a timer that was cancelled ends the
next timed wait early, as it carries no identity
(`message_info_handler.ex:245-249`); a `:wait` shorter than the round trip of its
result expires before `wait_timer` is set and is then ignored, so the wait does
not end; the retry counter is not reset when the attempts are exhausted, so the
next failing cycle is reported as three attempts after one
(`message_handler.ex:382-385`); a shell command terminated through its `check_id`
leaves its acknowledged entry in `pending_actions`.

### Proofs

`AgentCoreProofs.tla` proves every safety invariant of the module, for any number
of messages, actions and failures, any set of kinds and waits, with and without
pauses and very short waits, from `BoundsAssumption` alone:

* `TypeCorrect`: `Spec => []TypeOK`;
* `QueueGuarded`: queued messages have an open action or a scheduled cycle;
* `ScheduledTriggers`: `consensus_scheduled` implies a trigger in the mailbox;
* `OpenActionsAnswered`: an open action has a Task at work or a result in the
  mailbox;
* `ShellRoutersAreMonitored`: the `check_id` table names monitored Routers only;
* `ResultsAreRecordedOnce`: an action's result is recorded once, a command's at
  most twice;
* `FlightsAreSingle`: no cycle over an open action and never two open actions,
  until an action is taken that notifies the agent on its own;
* `WaitTimersAreLive`: a set `wait_timer` still wakes the agent;
* `MessagesRecordedOnce`: every message is recorded once and in the order sent.

The first four are inductive together with `TypeOK`. The argument is the same in
each: a lemma says how the two mailbox operations (append at the end, remove the
head) and draining keep the messages that matter, then one step per action. The
fifth needs the strengthening `RoutersMonitored`: every live Router is monitored,
and a command is acknowledged by a Router that exists.

The others need the order of the mailbox. `ReceiveShift` says that receiving moves
every message that is no trigger one place forward, so what is there once stays
once (`Once`) and what comes first stays first (`Precedes`); a delivered message
comes last. `StepCases` reduces a step to four views (a receive step, a decision, a
move of one action's processes, anything else), which keeps each induction to four
cases. On these rest, as invariants of their own:

* `FreshInv`: nothing is known of an action before it is decided on, and the wait
  timer belongs to a decided one;
* `SenderInv`: only a shell command is acknowledged as running, once and by its
  Task; only an action that notifies has a background process; only a check runs
  without a Router of its own;
* `ResultInv`: an open action has no result yet; an acknowledged one is a command
  with one result, whose Task is done and whose acknowledgement is out of the
  mailbox, so the second result is the last;
* `FlightInv`: while no action notifies, at most one of an open action, a cycle, a
  scheduled cycle and a wait timer exists: this is why no trigger or expiry can
  start a cycle while an action is open;
* `TimerInv`: unless waits are very short, a `:wait` action's reply is in the
  mailbox before its expiry, and until it is handled the Router's timer runs or the
  expiry waits behind it.

`EveryMessageOnce` is inductive with `QueueIsGuarded`: the message received is the
next one to record (`NextMessage`), and it is recorded directly only when nothing is
queued before it.

The liveness properties are model-checked only: TLAPS has no rule for fairness,
which is stated through `ENABLED`.

### Not modelled in the agent

DOWN messages of processes that are not Routers and `EXIT` signals, profile and
skill updates, the test-only entry points (`set_wait_timer`, `{:message, ...}`,
`wait_timeout` and `_fast_path` have no production callers), what is written to
the database, and the text of history entries.

## BudgetTree

`BudgetTree.tla` models the ledgers of a tree of agents and everything that
writes to them. An agent's `budget` has a mode, an allocation and what it has
committed to its children; `listed` and `known` are its children list with the
`budget_allocated` of each entry. An action the models choose is an entry of `op`
with the snapshot it was dispatched with; `stage` says how far it and then its
background task are, `reply` what became of its result.

| Specification | Code |
|---|---|
| `Available`, `HasAvailable`, `AddCommitted`, `ReleaseCommitted`, `AdjustEscrow` | `budget/tracker.ex`, `budget/schema.ex`, `budget/escrow.ex` |
| `TakeAction`, `TakeBatch`, `Snapshot` | `action_executor.ex` and its `build_execute_opts` |
| `RejectAction`, `CastReply`, `AcknowledgeDismiss` | the Router and the dispatch Task, in the detail needed here |
| `HandleResult` | `action_result_handler.ex`: `maybe_track_child`, `maybe_update_budget_committed` |
| `BudgetValid`, `ExecuteSpawn`, `StartChild`, `FailSpawn`, `AnnounceChild` | `actions/spawn.ex` and `spawn/budget_validation.ex` |
| `ExecuteAdjust`, `MayAdjust`, `HandleAdjust`, `HandleSetAllocated` | `actions/adjust_budget.ex`, `agent/core/budget_handler.ex` |
| `ExecuteDismiss` ... `FinishDismissal`, `HandleRelease` | `actions/dismiss_child.ex`, `dismiss_child/cost_transaction.ex` |
| `TerminateSubtree` | `agent/tree_terminator.ex` |
| `HandleChildSpawned`, `HandleSpawnFailed`, `HandleChildDismissed` | `agent/core/children_tracker.ex`, `message_info_handler.ex` |
| `RecordCost`, `BeginEdit`, `SendEdit`, `HandleUpdateBudgetData` | `costs/recorder.ex`, the dashboard's `event_handlers.ex` |

Abstractions. `AgentCore` has the life of an action inside the agent; here an
agent takes its next action when the result of the last one was handled, and the
actions of a batch share one snapshot and reply to nobody. The parent of an agent
is derived from the spawn that named it, as ids are used once. Amounts are
natural numbers in place of `Decimal`. Marking a subtree as dismissing and the
first statement of the cost transaction are one step, and so is the termination
of a subtree with the removal of its messages. Agents do not crash and the
program does not restart. `incurred`, `raced` and `torn` are history variables.

### Runs

| Run | Bounds | Shows |
|---|---|---|
| `budget_tree` | a root with limit 2 and two agents to spawn anywhere below it, amounts 1 and 2, three actions, load 4 | six invariants |
| `costs_lost`, `batch_escrow` | the smallest instance that shows it | see below |

`MaxLoad` bounds actions, cost rows and edits together: an action and a cost row
weigh one, an action of a batch and an edit two. Within load 4 fit three actions
and a cost, two actions and an edit, one action and a batch of one, a batch of
two. That is enough for a child to be spawned, adjusted and dismissed while it
spends, for two children of one parent, for a grandchild dismissed with its
parent, and for an edit to overtake a commit. The same invariants also held with
`MaxLoad = 5`, which takes longer than a run should.
The two agents are interchangeable, hence the symmetry. `CHECK_DEADLOCK` is off
because the supply of actions is bounded. There is no liveness property: a
background task has no deadline, and nothing is promised about when it ends.

`EscrowCoversChildren` leaves out parents with a child in `Misused` (a child
dismissed twice, dismissed after a batched spawn, or adjusted during or after its
dismissal) and a root whose ledger an edit has overwritten (`torn`): for those the
code keeps no escrow, as described below. `EscrowIsOwed` is its counterpart under
the same exceptions: what is committed is owed to some child, that is the two never
drift apart upwards either; it admits the two ways the code does let them, the share of
a spawn that failed and the second commit for a child that was listed without its
allocation. `CommittedWithinAllocation` leaves out
agents that used batches, and agents whose own allocation was changed after they
started, since a decrease looks only at what the child has spent, not at what it has
committed.

### Divergences

* `costs_lost`: `absorb_subtree` reads the costs of a subtree and deletes the rows
  in a second statement; a cost recorded in between is deleted unread, although
  `cost_transaction.ex:19` says it is done atomically.
* `batch_escrow`: a spawn inside a batch allocates to the child and commits nothing
  in the parent; `escrow.ex:5` says the parent commits when spawning.

Also met while modelling, without a run of their own:

* A spawn that fails after it was accepted, or whose child dies before it is
  announced, leaves its allocation committed for ever.
* `child_spawned` may overtake the spawn's own result. The child is then listed
  without its allocation, and a later adjustment commits the whole new amount
  again instead of the difference.
* A child dismissed twice has its allocation released twice, and the second
  cost transaction may run while the first does.
* Adjusting a child during its dismissal commits an amount that is not released.
* The dashboard reads the root's ledger and sends it back whole, so a commit or
  release in between is undone, although `event_handlers.ex:449` speaks of
  preserving it; and the new limit is not compared with what is committed.
* An agent without a limit that is given one by `adjust_budget` keeps its mode
  `:na`, so nothing is enforced for it.
* A cost transaction that fails leaves the subtree marked as dismissing.
* A cost recorded after the transaction and before the termination stays with the
  dead agent and is no longer part of its parent's spending.
* `over_budget` is not among the options of `build_execute_opts`
  (`action_executor.ex:311-338`), so the Router's enforcement is never reached.
* The ledger is not persisted: a restored agent has no limit.

### Proofs

`BudgetTreeProofs.tla` proves, for any set of agents, any amounts and limit, any
number of actions, batches and edits, from `ParametersAssumption` alone:

* `LedgerTyped`: `Spec => []LedgerTypeOK`. What is committed is a natural number,
  and every message, and every agent that waits, names an action that was taken,
  of the kind its handler expects. It is inductive with `OpsTyped`, which says what
  an action names.
* `BudgetInherited`: `Spec => []BudgetIsInherited`. The check is made against a
  snapshot, long before the child exists, and parent and child may have been
  adjusted or the limit edited since. The argument needs that nothing changes an
  agent's mode while it lives, so that the mode in a snapshot is never stale
  (`SnapshotModes`); that a spawn past its check without an amount was made
  without a limit (`SpawnsChecked`); that an id is spawned once and nobody acts
  before its start (`SpawnsAreOnce`, `StartedFirst`), so that a start never
  replaces the ledger of an agent with actions under way; and that no handler
  takes an allocation away (`AllocationStays`). Together these are `InheritInv`,
  which is inductive relative to the types. The lemma `Inherited` treats all steps
  that neither take an action nor start an agent; two lemmas treat those.

`SetSums.tla` is about the sums that costs and escrow are made of. A fold over a
set is defined by recursion on the set, whose principle of induction the provers
cannot instantiate, so `Total(f, S)` is characterised another way: there is a
function on the subsets of a finite set that is 0 on the empty one and that every
element adds its value to, whichever is taken first, and there is only one
(`TotalSolves`, `OneSolution`). Its lemmas say what a sum is after one value changed
(`TotalChange`), of a union (`TotalUnion`) and of a part (`TotalOfPart`).

`BudgetTreeProofs.tla` goes on to the costs:

* `TypeCorrect`: `Spec => []TypeOK`, the costs included.
* `CostsConservedByAbsorption`: `Spec => []CostsConservedUnlessRaced`. While no cost
  was recorded between the two statements of a transaction, what the transaction
  read is still the sum of the subtree's costs, and the deletion sets them to 0 as it
  adds that sum to the parent.

It ends with `NobodyOvercommits`,
`Spec => []CommittedWithinAllocation`. A spawn is checked against a snapshot taken
when it was dispatched, and what it commits is added when its result is handled;
what has to be shown is that nothing else is committed in between. The invariants
are, in the order they rest on each other:

* `FlowInv`: every action is at a stage of its kind (`ReplyInv`), and every message
  is `Due`: it is in the mailbox of the agent it concerns, once, and its action is
  still at the stage the handler expects (`MailInv`). `OpMoves` and `HandlerMoves`
  say how each step moves one action, `MovedByMessage` what a handler does to it.
* `BusyInv`: a living agent that has not handled the reply to an action waits for
  it and has taken none since.
* `LimitInv`: an agent with a limit has an allocation, what an edit is about to
  write too, and a dismissal that releases one has read it.
* `WithinInv`: what is committed, together with what an open spawn will still add
  (`RoomFor`), is within the allocation; until a spawn is checked, its snapshot shows
  no less committed than there is.

Each has one lemma per group of steps (taking an action, the steps of an action in
the background, handlers of messages, the dashboard's edit).

`EscrowBalanceProofs.tla` proves `CommittedCoversChildren`,
`Spec => []EscrowCoversChildren`, and `CommittedIsOwed`, `Spec => []EscrowIsOwed`.
Both follow from one balance: what a parent has committed lies between the sum of
what it must hold back for its children (`Held`) and the sum of what it may at most
hold back (`Locked`). A step that moves the committed amount by `d` moves both sums
by `d` (`BalanceMoves`), all others leave the sums where they were or let them drift
apart in the right direction (`BalanceRests`). The difficulty is to know `d`: a
dismissal releases what it *read* from the child, some steps earlier, and an
adjustment commits the difference to what the parent *knows*. So the balance rests
on five invariants about that knowledge:

* `ChildInv`: when a child is listed and with which allocation, and when it is
  unlisted again; that nobody is adjusted before it was started; what a failed start
  and a dismissal leave behind.
* `ToldInv`: the last allocation in a child's mailbox or, if there is none, the one
  it works with is its share in its parent's books. `TellsLast` treats the mailbox as
  the sequence it is: an adjustment may still be on its way.
* `DismissInv`: a dismissal asks a living child, behind every allocation that was
  sent to it (`NoneBehind`), so what it reads is the child's share, and stays so
  until it is released; the release reaches the parent before the child is taken off
  its list (`NotBefore`).
* `SeenInv`: a dismissal that has not been answered has read nothing.
* `DeathInv`: a child that is gone was ended by a dismissal that gives its allocation
  back. This is what makes unlisting it safe, and it needs that a child of a limited
  parent has a limit (`BudgetInherited`).

All hold only for children that are not `Misused`; a dismissal after which the child
is adjusted breaks `DismissInv`, which is the divergence described above. Each has
one lemma per group of steps, as before; `Handles` gives one view of the nine
handlers, by message type, that these lemmas share. `WholeInv` is the conjunction
that is inductive. The properties' sums over `Share` and `Owed` are brought to `Total`
in `ShareSum` and `OwedSum`.

No invariant of `BudgetTree` is left model-checked only.

### Hazards that no property covers

Two hazards have no property, because the code has nothing that would prevent them
and a property would only restate that: the trigger of a cancelled timer that ends
the next wait (see *AgentCore*), and a child dismissed twice (excluded by name from
the escrow's invariants).

## TaskTree

`TaskTree.tla` models the agents of one task as processes under a supervisor, and
everything that starts or ends them. The code finds agents in two ways, by id and
by pid, and the difference is the point of the model: a pid is an id and a count
of the processes it has had, a child's `config` holds the pid of its parent, and a
restart by the supervisor makes that link stale.

| Specification | Code |
|---|---|
| `registry`, `inc`, `config`, `Start`, `Exit` | the Registry, `agent/dyn_sup.ex`, `agent/registry_queries.ex` |
| `SetUp`, `PersistAgent` | `agent/core.ex` `handle_continue`, `agent/core/initialization.ex` |
| `HandleNews`, `Track`, `Untrack` | `agent/core/children_tracker.ex` |
| `Crash`, `Restart` | `restart: :transient` (`dyn_sup.ex:446`), `terminate/2` |
| `AcceptSpawn`, `StartChild`, `FailSpawn`, `Announce`, `AwaitChild`, `TellParent` | `actions/spawn.ex` and the spawn task |
| `BeginDismissal`, `MarkSubtree`, `AbsorbCosts`, `RollBackCosts`, `TellDismisser` | `actions/dismiss_child.ex` |
| `FlagAgent`, `ScanChildren`, `FindNext`, `StopFound` | `agent/tree_terminator.ex` |
| `ClickPause`, `ClickDelete`, `SendStop`, `SweepLate`, `DeleteTask` | `tasks/task_restorer.ex` `pause_task`, `tasks/task_manager.ex` `delete_task` |
| `ClickResume`, `RestoreAgent`, `SkipAgent`, `FailToRestore`, `RebuildChildren`, `SweepOrphans` | `tasks/task_restorer.ex` `restore_task` and its helpers |
| `NodeCrash` | `boot/agent_revival.ex` |
| `Reload`, `HandleAgentSpawned`, `HandleAgentTerminated` | the dashboard's data loader and message handlers |

Abstractions. There is one dashboard page, one dismissal and one restoration at a
time, and every id is spawned at most once. The three attempts of a spawn are one
outcome. The supervisor's limit of restarts is left out, and it handles an exit
before a start requested later. `RebuildChildren` and `SweepOrphans` with the
final status are one step each. A click may be handled before events that are
already in the page's mailbox. Costs and escrow of a dismissal are in
`BudgetTree`, everything else an agent does is in `AgentCore`. `late`, `crashed`,
`missed` and `dismissed` are history variables.

### Runs

| Run | Bounds | Shows |
|---|---|---|
| `task_tree` | a root and its child, one more agent to spawn anywhere, two events out of dismissal, pause, resume, delete, reload, crash, failed spawn, rolled-back dismissal, failed restore, crash of the node | five invariants, an action property and a liveness property |
| `delete_revives` | one agent, one pause, one delete | see *Divergences* |

Two events are what each of the races takes: a dismissal or a restoration and one
thing that goes wrong during it, while a spawn, which counts as no event, runs
beside them. Three agents are a chain of root, parent and child, so that an agent
in the middle can be lost, or two siblings. The same properties also held for a
root with two agents to spawn and two events (19 million states), and with two
agents and three events. `CHECK_DEADLOCK` is off: with the events used up and the
mailboxes empty nothing is left to do.

The exceptions in the invariants name what the code does not promise and the
divergences below describe: `late` agents were being started when a sweep or a scan
looked, `missed` ones were down at the time (stopped, or between a crash and the
restart), and an `Unlinked` agent knows a pid of its parent that is no longer its
parent's. `LiveAgentIsPersisted` also passes over an orphan that the restoration
under way is about to stop.

A grandchild of a dismissed agent that is itself below a live one takes four agents,
one more than the run has. That case is covered by the theorem below, and its
invariant was also checked with four agents for subsets of the events.

Fairness. Every agent's own steps, every spawn task, the dismissal task, the page
and the restoration are weakly fair, since the runtime schedules each process. No
fairness is put on clicks, dismissals, spawns, crashes and failures.

### Divergences

* `delete_revives`: `delete_task` kills the agents, the supervisor restarts them,
  and the sweep passes over them because it compares ids; a deleted task runs again.

Also met while modelling, without a run of their own:

* For the same reason a pause misses an agent that crashed and came back between
  the query and the sweep, and the paused task has a running agent.
* `TreeTerminator` finds children by the parent's pid only
  (`tree_terminator.ex:82`). After a restart in the middle of the tree the subtree
  below is flagged, by the other scan, but not terminated, although line 28 speaks
  of preventing orphans.
* A crash loses the `dismissing` flag, and the agent that comes back may spawn a
  child that survives its dismissal. A dismissal that is rolled back leaves the
  flag set for ever.
* A pause during a dismissal: an agent that has already stopped is skipped and its
  children, which may be still alive, are not found; one that stops between lookup and termination keeps its
  row, and is revived with the task.
* A stop that waits in the mailbox is lost in a crash, and an agent with a stop
  pending still accepts a spawn. A spawn in flight when a pause or `cleanup_orphans`
  sweeps survives it.
* A pause while boot revival runs stops what is there; the agents restored later
  run, and the restoration sets the status to running.
* A restore whose root fails skips the children but starts the grandchildren, with
  no parent, stops them again and reports a running task without agents. Whatever
  is below an agent that failed to restore once is marked stopped for good, and
  the failed child remains in its parent's list.
* A child spawned by an agent that has just been restored is taken for an orphan,
  stopped and marked as such.
* `handle_child_restored` adds without looking for a duplicate, and a
  `child_spawned` that arrives after `child_dismissed` lists a child that is gone.
* A child that crashes before the spawn task reaches it is reported as a failed
  spawn and lives on, restarted, unknown to its parent.
* On the page: a spawn during a pause shows the task as running, and the last stop
  then as completed, while the database says pausing; an agent that ends before
  its spawn is announced stays listed, so that the pause never ends on that page; a
  pause without live agents is paused in the database and pausing on the page; a
  crash counts as the end of an agent although it is about to restart; the root of a
  deleted task that restarts appears on the page again. A reload repairs all but
  the last.

### Proofs

`TaskTreeProofs.tla` proves, for any number of agents, any tree and any number of
events, from the assumptions on the constants alone:

* `TypesAreKept`: `Spec => []TypeOK`. `TypeInv` adds the types of the background
  work (dismissal, pause, restoration, page) and what ties them together.
* `PausedTasksAreQuiet`: `Spec => []PausedTaskIsQuiet`. `QuietInv` says where the
  agents of a task that is being paused are: `Held` by the sweep that has still to
  stop them, `Quiet` with a stop in their mailbox, or `Covered` by a late ancestor.
* `LiveAgentsArePersisted`: `Spec => []LiveAgentIsPersisted`. `PersistInv` follows the
  rows through the restoration, which starts agents before it has settled which of
  the others are orphans.
* `RestorationsRebuildTheTree`: `Spec => RestoreRebuildsTree`. `RebuildInv` says of
  each agent that is still to be restored that those above it come first, and of each
  one restored which process of its parent it was given. That the rows are sorted
  topologically enters here.
* `DismissedSubtreesAreGone`: `Spec => []DismissedSubtreeGone`. The walk collects the
  tree breadth-first and stops it from the bottom up, in another order than the one
  in which it grows. `CollectInv` says, while the walk is under way, that an agent
  which is at work below a collected one is excused, collected as well, or still to
  be found by a scan to come (`Clean`), that what has been scanned was flagged and
  accepts no spawn (`Flagged`, `Dead`), and that the collected list has parents
  before children (`InOrderFromRoot`), so that the reverse pass leaves none behind.
  `DoneInv` keeps what a finished dismissal has reached, and `KinInv` and `LinksInv`
  relate a child's link to the processes of its parent.
* `ParentsKnowTheirChildren`: `Spec => []ParentKnowsChildren`. A child enters a list
  through the accepted spawn, the report of its start, or the report of its
  restoration, and only the first two look for a duplicate. `FamilyInv` shows that
  the third can never meet the others: a process of the parent that a restoration has
  started is newer than the one that asked for the child (`PidsInv`, `RenewInv`), so
  no report of the spawn reaches it (`LettersInv`), and its list and its mailbox are
  free of the child when the lists are rebuilt (`UntoldInv`). `FreshInv` then follows
  a spawned child and `KnownInv` a restored one. `EntryStep` says what a step may do
  to one child's place in one list and one mailbox.

Each invariant is preserved by one lemma per group of steps; `StepFacts` and
`IncStep` say what a step may do to the processes and are cited throughout. The
invariants of the dismissal and of the children lists were checked by TLC before
their proofs. Two properties were corrected by the attempt to prove them: `LiveAgentIsPersisted` had no exception
for the orphans, which fails with three events; and `missed` did not include the
children that were down when a dismissal looked for them, which fails with four
agents: a pause has stopped one, the dismissal does not find it, nor its live child.
One was strengthened: `ParentKnowsChildren` used to wait for the spawn to be reported
and for every dismissal and restoration to end, and to leave out late agents; none of
that is needed.

Model-checked only: `PauseCompletes`, because it is a liveness property.

### Not modelled

Fields, prompts and profile of a new task, the registry's conflict check (ids are
unique here), several pages, PubSub topics, and the action records in the logs.

## MajorityRule and Consensus

`MajorityRule.tla` is what the pipeline promises, without prompts, queries and
histories: who may vote in which round, when the vote settles the question, which
proposal wins and whether that is called a consensus or a forced decision.
`Consensus.tla` is the pipeline of one agent: the callback with its working copy of
the state, a query task per model which may condense that model's history before
the query or at the model's request, the merge of what the tasks return, the row
written in the middle of a callback, restarts, kills and pool switches. It
implements `MajorityRule` with `replies` read off its tasks
(`ImplementsMajorityRule`, checked as a PROPERTY).

| Specification | Code |
|---|---|
| `Votes`, `Agreed`, `Settled`, `Verdicts` | `consensus/aggregator.ex`, `agent/consensus.ex` `execute_consensus_process`, `consensus/result.ex` `find_winner` |
| `memory`, `working`, `settled`, `stored` | the process state, the context of the callback, what it will return, the ACE state of the row |
| `Begin`, `CallbackEnds` | `agent/message_handler.ex` `run_consensus_cycle` |
| `Answer`, `Shortened`, `ShortenedOnRequest`, `Condense` | `per_model_query.ex`, `per_model_query/condensation.ex`, `token_manager.ex` |
| `Merged`, `MergeField` | `per_model_query/state_merge.ex` |
| `PersistMerged`, `Persisted` | the single write of the merged state, before the votes are counted |
| `GatherDecision`, `GatherRefinement`, `GatherFallback`, `GatherFailure` | `execute_consensus_process`, `execute_refinement`, the error branch of `get_consensus_with_state_impl` |
| `Decide`, `AddEntry` | `consensus_handler/action_executor.ex`, `state_utils.ex` |
| `Restart` | `core/initialization.ex`, `core/persistence/ace_state.ex`, `terminate/2` |
| `SwitchPool` | `history_transfer.ex` |

Abstractions. A history entry is its number. Which and how many of the oldest
entries a condensation takes depends on token counts and is left open, up to
taking all of them; a condensation at the model's request leaves the last two. An
answer is the proposal it votes for, or nothing: an error, text without JSON, an
invalid action. Equal fingerprints are equal proposals, the scores that break a
tie after the priorities agree are left out, and so are confidence, temperature,
parameter merging and costs. A retry after a failed cycle is a cycle without an
event. The conversation is stored and the action handed over in one step.

Of the lessons the model keeps what they were made from, not what they say. `reflected`
has, for each model, the entries that a condensation handed to the reflection and
whose outcome (lessons, a model state or, if the reflection fails, a fallback
artifact) went into the state. Nothing is claimed of what becomes of that outcome,
because the code promises nothing: a reflection may return no lesson at all
(`reflector.ex:58`, `condensation.ex:209-212`), a similar lesson replaces the one there
was (`lesson_manager.ex:153-184`), and of more than 100 lessons those of the lowest
confidence go (`lesson_manager.ex:136-147`), fallback artifacts first, as they
have confidence 0 (`condensation.ex:439-453`). A condensed entry may therefore leave
no trace. What the properties do say stops at the reflection: no entry is cut from a
history without it, none is reflected on and kept to be reflected on again
(`KeptOrReflectedOnce`), and the same holds of the row at every moment, between
its write and the decision included (`RowAccountsForDecisions`).

### Run

`consensus`: two cycles, pools of two, three and one models, one refinement round
(`MaxRounds = 1`) and forced reflection, two disturbances out of condensations,
restarts, kills and pool switches (a switch that condenses counts twice). Two
cycles make an entry of the first meet the condensation of the second; three
voters and two proposals give unanimity, a majority, and with an answer missing a
tie; two disturbances are two models condensing in parallel, or one condensing
and a crash: between the write of what it condensed and the decision, among others.
382,187 distinct states. `CHECK_DEADLOCK` is off because the cycles are bounded.

Fairness. Weak fairness on each model's answer and on gathering: the callback waits
for its tasks without a timeout, and each query ends by the timeout of its
client. None on events, restarts and switches.

### Divergences

Met while modelling, without a run of their own:

* The total a vote is measured against is the pool in a regular round, but the
  number of responses when a refinement brings none. A plurality of the pool, or in
  round 1 a vote short of unanimity, is then reported as `:consensus`, although
  `aggregator.ex:39-46` requires all for round 1.
* Forced reflection refines once more than `max_refinement_rounds` when that is 0.
* The condensation of refinement rounds, and of a first round that fails, is
  written to the row and then dropped from memory; `consensus.ex:60` says that
  the updated state contains any changes from condensation. The process then has
  the entries in its history and the row has them as reflected on; the next write
  replaces the row as a whole, so neither ever mixes the two. The tokens of that
  reflection are spent twice.
* An agent that is killed before its row had any state is restarted with no
  histories at all. What it records next goes under `"default"`, which no model
  reads; `config_manager.ex:66-70` repairs this when a task is restored, but
  `initialization.ex:101-108` does not when the supervisor restarts (`astray`).
* A supervised restart after a pool switch returns to the pool of the start
  configuration, while the stored histories are keyed by the new one.
* The condensation of a pool switch is not stored.
* The event of a callback that crashes is lost.
* A condensation by tokens may take the newest entries too; only the one at the
  model's request protects them.

Not modelled: merging of parameters. Read on the way: `Map.get(...) || default`
drops an agreed `false`.

### Proofs

`MajorityRuleProofs.tla` proves of the abstract rule, for any pool, proposals and
number of rounds:

* `VerdictExists`: every settled round with a vote has a verdict;
* `AgreementDecides`: the two countings of the votes fit together. What
  `find_majority_cluster` finds agreed on is the one verdict `find_winner` can
  return, called a consensus, and a refinement without agreement always ends in a
  forced one. That two proposals cannot both have a majority is a lemma of it;
* `RoundsAreBounded`: `Spec => []RoundsInv`, no question is refined more often than
  `MaxRounds`, or once under forced reflection.

`ConsensusProofs.tla` proves, from `ConsensusAssumption` alone (pools are non-empty
sets of finitely many models; the words for the state of a task are no proposals):

* `TypeCorrect`: `Spec => []TypeOK`;
* `CondensedInOrder`: `Spec => []OldestCondensedFirst`;
* `AccountedOnce`: `Spec => []KeptOrReflectedOnce`;
* `DecisionsAccounted`: `Spec => []RowAccountsForDecisions`;
* `RuleImplemented`: `Spec => ImplementsMajorityRule`. Every step of the pipeline
  maps to a step of `MajorityRule` or to a stutter;
* `RoundsAreDecidable`: `Spec => [](AllAnswered => VotesDecide)`. When all tasks have
  answered, the votes give a verdict; it uses `VerdictExists`.

The state exists in many copies: the process's `memory`, the callback's `working`
copy, one per query task, what the callback will return, the stored row. `TypeInv`,
`MemoryInv` and `QuestionInv` say of each copy, key by key, that it is `Sound`
(histories ascend, older entries only were reflected on, nothing is newer than the
counter) and that a task's copy differs from the callback's under its own model's key
only (`OwnKeyOnly`): this is what makes the merge of parallel condensations
independent of their order. `AccountInv` adds which entries each copy accounts for at
least, so that a merge, a write in the middle of a callback, a restart or a switch of
pools never goes back behind what was decided. Model-checked only:
`EveryQuestionCloses`, a liveness property.

## Scores

One module per Python script (`ScoreMath`, `ScoreLanguage`, `ScoreReasoning`,
`ScoreTables`, `ScoreInstructions`) over `ScoreText`, which has the string and
regular-expression operations they share. A text is a sequence of tokens; scores
are in ten-thousandths, as the scripts round to four places. `Scores` is the
state machine around them: a response to one of the `Questions` is written piece
by piece and at any time graded by the script of its category (one action per
script, its `main`), or recorded as wrong when the script fails, as
`score-run.sh` does.

| Specification | Code |
|---|---|
| `StripThink`, `LastSolution`, `LastBoxed`, `DictOf`, ... | helpers repeated at the top of the scripts |
| `ScoreOlympiad`, `ScoreAmpsHard`, `ScoreMathComp` | `score-math.py` |
| `ScoreConnections`, `PlotScores`, `ScoreTypos` | `score-language.py` |
| `ScoreSpatial`, `ScoreWebOfLies`, `ScoreZebra` | `score-reasoning.py` |
| `ScoreCta`, `ScoreTableJoin`, `ScoreTableReformat` | `score-tables.py` |
| `ScoreInstructionFollowing` | `score-instructions.py` |
| `ScriptFails` | `score-run.sh:224-239` |

Abstractions. Words, numbers, tags and braces are tokens; a `\text{...}` around a
word is part of its token. Of pandas there are separated values and JSON lines;
SymPy's equality and langdetect give either verdict. `TailLength` tokens stand for
the last 20, 50 or 200 characters, `GroupSize` words for the four of a connections
group. No truth is a single JSON line, the index columns that pandas adds in prose
are left out. `Nearest` is Python's `round`, which takes the even one of two equally near
numbers; decimal ties that are none as binary fractions (0.025 to two places, which
takes 80 pairs in a join's two dictionaries) would go by the float.

Assumptions on the constants. `QuestionsAssumption`: responses, pieces and truths are
texts, the truth of `instruction_following` is a sequence of instructions, and a
zebra puzzle's truth has at least one word. `PuzzlesAssumption`: the truth of a
connections puzzle lists distinct words, none of them blank, one token each,
separated by commas. This is what the benchmark's puzzles look like, and the bound
of `ScoresAreFractions` needs it: the words of a group are compared as a set, so
that of a word that the truth has twice one copy in the response would count for
both. `GroupSizeAssumption`: a group has at least one word.

### Run

`scores`: 27 questions covering every task, each with its own few pieces, among
them wrong answers, thoughts, unclosed tags and fences, and answers of up to six
pieces. The instances are chosen so that every branch of a grader is reached by
some response. Beyond TLC, every graded response of the run was rendered as text
and given to the Python scripts themselves, with pandas replaced by a small
stand-in, `GroupSize` 2 and the tail as long as the text: the scores agreed but for
responses whose rendering puts tokens together that the model keeps apart or is
longer than the tail the script looks at. There is
no liveness to speak of; grading ends a behaviour, hence `CHECK_DEADLOCK FALSE`.

`RightAnswerScoresFull` asks for well-formed text before the answer and leaves out,
by question, what legitimately hides it (`spoilers`): an opened
`<PLOT_SUMMARY>`, or for a JSON-lines answer outside any tag a brace or a fence.

`FullScoreNeedsTheAnswer` is about the nine tasks whose scripts give full marks only
for the whole answer. `evidence` lists its parts in the order they have to stand in
(all of an olympiad's numbers, all words of typos or web_of_lies, every pair of a
join's dictionary); text between and around them is allowed, because several scripts
look for the answer inside the text they extracted. The other tasks are left out:
connections and math_comp give full marks for less (see below), and plots and
instructions have many right answers.

### Divergences

Met while modelling, without a run of their own:

* connections counts the groups of the answer that are right without taking out
  repeated ones: one right group, given as often as there are groups, has full
  marks, and given more often exceeds 1.0, though the header says 0.0 to 1.0; `ScoresAreFractions` states the bound it does have. The score of a
  plot is never negative, though a comment says it can be; a truth with a repeated
  sentence, reproduced exactly, scores less than 1, and a plot with one sentence
  always 1.
* web_of_lies looks for permutations by `find`, which is the first occurrence, and
  its comment says the last; counting "no" inside "unknown" makes the
  containment check fail for any answer with "unknown". Its comment on malformed tags
  says `</solution>...<solution>`, the pattern says `</solution>...</solution>`.
* AIME accepts the truth anywhere in the last 50 characters, as in "125" for "25",
  and "111" for "1"; AMC compares the first letter of a box only; a wrong box in AMPS
  keeps the tail from being looked at.
* An earlier `<solution>` that is not closed swallows the answer.
* `***x***` is counted as two highlights, a lone `*` takes the next line as its
  bullet, and `nth_paragraph` counts the paragraphs that are not empty but indexes
  all of them.
* Prose after a CSV table that parses as a row is kept as a row.
* `kwargs` with an entry `null` crashes outside the `try`, and the answer scores 0.0.
* `skills/livebench-coordinator/SKILL.md:146` says a question without an answer
  file is scored 0.0 by `score-run.sh`; the harness averages over answer files only.
  It never passes `--question-file` to `score-tables.py`, so the format is guessed,
  and counts `7.txt` and `00007.txt` as two answers.

Not modelled: the averages of `score-run.sh`, `score-coding.sh`, which runs the code
it grades, and the scripts that prepare the data.

### Proofs

`ScoresProofs.tla` proves, for any questions that satisfy the assumptions above and
responses of any length:

* `TypeCorrect`: `Spec => []TypeOK`. Every grader gives a natural number, whatever text
  it is given.
* `Fractions`: `Spec => []ScoresAreFractions`.
* `PartialCredit`: `Spec => []PartialCreditIsBelowHalf`. The halving in
  `score_zebra_puzzle` and `score_instruction_following`, with its rounding, for any
  number of parts. The property's last disjunct is for ten thousand parts and more,
  of which all but one right round up to one half.
* `EditDistances`: `Spec => []EditDistancesAgree`.
* `BoxedCopies`: `Spec => []BoxedCopiesAgree`.
* `JoinScores`: `Spec => []JoinScoreIsDice`.

The state machine is the small part of it. Its inductive invariant, `ScoresInv`, says
that a recorded score is `Unscored`, the harness's 0, or one that the script of the
question's task gives what the response says (`ScoreOf`): a graded response is not
written to any more. All six follow from this and from lemmas about the operators,
most of which are recursive functions over the positions of a text. Each of these is
first shown to be the function its equation describes, then what it returns is
shown by induction over the naturals (`UpTo`, `DownFrom`).

* *Edit distances.* Both algorithms fill the same table, one keeping a single row and
  the diagonal in a variable. Each cell is the least cost of an alignment of two
  prefixes; alignments are pairs of equally many positions, and the last positions of
  both are either matched or one of them is skipped.
* *`\boxed`.* Where each box has its brace, the three extractors start at the same
  brace; one counts depth, the others look for the first position at which closings
  catch up with openings.
* *Joins.* The counters of the two loops are cardinalities of sets of pairs.
* *Connections.* The bound counts the truth's words (`Only`) through every step from
  the response to the groups: taking thoughts off, finding bold or tagged spans and
  splitting at commas and lines never adds a token, spans do not overlap, and distinct
  groups that match need distinct tokens. All groups of the truth but the last are
  full, so `c` matches are `GroupSize * (c - 1)` words and those of the last group,
  which is never a larger share of the groups than of the words (`ShareOrder`).

Model-checked only: `RightAnswerScoresFull` and `FullScoreNeedsTheAnswer`. They speak
of the fields `right`, `spoilers` and `evidence`, which say for each question of the
run, in its own terms, what the right answer looks like and what may hide it. For
arbitrary values of these fields they are false, and an assumption that makes them
true would have to repeat the grader.

## Not modelled

The reasons are with the components in `PROJECT.json`. In short: connections to MCP
servers and LLM providers, credentials, secrets and audit are I/O; prompts, groves,
profiles and skills are text; schemas are tables; the event history is a ring
buffer per agent; PubSub and logs only inform. Batches are modelled as far as the
agent notices them.
