------------------------------ MODULE AgentCore ------------------------------
(***************************************************************************)
(* One agent process (Quoracle.Agent.Core) and the processes it works      *)
(* with: the dispatch Task and the Router of every action it executes.     *)
(*                                                                         *)
(* The agent is a GenServer: it takes one message at a time from its       *)
(* mailbox, and messages keep arriving while a handler runs.  The only     *)
(* handler that takes long is a consensus cycle (several LLM calls), so it *)
(* is split in two: starting it (which records the queued messages) and    *)
(* leaving it with a decision or an error.  Every other handler is atomic. *)
(*                                                                         *)
(* An action's result does not come back through a call.  A Task calls the *)
(* Router and casts the reply to the agent; a Router that outlives its     *)
(* reply (timed wait, long shell command, smart-mode action) sends a       *)
(* second message of its own.  Nothing orders the two senders.             *)
(*                                                                         *)
(* Children and budgets, which the same handlers also update, are the      *)
(* subject of BudgetTree; the content of messages and the LLM pipeline are *)
(* abstracted.                                                             *)
(***************************************************************************)
EXTENDS Naturals, Sequences, FiniteSets

CONSTANTS
    MaxMessages,   \* bound: messages other agents and the user send
    MaxActions,    \* bound: decisions the agent takes
    MaxFailures,   \* bound: retryable consensus failures
    Kinds,         \* the kinds of action the models may choose
    Waits,         \* the wait values the models may choose
    Stoppable,     \* may somebody pause the task?
    TinyWaits      \* may a :wait end before its Task has cast the reply?

AllKinds == {"local", "adjust", "message", "spawn", "wait",
             "smart", "batch", "http", "shell", "check"}
AllWaits == {"false", "zero", "true", "timed"}

ASSUME BoundsAssumption ==
    /\ MaxMessages \in Nat /\ MaxActions \in Nat /\ MaxFailures \in Nat
    /\ Kinds \subseteq AllKinds
    /\ Waits \subseteq AllWaits
    /\ Stoppable \in BOOLEAN /\ TinyWaits \in BOOLEAN

Messages == 1..MaxMessages
Actions  == 1..MaxActions

VARIABLES
    \* the agent's state
    status,        \* "up", "stopping" (in terminate/2) or "stopped"
    mailbox,       \* messages not yet received, oldest first
    deciding,      \* inside get_action_consensus
    pending,       \* pending_actions: "none", "open" or "acked" per action
    queued,        \* queued_messages
    scheduled,     \* consensus_scheduled
    waitTimer,     \* wait_timer: the action that set it, 0 for nil
    armed,         \* wait_timer is the agent's own timer and has not fired
    retries,       \* consensus_retry_count
    feedback,      \* correction_feedback is not empty
    counter,       \* action_counter
    decision,      \* the :decision entries of the history
    history,       \* the :event entries of the history
    results,       \* how many :result entries each action has
    activeRouters, \* active_routers, by the action they were started for
    shellRouters,  \* shell_routers, by the shell action they run
    \* the processes around it
    task,          \* dispatch Task: "none", "calling", the reply, "done"
    router,        \* Router: "none", "busy", what it waits for, "stopped"
    background,    \* actions whose background process will notify the agent
    sent,          \* number of messages sent to the agent
    failures,      \* number of retryable failures so far
    stalls,        \* notices sent because the retries were exhausted
    considered     \* history: messages some consensus cycle started with

loopVars   == <<status, deciding, pending, queued, scheduled>>
timerVars  == <<waitTimer, armed>>
retryVars  == <<retries, feedback, failures, stalls>>
recordVars == <<counter, decision, history, results, considered>>
routerVars == <<activeRouters, shellRouters>>
envVars    == <<task, router, background, sent>>
vars == <<mailbox, loopVars, timerVars, retryVars, recordVars, routerVars, envVars>>

-----------------------------------------------------------------------------
(***************************************************************************)
(* Kinds of action.                                                        *)
(*   local    orient, todo, file_read, file_write, batch_sync, ...         *)
(*   adjust   adjust_budget: calls the agent back while it runs            *)
(*   message  send_message                                                 *)
(*   spawn    spawn_child: may be followed by a spawn_failed message       *)
(*   wait     the :wait action: its Router owns the timer                  *)
(*   smart    dismiss_child, record_cost: acknowledged after 100ms         *)
(*   batch    batch_async: batch_completed follows                         *)
(*   http     call_api, fetch_web, call_mcp, ...: explicit timeout         *)
(*   shell    execute_shell                                                *)
(*   check    execute_shell with a check_id: talks to a shell's Router     *)
(***************************************************************************)
AlwaysSync    == {"local", "adjust", "message", "spawn", "wait"}
SelfContained == {"local", "adjust"}

Decisions ==
    [kind : AllKinds, asked : AllWaits,
     wait : {"false", "true", "timed"}, cmd : 0..MaxActions]

NoDecision == [kind |-> "none", asked |-> "false", wait |-> "false", cmd |-> 0]

(***************************************************************************)
(* The wait value the agent acts on.  A :wait action takes it from its     *)
(* own parameter, read as `params.wait || true`, so false becomes true; a  *)
(* self-contained action never waits for an event.                         *)
(***************************************************************************)
EffectiveWait(kind, asked) ==
    IF kind = "wait" /\ asked = "false" THEN "true"
    ELSE IF asked = "zero" THEN "false"
    ELSE IF kind \in SelfContained /\ asked = "true" THEN "false"
    ELSE asked

-----------------------------------------------------------------------------
(* Mailbox *)

Taken      == [type |-> "taken", id |-> 0]
Trigger(a) == [type |-> "trigger", id |-> a]  \* a: the timer that sent it, or 0
Message(m) == [type |-> "message", id |-> m]
Note(t, a) == [type |-> t, id |-> a]

\* What a dispatch Task casts, and what a Router casts on its own
TaskReplies == {"ok", "error", "running", "ack"}
ResultTypes == TaskReplies \cup {"crash", "late", "completed"}

Envelopes ==
    [type : {"taken", "stop_requested"}, id : {0}]
    \cup [type : {"trigger"}, id : 0..MaxActions]
    \cup [type : {"message"}, id : Messages]
    \cup [type : ResultTypes \cup {"wait_expired", "batch_completed", "spawn_failed", "call"},
          id : Actions]

\* drain_trigger_messages takes the triggers out of the middle of the mailbox
Drained(box) ==
    [i \in DOMAIN box |-> IF box[i].type = "trigger" THEN Taken ELSE box[i]]

Receives(type) ==
    /\ status = "up"
    /\ ~deciding
    /\ mailbox # <<>>
    /\ Head(mailbox).type = type

\* The receive loop steps over a slot whose message was drained
SkipTaken ==
    /\ Receives("taken")
    /\ mailbox' = Tail(mailbox)
    /\ UNCHANGED <<loopVars, timerVars, retryVars, recordVars, routerVars, envVars>>

-----------------------------------------------------------------------------
(* Parts of the handlers *)

Unacked == \E a \in Actions : pending[a] = "open"

\* Mutant: the timer is cancelled, its reference stays in the state
CancelWaitTimerOnly == armed' = FALSE /\ UNCHANGED waitTimer

CancelWaitTimer == waitTimer' = 0 /\ armed' = FALSE

SetWaitTimer(a, own) == waitTimer' = a /\ armed' = own

\* Mutant: the flag is set and :trigger_consensus is not sent
ScheduleSilently == scheduled' = TRUE /\ mailbox' = Tail(mailbox)

\* schedule_consensus_continuation, from the handler of the head message
Schedule ==
    /\ scheduled' = TRUE
    /\ mailbox' = Append(Tail(mailbox), Trigger(0))

\* Mutants: the queue is not flushed; it is recorded but not emptied
KeepQueued == UNCHANGED <<history, queued>>
CopyQueued == history' = history \o queued /\ UNCHANGED queued

FlushQueued == history' = history \o queued /\ queued' = <<>>

\* run_consensus_cycle up to the LLM calls
StartCycle ==
    /\ FlushQueued
    /\ deciding' = TRUE
    /\ considered' = considered \cup {history'[i] : i \in DOMAIN history'}

-----------------------------------------------------------------------------
(* Messages from the user, the parent and the children *)

\* Mutant: messages are never queued
NeverQueue == FALSE

MustQueue == Unacked \/ scheduled

HandleAgentMessage ==
    /\ Receives("message")
    /\ CancelWaitTimer
    /\ LET m == Head(mailbox).id IN
       \/ /\ MustQueue
          /\ queued' = Append(queued, m)
          /\ mailbox' = Tail(mailbox)
          /\ UNCHANGED <<scheduled, feedback, history>>
       \/ /\ ~MustQueue
          /\ feedback' = FALSE
          /\ history' = Append(history, m)
          /\ Schedule
          /\ UNCHANGED queued
    /\ UNCHANGED <<status, deciding, pending, retries, failures, stalls, counter,
                   decision, results, considered, routerVars, envVars>>

-----------------------------------------------------------------------------
(* Consensus cycles *)

\* Mutant: a trigger counts only when a consensus cycle was scheduled
IsUnscheduled == ~scheduled

IsStale == ~scheduled /\ waitTimer = 0

IgnoreStaleTrigger ==
    /\ Receives("trigger")
    /\ IsStale
    /\ mailbox' = Tail(mailbox)
    /\ UNCHANGED <<loopVars, timerVars, retryVars, recordVars, routerVars, envVars>>

HandleTrigger ==
    /\ Receives("trigger")
    /\ ~IsStale
    /\ mailbox' = Drained(Tail(mailbox))
    /\ scheduled' = FALSE
    /\ CancelWaitTimer
    /\ StartCycle
    /\ UNCHANGED <<status, pending, retryVars, counter, decision, results,
                   routerVars, envVars>>

IgnoreStaleWaitExpired ==
    /\ Receives("wait_expired")
    /\ waitTimer # Head(mailbox).id
    /\ mailbox' = Tail(mailbox)
    /\ UNCHANGED <<loopVars, timerVars, retryVars, recordVars, routerVars, envVars>>

\* Does not touch consensus_scheduled and does not drain triggers
HandleWaitExpired ==
    /\ Receives("wait_expired")
    /\ waitTimer = Head(mailbox).id
    /\ mailbox' = Tail(mailbox)
    /\ CancelWaitTimer
    /\ StartCycle
    /\ UNCHANGED <<status, pending, scheduled, retryVars, counter, decision, results,
                   routerVars, envVars>>

(***************************************************************************)
(* The cycle ends with a decision: it is recorded, its action becomes      *)
(* pending, and a Task is started to execute it.  A check goes to the      *)
(* Router of the command it names if that Router is tracked and alive;     *)
(* every other action gets a Router of its own.                            *)
(***************************************************************************)
UsesExistingRouter(d) ==
    /\ d.kind = "check"
    /\ d.cmd \in shellRouters
    /\ router[d.cmd] # "stopped"

ExecuteDecision(d) ==
    LET a == counter + 1 IN
    /\ counter' = a
    /\ decision' = [decision EXCEPT ![a] = d]
    /\ pending' = [pending EXCEPT ![a] = "open"]
    /\ task' = [task EXCEPT ![a] = "calling"]
    /\ IF UsesExistingRouter(d)
         THEN UNCHANGED <<router, activeRouters>>
         ELSE /\ router' = [router EXCEPT ![a] = "idle"]
              /\ activeRouters' = activeRouters \cup {a}

Decide ==
    /\ status = "up" /\ deciding
    /\ counter < MaxActions
    /\ \E kind \in Kinds, asked \in Waits :
         \E cmd \in IF kind = "check"
                      THEN {a \in 1..counter : decision[a].kind = "shell"}
                      ELSE {0} :
           ExecuteDecision([kind |-> kind, asked |-> asked,
                            wait |-> EffectiveWait(kind, asked), cmd |-> cmd])
    /\ deciding' = FALSE
    /\ retries' = 0
    /\ feedback' = FALSE
    /\ UNCHANGED <<mailbox, status, queued, scheduled, timerVars, failures, stalls,
                   history, results, considered, shellRouters, background, sent>>

MaxConsensusAttempts == 3

FailsRetryably ==
    /\ status = "up" /\ deciding
    /\ failures < MaxFailures
    /\ failures' = failures + 1
    /\ deciding' = FALSE

\* Mutant: the attempts are not limited
RetryForever ==
    /\ FailsRetryably
    /\ retries' = retries + 1
    /\ feedback' = TRUE
    /\ scheduled' = TRUE
    /\ mailbox' = Append(mailbox, Trigger(0))
    /\ UNCHANGED <<status, pending, queued, timerVars, stalls, recordVars, routerVars,
                   envVars>>

RetryConsensus ==
    /\ FailsRetryably
    /\ retries + 1 < MaxConsensusAttempts
    /\ retries' = retries + 1
    /\ feedback' = TRUE
    /\ scheduled' = TRUE
    /\ mailbox' = Append(mailbox, Trigger(0))
    /\ UNCHANGED <<status, pending, queued, timerVars, stalls, recordVars, routerVars,
                   envVars>>

\* The parent, or the agent's own message list, gets a stall notice
ExhaustRetries ==
    /\ FailsRetryably
    /\ retries + 1 >= MaxConsensusAttempts
    /\ feedback' = FALSE
    /\ stalls' = stalls + 1
    /\ UNCHANGED <<mailbox, status, pending, queued, scheduled, timerVars, retries,
                   recordVars, routerVars, envVars>>

FailFatally ==
    /\ status = "up" /\ deciding
    /\ deciding' = FALSE
    /\ UNCHANGED <<mailbox, status, pending, queued, scheduled, timerVars, retryVars,
                   recordVars, routerVars, envVars>>

-----------------------------------------------------------------------------
(* Action results *)

\* The timer is cancelled before the action is looked up
IgnoreUnknownResult ==
    \E type \in ResultTypes :
      /\ Receives(type)
      /\ pending[Head(mailbox).id] = "none"
      /\ CancelWaitTimer
      /\ mailbox' = Tail(mailbox)
      /\ UNCHANGED <<loopVars, retryVars, recordVars, routerVars, envVars>>

\* The wait value and the always_sync flag travel with the Task's reply only
WaitOf(type, a) == IF type \in TaskReplies THEN decision[a].wait ELSE "none"

HasPendingSelfContained(p) ==
    \E b \in Actions : p[b] # "none" /\ decision[b].kind \in SelfContained

\* Mutant: parks although messages were queued while the action ran
ParksRegardless(type, a) ==
    /\ WaitOf(type, a) = "true"
    /\ decision[a].kind \in AlwaysSync
    /\ type = "ok"

\* Always-sync, wait:true, success, and nothing arrived in the meantime
ParksForEvent(type, a) ==
    /\ WaitOf(type, a) = "true"
    /\ decision[a].kind \in AlwaysSync
    /\ type = "ok"
    /\ queued = <<>>

SetsTimer(type, a) == WaitOf(type, a) = "timed"

\* A :wait action's timer belongs to its Router, any other to the agent
Continue(type, a) ==
    IF SetsTimer(type, a)
      THEN /\ SetWaitTimer(a, ~(decision[a].kind = "wait" /\ type = "ok"))
           /\ mailbox' = Tail(mailbox)
           /\ UNCHANGED scheduled
      ELSE /\ CancelWaitTimer
           /\ IF ParksForEvent(type, a) \/ HasPendingSelfContained(pending')
                THEN mailbox' = Tail(mailbox) /\ UNCHANGED scheduled
                ELSE Schedule

\* Mutant: the entry of every acknowledged action stays
KeepsAcknowledged(type) == IF type \in {"running", "ack"} THEN "acked" ELSE "none"

\* A "running" reply is phase 1 of a long shell command: the entry stays
PendingAfter(type) == IF type = "running" THEN "acked" ELSE "none"

\* Mutant: the Router is tracked without asking whether it is alive
TrackAnyShell(type, a) ==
    IF type = "running" THEN shellRouters \cup {a} ELSE shellRouters

TrackShell(type, a) ==
    IF type = "running" /\ router[a] # "stopped"
      THEN shellRouters \cup {a} ELSE shellRouters

HandleResult ==
    \E type \in ResultTypes :
      /\ Receives(type)
      /\ LET a == Head(mailbox).id IN
         /\ pending[a] # "none"
         /\ pending' = [pending EXCEPT ![a] = PendingAfter(type)]
         /\ results' = [results EXCEPT ![a] = @ + 1]
         /\ shellRouters' = TrackShell(type, a)
         /\ FlushQueued
         /\ Continue(type, a)
      /\ UNCHANGED <<status, deciding, retryVars, counter, decision, considered,
                     activeRouters, envVars>>

\* batch_completed and spawn_failed: recorded, then consensus unconditionally
HandleBackground ==
    /\ Receives("batch_completed") \/ Receives("spawn_failed")
    /\ Schedule
    /\ UNCHANGED <<status, deciding, pending, queued, timerVars, retryVars, recordVars,
                   routerVars, envVars>>

\* {:adjust_child_budget, ...}: what the call changes is in BudgetTree.  A reply
\* reaches a Router that still waits for one.
HandleCall ==
    /\ Receives("call")
    /\ mailbox' = Tail(mailbox)
    /\ router' = [router EXCEPT ![Head(mailbox).id] =
                                 IF @ = "calling" THEN "answered" ELSE @]
    /\ UNCHANGED <<loopVars, timerVars, retryVars, recordVars, routerVars, task,
                   background, sent>>

\* The DOWN signal of a Router the agent monitors
HandleRouterDown ==
    /\ status = "up" /\ ~deciding
    /\ \E a \in activeRouters :
         /\ router[a] = "stopped"
         /\ activeRouters' = activeRouters \ {a}
         /\ shellRouters' = shellRouters \ {a}
    /\ UNCHANGED <<mailbox, loopVars, timerVars, retryVars, recordVars, envVars>>

-----------------------------------------------------------------------------
(* Dispatch Tasks and Routers *)

AgentUnchanged ==
    UNCHANGED <<loopVars, timerVars, retryVars, recordVars, routerVars, sent>>

Deliver(note) == mailbox' = Append(mailbox, note)

Running == status # "stopped"

\* Permission, hard-rule and validation errors never reach the Router
RejectAction(a) ==
    /\ Running
    /\ task[a] = "calling"
    /\ task' = [task EXCEPT ![a] = "error"]
    /\ UNCHANGED <<mailbox, router, background>> /\ AgentUnchanged

\* Mutant: without the rescue clause
CrashTaskSilently(a) ==
    /\ Running
    /\ task[a] = "calling"
    /\ task' = [task EXCEPT ![a] = "done"]
    /\ UNCHANGED <<mailbox, router, background>> /\ AgentUnchanged

\* The Task dies outside the Router call; its rescue clause still answers
CrashTask(a) ==
    /\ Running
    /\ task[a] = "calling"
    /\ task' = [task EXCEPT ![a] = "done"]
    /\ Deliver(Note("crash", a))
    /\ UNCHANGED <<router, background>> /\ AgentUnchanged

StartExecution(a) ==
    /\ Running
    /\ task[a] = "calling" /\ router[a] = "idle"
    /\ task' = [task EXCEPT ![a] = "executing"]
    /\ router' = [router EXCEPT ![a] = "busy"]
    /\ UNCHANGED <<mailbox, background>> /\ AgentUnchanged

\* Mutant: another action calls the agent as well
MayCallAgent(kind) == kind \in {"adjust", "message"}

CallsAgent(kind) == kind = "adjust"

\* adjust_budget calls the agent with an infinite timeout while its Router waits
CallAgent(a) ==
    /\ Running
    /\ router[a] = "busy" /\ CallsAgent(decision[a].kind)
    /\ router' = [router EXCEPT ![a] = "calling"]
    /\ Deliver(Note("call", a))
    /\ UNCHANGED <<task, background>> /\ AgentUnchanged

\* Reply and what is left of the Router afterwards, per kind of action
Outcomes(a) ==
    LET d == decision[a] IN
    {<<"error", "stopped">>} \cup
    CASE d.kind \in {"local", "message", "http", "spawn"} -> {<<"ok", "stopped">>}
      [] d.kind = "adjust" -> IF router[a] = "answered" THEN {<<"ok", "stopped">>} ELSE {}
      [] d.kind = "wait"   -> {<<"ok", IF d.wait = "timed" THEN "timer" ELSE "stopped">>}
      [] d.kind = "smart"  -> {<<"ok", "stopped">>, <<"ack", "async">>}
      [] d.kind = "batch"  -> {<<"ok", "lingering">>}
      [] d.kind = "shell"  -> {<<"ok", "stopped">>, <<"running", "shell">>}
      [] OTHER             -> {}

\* batch_async always reports back; a spawn only when it fails
LeavesBackground(a, reply) ==
    IF reply # "ok" THEN {FALSE}
    ELSE CASE decision[a].kind = "batch" -> {TRUE}
           [] decision[a].kind = "spawn" -> BOOLEAN
           [] OTHER -> {FALSE}

RouterReplies(a) ==
    /\ Running
    /\ task[a] = "executing" /\ router[a] \in {"busy", "answered"}
    /\ \E o \in Outcomes(a) :
         /\ task' = [task EXCEPT ![a] = o[1]]
         /\ router' = [router EXCEPT ![a] = o[2]]
         /\ \E left \in LeavesBackground(a, o[1]) :
              background' = IF left THEN background \cup {a} ELSE background
    /\ UNCHANGED mailbox /\ AgentUnchanged

\* A check through the Router of the command: status, termination, or too late
CheckShell(a) ==
    /\ Running
    /\ task[a] = "calling" /\ router[a] = "none"
    /\ LET c == decision[a].cmd IN
       \/ router[c] = "shell" /\ task' = [task EXCEPT ![a] = "ok"] /\ UNCHANGED router
       \/ /\ router[c] = "shell"
          /\ task' = [task EXCEPT ![a] = "ok"]
          /\ router' = [router EXCEPT ![c] = "stopped"]
       \/ router[c] = "stopped" /\ task' = [task EXCEPT ![a] = "error"] /\ UNCHANGED router
    /\ UNCHANGED <<mailbox, background>> /\ AgentUnchanged

CastReply(a) ==
    /\ Running
    /\ task[a] \in TaskReplies
    /\ Deliver(Note(task[a], a))
    /\ task' = [task EXCEPT ![a] = "done"]
    /\ UNCHANGED <<router, background>> /\ AgentUnchanged

\* The Router forwards the expiry of its :wait timer and stops
RouterTimerFires(a) ==
    /\ Running
    /\ router[a] = "timer"
    /\ TinyWaits \/ task[a] = "done"
    /\ Deliver(Note("wait_expired", a))
    /\ router' = [router EXCEPT ![a] = "stopped"]
    /\ UNCHANGED <<task, background>> /\ AgentUnchanged

\* mark_completed: phase 2 of a long shell command
ShellCompletes(a) ==
    /\ Running
    /\ router[a] = "shell"
    /\ Deliver(Note("completed", a))
    /\ router' = [router EXCEPT ![a] = "stopped"]
    /\ UNCHANGED <<task, background>> /\ AgentUnchanged

\* The real result of an action acknowledged early; the Router does not stop
AsyncCompletes(a) ==
    /\ Running
    /\ router[a] = "async"
    /\ Deliver(Note("late", a))
    /\ router' = [router EXCEPT ![a] = "lingering"]
    /\ UNCHANGED <<task, background>> /\ AgentUnchanged

BackgroundReports(a) ==
    /\ Running
    /\ a \in background
    /\ background' = background \ {a}
    /\ Deliver(Note(IF decision[a].kind = "batch" THEN "batch_completed"
                                                  ELSE "spawn_failed", a))
    /\ UNCHANGED <<task, router>> /\ AgentUnchanged

\* Process.send_after(self(), :trigger_consensus, ...)
AgentTimerFires ==
    /\ Running
    /\ armed
    /\ armed' = FALSE
    /\ Deliver(Trigger(waitTimer))
    /\ UNCHANGED <<loopVars, waitTimer, retryVars, recordVars, routerVars, envVars>>

SendMessage ==
    /\ Running
    /\ sent < MaxMessages
    /\ sent' = sent + 1
    /\ Deliver(Message(sent'))
    /\ UNCHANGED <<loopVars, timerVars, retryVars, recordVars, routerVars, task, router,
                   background>>

-----------------------------------------------------------------------------
(* Pausing the task: :stop_requested, then terminate/2 stops every Router *)

StopPending == \E i \in DOMAIN mailbox : mailbox[i].type = "stop_requested"

RequestStop ==
    /\ Stoppable
    /\ status = "up" /\ ~StopPending
    /\ Deliver(Note("stop_requested", 0))
    /\ UNCHANGED <<loopVars, timerVars, retryVars, recordVars, routerVars, envVars>>

HandleStopRequested ==
    /\ Receives("stop_requested")
    /\ mailbox' = Drained(Tail(mailbox))
    /\ status' = "stopping"
    /\ UNCHANGED <<deciding, pending, queued, scheduled, timerVars, retryVars, recordVars,
                   routerVars, envVars>>

\* GenServer.stop(router, :normal, :infinity): a Router in a call cannot answer it
StopRouter ==
    /\ status = "stopping"
    /\ \E a \in activeRouters :
         /\ router[a] \notin {"busy", "calling", "answered", "stopped"}
         /\ router' = [router EXCEPT ![a] = "stopped"]
    /\ UNCHANGED <<mailbox, loopVars, timerVars, retryVars, recordVars, routerVars, task,
                   background, sent>>

FinishStop ==
    /\ status = "stopping"
    /\ \A a \in activeRouters : router[a] = "stopped"
    /\ status' = "stopped"
    /\ UNCHANGED <<mailbox, deciding, pending, queued, scheduled, timerVars, retryVars,
                   recordVars, routerVars, envVars>>

-----------------------------------------------------------------------------
Init ==
    /\ status = "up" /\ deciding = FALSE
    /\ mailbox = <<>> /\ queued = <<>> /\ history = <<>>
    /\ scheduled = FALSE
    /\ waitTimer = 0 /\ armed = FALSE
    /\ retries = 0 /\ feedback = FALSE /\ failures = 0 /\ stalls = 0
    /\ counter = 0
    /\ decision = [a \in Actions |-> NoDecision]
    /\ pending = [a \in Actions |-> "none"]
    /\ results = [a \in Actions |-> 0]
    /\ activeRouters = {} /\ shellRouters = {}
    /\ task = [a \in Actions |-> "none"]
    /\ router = [a \in Actions |-> "none"]
    /\ background = {}
    /\ sent = 0
    /\ considered = {}

\* The receive loop
Receive ==
    \/ SkipTaken
    \/ HandleAgentMessage
    \/ IgnoreStaleTrigger \/ HandleTrigger
    \/ IgnoreStaleWaitExpired \/ HandleWaitExpired
    \/ IgnoreUnknownResult \/ HandleResult
    \/ HandleBackground
    \/ HandleCall
    \/ HandleStopRequested

EndCycle == Decide \/ RetryConsensus \/ ExhaustRetries \/ FailFatally

Stop == StopRouter \/ FinishStop

\* Steps the runtime takes by itself, and soon
Dispatch(a) ==
    \/ RejectAction(a) \/ CrashTask(a) \/ StartExecution(a)
    \/ CallAgent(a) \/ RouterReplies(a) \/ CheckShell(a)
    \/ CastReply(a)

\* Steps that come when the outside world is ready
Complete(a) ==
    \/ RouterTimerFires(a) \/ ShellCompletes(a) \/ AsyncCompletes(a) \/ BackgroundReports(a)

Next ==
    \/ Receive \/ HandleRouterDown
    \/ EndCycle
    \/ \E a \in Actions : Dispatch(a) \/ Complete(a)
    \/ AgentTimerFires
    \/ SendMessage
    \/ Stop \/ RequestStop

Spec == Init /\ [][Next]_vars

(***************************************************************************)
(* A GenServer keeps receiving, an LLM query and an action end or time     *)
(* out, a timer fires.  Nothing makes anybody send a message or a pause.   *)
(* A shell command, an acknowledged action and a batch may run forever.    *)
(***************************************************************************)
Fairness ==
    /\ WF_vars(Receive) /\ WF_vars(HandleRouterDown)
    /\ WF_vars(EndCycle)
    /\ \A a \in Actions : WF_vars(Dispatch(a)) /\ WF_vars(RouterTimerFires(a))
    /\ WF_vars(AgentTimerFires)
    /\ WF_vars(Stop)

FairSpec == Spec /\ Fairness

-----------------------------------------------------------------------------
(* Type correctness *)

TaskStates   == {"none", "calling", "executing", "done"} \cup TaskReplies
RouterStates == {"none", "idle", "busy", "calling", "answered", "timer", "shell",
                 "async", "lingering", "stopped"}

\* Every variable has its type: the shape of Agent.Core's state
TypeOK ==
    /\ status \in {"up", "stopping", "stopped"}
    /\ mailbox \in Seq(Envelopes)
    /\ deciding \in BOOLEAN /\ scheduled \in BOOLEAN
    /\ pending \in [Actions -> {"none", "open", "acked"}]
    /\ queued \in Seq(Messages) /\ history \in Seq(Messages)
    /\ waitTimer \in 0..MaxActions /\ armed \in BOOLEAN
    /\ retries \in 0..(MaxConsensusAttempts - 1) /\ feedback \in BOOLEAN
    /\ failures \in 0..MaxFailures /\ stalls \in Nat
    /\ counter \in 0..MaxActions
    /\ decision \in [Actions -> Decisions \cup {NoDecision}]
    /\ results \in [Actions -> Nat]
    /\ activeRouters \subseteq Actions /\ shellRouters \subseteq Actions
    /\ task \in [Actions -> TaskStates]
    /\ router \in [Actions -> RouterStates]
    /\ background \subseteq Actions
    /\ sent \in 0..MaxMessages
    /\ considered \subseteq Messages

-----------------------------------------------------------------------------
(* Safety *)

InMailbox(type, a) == \E i \in DOMAIN mailbox : mailbox[i] = Note(type, a)

\* Messages wait in the queue only while something will flush it: an action
\* whose result is still to come, or a consensus cycle (the two conditions
\* under which handle_agent_message queues).
QueueIsGuarded == queued # <<>> => Unacked \/ scheduled

\* consensus_scheduled is never left set with nothing to act on it: while the
\* agent runs, the :trigger_consensus that clears the flag is in the mailbox.
ScheduledHasTrigger ==
    scheduled /\ status = "up" =>
        \E i \in DOMAIN mailbox : mailbox[i].type = "trigger"

\* No result is lost between the Task and the agent: an action that blocks the
\* message queue has a Task at work on it, or its result is in the mailbox.
OpenActionIsAnswered ==
    \A a \in Actions : pending[a] = "open" =>
        \/ task[a] \notin {"none", "done"}
        \/ \E type \in ResultTypes : InMailbox(type, a)

\* The messages the agent has taken from its mailbox
Recorded == history \o queued

\* Every message is recorded exactly once and in the order it was sent,
\* whichever way it came in: directly, or through the queue and one of the two
\* places that flush it.
\* The first messages sent are recorded or queued, in order; the rest are in the
\* mailbox, in order.
EveryMessageOnce ==
    /\ Len(Recorded) <= sent
    /\ Recorded = [i \in 1..Len(Recorded) |-> i]
    /\ \A m \in Messages : InMailbox("message", m) <=> m \in (Len(Recorded) + 1)..sent
    /\ \A i, j \in DOMAIN mailbox :
          i < j /\ mailbox[i].type = "message" /\ mailbox[j].type = "message" =>
              mailbox[i].id < mailbox[j].id

\* An action's result is recorded once, and a shell command's at most twice
\* (acknowledgement and completion), however its two senders are ordered.
ResultsRecordedOnce ==
    \A a \in Actions : results[a] <= IF decision[a].kind = "shell" THEN 2 ELSE 1

\* The check_id table never keeps a Router that is gone: a dead entry is still
\* monitored, so its DOWN message will remove it.
ShellRoutersMonitored == shellRouters \subseteq activeRouters

\* What makes it inductive: every live Router is monitored, and a command is
\* acknowledged by a Router.
RoutersMonitored ==
    /\ ShellRoutersMonitored
    /\ \A a \in Actions : router[a] \notin {"none", "stopped"} => a \in activeRouters
    /\ \A a \in Actions :
          task[a] = "running" \/ InMailbox("running", a) => router[a] # "none"

\* The agent never thinks while an action it is waiting for is still open, and
\* never has two of them: what queueing messages and deferring consensus are
\* for.  An action that notifies the agent later on its own starts a cycle no
\* matter what is open, so the rule holds until such an action is taken.
Notifies(kind) == kind \in {"batch", "spawn", "shell"}

SingleFlight ==
    (\A a \in Actions : ~Notifies(decision[a].kind)) =>
    /\ Cardinality({a \in Actions : pending[a] = "open"}) <= 1
    /\ deciding => ~Unacked

\* wait_timer always denotes a timer that will still wake the agent, except that
\* a very short :wait may have ended before its result set wait_timer.
WaitTimerIsLive ==
    waitTimer # 0 /\ status = "up" /\ ~(TinyWaits /\ decision[waitTimer].kind = "wait") =>
        \/ armed
        \/ router[waitTimer] = "timer"
        \/ InMailbox("wait_expired", waitTimer)
        \/ \E i \in DOMAIN mailbox : mailbox[i].type = "trigger"

-----------------------------------------------------------------------------
(* Liveness *)

\* Every message sent to a running agent is part of what some later consensus
\* cycle looks at.
EveryMessageConsidered ==
    \A m \in Messages : sent >= m ~> m \in considered \/ status # "up"

\* A timed wait ends: the agent deliberates again.
TimedWaitEnds ==
    \A a \in Actions : waitTimer = a ~> deciding \/ status # "up"

\* An action that blocks the message queue does not do so forever.
OpenActionEnds ==
    \A a \in Actions : pending[a] = "open" ~> pending[a] # "open" \/ status # "up"

\* A successful :wait action asked to wait `false` lets the agent continue.
WaitFalseContinues ==
    \A a \in Actions :
        decision[a].kind = "wait" /\ decision[a].asked = "false" /\ results[a] = 1
            ~> deciding \/ counter > a \/ status # "up"

\* A pause request stops the agent.
StopCompletes == StopPending ~> status = "stopped"

=============================================================================
