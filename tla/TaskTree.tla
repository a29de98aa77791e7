------------------------------ MODULE TaskTree ------------------------------
(***************************************************************************)
(* The tree of agents of one task, and the task's life cycle.              *)
(*                                                                         *)
(* An agent is known by its id, but the tree is held together by pids: a   *)
(* child records the pid of its parent, and a supervisor that restarts a   *)
(* crashed agent gives it a new one.  Agents are spawned and dismissed by  *)
(* background tasks; the dashboard pauses, resumes and deletes the task,   *)
(* and at boot the tasks that ran are restored from the database.  All of  *)
(* these read the registry, act, and are overtaken by the others.          *)
(*                                                                         *)
(* Budgets and costs of a dismissal are in BudgetTree, what an agent does  *)
(* between two of its messages is in AgentCore.                            *)
(***************************************************************************)
EXTENDS Integers, Sequences, FiniteSets, SequencesExt

CONSTANTS
    Size,           \* agent ids are 1..Size, 1 is the root; each is spawned once
    Initial,        \* the agents 1..Initial are there at the start, each the child of the last
    MaxEvents,      \* bound: requests (but for spawns) and failures, all together
    Kinds           \* bound: which of them there are

Requests == {"dismiss", "pause", "resume", "delete", "reload"}
Failures == {"crash", "spawn", "rollback", "restore", "node"}

ASSUME BoundsAssumption ==
    Size \in Nat /\ Initial \in 1..Size /\ MaxEvents \in Nat /\ Kinds \subseteq Requests \cup Failures

Agents == 1..Size
Root == 1
None == 0          \* nil, for an id
NoPid == <<0, 0>>  \* nil, for a pid; a pid is <<id, which process of that id>>

VARIABLES
    registry,    \* the ids of the live processes, in the order they registered
    inc,         \* how many processes an id has had; the live one is the last
    config,      \* what the supervisor starts an agent with
    ready,       \* agents past handle_continue
    dismissing,  \* agents whose dismissing flag is set
    children,    \* the children list of each agent, newest first
    mail,        \* its mailbox, as far as the tree is concerned
    restarting,  \* agents that died abnormally: the supervisor's next work
    parent,      \* the parent_id of each agent
    spawner,     \* which process of the parent asked for it
    stage,       \* how far the background task of its spawn is
    task,        \* the status of the task in the database
    row,         \* the status of the agent's row
    dismissal,   \* the background task of a dismissal
    job,         \* what the dashboard process is busy with
    shown,       \* the status it shows
    listed,      \* the agents it shows
    inbox,       \* the PubSub events it has not handled
    restore,     \* the restoration under way
    events,      \* how many of the bounded events there have been
    \* history, for the properties only
    late,        \* agents that a pause or the scan of a dismissal came too early for
    crashed,     \* agents that died abnormally
    missed,      \* agents that were down, or came back, while a dismissal was at them
    dismissed    \* roots of the dismissals that have ended

procVars  == <<registry, inc, config, ready, dismissing, children>>
spawnVars == <<parent, spawner, stage>>
dbVars    == <<task, row>>
dashVars  == <<job, shown, listed, inbox>>
history   == <<late, crashed, missed, dismissed>>
vars == <<procVars, mail, restarting, spawnVars, dbVars, dismissal, dashVars,
          restore, events, history>>

-----------------------------------------------------------------------------
(* Processes and the registry *)

Live == ToSet(registry)

Pid(x) == <<x, inc[x]>>

IsAlive(pid) == pid[1] \in Live /\ inc[pid[1]] = pid[2]

Ancestors[x \in Agents] ==
    {x} \cup IF parent[x] = None THEN {} ELSE Ancestors[parent[x]]

FindChildrenByParent(pid) == {x \in Live : config[x].parent = pid}

FindChildrenById(id) == {x \in Live : parent[x] = id}

\* The elements of S by increasing key; no two have the same
SortedBy(S, key) ==
    [k \in 1..Cardinality(S) |->
        CHOOSE x \in S : Cardinality({y \in S : key[y] <= key[x]}) = k]

InOrder(S) == SortedBy(S, [x \in S |-> x])

\* What is left of a sequence without the elements of S
Without(s, S) ==
    LET kept == InOrder({i \in DOMAIN s : s[i] \notin S})
    IN  [k \in DOMAIN kept |-> s[kept[k]]]

Msg(type, id) == [type |-> type, id |-> id]

\* A message reaches a process, not an id
Post(boxes, pid, m) ==
    IF IsAlive(pid) THEN [boxes EXCEPT ![pid[1]] = Append(@, m)] ELSE boxes

\* The processes of S end; nothing of their state remains
Exit(S) ==
    /\ registry' = Without(registry, S)
    /\ ready' = ready \ S
    /\ dismissing' = dismissing \ S
    /\ children' = [x \in Agents |-> IF x \in S THEN <<>> ELSE children[x]]

\* The stop that a pause has sent is still in the mailbox
Stopping == {x \in Live : Contains(mail[x], Msg("stop", None))}

Emptied(boxes, S) == [x \in Agents |-> IF x \in S THEN <<>> ELSE boxes[x]]

\* What terminate/2 and setup_agent broadcast
Events(type, S) == [i \in 1..Cardinality(S) |-> Msg(type, InOrder(S)[i])]

\* setup_agent leaves the announcement of a fresh child to the spawn task
Announced(x, c) ==
    IF parent[x] = None \/ c.restored THEN <<Msg("spawned", x)>> ELSE <<>>

\* start_child and register_agent; a dead process has left nothing behind
Start(x, c) ==
    /\ registry' = Append(registry, x)
    /\ inc' = [inc EXCEPT ![x] = @ + 1]
    /\ config' = [config EXCEPT ![x] = c]
    /\ UNCHANGED <<ready, dismissing, children>>

-----------------------------------------------------------------------------
(* The database *)

SetTask(status) == IF task = "deleted" THEN task ELSE status

\* Mutant: a spawned child is left to be inserted by its parent's next save
PersistRootOnly(x) ==
    IF task = "deleted" \/ config[x].restored \/ row[x] # "none" \/ x # Root
    THEN row ELSE [row EXCEPT ![x] = "running"]

\* handle_continue: a row that exists is read, otherwise it is inserted
PersistAgent(x) ==
    IF task = "deleted" \/ config[x].restored \/ row[x] # "none"
    THEN row ELSE [row EXCEPT ![x] = "running"]

Stopped(S) == [x \in Agents |-> IF x \in S /\ row[x] # "none" THEN "stopped" ELSE row[x]]

-----------------------------------------------------------------------------
Idle == [step |-> "idle", root |-> None, by |-> NoPid, queue |-> <<>>,
         seen |-> {}, order |-> <<>>, target |-> NoPid]

NoJob == [step |-> "idle", kill |-> FALSE, todo |-> <<>>, stopped |-> {}]

NoRestore == [step |-> "idle", by |-> "nobody", all |-> {}, todo |-> <<>>,
              pids |-> [x \in Agents |-> 0], failed |-> {}]

\* create_task has inserted the task and started its root, which has spawned a chain of agents
Init ==
    LET there(v, otherwise) == [x \in Agents |-> IF x <= Initial THEN v ELSE otherwise]
    IN  /\ registry = [x \in 1..Initial |-> x] /\ inc = there(1, 0) /\ ready = 1..Initial
        /\ parent = [x \in Agents |-> IF x <= Initial THEN x - 1 ELSE None]
        /\ spawner = [x \in Agents |-> IF x \in 2..Initial THEN 1 ELSE 0]
        /\ config = [x \in Agents |-> [parent |-> <<parent[x], spawner[x]>>, restored |-> FALSE]]
        /\ stage = there("done", "unborn")
        /\ children = [x \in Agents |-> IF x < Initial THEN <<x + 1>> ELSE <<>>]
        /\ task = "running" /\ row = there("running", "none")
        /\ shown = "running" /\ listed = there("running", "unknown") /\ inbox = <<>>
    /\ dismissing = {} /\ restarting = {} /\ mail = [x \in Agents |-> <<>>]
    /\ dismissal = Idle /\ job = NoJob /\ restore = NoRestore
    /\ events = 0
    /\ late = {} /\ crashed = {} /\ missed = {} /\ dismissed = {}

Happens(kind) == kind \in Kinds /\ events < MaxEvents /\ events' = events + 1

-----------------------------------------------------------------------------
(* Agents *)

\* Mutant: no check for a duplicate
TrackAgain(list, c) == <<c>> \o list

\* add_child and handle_child_spawned look for a duplicate, handle_child_restored does not
Track(list, c) == IF Contains(list, c) THEN list ELSE <<c>> \o list

Untrack(list, c) == Without(list, {c})

SetUp(x) ==
    /\ x \in Live \ ready
    /\ ready' = ready \cup {x}
    /\ row' = PersistAgent(x)
    /\ UNCHANGED <<registry, inc, config, dismissing, children, mail, restarting, spawnVars, task,
                   dismissal, dashVars, restore, events, history>>

HandleStopRequested(x) ==
    /\ x \in ready /\ mail[x] # <<>> /\ Head(mail[x]).type = "stop"
    /\ Exit({x})
    /\ mail' = Emptied(mail, {x})
    /\ inbox' = inbox \o Events("terminated", {x})
    /\ UNCHANGED <<inc, config, restarting, spawnVars, dbVars, dismissal, job, shown, listed,
                   restore, events, history>>

HandleNews(x) ==
    /\ x \in ready /\ mail[x] # <<>> /\ Head(mail[x]).type # "stop"
    /\ LET m == Head(mail[x])
       IN  children' = [children EXCEPT ![x] =
               IF m.type = "child_spawned" THEN Track(@, m.id)
               ELSE IF m.type = "child_restored" THEN <<m.id>> \o @
               ELSE Untrack(@, m.id)]
    /\ mail' = [mail EXCEPT ![x] = Tail(@)]
    /\ UNCHANGED <<registry, inc, config, ready, dismissing, restarting, spawnVars, dbVars,
                   dismissal, dashVars, restore, events, history>>

\* An exception in a callback: terminate/2 still runs
Crash(x) ==
    /\ x \in Live /\ Happens("crash")
    /\ Exit({x})
    /\ mail' = Emptied(mail, {x})
    /\ restarting' = restarting \cup {x}
    /\ inbox' = inbox \o Events("terminated", {x})
    /\ crashed' = crashed \cup {x}
    /\ late' = late \cup ({x} \cap Stopping)
    /\ missed' = missed \cup ({x} \cap ToSet(dismissal.order))
    /\ UNCHANGED <<inc, config, spawnVars, dbVars, dismissal, job, shown, listed, restore,
                   dismissed>>

\* A :transient child comes back with the configuration it was started with
Restart(x) ==
    /\ x \in restarting
    /\ restarting' = restarting \ {x}
    /\ Start(x, config[x])
    /\ inbox' = inbox \o Announced(x, config[x])
    /\ UNCHANGED <<mail, spawnVars, dbVars, dismissal, job, shown, listed, restore, events,
                   history>>

-----------------------------------------------------------------------------
(* spawn_child *)

\* The action is accepted and its result tracked; the child starts later
AcceptSpawn(p, x) ==
    /\ p \in ready \ dismissing
    /\ stage[x] = "unborn" /\ \A y \in 1..x-1 : stage[y] # "unborn"
    /\ parent' = [parent EXCEPT ![x] = p]
    /\ spawner' = [spawner EXCEPT ![x] = inc[p]]
    /\ stage' = [stage EXCEPT ![x] = "start"]
    /\ children' = [children EXCEPT ![p] = Track(@, x)]
    /\ late' = IF p \in Stopping THEN late \cup {x} ELSE late
    /\ UNCHANGED <<registry, inc, config, ready, dismissing, mail, restarting, dbVars, dismissal,
                   dashVars, restore, events, crashed, missed, dismissed>>

Asker(x) == <<parent[x], spawner[x]>>

StartChild(x) ==
    /\ stage[x] = "start"
    /\ Start(x, [parent |-> Asker(x), restored |-> FALSE])
    /\ stage' = [stage EXCEPT ![x] = "announce"]
    /\ UNCHANGED <<mail, restarting, parent, spawner, dbVars, dismissal, dashVars, restore, events,
                   history>>

\* All three attempts failed
FailSpawn(x) ==
    /\ stage[x] = "start" /\ Happens("spawn")
    /\ stage' = [stage EXCEPT ![x] = "done"]
    /\ mail' = Post(mail, Asker(x), Msg("spawn_failed", x))
    /\ UNCHANGED <<procVars, restarting, parent, spawner, dbVars, dismissal, dashVars, restore,
                   history>>

Announce(x) ==
    /\ stage[x] = "announce"
    /\ stage' = [stage EXCEPT ![x] = "wait"]
    /\ inbox' = Append(inbox, Msg("spawned", x))
    /\ UNCHANGED <<procVars, mail, restarting, parent, spawner, dbVars, dismissal, job, shown,
                   listed, restore, events, history>>

\* Core.get_state returns when the child is set up, and exits when it has died
AwaitChild(x) ==
    /\ stage[x] = "wait"
    /\ \/ /\ IsAlive(<<x, 1>>) /\ x \in ready
          /\ stage' = [stage EXCEPT ![x] = "tell"]
          /\ UNCHANGED mail
       \/ /\ ~IsAlive(<<x, 1>>)
          /\ stage' = [stage EXCEPT ![x] = "done"]
          /\ mail' = Post(mail, Asker(x), Msg("spawn_failed", x))
    /\ UNCHANGED <<procVars, restarting, parent, spawner, dbVars, dismissal, dashVars, restore,
                   events, history>>

TellParent(x) ==
    /\ stage[x] = "tell"
    /\ stage' = [stage EXCEPT ![x] = "done"]
    /\ mail' = Post(mail, Asker(x), Msg("child_spawned", x))
    /\ UNCHANGED <<procVars, restarting, parent, spawner, dbVars, dismissal, dashVars, restore,
                   events, history>>

BeingSpawned == {x \in Agents : stage[x] = "start"}

ComingBack == restarting \cup ToSet(restore.todo)

\* Started once, but not registered now
Down == {x \in Agents \ Live : inc[x] # 0}

LateComers == BeingSpawned \cup ComingBack

-----------------------------------------------------------------------------
(* dismiss_child and TreeTerminator *)

\* The registry names the caller as the parent; an id nobody has is reported as gone
BeginDismissal(p, c) ==
    /\ dismissal.step = "idle" /\ Happens("dismiss")
    /\ p \in ready /\ c \in Live /\ parent[c] = p
    /\ dismissal' = [Idle EXCEPT !.step = "mark", !.root = c, !.by = Pid(p), !.queue = <<c>>]
    /\ UNCHANGED <<procVars, mail, restarting, spawnVars, dbVars, dashVars, restore, history>>

\* Mutant: the flag is not set
NoFlag(x) == dismissing' = dismissing

\* Mutant: the flag is set on an agent that is not registered
FlagAnyway(x) == dismissing' = dismissing \cup {x}

SetDismissing(x) == dismissing' = dismissing \cup ({x} \cap Live)

Flags(x) ==
    /\ SetDismissing(x)
    /\ missed' = missed \cup ({x} \ Live)
    /\ UNCHANGED <<registry, inc, config, ready, children, mail, restarting, spawnVars, dbVars,
                   dashVars, restore, events, late, crashed, dismissed>>

ChildrenOf(pid) == IF IsAlive(pid) THEN FindChildrenByParent(pid) ELSE {}

\* mark_subtree_dismissing, one agent of the queue
MarkSubtree ==
    LET x    == Head(dismissal.queue)
        kids == IF x \notin Live THEN {} ELSE ChildrenOf(Pid(x)) \cup FindChildrenById(x)
        rest == Tail(dismissal.queue) \o IF x \in dismissal.seen THEN <<>> ELSE InOrder(kids)
    IN  /\ dismissal.step = "mark"
        /\ dismissal' = [dismissal EXCEPT !.step = IF rest = <<>> THEN "costs" ELSE "mark",
                                          !.queue = rest, !.seen = @ \cup {x}]
        /\ Flags(x)

AbsorbCosts ==
    /\ dismissal.step = "costs"
    /\ dismissal' = [dismissal EXCEPT !.step = "flag", !.queue = <<dismissal.root>>,
                                      !.order = <<dismissal.root>>]
    /\ UNCHANGED <<procVars, mail, restarting, spawnVars, dbVars, dashVars, restore, events,
                   history>>

\* The transaction is rolled back; the flags stay
RollBackCosts ==
    /\ dismissal.step = "costs" /\ Happens("rollback")
    /\ dismissal' = Idle
    /\ UNCHANGED <<procVars, mail, restarting, spawnVars, dbVars, dashVars, restore, history>>

\* collect_descendants: first the flag, then the children
FlagAgent ==
    /\ dismissal.step = "flag"
    /\ dismissal' = [dismissal EXCEPT !.step = "scan"]
    /\ Flags(Head(dismissal.queue))

ScanChildren ==
    LET x    == Head(dismissal.queue)
        kids == IF x \in Live THEN InOrder(ChildrenOf(Pid(x))) ELSE <<>>
        rest == Tail(dismissal.queue) \o kids
    IN  /\ dismissal.step = "scan"
        /\ dismissal' = [dismissal EXCEPT !.step = IF rest = <<>> THEN "find" ELSE "flag",
                                          !.queue = rest, !.order = @ \o kids]
        /\ late' = late \cup {y \in BeingSpawned : parent[y] = x}
        /\ missed' = missed \cup ({x} \ Live) \cup {y \in ComingBack \cup Down : parent[y] = x}
        /\ UNCHANGED <<procVars, mail, restarting, spawnVars, dbVars, dashVars, restore, events,
                       crashed, dismissed>>

\* The next in reverse order, after which the parent is told
AfterLast(d) ==
    LET rest == Front(d.order)
    IN  [d EXCEPT !.order = rest, !.target = NoPid,
                  !.step = IF rest = <<>> THEN "tell" ELSE "find"]

\* terminate_single_agent: an agent nobody has registered only loses its row
FindNext ==
    LET x == Last(dismissal.order)
    IN  /\ dismissal.step = "find"
        /\ IF x \in Live
           THEN /\ dismissal' = [dismissal EXCEPT !.step = "stop", !.target = Pid(x)]
                /\ UNCHANGED row
           ELSE /\ dismissal' = AfterLast(dismissal)
                /\ row' = [row EXCEPT ![x] = "none"]
        /\ missed' = missed \cup ({x} \cap ComingBack)
        /\ UNCHANGED <<procVars, mail, restarting, spawnVars, task, dashVars, restore, events, late,
                       crashed, dismissed>>

\* DynSup.terminate_agent; it fails when the process has died since
StopFound ==
    LET x == dismissal.target[1]
    IN  /\ dismissal.step = "stop"
        /\ dismissal' = AfterLast(dismissal)
        /\ \/ /\ IsAlive(dismissal.target) /\ x \in ready
              /\ Exit({x})
              /\ mail' = Emptied(mail, {x})
              /\ inbox' = inbox \o Events("terminated", {x})
              /\ row' = [row EXCEPT ![x] = "none"]
              /\ missed' = missed \cup ({x} \cap ComingBack)
           \/ /\ ~IsAlive(dismissal.target)
              /\ missed' = missed \cup {x}
              /\ UNCHANGED <<registry, ready, dismissing, children, mail, inbox, row>>
        /\ UNCHANGED <<inc, config, restarting, spawnVars, task, job, shown, listed, restore,
                       events, late, crashed, dismissed>>

TellDismisser ==
    /\ dismissal.step = "tell"
    /\ dismissal' = Idle
    /\ mail' = Post(mail, dismissal.by, Msg("child_dismissed", dismissal.root))
    /\ dismissed' = dismissed \cup {dismissal.root}
    /\ UNCHANGED <<procVars, restarting, spawnVars, dbVars, dashVars, restore, events, late,
                   crashed, missed>>

-----------------------------------------------------------------------------
(* The dashboard process: clicks, and the events it has subscribed to *)

LiveAgents == [i \in DOMAIN registry |-> Pid(registry[i])]

\* A click may have waited in front of the events
Clicked(button) == job.step = "idle" /\ Happens(button)

\* pause_task, called by the Pause button and by delete_task
BeginStops(kill) ==
    IF Live = {}
    THEN /\ task' = SetTask("paused")
         /\ late' = late \cup LateComers
         /\ job' = [NoJob EXCEPT !.step = IF kill THEN "delete" ELSE "paused", !.kill = kill]
    ELSE /\ task' = SetTask("pausing")
         /\ UNCHANGED late
         /\ job' = [NoJob EXCEPT !.step = "send", !.kill = kill, !.todo = Reverse(LiveAgents)]

ClickPause ==
    /\ Clicked("pause") /\ shown = "running"
    /\ BeginStops(FALSE)
    /\ UNCHANGED <<procVars, mail, restarting, spawnVars, row, dismissal, shown, listed, inbox,
                   restore, crashed, missed, dismissed>>

ClickDelete ==
    /\ Clicked("delete") /\ shown \in {"pausing", "paused", "completed"}
    /\ BeginStops(TRUE)
    /\ UNCHANGED <<procVars, mail, restarting, spawnVars, row, dismissal, shown, listed, inbox,
                   restore, crashed, missed, dismissed>>

\* :stop_requested is a message; a kill leaves the supervisor to restart the agent
StopOrKill(S) ==
    IF job.kill
    THEN /\ Exit(S)
         /\ mail' = Emptied(mail, S)
         /\ restarting' = restarting \cup S
         /\ crashed' = crashed \cup S
         /\ missed' = missed \cup (S \cap ToSet(dismissal.order))
    ELSE /\ mail' = [x \in Agents |-> IF x \in S THEN Append(mail[x], Msg("stop", None))
                                      ELSE mail[x]]
         /\ UNCHANGED <<registry, ready, dismissing, children, restarting, crashed, missed>>

SendStop ==
    /\ job.step = "send"
    /\ LET pid == Head(job.todo)
       IN  /\ StopOrKill(IF IsAlive(pid) THEN {pid[1]} ELSE {})
           /\ job' = [job EXCEPT !.todo = Tail(@), !.stopped = @ \cup {pid[1]},
                                 !.step = IF Len(job.todo) = 1 THEN "sweep" ELSE "send"]
    /\ UNCHANGED <<inc, config, spawnVars, dbVars, dismissal, shown, listed, inbox, restore, events,
                   late, dismissed>>

\* Mutant: nobody looks again
NoneRegistered == {}

\* sweep_late_registrations, by id
LateRegistrations == Live \ job.stopped

SweepLate ==
    /\ job.step = "sweep"
    /\ StopOrKill(LateRegistrations)
    /\ job' = [job EXCEPT !.step = IF job.kill THEN "delete" ELSE "paused"]
    /\ late' = late \cup LateComers \cup ((Live \cap job.stopped) \ Stopping)
    /\ UNCHANGED <<inc, config, spawnVars, dbVars, dismissal, shown, listed, inbox, restore, events,
                   dismissed>>

\* handle_pause_task, after pause_task
ShowPausing ==
    /\ job.step = "paused"
    /\ job' = NoJob /\ shown' = "pausing"
    /\ UNCHANGED <<procVars, mail, restarting, spawnVars, dbVars, dismissal, listed, inbox, restore,
                   events, history>>

\* The foreign keys delete the rows of the agents
DeleteTask ==
    /\ job.step = "delete"
    /\ job' = NoJob
    /\ shown' = IF task = "deleted" THEN shown ELSE "deleted"
    /\ task' = "deleted"
    /\ row' = [x \in Agents |-> "none"]
    /\ UNCHANGED <<procVars, mail, restarting, spawnVars, dismissal, listed, inbox, restore, events,
                   history>>

\* A page shows a running agent only if it is registered
Registered == [x \in Agents |-> IF x \in Live THEN "running" ELSE "unknown"]

\* mount: update_task_status of the data loader
Reload ==
    /\ Clicked("reload")
    /\ inbox' = <<>> /\ listed' = Registered
    /\ IF Live # {} /\ task # "deleted"
       THEN shown' = "running" /\ UNCHANGED task
       ELSE /\ task' = IF task = "pausing" THEN "paused" ELSE task
            /\ shown' = task'
    /\ UNCHANGED <<procVars, mail, restarting, spawnVars, row, dismissal, job, restore, history>>

HandleAgentSpawned ==
    /\ job.step = "idle" /\ inbox # <<>> /\ Head(inbox).type = "spawned"
    /\ inbox' = Tail(inbox)
    /\ listed' = [listed EXCEPT ![Head(inbox).id] = "running"]
    /\ shown' = "running"
    /\ UNCHANGED <<procVars, mail, restarting, spawnVars, dbVars, dismissal, job, restore, events,
                   history>>

\* Mutant: the agent that has just ended still counts
EveryoneListed(x) == {y \in Agents : listed[y] = "running"}

OthersListed(x) == {y \in Agents \ {x} : listed[y] = "running"}

\* handle_agent_terminated: the last agent the page knows of ends a pause
HandleAgentTerminated ==
    LET x    == Head(inbox).id
        last == OthersListed(x) = {}
    IN  /\ job.step = "idle" /\ inbox # <<>> /\ Head(inbox).type = "terminated"
        /\ inbox' = Tail(inbox)
        /\ listed' = [listed EXCEPT ![x] = IF @ = "unknown" THEN @ ELSE "terminated"]
        /\ IF listed[x] # "unknown" /\ last /\ shown # "deleted"
           THEN /\ shown' = CASE shown = "pausing" -> "paused"
                              [] shown = "running" -> "completed"
                              [] OTHER             -> shown
                /\ task' = IF shown = "pausing" THEN SetTask("paused") ELSE task
           ELSE UNCHANGED <<shown, task>>
        /\ UNCHANGED <<procVars, mail, restarting, spawnVars, row, dismissal, job, restore, events,
                       history>>

-----------------------------------------------------------------------------
(* restore_task, called by the Resume button and by the revival at boot *)

\* Mutant: newest first
NewestFirst(all) ==
    SortedBy({x \in all : Ancestors[x] \subseteq all}, [x \in Agents |-> Size - x])

\* topological_sort starts at the root: an agent below a missing row is never reached
TopologicalSort(all) ==
    SortedBy({x \in all : Ancestors[x] \subseteq all},
             [x \in Agents |-> Cardinality(Ancestors[x]) * (Size + 1) + x])

BeginRestore(by, all) ==
    [NoRestore EXCEPT !.step = "restore", !.by = by, !.all = all,
                      !.todo = TopologicalSort(all)]

RunningRows == {x \in Agents : row[x] = "running"}

ClickResume ==
    /\ Clicked("resume") /\ shown = "paused" /\ restore.step = "idle"
    /\ IF RunningRows = {}
       THEN UNCHANGED <<restore, job>>
       ELSE /\ restore' = BeginRestore("page", RunningRows)
            /\ job' = [NoJob EXCEPT !.step = "restore"]
    /\ UNCHANGED <<procVars, mail, restarting, spawnVars, dbVars, dismissal, shown, listed, inbox,
                   history>>

Restored == {x \in Agents : restore.pids[x] # 0}

\* The override replaces the parent pid of the stored configuration
RestoreConfig(x) ==
    [parent |-> IF parent[x] \in Restored THEN <<parent[x], restore.pids[parent[x]]>> ELSE NoPid,
     restored |-> TRUE]

SkipAgent ==
    /\ restore.step = "restore" /\ restore.todo # <<>>
    /\ parent[Head(restore.todo)] \in restore.failed
    /\ restore' = [restore EXCEPT !.todo = Tail(@)]
    /\ UNCHANGED <<procVars, mail, restarting, spawnVars, dbVars, dismissal, dashVars, events,
                   history>>

\* restore_agent_with_retry: a survivor with the same id is stopped first
RestoreAgent ==
    LET x == Head(restore.todo)
        survivors == {x} \cap Live
    IN  /\ restore.step = "restore" /\ restore.todo # <<>>
        /\ parent[x] \notin restore.failed
        /\ x \notin restarting /\ survivors \subseteq ready
        /\ registry' = Append(Without(registry, {x}), x)
        /\ ready' = ready \ {x} /\ dismissing' = dismissing \ {x}
        /\ children' = [children EXCEPT ![x] = <<>>]
        /\ mail' = Emptied(mail, {x})
        /\ inc' = [inc EXCEPT ![x] = @ + 1]
        /\ config' = [config EXCEPT ![x] = RestoreConfig(x)]
        /\ inbox' = inbox \o Events("terminated", survivors) \o <<Msg("spawned", x)>>
        /\ restore' = [restore EXCEPT !.todo = Tail(@), !.pids[x] = inc[x] + 1]
        /\ missed' = missed \cup ({x} \cap ToSet(dismissal.order))
        /\ UNCHANGED <<restarting, spawnVars, dbVars, dismissal, job, shown, listed, events, late,
                       crashed, dismissed>>

FailToRestore ==
    LET x == Head(restore.todo)
    IN  /\ restore.step = "restore" /\ restore.todo # <<>>
        /\ parent[x] \notin restore.failed /\ Happens("restore")
        /\ restore' = [restore EXCEPT !.todo = Tail(@), !.failed = @ \cup {x}]
        /\ UNCHANGED <<procVars, mail, restarting, spawnVars, dbVars, dismissal, dashVars, history>>

EndRestore(status) ==
    /\ restore' = NoRestore
    /\ IF restore.by = "page" THEN job' = NoJob /\ shown' = status ELSE UNCHANGED <<job, shown>>

\* {:error, :all_agents_failed}
GiveUp ==
    /\ restore.step = "restore" /\ restore.todo = <<>>
    /\ Restored = {} /\ restore.failed # {}
    /\ EndRestore(shown)
    /\ UNCHANGED <<procVars, mail, restarting, spawnVars, dbVars, dismissal, listed, inbox, events,
                   history>>

HasParent(x) == parent[x] # None

\* Children are visited oldest first, so a stopped parent is dead when its child's turn comes
Cut[x \in Agents] ==
    LET p == parent[x]
    IN  /\ x \in restore.all /\ HasParent(x)
        /\ \/ p \notin Restored
           \/ ~IsAlive(<<p, restore.pids[p]>>)
           \/ p < x /\ Cut[p]

ChildrenToTell(p) ==
    InOrder({x \in restore.all : HasParent(x) /\ parent[x] = p /\ ~Cut[x]})

\* rebuild_children_lists
RebuildChildren ==
    LET cut  == {x \in Agents : Cut[x]}
        gone == {x \in cut \cap Restored : IsAlive(<<x, restore.pids[x]>>)}
        told == [p \in Agents |-> ChildrenToTell(p)]
    IN  /\ restore.step = "restore" /\ restore.todo = <<>>
        /\ Restored # {} \/ restore.failed = {}
        /\ gone \subseteq ready
        /\ Exit(gone)
        /\ mail' = Emptied([p \in Agents |-> mail[p] \o
                                [i \in DOMAIN told[p] |-> Msg("child_restored", told[p][i])]],
                           gone)
        /\ inbox' = inbox \o Events("terminated", gone)
        /\ row' = Stopped(cut)
        /\ restore' = [restore EXCEPT !.step = "sweep"]
        /\ UNCHANGED <<inc, config, restarting, spawnVars, task, dismissal, job, shown, listed,
                       events, history>>

Orphans == Live \ Restored

\* cleanup_orphans and the new status
SweepOrphans ==
    /\ restore.step = "sweep"
    /\ Orphans \subseteq ready
    /\ Exit(Orphans)
    /\ mail' = Emptied(mail, Orphans)
    /\ inbox' = inbox \o Events("terminated", Orphans)
    /\ row' = Stopped(Orphans)
    /\ late' = late \cup LateComers
    /\ task' = SetTask("running")
    /\ EndRestore("running")
    /\ UNCHANGED <<inc, config, restarting, spawnVars, dismissal, listed, events, crashed, missed, dismissed>>

-----------------------------------------------------------------------------
(* The node goes down, and AgentRevival runs when it is up again *)

NodeCrash ==
    /\ Happens("node")
    /\ Exit(Live)
    /\ mail' = Emptied(mail, Agents)
    /\ restarting' = {}
    /\ stage' = [x \in Agents |-> IF stage[x] = "unborn" THEN "unborn" ELSE "done"]
    /\ dismissal' = Idle /\ job' = NoJob /\ inbox' = <<>>
    /\ task' = IF task = "pausing" THEN "paused" ELSE task
    /\ shown' = task' /\ listed' = [x \in Agents |-> "unknown"]
    /\ restore' = IF task = "running" /\ RunningRows # {}
                  THEN BeginRestore("boot", RunningRows) ELSE NoRestore
    /\ UNCHANGED <<inc, config, parent, spawner, row, history>>

-----------------------------------------------------------------------------
AgentStep(x) == SetUp(x) \/ HandleStopRequested(x) \/ HandleNews(x) \/ Restart(x)

SpawnStep(x) == StartChild(x) \/ Announce(x) \/ AwaitChild(x) \/ TellParent(x)

DismissalStep == \/ MarkSubtree \/ AbsorbCosts \/ FlagAgent \/ ScanChildren
                 \/ FindNext \/ StopFound \/ TellDismisser

PageStep == \/ SendStop \/ SweepLate \/ ShowPausing \/ DeleteTask
            \/ HandleAgentSpawned \/ HandleAgentTerminated

RestoreStep == SkipAgent \/ RestoreAgent \/ GiveUp \/ RebuildChildren \/ SweepOrphans

Fault == \/ RollBackCosts \/ FailToRestore \/ NodeCrash
         \/ \E x \in Agents : Crash(x) \/ FailSpawn(x)

Request == \/ ClickPause \/ ClickResume \/ ClickDelete \/ Reload
           \/ \E p, x \in Agents : AcceptSpawn(p, x) \/ BeginDismissal(p, x)

Next == \/ \E x \in Agents : AgentStep(x) \/ SpawnStep(x)
        \/ DismissalStep \/ PageStep \/ RestoreStep
        \/ Fault \/ Request

\* The runtime schedules every process; what users and agents ask for is never owed
Fairness == /\ \A x \in Agents : WF_vars(AgentStep(x)) /\ WF_vars(SpawnStep(x))
            /\ WF_vars(DismissalStep) /\ WF_vars(PageStep) /\ WF_vars(RestoreStep)

Spec == Init /\ [][Next]_vars /\ Fairness

-----------------------------------------------------------------------------
(* Properties *)

Pids == (0..Size) \X Nat
Statuses == {"running", "pausing", "paused", "completed", "deleted"}

\* Every variable holds what the code puts there, and what a dead process held is gone
TypeOK ==
    /\ Live \subseteq Agents /\ Len(registry) = Cardinality(Live)
    /\ inc \in [Agents -> Nat]
    /\ config \in [Agents -> [parent : Pids, restored : BOOLEAN]]
    /\ ready \subseteq Live /\ dismissing \subseteq Live
    /\ children \in [Agents -> Seq(Agents)]
    /\ \A x \in Agents \ Live : children[x] = <<>> /\ mail[x] = <<>>
    /\ restarting \subseteq Agents \ Live
    /\ parent \in [Agents -> 0..Size] /\ \A x \in Agents : parent[x] < x
    /\ spawner \in [Agents -> Nat]
    /\ stage \in [Agents -> {"unborn", "start", "announce", "wait", "tell", "done"}]
    /\ task \in Statuses \ {"completed"} /\ shown \in Statuses
    /\ row \in [Agents -> {"none", "running", "stopped"}]
    /\ listed \in [Agents -> {"unknown", "running", "terminated"}]

\* The link to the parent is out of date: the parent has been restarted since, or the agent
\* was restored without one
Unlinked(x) == parent[x] # None /\ config[x].parent # Pid(parent[x])

\* When a dismissal has ended nothing of the subtree lives, however the steps of spawns,
\* pauses and restores fall between those of the dismissal, except below an agent that was
\* being started or was down at the time, or whose parent process was not the one it knew
DismissedSubtreeGone ==
    \A x \in Live : Ancestors[x] \cap dismissed # {} =>
        \E y \in Ancestors[x] : y \in late \cup missed \/ Unlinked(y)

\* A paused task whose stops have all been handled has no agents, except those that a
\* sweep came too early for and what they have spawned
PausedTaskIsQuiet ==
    (/\ task = "paused" /\ job.step = "idle" /\ restore.step = "idle" /\ Stopping = {})
        => \A x \in Live : Ancestors[x] \cap late # {}

\* As soon as its message from a restoration is handled, a child is listed by its parent exactly
\* once, whichever of the spawn, the child's end and the restoration was reported first, unless it
\* has crashed or a dismissal has missed it
ParentKnowsChildren ==
    restore.step # "restore" =>
        \A p, x \in Live :
            (/\ config[x].parent = Pid(p) /\ Msg("child_restored", x) \notin ToSet(mail[p])
             /\ x \notin crashed \cup missed)
                => Cardinality({i \in DOMAIN children[p] : children[p][i] = x}) = 1

\* An agent at work is in the database as running, so that the next boot brings it back,
\* except an orphan that the restoration under way is about to stop
LiveAgentIsPersisted ==
    task # "deleted" => \A x \in ready :
        \/ row[x] = "running" \/ x \in crashed \cup missed
        \/ restore.step = "sweep" /\ x \notin Restored

\* A restoration in which nothing failed ends with every agent that can be reached from the
\* root started under the restored process of its parent, and stops none of them itself
RestoreRebuildsTree ==
    [][ (restore.step = "sweep" /\ restore'.step = "idle" /\ events' = events
            /\ restore.failed = {}) =>
            /\ \A x \in restore.all : Ancestors[x] \subseteq restore.all =>
                   /\ x \in Restored
                   /\ IsAlive(<<x, restore.pids[x]>>) => config[x] = RestoreConfig(x)
            /\ Live \cap Restored \subseteq Live' ]_vars

\* A page that shows a pause, and lists some agent, all of which are stopping, sees the pause
\* end: the last event finds nobody else, unless a late spawn turns the page to running
PauseCompletes ==
    (/\ task = "pausing" /\ shown = "pausing"
     /\ \E x \in Agents : listed[x] = "running"
     /\ \A x \in Agents : listed[x] = "running" =>
            x \in Stopping \/ Contains(inbox, Msg("terminated", x)))
        ~> (task # "pausing" \/ shown # "pausing")

\* What the docs of delete_task say: its agents are terminated before the deletion
DeletedTaskHasNoAgents ==
    (task = "deleted" /\ restarting = {} /\ BeingSpawned = {}) => Live = {}

=============================================================================
