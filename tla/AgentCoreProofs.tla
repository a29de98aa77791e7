--------------------------- MODULE AgentCoreProofs ---------------------------
(***************************************************************************)
(* Theorems about AgentCore, for every value of its constants.             *)
(***************************************************************************)
EXTENDS AgentCore, SequenceTheorems, FiniteSetTheorems, TLAPS

USE BoundsAssumption DEF BoundsAssumption, Messages, Actions

-----------------------------------------------------------------------------
(* Sequences *)

\* Appending adds one element at the end and moves nothing.
LEMMA AppendElements ==
    ASSUME NEW S, NEW s \in Seq(S), NEW e \in S
    PROVE  /\ Append(s, e) \in Seq(S)
           /\ \A i \in DOMAIN s : i \in DOMAIN Append(s, e) /\ Append(s, e)[i] = s[i]
           /\ Len(s) + 1 \in DOMAIN Append(s, e)
           /\ Append(s, e)[Len(s) + 1] = e
           /\ \A i \in DOMAIN Append(s, e) : i \in DOMAIN s \/ Append(s, e)[i] = e
  OBVIOUS

\* The tail holds every element but the first.
LEMMA TailElements ==
    ASSUME NEW S, NEW s \in Seq(S), s # <<>>
    PROVE  /\ Tail(s) \in Seq(S)
           /\ Head(s) \in S
           /\ \A i \in DOMAIN s :
                 s[i] = Head(s) \/ \E j \in DOMAIN Tail(s) : Tail(s)[j] = s[i]
           /\ \A j \in DOMAIN Tail(s) : \E i \in DOMAIN s : Tail(s)[j] = s[i]
<1>1. Tail(s) \in Seq(S) /\ Head(s) \in S /\ Head(s) = s[1]
  OBVIOUS
<1>2. \A j \in DOMAIN Tail(s) : j + 1 \in DOMAIN s /\ Tail(s)[j] = s[j + 1]
  OBVIOUS
<1>3. \A i \in DOMAIN s : i # 1 => i - 1 \in DOMAIN Tail(s) /\ Tail(s)[i - 1] = s[i]
  OBVIOUS
<1> QED
  BY <1>1, <1>2, <1>3

\* Draining keeps the length and every message that is not a trigger.
LEMMA DrainedElements ==
    ASSUME NEW s \in Seq(Envelopes)
    PROVE  /\ Drained(s) \in Seq(Envelopes)
           /\ \A i \in DOMAIN s :
                 s[i].type # "trigger" => i \in DOMAIN Drained(s) /\ Drained(s)[i] = s[i]
           /\ \A i \in DOMAIN Drained(s) :
                 Drained(s)[i] = Taken \/ (i \in DOMAIN s /\ Drained(s)[i] = s[i])
<1>1. Taken \in Envelopes
  BY DEF Taken, Envelopes
<1>2. Drained(s) = [i \in 1..Len(s) |-> IF s[i].type = "trigger" THEN Taken ELSE s[i]]
  BY DEF Drained
<1>3. \A i \in 1..Len(s) : s[i] \in Envelopes
  OBVIOUS
<1>4. Len(s) \in Nat /\ DOMAIN s = 1..Len(s)
  OBVIOUS
<1>5. Drained(s) \in Seq(Envelopes)
  BY <1>1, <1>2, <1>3, <1>4
<1> QED
  BY <1>2, <1>4, <1>5

-----------------------------------------------------------------------------
(* Type correctness *)

\* Every message the agent's processes send is an envelope.
LEMMA EnvelopeTypes ==
    /\ Taken \in Envelopes
    /\ \A a \in 0..MaxActions : Trigger(a) \in Envelopes
    /\ \A m \in Messages : Message(m) \in Envelopes
    /\ Note("stop_requested", 0) \in Envelopes
    /\ \A a \in Actions :
          /\ \A type \in ResultTypes : Note(type, a) \in Envelopes
          /\ Note("wait_expired", a) \in Envelopes
          /\ Note("batch_completed", a) \in Envelopes
          /\ Note("spawn_failed", a) \in Envelopes
          /\ Note("call", a) \in Envelopes
  BY DEF Taken, Trigger, Message, Note, Envelopes

\* The message a handler receives has the id its type calls for.
LEMMA ReceivedTypes ==
    ASSUME TypeOK, NEW type, Receives(type)
    PROVE  /\ Tail(mailbox) \in Seq(Envelopes)
           /\ Head(mailbox) \in Envelopes
           /\ type = "message" => Head(mailbox).id \in Messages
           /\ type \in ResultTypes \cup {"wait_expired", "call"} =>
                 Head(mailbox).id \in Actions
<1>1. mailbox \in Seq(Envelopes) /\ mailbox # <<>> /\ Head(mailbox).type = type
  BY DEF TypeOK, Receives
<1>2. Tail(mailbox) \in Seq(Envelopes) /\ Head(mailbox) \in Envelopes
  BY <1>1
<1>3. type = "message" => Head(mailbox).id \in Messages
  BY <1>1, <1>2 DEF Envelopes, ResultTypes, TaskReplies
<1>4. type \in ResultTypes \cup {"wait_expired", "call"} => Head(mailbox).id \in Actions
  BY <1>1, <1>2 DEF Envelopes, ResultTypes, TaskReplies
<1> QED
  BY <1>2, <1>3, <1>4

\* Starting a cycle keeps the types of what it touches.
LEMMA StartCycleTypes ==
    ASSUME TypeOK, StartCycle
    PROVE  /\ queued' \in Seq(Messages) /\ history' \in Seq(Messages)
           /\ deciding' \in BOOLEAN /\ considered' \subseteq Messages
<1>1. history' = history \o queued /\ queued' = <<>>
  BY DEF StartCycle, FlushQueued
<1>2. queued' \in Seq(Messages) /\ history' \in Seq(Messages)
  BY <1>1 DEF TypeOK
<1>3. \A i \in DOMAIN history' : history'[i] \in Messages
  BY <1>2
<1> QED
  BY <1>2, <1>3 DEF StartCycle, TypeOK

\* Cancelling or setting the wait timer keeps the types of its two variables.
LEMMA WaitTimerTypes ==
    ASSUME NEW a \in Actions, NEW own \in BOOLEAN, CancelWaitTimer \/ SetWaitTimer(a, own)
    PROVE  waitTimer' \in 0..MaxActions /\ armed' \in BOOLEAN
<1>1. waitTimer' \in {0, a}
  BY DEF CancelWaitTimer, SetWaitTimer
<1>2. armed' \in BOOLEAN
  BY Zenon DEF CancelWaitTimer, SetWaitTimer
<1> QED
  BY <1>1, <1>2

\* The same when there is nothing to set it for.
LEMMA CancelledTimerTypes ==
    CancelWaitTimer => waitTimer' \in 0..MaxActions /\ armed' \in BOOLEAN
<1> SUFFICES ASSUME CancelWaitTimer PROVE waitTimer' \in 0..MaxActions /\ armed' \in BOOLEAN
  OBVIOUS
<1>1. waitTimer' \in 0..MaxActions
  BY DEF CancelWaitTimer
<1>2. armed' \in BOOLEAN
  BY Zenon DEF CancelWaitTimer
<1> QED
  BY <1>1, <1>2

\* The initial state has its types.
LEMMA InitTypes == Init => TypeOK
<1> SUFFICES ASSUME Init PROVE TypeOK
  OBVIOUS
<1>1. mailbox \in Seq(Envelopes) /\ queued \in Seq(Messages) /\ history \in Seq(Messages)
  BY DEF Init
<1>2. /\ deciding \in BOOLEAN /\ scheduled \in BOOLEAN
      /\ armed \in BOOLEAN /\ feedback \in BOOLEAN
  BY Zenon DEF Init
<1> QED
  BY <1>1, <1>2 DEF Init, TypeOK, MaxConsensusAttempts, TaskStates, RouterStates, NoDecision

\* A step of the receive loop keeps the types.
LEMMA ReceiveTypes == TypeOK /\ (Receive \/ HandleRouterDown) => TypeOK'
<1> SUFFICES ASSUME TypeOK, Receive \/ HandleRouterDown PROVE TypeOK'
  OBVIOUS
<1> USE DEF loopVars, timerVars, retryVars, recordVars, routerVars, envVars
<1>1. CASE SkipTaken
  BY <1>1, ReceivedTypes DEF SkipTaken, TypeOK
<1>2. CASE HandleAgentMessage
  <2>1. Tail(mailbox) \in Seq(Envelopes) /\ Head(mailbox).id \in Messages
    BY <1>2, ReceivedTypes DEF HandleAgentMessage
  <2>2. waitTimer' \in 0..MaxActions /\ armed' \in BOOLEAN
    BY <1>2, CancelledTimerTypes DEF HandleAgentMessage
  <2>3. UNCHANGED <<status, deciding, pending, retries, failures, stalls, counter,
                    decision, results, considered, activeRouters, shellRouters, task,
                    router, background, sent>>
    BY <1>2 DEF HandleAgentMessage
  <2>4. CASE /\ queued' = Append(queued, Head(mailbox).id)
             /\ mailbox' = Tail(mailbox)
             /\ UNCHANGED <<scheduled, feedback, history>>
    <3>1. queued' \in Seq(Messages)
      BY <2>1, <2>4, AppendElements DEF TypeOK
    <3> QED
      BY <2>1, <2>2, <2>3, <2>4, <3>1 DEF TypeOK
  <2>5. CASE /\ feedback' = FALSE
             /\ history' = Append(history, Head(mailbox).id)
             /\ Schedule
             /\ UNCHANGED queued
    <3>1. history' \in Seq(Messages)
      BY <2>1, <2>5, AppendElements DEF TypeOK
    <3>2. mailbox' \in Seq(Envelopes)
      BY <2>1, <2>5, EnvelopeTypes, AppendElements DEF Schedule
    <3>3. feedback' \in BOOLEAN /\ scheduled' \in BOOLEAN
      BY <2>5, Zenon DEF Schedule
    <3> QED
      BY <2>2, <2>3, <2>5, <3>1, <3>2, <3>3 DEF TypeOK
  <2> QED
    BY <1>2, <2>4, <2>5 DEF HandleAgentMessage
<1>3. CASE IgnoreStaleTrigger
  BY <1>3, ReceivedTypes DEF IgnoreStaleTrigger, TypeOK
<1>4. CASE HandleTrigger
  <2>1. mailbox' \in Seq(Envelopes)
    BY <1>4, ReceivedTypes, DrainedElements DEF HandleTrigger
  <2>2. waitTimer' \in 0..MaxActions /\ armed' \in BOOLEAN
    BY <1>4, CancelledTimerTypes DEF HandleTrigger
  <2>3. scheduled' \in BOOLEAN
    BY <1>4, Zenon DEF HandleTrigger
  <2>4. /\ queued' \in Seq(Messages) /\ history' \in Seq(Messages)
        /\ deciding' \in BOOLEAN /\ considered' \subseteq Messages
    BY <1>4, StartCycleTypes DEF HandleTrigger
  <2>5. UNCHANGED <<status, pending, retries, feedback, failures, stalls, counter, decision,
                    results, activeRouters, shellRouters, task, router, background, sent>>
    BY <1>4 DEF HandleTrigger
  <2> QED
    BY <2>1, <2>2, <2>3, <2>4, <2>5 DEF TypeOK
<1>5. CASE IgnoreStaleWaitExpired
  BY <1>5, ReceivedTypes DEF IgnoreStaleWaitExpired, TypeOK
<1>6. CASE HandleWaitExpired
  <2>1. mailbox' \in Seq(Envelopes)
    BY <1>6, ReceivedTypes DEF HandleWaitExpired
  <2>2. waitTimer' \in 0..MaxActions /\ armed' \in BOOLEAN
    BY <1>6, CancelledTimerTypes DEF HandleWaitExpired
  <2>3. /\ queued' \in Seq(Messages) /\ history' \in Seq(Messages)
        /\ deciding' \in BOOLEAN /\ considered' \subseteq Messages
    BY <1>6, StartCycleTypes DEF HandleWaitExpired
  <2>4. UNCHANGED <<status, pending, scheduled, retries, feedback, failures, stalls, counter,
                    decision, results, activeRouters, shellRouters, task, router,
                    background, sent>>
    BY <1>6 DEF HandleWaitExpired
  <2> QED
    BY <2>1, <2>2, <2>3, <2>4 DEF TypeOK
<1>7. CASE IgnoreUnknownResult
  <2>1. mailbox' \in Seq(Envelopes)
    BY <1>7, ReceivedTypes DEF IgnoreUnknownResult
  <2>2. waitTimer' \in 0..MaxActions /\ armed' \in BOOLEAN
    BY <1>7, CancelledTimerTypes DEF IgnoreUnknownResult
  <2>3. UNCHANGED <<loopVars, retryVars, recordVars, routerVars, envVars>>
    BY <1>7 DEF IgnoreUnknownResult
  <2> QED
    BY <2>1, <2>2, <2>3 DEF TypeOK
<1>8. CASE HandleResult
  <2> PICK type \in ResultTypes :
        /\ Receives(type)
        /\ pending' = [pending EXCEPT ![Head(mailbox).id] = PendingAfter(type)]
        /\ results' = [results EXCEPT ![Head(mailbox).id] = @ + 1]
        /\ shellRouters' = TrackShell(type, Head(mailbox).id)
        /\ FlushQueued
        /\ Continue(type, Head(mailbox).id)
        /\ UNCHANGED <<status, deciding, retryVars, counter, decision, considered,
                       activeRouters, envVars>>
    BY <1>8 DEF HandleResult
  <2>1. Tail(mailbox) \in Seq(Envelopes) /\ Head(mailbox).id \in Actions
    BY ReceivedTypes
  <2>2. pending' \in [Actions -> {"none", "open", "acked"}] /\ results' \in [Actions -> Nat]
    BY <2>1 DEF TypeOK, PendingAfter
  <2>3. shellRouters' \subseteq Actions
    BY <2>1 DEF TypeOK, TrackShell
  <2>4. queued' \in Seq(Messages) /\ history' \in Seq(Messages)
    BY DEF FlushQueued, TypeOK
  <2>5. waitTimer' \in 0..MaxActions /\ armed' \in BOOLEAN
    <3>1. (~(decision[Head(mailbox).id].kind = "wait" /\ type = "ok")) \in BOOLEAN
      BY Zenon
    <3> QED
      BY <2>1, <3>1, WaitTimerTypes, CancelledTimerTypes DEF Continue
  <2>6. scheduled' \in BOOLEAN
    <3>1. scheduled' = scheduled \/ Schedule
      BY DEF Continue
    <3>2. Schedule => scheduled' = TRUE
      BY Zenon DEF Schedule
    <3>3. scheduled \in BOOLEAN
      BY DEF TypeOK
    <3> QED
      BY <3>1, <3>2, <3>3, Zenon
  <2>7. mailbox' \in Seq(Envelopes)
    <3>1. mailbox' = Tail(mailbox) \/ mailbox' = Append(Tail(mailbox), Trigger(0))
      BY DEF Continue, Schedule
    <3>2. Trigger(0) \in Envelopes
      BY EnvelopeTypes
    <3>3. Append(Tail(mailbox), Trigger(0)) \in Seq(Envelopes)
      BY <2>1, <3>2, AppendElements
    <3> QED
      BY <2>1, <3>1, <3>3
  <2> QED
    BY <2>2, <2>3, <2>4, <2>5, <2>6, <2>7 DEF TypeOK
<1>9. CASE HandleBackground
  <2>1. mailbox' \in Seq(Envelopes)
    BY <1>9, ReceivedTypes, EnvelopeTypes, AppendElements DEF HandleBackground, Schedule
  <2> QED
    BY <1>9, <2>1 DEF HandleBackground, Schedule, TypeOK
<1>10. CASE HandleCall
  <2>1. mailbox' \in Seq(Envelopes) /\ Head(mailbox).id \in Actions
    BY <1>10, ReceivedTypes DEF HandleCall
  <2> QED
    BY <1>10, <2>1 DEF HandleCall, TypeOK, RouterStates
<1>11. CASE HandleStopRequested
  <2>1. mailbox' \in Seq(Envelopes)
    BY <1>11, ReceivedTypes, DrainedElements DEF HandleStopRequested
  <2> QED
    BY <1>11, <2>1 DEF HandleStopRequested, TypeOK
<1>12. CASE HandleRouterDown
  BY <1>12 DEF HandleRouterDown, TypeOK
<1> QED
  BY <1>1, <1>2, <1>3, <1>4, <1>5, <1>6, <1>7, <1>8, <1>9, <1>10, <1>11, <1>12
  DEF Receive

\* Leaving a consensus cycle keeps the types.
LEMMA EndCycleTypes == TypeOK /\ EndCycle => TypeOK'
<1> SUFFICES ASSUME TypeOK, EndCycle PROVE TypeOK'
  OBVIOUS
<1> USE DEF loopVars, timerVars, retryVars, recordVars, routerVars, envVars
<1>1. CASE Decide
  <2> DEFINE d(kind, asked, cmd) == [kind |-> kind, asked |-> asked,
                                     wait |-> EffectiveWait(kind, asked), cmd |-> cmd]
  <2> PICK kind \in Kinds, asked \in Waits, cmd \in 0..MaxActions :
        ExecuteDecision(d(kind, asked, cmd))
    BY <1>1 DEF Decide, TypeOK
  <2>1. d(kind, asked, cmd) \in Decisions
    BY DEF Decisions, EffectiveWait, AllKinds, AllWaits
  <2>2. counter + 1 \in Actions
    BY <1>1 DEF Decide, TypeOK
  <2>3. /\ counter' \in 0..MaxActions
        /\ decision' \in [Actions -> Decisions \cup {NoDecision}]
        /\ pending' \in [Actions -> {"none", "open", "acked"}]
        /\ task' \in [Actions -> TaskStates]
        /\ router' \in [Actions -> RouterStates]
        /\ activeRouters' \subseteq Actions
    <3> DEFINE next == d(kind, asked, cmd)
    <3> HIDE DEF d
    <3>1. /\ counter' = counter + 1
          /\ decision' = [decision EXCEPT ![counter + 1] = next]
          /\ pending' = [pending EXCEPT ![counter + 1] = "open"]
          /\ task' = [task EXCEPT ![counter + 1] = "calling"]
          /\ \/ UNCHANGED <<router, activeRouters>>
             \/ /\ router' = [router EXCEPT ![counter + 1] = "idle"]
                /\ activeRouters' = activeRouters \cup {counter + 1}
      BY DEF ExecuteDecision
    <3>2. next \in Decisions
      BY <2>1
    <3> HIDE DEF next
    <3>3. counter' \in 0..MaxActions
      BY <2>2, <3>1
    <3>4. decision' \in [Actions -> Decisions \cup {NoDecision}]
      BY <2>2, <3>1, <3>2 DEF TypeOK
    <3>5. /\ pending' \in [Actions -> {"none", "open", "acked"}]
          /\ task' \in [Actions -> TaskStates]
      BY <2>2, <3>1 DEF TypeOK, TaskStates
    <3>6. router' \in [Actions -> RouterStates] /\ activeRouters' \subseteq Actions
      BY <2>2, <3>1 DEF TypeOK, RouterStates
    <3> QED
      BY <3>3, <3>4, <3>5, <3>6
  <2>4. deciding' \in BOOLEAN /\ feedback' \in BOOLEAN
    BY <1>1, Zenon DEF Decide
  <2>5. /\ retries' = 0
        /\ UNCHANGED <<mailbox, status, queued, scheduled, waitTimer, armed, failures,
                       stalls, history, results, considered, shellRouters, background,
                       sent>>
    BY <1>1 DEF Decide
  <2> QED
    BY <2>3, <2>4, <2>5 DEF TypeOK, MaxConsensusAttempts
<1>2. CASE RetryConsensus
  <2>1. mailbox' \in Seq(Envelopes)
    BY <1>2, EnvelopeTypes, AppendElements DEF RetryConsensus, TypeOK
  <2>2. deciding' \in BOOLEAN /\ feedback' \in BOOLEAN /\ scheduled' \in BOOLEAN
    BY <1>2, Zenon DEF RetryConsensus, FailsRetryably
  <2>3. retries' \in 0..(MaxConsensusAttempts - 1) /\ failures' \in 0..MaxFailures
    BY <1>2 DEF RetryConsensus, FailsRetryably, TypeOK, MaxConsensusAttempts
  <2>4. UNCHANGED <<status, pending, queued, timerVars, stalls, recordVars, routerVars,
                    envVars>>
    BY <1>2 DEF RetryConsensus
  <2> QED
    BY <2>1, <2>2, <2>3, <2>4 DEF TypeOK
<1>3. CASE ExhaustRetries
  <2>1. deciding' \in BOOLEAN /\ feedback' \in BOOLEAN
    BY <1>3, Zenon DEF ExhaustRetries, FailsRetryably
  <2>2. stalls' \in Nat /\ failures' \in 0..MaxFailures
    BY <1>3 DEF ExhaustRetries, FailsRetryably, TypeOK
  <2>3. UNCHANGED <<mailbox, status, pending, queued, scheduled, timerVars, retries,
                    recordVars, routerVars, envVars>>
    BY <1>3 DEF ExhaustRetries
  <2> QED
    BY <2>1, <2>2, <2>3 DEF TypeOK
<1>4. CASE FailFatally
  <2>1. deciding' \in BOOLEAN
    BY <1>4, Zenon DEF FailFatally
  <2> QED
    BY <1>4, <2>1 DEF FailFatally, TypeOK
<1> QED
  BY <1>1, <1>2, <1>3, <1>4 DEF EndCycle

\* A Task casts, and a Router answers, only what these sets hold.
LEMMA OutcomeTypes ==
    \A a \in Actions : Outcomes(a) \subseteq TaskReplies \X RouterStates
  BY DEF Outcomes, TaskReplies, RouterStates

\* A step of a dispatch Task or of a Router keeps the types.
LEMMA ProcessTypes == TypeOK /\ (\E a \in Actions : Dispatch(a) \/ Complete(a)) => TypeOK'
<1> SUFFICES ASSUME TypeOK, NEW a \in Actions, Dispatch(a) \/ Complete(a) PROVE TypeOK'
  OBVIOUS
<1> USE DEF loopVars, timerVars, retryVars, recordVars, routerVars, envVars,
            AgentUnchanged, TaskStates, RouterStates
<1>1. CASE RejectAction(a)
  BY <1>1 DEF RejectAction, TypeOK, TaskReplies
<1>2. CASE CrashTask(a)
  <2>1. mailbox' \in Seq(Envelopes)
    BY <1>2, EnvelopeTypes, AppendElements DEF CrashTask, Deliver, TypeOK, ResultTypes
  <2> QED
    BY <1>2, <2>1 DEF CrashTask, TypeOK
<1>3. CASE StartExecution(a)
  BY <1>3 DEF StartExecution, TypeOK
<1>4. CASE CallAgent(a)
  <2>1. mailbox' \in Seq(Envelopes)
    BY <1>4, EnvelopeTypes, AppendElements DEF CallAgent, Deliver, TypeOK
  <2> QED
    BY <1>4, <2>1 DEF CallAgent, TypeOK
<1>5. CASE RouterReplies(a)
  <2> PICK o \in Outcomes(a) : /\ task' = [task EXCEPT ![a] = o[1]]
                               /\ router' = [router EXCEPT ![a] = o[2]]
    BY <1>5 DEF RouterReplies
  <2>1. o[1] \in TaskReplies /\ o[2] \in RouterStates
    BY OutcomeTypes
  <2>2. background' \subseteq Actions
    BY <1>5 DEF RouterReplies, TypeOK
  <2> QED
    BY <1>5, <2>1, <2>2 DEF RouterReplies, TypeOK
<1>6. CASE CheckShell(a)
  BY <1>6 DEF CheckShell, TypeOK, TaskReplies
<1>7. CASE CastReply(a)
  <2>1. mailbox' \in Seq(Envelopes)
    BY <1>7, EnvelopeTypes, AppendElements DEF CastReply, Deliver, TypeOK, ResultTypes
  <2> QED
    BY <1>7, <2>1 DEF CastReply, TypeOK
<1>8. CASE RouterTimerFires(a)
  <2>1. mailbox' \in Seq(Envelopes)
    BY <1>8, EnvelopeTypes, AppendElements DEF RouterTimerFires, Deliver, TypeOK
  <2> QED
    BY <1>8, <2>1 DEF RouterTimerFires, TypeOK
<1>9. CASE ShellCompletes(a)
  <2>1. mailbox' \in Seq(Envelopes)
    BY <1>9, EnvelopeTypes, AppendElements DEF ShellCompletes, Deliver, TypeOK, ResultTypes
  <2> QED
    BY <1>9, <2>1 DEF ShellCompletes, TypeOK
<1>10. CASE AsyncCompletes(a)
  <2>1. mailbox' \in Seq(Envelopes)
    BY <1>10, EnvelopeTypes, AppendElements DEF AsyncCompletes, Deliver, TypeOK, ResultTypes
  <2> QED
    BY <1>10, <2>1 DEF AsyncCompletes, TypeOK
<1>11. CASE BackgroundReports(a)
  <2>1. mailbox' \in Seq(Envelopes)
    BY <1>11, EnvelopeTypes, AppendElements DEF BackgroundReports, Deliver, TypeOK
  <2> QED
    BY <1>11, <2>1 DEF BackgroundReports, TypeOK
<1> QED
  BY <1>1, <1>2, <1>3, <1>4, <1>5, <1>6, <1>7, <1>8, <1>9, <1>10, <1>11
  DEF Dispatch, Complete

\* A timer, a sender or a pause keeps the types.
LEMMA OutsideTypes ==
    TypeOK /\ (AgentTimerFires \/ SendMessage \/ Stop \/ RequestStop) => TypeOK'
<1> SUFFICES ASSUME TypeOK, AgentTimerFires \/ SendMessage \/ Stop \/ RequestStop
             PROVE  TypeOK'
  OBVIOUS
<1> USE DEF loopVars, timerVars, retryVars, recordVars, routerVars, envVars
<1>1. CASE AgentTimerFires
  <2>1. mailbox' \in Seq(Envelopes)
    BY <1>1, EnvelopeTypes, AppendElements DEF AgentTimerFires, Deliver, TypeOK
  <2>2. armed' \in BOOLEAN
    BY <1>1, Zenon DEF AgentTimerFires
  <2> QED
    BY <1>1, <2>1, <2>2 DEF AgentTimerFires, TypeOK
<1>2. CASE SendMessage
  <2>1. sent' \in Messages
    BY <1>2 DEF SendMessage, TypeOK
  <2>2. mailbox' \in Seq(Envelopes)
    BY <1>2, <2>1, EnvelopeTypes, AppendElements DEF SendMessage, Deliver, TypeOK
  <2> QED
    BY <1>2, <2>1, <2>2 DEF SendMessage, TypeOK
<1>3. CASE StopRouter
  BY <1>3 DEF StopRouter, TypeOK, RouterStates
<1>4. CASE FinishStop
  BY <1>4 DEF FinishStop, TypeOK
<1>5. CASE RequestStop
  <2>1. mailbox' \in Seq(Envelopes)
    BY <1>5, EnvelopeTypes, AppendElements DEF RequestStop, Deliver, TypeOK
  <2> QED
    BY <1>5, <2>1 DEF RequestStop, TypeOK
<1> QED
  BY <1>1, <1>2, <1>3, <1>4, <1>5 DEF Stop

\* Every variable has its type in every reachable state: what a handler reads
\* out of the mailbox is always an action or a message that exists.
THEOREM TypeCorrect == Spec => []TypeOK
<1>1. TypeOK /\ [Next]_vars => TypeOK'
  <2> SUFFICES ASSUME TypeOK, [Next]_vars PROVE TypeOK'
    OBVIOUS
  <2>1. CASE UNCHANGED vars
    BY <2>1 DEF vars, loopVars, timerVars, retryVars, recordVars, routerVars, envVars, TypeOK
  <2> QED
    BY <2>1, ReceiveTypes, EndCycleTypes, ProcessTypes, OutsideTypes DEF Next
<1> QED
  BY <1>1, InitTypes, PTL DEF Spec

-----------------------------------------------------------------------------
(* The mailbox *)

Has(box, e) == \E i \in DOMAIN box : box[i] = e

\* A receive step takes the head and may add Trigger(0); draining replaces
\* triggers only.
LEMMA ReceiveMailbox ==
    ASSUME TypeOK, Receive
    PROVE  /\ \A e : Has(mailbox', e) => Has(mailbox, e) \/ e = Taken \/ e = Trigger(0)
           /\ \A e : Has(mailbox, e) /\ e.type # "trigger" =>
                        Has(mailbox', e) \/ e = Head(mailbox)
<1>1. mailbox \in Seq(Envelopes) /\ mailbox # <<>>
  BY DEF TypeOK, Receive, Receives, SkipTaken, HandleAgentMessage, IgnoreStaleTrigger,
         HandleTrigger, IgnoreStaleWaitExpired, HandleWaitExpired, IgnoreUnknownResult,
         HandleResult, HandleBackground, HandleCall, HandleStopRequested
<1>2. \/ mailbox' = Tail(mailbox)
      \/ mailbox' = Append(Tail(mailbox), Trigger(0))
      \/ mailbox' = Drained(Tail(mailbox))
  BY DEF Receive, SkipTaken, HandleAgentMessage, IgnoreStaleTrigger,
         HandleTrigger, IgnoreStaleWaitExpired, HandleWaitExpired, IgnoreUnknownResult,
         HandleResult, HandleBackground, HandleCall, HandleStopRequested, Schedule, Continue
<1>3. /\ Tail(mailbox) \in Seq(Envelopes)
      /\ \A e : Has(mailbox, e) => Has(Tail(mailbox), e) \/ e = Head(mailbox)
      /\ \A e : Has(Tail(mailbox), e) => Has(mailbox, e)
  BY <1>1, TailElements DEF Has
<1>4. CASE mailbox' = Tail(mailbox)
  BY <1>3, <1>4
<1>5. CASE mailbox' = Append(Tail(mailbox), Trigger(0))
  <2>1. Trigger(0) \in Envelopes
    BY EnvelopeTypes
  <2>2. /\ \A e : Has(Tail(mailbox), e) => Has(mailbox', e)
        /\ \A e : Has(mailbox', e) => Has(Tail(mailbox), e) \/ e = Trigger(0)
    BY <1>3, <1>5, <2>1, AppendElements DEF Has
  <2> QED
    BY <1>3, <2>2
<1>6. CASE mailbox' = Drained(Tail(mailbox))
  <2> DEFINE rest == Tail(mailbox)
  <2>1. /\ \A i \in DOMAIN rest :
              rest[i].type # "trigger" => i \in DOMAIN mailbox' /\ mailbox'[i] = rest[i]
        /\ \A i \in DOMAIN mailbox' :
              mailbox'[i] = Taken \/ (i \in DOMAIN rest /\ mailbox'[i] = rest[i])
    BY <1>3, <1>6, DrainedElements
  <2> HIDE DEF rest
  <2>2. \A e : Has(rest, e) /\ e.type # "trigger" => Has(mailbox', e)
    BY <2>1 DEF Has
  <2>3. \A e : Has(mailbox', e) => Has(rest, e) \/ e = Taken
    BY <2>1 DEF Has
  <2> QED
    BY <1>3, <2>2, <2>3 DEF rest
<1> QED
  BY <1>2, <1>4, <1>5, <1>6

\* Delivering a message adds it and loses nothing.
LEMMA DeliverMailbox ==
    ASSUME TypeOK, NEW n \in Envelopes, Deliver(n)
    PROVE  /\ \A e : Has(mailbox', e) <=> Has(mailbox, e) \/ e = n
           /\ \A i \in DOMAIN mailbox : i \in DOMAIN mailbox' /\ mailbox'[i] = mailbox[i]
  BY AppendElements DEF Deliver, Has, TypeOK

\* Tasks and Routers leave the agent's state alone: they only send to it.
LEMMA ProcessSteps ==
    ASSUME NEW a \in Actions, Dispatch(a) \/ Complete(a)
    PROVE  /\ UNCHANGED <<loopVars, timerVars, retryVars, recordVars, routerVars, sent>>
           /\ mailbox' = mailbox \/ \E n \in Envelopes : Deliver(n)
<1>1. UNCHANGED <<loopVars, timerVars, retryVars, recordVars, routerVars, sent>>
  BY DEF Dispatch, Complete, RejectAction, CrashTask, StartExecution, CallAgent,
         RouterReplies, CheckShell, CastReply, RouterTimerFires, ShellCompletes,
         AsyncCompletes, BackgroundReports, AgentUnchanged
<1>2. mailbox' = mailbox \/ \E n \in Envelopes : Deliver(n)
  BY EnvelopeTypes
  DEF Dispatch, Complete, RejectAction, CrashTask, StartExecution, CallAgent,
      RouterReplies, CheckShell, CastReply, RouterTimerFires, ShellCompletes,
      AsyncCompletes, BackgroundReports, ResultTypes
<1> QED
  BY <1>1, <1>2

-----------------------------------------------------------------------------
(* The message queue *)

\* Queued messages always have an action or a scheduled cycle that will record
\* them: handle_agent_message queues under exactly the conditions that the
\* result handler and the consensus cycle clear after flushing.
THEOREM QueueGuarded == Spec => []QueueIsGuarded
<1> USE DEF loopVars, timerVars, retryVars, recordVars, routerVars, envVars
<1>1. Init => QueueIsGuarded
  BY DEF Init, QueueIsGuarded
<1>2. TypeOK /\ QueueIsGuarded /\ [Next]_vars => QueueIsGuarded'
  <2> SUFFICES ASSUME TypeOK, QueueIsGuarded, [Next]_vars, queued' # <<>>
               PROVE  (Unacked \/ scheduled)'
    BY DEF QueueIsGuarded
  <2>1. CASE queued' = queued /\ pending' = pending /\ scheduled' = scheduled
    BY <2>1 DEF QueueIsGuarded, Unacked
  <2>2. CASE HandleAgentMessage
    <3>1. pending' = pending
      BY <2>2 DEF HandleAgentMessage
    <3>2. CASE MustQueue /\ scheduled' = scheduled
      BY <3>1, <3>2 DEF MustQueue, Unacked
    <3>3. CASE Schedule
      BY <3>3, Zenon DEF Schedule
    <3> QED
      BY <2>2, <3>2, <3>3 DEF HandleAgentMessage
  <2>3. CASE HandleTrigger \/ HandleWaitExpired \/ HandleResult
    BY <2>3 DEF HandleTrigger, HandleWaitExpired, HandleResult, StartCycle, FlushQueued
  <2>4. CASE HandleBackground
    BY <2>4, Zenon DEF HandleBackground, Schedule
  <2>5. CASE RetryConsensus
    BY <2>5, Zenon DEF RetryConsensus
  <2>6. CASE Decide
    <3>1. PICK a : counter + 1 = a /\ pending' = [pending EXCEPT ![a] = "open"]
      BY <2>6 DEF Decide, ExecuteDecision
    <3>2. counter + 1 \in Actions
      BY <2>6 DEF Decide, TypeOK
    <3>3. pending'[counter + 1] = "open"
      BY <3>1, <3>2 DEF TypeOK
    <3> QED
      BY <3>2, <3>3 DEF Unacked
  <2>7. CASE \/ SkipTaken \/ IgnoreStaleTrigger \/ IgnoreStaleWaitExpired
             \/ IgnoreUnknownResult \/ HandleCall \/ HandleStopRequested
             \/ HandleRouterDown \/ ExhaustRetries \/ FailFatally
             \/ AgentTimerFires \/ SendMessage \/ Stop \/ RequestStop
    BY <2>1, <2>7
    DEF SkipTaken, IgnoreStaleTrigger, IgnoreStaleWaitExpired, IgnoreUnknownResult,
        HandleCall, HandleStopRequested, HandleRouterDown, ExhaustRetries, FailsRetryably,
        FailFatally, AgentTimerFires, SendMessage, Stop, StopRouter, FinishStop, RequestStop
  <2>8. CASE \E a \in Actions : Dispatch(a) \/ Complete(a)
    BY <2>1, <2>8, ProcessSteps
  <2>9. CASE UNCHANGED vars
    BY <2>1, <2>9 DEF vars
  <2> QED
    BY <2>2, <2>3, <2>4, <2>5, <2>6, <2>7, <2>8, <2>9 DEF Next, Receive, EndCycle
<1> QED
  BY <1>1, <1>2, TypeCorrect, PTL DEF Spec

\* consensus_scheduled is never set with no :trigger_consensus to come: the flag
\* is cleared by the very trigger that survives, whichever others are drained.
THEOREM ScheduledTriggers == Spec => []ScheduledHasTrigger
<1> USE DEF loopVars, timerVars, retryVars, recordVars, routerVars, envVars
<1> DEFINE Awaited(box) == \E i \in DOMAIN box : box[i].type = "trigger"
<1>1. Init => ScheduledHasTrigger
  BY Zenon DEF Init, ScheduledHasTrigger
<1>2. TypeOK /\ ScheduledHasTrigger /\ [Next]_vars => ScheduledHasTrigger'
  <2> SUFFICES ASSUME TypeOK, ScheduledHasTrigger, [Next]_vars, scheduled', status' = "up"
               PROVE  Awaited(mailbox')
    BY DEF ScheduledHasTrigger
  <2>1. CASE Schedule /\ mailbox # <<>>
    <3>1. mailbox' = Append(Tail(mailbox), Trigger(0)) /\ Tail(mailbox) \in Seq(Envelopes)
      BY <2>1, TailElements DEF Schedule, TypeOK
    <3>2. Trigger(0) \in Envelopes
      BY EnvelopeTypes
    <3>3. \E i \in DOMAIN mailbox' : mailbox'[i] = Trigger(0)
      BY <3>1, <3>2, AppendElements
    <3> QED
      BY <3>3 DEF Trigger
  <2>2. CASE /\ scheduled' = scheduled /\ status' = status
             /\ mailbox # <<>> /\ Head(mailbox).type # "trigger"
             /\ mailbox' = Tail(mailbox)
    <3>1. PICK i \in DOMAIN mailbox : mailbox[i].type = "trigger"
      BY <2>2 DEF ScheduledHasTrigger
    <3>2. \E j \in DOMAIN Tail(mailbox) : Tail(mailbox)[j] = mailbox[i]
      BY <2>2, <3>1, TailElements DEF TypeOK
    <3> QED
      BY <2>2, <3>1, <3>2
  <2>3. CASE /\ scheduled' = scheduled /\ status' = status
             /\ \A i \in DOMAIN mailbox : i \in DOMAIN mailbox' /\ mailbox'[i] = mailbox[i]
    BY <2>3 DEF ScheduledHasTrigger
  <2>4. CASE Receive
    <3>1. CASE \/ SkipTaken \/ IgnoreStaleWaitExpired \/ HandleWaitExpired
               \/ IgnoreUnknownResult \/ HandleCall
      BY <2>2, <3>1
      DEF SkipTaken, IgnoreStaleWaitExpired, HandleWaitExpired, IgnoreUnknownResult,
          HandleCall, Receives, ResultTypes, TaskReplies
    <3>2. CASE HandleAgentMessage
      BY <2>1, <2>2, <3>2 DEF HandleAgentMessage, Receives
    <3>3. CASE HandleResult
      BY <2>1, <2>2, <3>3 DEF HandleResult, Continue, Receives, ResultTypes, TaskReplies
    <3>4. CASE HandleBackground
      BY <2>1, <3>4 DEF HandleBackground, Receives
    <3>5. CASE IgnoreStaleTrigger
      BY <3>5, Zenon DEF IgnoreStaleTrigger, IsStale
    <3>6. CASE HandleTrigger
      BY <3>6, Zenon DEF HandleTrigger
    <3>7. CASE HandleStopRequested
      BY <3>7 DEF HandleStopRequested
    <3> QED
      BY <2>4, <3>1, <3>2, <3>3, <3>4, <3>5, <3>6, <3>7 DEF Receive
  <2>5. CASE RetryConsensus
    <3>1. mailbox' = Append(mailbox, Trigger(0)) /\ Trigger(0) \in Envelopes
      BY <2>5, EnvelopeTypes DEF RetryConsensus
    <3>2. \E i \in DOMAIN mailbox' : mailbox'[i] = Trigger(0)
      <4>1. mailbox \in Seq(Envelopes)
        BY DEF TypeOK
      <4> QED
        BY <3>1, <4>1, AppendElements
    <3> QED
      BY <3>2 DEF Trigger
  <2>6. ASSUME NEW n \in Envelopes, Deliver(n), scheduled' = scheduled, status' = status
        PROVE  Awaited(mailbox')
    BY <2>3, <2>6, DeliverMailbox
  <2>7. CASE \/ HandleRouterDown \/ Decide \/ ExhaustRetries \/ FailFatally
             \/ StopRouter \/ FinishStop \/ UNCHANGED vars
    BY <2>3, <2>7
    DEF HandleRouterDown, Decide, ExhaustRetries, FailsRetryably, FailFatally, StopRouter,
        FinishStop, vars
  <2>8. CASE AgentTimerFires
    BY <2>6, <2>8, EnvelopeTypes DEF AgentTimerFires, TypeOK
  <2>9. CASE SendMessage
    <3>1. sent' \in Messages
      BY <2>9 DEF SendMessage, TypeOK
    <3> QED
      BY <2>6, <2>9, <3>1, EnvelopeTypes DEF SendMessage
  <2>10. CASE RequestStop
    BY <2>6, <2>10, EnvelopeTypes DEF RequestStop
  <2>11. ASSUME NEW a \in Actions, Dispatch(a) \/ Complete(a)
         PROVE  Awaited(mailbox')
    <3>1. /\ scheduled' = scheduled /\ status' = status
          /\ mailbox' = mailbox \/ \E n \in Envelopes : Deliver(n)
      BY <2>11, ProcessSteps DEF loopVars
    <3> QED
      BY <2>3, <2>6, <3>1
  <2> QED
    BY <2>4, <2>5, <2>7, <2>8, <2>9, <2>10, <2>11 DEF Next, EndCycle, Stop
<1> QED
  BY <1>1, <1>2, TypeCorrect, PTL DEF Spec

-----------------------------------------------------------------------------
(* Results *)

\* A result is never lost on its way: as long as an action blocks the message
\* queue, its Task is at work on it or its result is in the mailbox, even when
\* the Task crashes or the action is rejected.
THEOREM OpenActionsAnswered == Spec => []OpenActionIsAnswered
<1> USE DEF loopVars, timerVars, retryVars, recordVars, routerVars, envVars
<1> DEFINE Reported(a) == \E type \in ResultTypes : InMailbox(type, a)
<1>1. Init => OpenActionIsAnswered
  BY DEF Init, OpenActionIsAnswered
<1>2. TypeOK /\ OpenActionIsAnswered /\ [Next]_vars => OpenActionIsAnswered'
  <2> SUFFICES ASSUME TypeOK, OpenActionIsAnswered, [Next]_vars,
                      NEW b \in Actions, pending'[b] = "open"
               PROVE  task'[b] \notin {"none", "done"} \/ Reported(b)'
    BY DEF OpenActionIsAnswered
  <2>1. CASE /\ pending'[b] = pending[b] /\ task' = task
             /\ \A type \in ResultTypes : InMailbox(type, b) => InMailbox(type, b)'
    BY <2>1 DEF OpenActionIsAnswered
  <2>2. CASE Receive
    <3>1. task' = task
      BY <2>2
      DEF Receive, SkipTaken, HandleAgentMessage, IgnoreStaleTrigger,
          HandleTrigger, IgnoreStaleWaitExpired, HandleWaitExpired, IgnoreUnknownResult,
          HandleResult, HandleBackground, HandleCall, HandleStopRequested
    <3>2. pending'[b] = pending[b] /\ (Head(mailbox).type \in ResultTypes => Head(mailbox).id # b)
      <4>1. CASE HandleResult
        <5> PICK type \in ResultTypes :
              /\ Receives(type)
              /\ pending' = [pending EXCEPT ![Head(mailbox).id] = PendingAfter(type)]
          BY <4>1 DEF HandleResult
        <5>1. Head(mailbox).id # b
          BY DEF TypeOK, PendingAfter
        <5> QED
          BY <5>1 DEF TypeOK
      <4>2. CASE IgnoreUnknownResult
        BY <4>2 DEF IgnoreUnknownResult
      <4>3. CASE Receive /\ ~HandleResult /\ ~IgnoreUnknownResult
        BY <4>3
        DEF Receive, SkipTaken, HandleAgentMessage, IgnoreStaleTrigger,
            HandleTrigger, IgnoreStaleWaitExpired, HandleWaitExpired, HandleBackground,
            HandleCall, HandleStopRequested, Receives, ResultTypes, TaskReplies
      <4> QED
        BY <2>2, <4>1, <4>2, <4>3
    <3>3. \A type \in ResultTypes : InMailbox(type, b) => InMailbox(type, b)'
      <4> SUFFICES ASSUME NEW type \in ResultTypes, InMailbox(type, b)
                   PROVE  InMailbox(type, b)'
        OBVIOUS
      <4>1. Has(mailbox, Note(type, b))
        BY DEF InMailbox, Has
      <4>2. Note(type, b).type \in ResultTypes /\ Note(type, b).id = b
        BY DEF Note
      <4>3. Note(type, b).type # "trigger" /\ Note(type, b) # Head(mailbox)
        BY <3>2, <4>2 DEF ResultTypes, TaskReplies
      <4> QED
        BY <2>2, <4>1, <4>3, ReceiveMailbox DEF InMailbox, Has
    <3> QED
      BY <2>1, <3>1, <3>2, <3>3
  <2>3. CASE Decide
    <3>1. PICK d : ExecuteDecision(d)
      BY <2>3 DEF Decide
    <3>2. counter + 1 \in Actions
      BY <2>3 DEF Decide, TypeOK
    <3>3. CASE b = counter + 1
      BY <3>1, <3>2, <3>3 DEF ExecuteDecision, TypeOK
    <3>4. CASE b # counter + 1
      <4>1. pending'[b] = pending[b] /\ task'[b] = task[b] /\ mailbox' = mailbox
        BY <2>3, <3>1, <3>2, <3>4 DEF ExecuteDecision, Decide, TypeOK
      <4> QED
        BY <4>1 DEF OpenActionIsAnswered, InMailbox
    <3> QED
      BY <3>3, <3>4
  <2>4. ASSUME NEW n \in Envelopes, Deliver(n)
        PROVE  \A type \in ResultTypes : InMailbox(type, b) => InMailbox(type, b)'
    BY <2>4, DeliverMailbox DEF InMailbox
  <2>5. CASE RetryConsensus
    <3>1. Deliver(Trigger(0)) /\ Trigger(0) \in Envelopes
      BY <2>5, EnvelopeTypes DEF RetryConsensus, Deliver
    <3> QED
      BY <2>1, <2>4, <2>5, <3>1 DEF RetryConsensus
  <2>6. CASE \/ HandleRouterDown \/ ExhaustRetries \/ FailFatally
             \/ StopRouter \/ FinishStop \/ UNCHANGED vars
    BY <2>1, <2>6
    DEF HandleRouterDown, ExhaustRetries, FailsRetryably, FailFatally, StopRouter,
        FinishStop, vars, InMailbox
  <2>7. CASE AgentTimerFires
    BY <2>1, <2>4, <2>7, EnvelopeTypes DEF AgentTimerFires, TypeOK
  <2>8. CASE SendMessage
    <3>1. sent' \in Messages
      BY <2>8 DEF SendMessage, TypeOK
    <3> QED
      BY <2>1, <2>4, <2>8, <3>1, EnvelopeTypes DEF SendMessage
  <2>9. CASE RequestStop
    BY <2>1, <2>4, <2>9, EnvelopeTypes DEF RequestStop
  <2>10. ASSUME NEW a \in Actions, Dispatch(a) \/ Complete(a)
         PROVE  task'[b] \notin {"none", "done"} \/ Reported(b)'
    <3>1. /\ pending'[b] = pending[b]
          /\ \A type \in ResultTypes : InMailbox(type, b) => InMailbox(type, b)'
      BY <2>4, <2>10, ProcessSteps DEF InMailbox
    <3>2. CASE CrashTask(a) \/ CastReply(a)
      <4>1. PICK type \in ResultTypes : Deliver(Note(type, a))
        BY <3>2 DEF CrashTask, CastReply, ResultTypes
      <4>2. InMailbox(type, a)'
        BY <4>1, EnvelopeTypes, DeliverMailbox DEF InMailbox, Has
      <4>3. b # a => task'[b] = task[b]
        BY <3>2 DEF CrashTask, CastReply, TypeOK
      <4> QED
        BY <3>1, <4>2, <4>3 DEF OpenActionIsAnswered
    <3>3. CASE ~CrashTask(a) /\ ~CastReply(a)
      <4>1. task'[b] = task[b] \/ task'[b] \in {"executing"} \cup TaskReplies
        <5>1. CASE RouterReplies(a)
          BY <5>1, OutcomeTypes DEF RouterReplies, TypeOK
        <5> QED
          BY <2>10, <3>3, <5>1
          DEF Dispatch, Complete, RejectAction, StartExecution, CallAgent, CheckShell,
              RouterTimerFires, ShellCompletes, AsyncCompletes, BackgroundReports, TypeOK,
              TaskReplies
      <4> QED
        BY <3>1, <4>1 DEF OpenActionIsAnswered, TaskReplies
    <3> QED
      BY <3>2, <3>3
  <2> QED
    BY <2>2, <2>3, <2>5, <2>6, <2>7, <2>8, <2>9, <2>10 DEF Next, EndCycle, Stop
<1> QED
  BY <1>1, <1>2, TypeCorrect, PTL DEF Spec

-----------------------------------------------------------------------------
(* Routers *)

\* A Task or a Router never undoes a start, and only a Router's own reply
\* acknowledges a command.
LEMMA OutcomeRouters ==
    \A a \in Actions : \A o \in Outcomes(a) : o[2] # "none"
  BY DEF Outcomes

\* The check_id table only names Routers the agent still monitors, so that the
\* DOWN message of each one cleans the table up: a command's Router was spawned
\* and monitored before its acknowledgement could arrive.
THEOREM ShellRoutersAreMonitored == Spec => []ShellRoutersMonitored
<1> USE DEF loopVars, timerVars, retryVars, recordVars, routerVars, envVars
<1>1. Init => RoutersMonitored
  BY DEF Init, RoutersMonitored, ShellRoutersMonitored, InMailbox
<1>2. TypeOK /\ RoutersMonitored /\ [Next]_vars => RoutersMonitored'
  <2> SUFFICES ASSUME TypeOK, RoutersMonitored, [Next]_vars PROVE RoutersMonitored'
    OBVIOUS
  <2> DEFINE Acknowledged(b) == task[b] = "running" \/ InMailbox("running", b)
  <2>1. ASSUME UNCHANGED <<router, activeRouters, shellRouters>>,
               \A b \in Actions : Acknowledged(b)' => Acknowledged(b)
        PROVE  RoutersMonitored'
    BY <2>1 DEF RoutersMonitored, ShellRoutersMonitored
  <2>2. ASSUME NEW n \in Envelopes, Deliver(n), n.type # "running"
        PROVE  \A b \in Actions : InMailbox("running", b)' => InMailbox("running", b)
    BY <2>2, DeliverMailbox DEF InMailbox, Has, Note
  <2>3. CASE Receive
    <3>1. task' = task /\ activeRouters' = activeRouters
      BY <2>3
      DEF Receive, SkipTaken, HandleAgentMessage, IgnoreStaleTrigger,
          HandleTrigger, IgnoreStaleWaitExpired, HandleWaitExpired, IgnoreUnknownResult,
          HandleResult, HandleBackground, HandleCall, HandleStopRequested
    <3>2. \A b \in Actions : InMailbox("running", b)' => InMailbox("running", b)
      BY <2>3, ReceiveMailbox DEF InMailbox, Has, Note, Taken, Trigger
    <3>3. CASE HandleResult
      <4> PICK type \in ResultTypes :
            /\ Receives(type)
            /\ shellRouters' = TrackShell(type, Head(mailbox).id)
            /\ router' = router
        BY <3>3 DEF HandleResult
      <4>1. Head(mailbox).id \in Actions
        BY ReceivedTypes
      <4>2. type = "running" => InMailbox("running", Head(mailbox).id)
        <5>1. /\ 1 \in DOMAIN mailbox /\ mailbox[1] = Head(mailbox)
              /\ Head(mailbox) \in Envelopes /\ Head(mailbox).type = type
          BY DEF Receives, TypeOK
        <5>2. type = "running" => Head(mailbox) = Note("running", Head(mailbox).id)
          BY <5>1 DEF Envelopes, Note
        <5> QED
          BY <5>1, <5>2 DEF InMailbox
      <4>3. ShellRoutersMonitored'
        BY <3>1, <4>1, <4>2 DEF TrackShell, RoutersMonitored, ShellRoutersMonitored
      <4> QED
        BY <3>1, <3>2, <4>3 DEF RoutersMonitored
    <3>4. CASE HandleCall
      <4>1. router' = [router EXCEPT ![Head(mailbox).id] =
                                       IF @ = "calling" THEN "answered" ELSE @]
        BY <3>4 DEF HandleCall
      <4>2. Head(mailbox).id \in Actions /\ shellRouters' = shellRouters
        BY <3>4, ReceivedTypes DEF HandleCall
      <4> QED
        BY <3>1, <3>2, <4>1, <4>2 DEF RoutersMonitored, ShellRoutersMonitored, TypeOK
    <3>5. CASE Receive /\ ~HandleResult /\ ~HandleCall
      <4>1. UNCHANGED <<router, activeRouters, shellRouters>>
        BY <3>5
        DEF Receive, SkipTaken, HandleAgentMessage, IgnoreStaleTrigger,
            HandleTrigger, IgnoreStaleWaitExpired, HandleWaitExpired, IgnoreUnknownResult,
            HandleBackground, HandleStopRequested
      <4> QED
        BY <2>1, <3>1, <3>2, <4>1
    <3> QED
      BY <2>3, <3>3, <3>4, <3>5
  <2>4. CASE HandleRouterDown
    BY <2>4 DEF HandleRouterDown, RoutersMonitored, ShellRoutersMonitored, InMailbox, TypeOK
  <2>5. CASE Decide
    <3>1. PICK d : ExecuteDecision(d)
      BY <2>5 DEF Decide
    <3>2. counter + 1 \in Actions /\ shellRouters' = shellRouters /\ mailbox' = mailbox
      BY <2>5 DEF Decide, TypeOK
    <3>3. \A b \in Actions : Acknowledged(b)' => Acknowledged(b)
      BY <3>1, <3>2 DEF ExecuteDecision, TypeOK, InMailbox
    <3> QED
      BY <3>1, <3>2, <3>3 DEF ExecuteDecision, RoutersMonitored, ShellRoutersMonitored, TypeOK
  <2>6. CASE RetryConsensus
    <3>1. Deliver(Trigger(0)) /\ Trigger(0) \in Envelopes /\ Trigger(0).type # "running"
      BY <2>6, EnvelopeTypes DEF RetryConsensus, Deliver, Trigger
    <3> QED
      BY <2>1, <2>2, <2>6, <3>1 DEF RetryConsensus
  <2>7. CASE ExhaustRetries \/ FailFatally \/ FinishStop \/ UNCHANGED vars
    BY <2>1, <2>7 DEF ExhaustRetries, FailsRetryably, FailFatally, FinishStop, vars, InMailbox
  <2>8. CASE StopRouter
    BY <2>8 DEF StopRouter, RoutersMonitored, ShellRoutersMonitored, InMailbox, TypeOK
  <2>9. CASE AgentTimerFires
    BY <2>1, <2>2, <2>9, EnvelopeTypes DEF AgentTimerFires, TypeOK, Trigger
  <2>10. CASE SendMessage
    <3>1. sent' \in Messages
      BY <2>10 DEF SendMessage, TypeOK
    <3> QED
      BY <2>1, <2>2, <2>10, <3>1, EnvelopeTypes DEF SendMessage, Message
  <2>11. CASE RequestStop
    BY <2>1, <2>2, <2>11, EnvelopeTypes DEF RequestStop, Note
  <2>12. ASSUME NEW a \in Actions, Dispatch(a) \/ Complete(a)
         PROVE  RoutersMonitored'
    <3>1. activeRouters' = activeRouters /\ shellRouters' = shellRouters
      BY <2>12, ProcessSteps
    <3>2. CASE CastReply(a)
      <4>1. task[a] \in TaskReplies /\ Deliver(Note(task[a], a))
        BY <3>2 DEF CastReply
      <4>2. Note(task[a], a) \in Envelopes
        BY <4>1, EnvelopeTypes DEF ResultTypes
      <4>3. \A b \in Actions : InMailbox("running", b)' => Acknowledged(b)
        BY <4>1, <4>2, DeliverMailbox DEF InMailbox, Has, Note
      <4>4. \A b \in Actions : task'[b] = "running" => Acknowledged(b)
        BY <3>2 DEF CastReply, TypeOK
      <4>5. router' = router
        BY <3>2 DEF CastReply
      <4> QED
        BY <2>1, <3>1, <4>3, <4>4, <4>5
    <3>3. CASE ~CastReply(a)
      <4>1. \A b \in Actions : InMailbox("running", b)' => InMailbox("running", b)
        <5>1. \/ mailbox' = mailbox
              \/ \E n \in Envelopes : Deliver(n) /\ n.type # "running"
          BY <2>12, <3>3, EnvelopeTypes
          DEF Dispatch, Complete, RejectAction, CrashTask, StartExecution, CallAgent,
              RouterReplies, CheckShell, RouterTimerFires, ShellCompletes,
              AsyncCompletes, BackgroundReports, ResultTypes, Note
        <5> QED
          BY <2>2, <5>1 DEF InMailbox
      <4>2. \A b \in Actions :
              /\ router'[b] \notin {"none", "stopped"} => router[b] \notin {"none", "stopped"}
              /\ router[b] # "none" => router'[b] # "none"
              /\ task'[b] = "running" => task[b] = "running" \/ router'[b] # "none"
        <5>1. CASE RouterReplies(a)
          <6> PICK o \in Outcomes(a) : /\ task' = [task EXCEPT ![a] = o[1]]
                                       /\ router' = [router EXCEPT ![a] = o[2]]
                                       /\ router[a] \in {"busy", "answered"}
            BY <5>1 DEF RouterReplies
          <6>1. o[2] # "none"
            BY OutcomeRouters
          <6> QED
            BY <6>1 DEF TypeOK
        <5> QED
          BY <2>12, <3>3, <5>1
          DEF Dispatch, Complete, RejectAction, CrashTask, StartExecution, CallAgent,
              CheckShell, RouterTimerFires, ShellCompletes, AsyncCompletes,
              BackgroundReports, TypeOK
      <4> QED
        BY <3>1, <4>1, <4>2 DEF RoutersMonitored, ShellRoutersMonitored
    <3> QED
      BY <3>2, <3>3
  <2> QED
    BY <2>3, <2>4, <2>5, <2>6, <2>7, <2>8, <2>9, <2>10, <2>11, <2>12
    DEF Next, EndCycle, Stop
<1>3. RoutersMonitored => ShellRoutersMonitored
  BY DEF RoutersMonitored
<1> QED
  BY <1>1, <1>2, <1>3, TypeCorrect, PTL DEF Spec

-----------------------------------------------------------------------------
(* The order of the mailbox *)

USE DEF loopVars, timerVars, retryVars, recordVars, routerVars, envVars

\* e is in the box at most once
Once(box, e) == \A i, j \in DOMAIN box : box[i] = e /\ box[j] = e => i = j

\* Every e in the box is before every f
Precedes(box, e, f) == \A i, j \in DOMAIN box : box[i] = e /\ box[j] = f => i < j

Silent == {"trigger", "taken"}

\* The message being received.
LEMMA HeadIs ==
    ASSUME TypeOK, NEW type, Receives(type)
    PROVE  /\ Head(mailbox) \in Envelopes /\ Head(mailbox) = Note(type, Head(mailbox).id)
           /\ 1 \in DOMAIN mailbox /\ mailbox[1] = Head(mailbox) /\ mailbox # <<>>
           /\ Has(mailbox, Note(type, Head(mailbox).id))
<1>1. /\ mailbox \in Seq(Envelopes) /\ mailbox # <<>> /\ Head(mailbox).type = type
  BY DEF TypeOK, Receives
<1>2. Head(mailbox) \in Envelopes /\ 1 \in DOMAIN mailbox /\ mailbox[1] = Head(mailbox)
  BY <1>1
<1>3. Head(mailbox) = [type |-> Head(mailbox).type, id |-> Head(mailbox).id]
  BY <1>2 DEF Envelopes
<1> QED
  BY <1>1, <1>2, <1>3 DEF Has, Note

\* After a receive step every message is one place nearer to the front.
LEMMA ReceiveShift ==
    ASSUME TypeOK, Receive
    PROVE  \A i \in DOMAIN mailbox' : mailbox'[i].type \notin Silent =>
              i \in Nat /\ i + 1 \in DOMAIN mailbox /\ mailbox[i + 1] = mailbox'[i]
<1>1. mailbox \in Seq(Envelopes) /\ mailbox # <<>>
  BY DEF TypeOK, Receive, Receives, SkipTaken, HandleAgentMessage, IgnoreStaleTrigger,
         HandleTrigger, IgnoreStaleWaitExpired, HandleWaitExpired, IgnoreUnknownResult,
         HandleResult, HandleBackground, HandleCall, HandleStopRequested
<1>2. \/ mailbox' = Tail(mailbox)
      \/ mailbox' = Append(Tail(mailbox), Trigger(0))
      \/ mailbox' = Drained(Tail(mailbox))
  BY DEF Receive, SkipTaken, HandleAgentMessage, IgnoreStaleTrigger,
         HandleTrigger, IgnoreStaleWaitExpired, HandleWaitExpired, IgnoreUnknownResult,
         HandleResult, HandleBackground, HandleCall, HandleStopRequested, Schedule, Continue
<1> DEFINE rest == Tail(mailbox)
<1>3. rest \in Seq(Envelopes)
  BY <1>1
<1>4. \A i \in DOMAIN rest : i \in Nat /\ i + 1 \in DOMAIN mailbox /\ rest[i] = mailbox[i + 1]
  BY <1>1
<1>5. \A i \in DOMAIN mailbox' : mailbox'[i].type \notin Silent => i \in DOMAIN rest /\ rest[i] = mailbox'[i]
  <2>1. CASE mailbox' = rest
    BY <2>1
  <2>2. CASE mailbox' = Append(rest, Trigger(0))
    <3>1. Trigger(0) \in Envelopes /\ Trigger(0).type \in Silent
      BY EnvelopeTypes DEF Trigger, Silent
    <3> HIDE DEF rest
    <3>2. \A i \in DOMAIN mailbox' : (i \in DOMAIN rest /\ mailbox'[i] = rest[i]) \/ mailbox'[i] = Trigger(0)
      BY <1>3, <2>2, <3>1
    <3> QED
      BY <3>1, <3>2
  <2>3. CASE mailbox' = Drained(rest)
    <3> HIDE DEF rest
    <3>1. \A i \in DOMAIN mailbox' : mailbox'[i] = Taken \/ (i \in DOMAIN rest /\ mailbox'[i] = rest[i])
      BY <1>3, <2>3, DrainedElements
    <3> QED
      BY <3>1 DEF Taken, Silent
  <2> QED
    BY <1>2, <2>1, <2>2, <2>3
<1> HIDE DEF rest
<1> QED
  BY <1>4, <1>5

\* So it keeps what comes once and what comes first.
LEMMA ReceiveOrder ==
    ASSUME TypeOK, Receive
    PROVE  \A e : e.type \notin Silent =>
              /\ Once(mailbox, e) => Once(mailbox', e)
              /\ \A f : f.type \notin Silent /\ Precedes(mailbox, e, f) => Precedes(mailbox', e, f)
<1>1. \A i \in DOMAIN mailbox' : mailbox'[i].type \notin Silent =>
          i \in Nat /\ i + 1 \in DOMAIN mailbox /\ mailbox[i + 1] = mailbox'[i]
  BY ReceiveShift
<1>2. ASSUME NEW e, e.type \notin Silent, Once(mailbox, e) PROVE Once(mailbox', e)
  <2> SUFFICES ASSUME NEW i \in DOMAIN mailbox', NEW j \in DOMAIN mailbox', mailbox'[i] = e, mailbox'[j] = e
               PROVE  i = j
    BY DEF Once
  <2>1. i \in Nat /\ j \in Nat /\ i + 1 = j + 1
    BY <1>1, <1>2 DEF Once
  <2> QED
    BY <2>1
<1>3. ASSUME NEW e, e.type \notin Silent, NEW f, f.type \notin Silent, Precedes(mailbox, e, f)
      PROVE  Precedes(mailbox', e, f)
  <2> SUFFICES ASSUME NEW i \in DOMAIN mailbox', NEW j \in DOMAIN mailbox', mailbox'[i] = e, mailbox'[j] = f
               PROVE  i < j
    BY DEF Precedes
  <2>1. i \in Nat /\ j \in Nat /\ i + 1 < j + 1
    BY <1>1, <1>3 DEF Precedes
  <2> QED
    BY <2>1
<1> QED
  BY <1>2, <1>3

\* A delivered message comes last.
LEMMA DeliverOrder ==
    ASSUME TypeOK, NEW n \in Envelopes, Deliver(n)
    PROVE  \A e : /\ Once(mailbox, e) /\ (n = e => ~Has(mailbox, e)) => Once(mailbox', e)
                  /\ \A f : Precedes(mailbox, e, f) /\ e # f /\ (n = e => ~Has(mailbox, f)) =>
                        Precedes(mailbox', e, f)
<1>1. mailbox \in Seq(Envelopes) /\ mailbox' = Append(mailbox, n)
  BY DEF TypeOK, Deliver
<1>2. \A i \in DOMAIN mailbox' : \/ i \in DOMAIN mailbox /\ mailbox'[i] = mailbox[i] /\ i < Len(mailbox) + 1
                                 \/ i = Len(mailbox) + 1 /\ mailbox'[i] = n
  BY <1>1
<1>3. ASSUME NEW e, Once(mailbox, e), n = e => ~Has(mailbox, e) PROVE Once(mailbox', e)
  BY <1>2, <1>3 DEF Once, Has
<1>4. ASSUME NEW e, NEW f, Precedes(mailbox, e, f), e # f, n = e => ~Has(mailbox, f)
      PROVE  Precedes(mailbox', e, f)
  BY <1>2, <1>4 DEF Precedes, Has
<1> QED
  BY <1>3, <1>4

-----------------------------------------------------------------------------
(* One view of every step *)

\* What a Task, its Router or a background process does: a reply gets ready, the
\* Task sends it, the Router sends a message of its own, a background process
\* reports.
ReplyReady(a) ==
    /\ mailbox' = mailbox
    /\ task[a] \in {"calling", "executing"} /\ task'[a] \in {"executing"} \cup TaskReplies
    /\ task'[a] = "running" => decision[a].kind = "shell"
    /\ task'[a] = "ok" => \/ decision[a].kind = "wait" /\ decision[a].wait = "timed" => router'[a] = "timer"
                          \/ router[a] = "none"
    /\ \A b \in background' : b \in background \/ (b = a /\ Notifies(decision[b].kind))
    /\ \A b \in Actions : \/ router'[b] = router[b]
                          \/ b = a /\ router[b] \in {"idle", "busy", "answered"} /\ router'[b] # "none"
                          \/ router[b] = "shell" /\ router'[b] = "stopped"

ReplyCast(a) ==
    /\ \E type \in TaskReplies \cup {"crash"} :
          /\ Deliver(Note(type, a))
          /\ task[a] = IF type = "crash" THEN "calling" ELSE type
    /\ task'[a] = "done" /\ UNCHANGED <<router, background>>

RouterSends(a) ==
    /\ \E type \in {"call", "wait_expired", "completed", "late"} :
          /\ Deliver(Note(type, a))
          /\ type = "wait_expired" <=> router[a] = "timer"
          /\ type = "wait_expired" => TinyWaits \/ task[a] = "done"
    /\ router[a] \notin {"none", "idle"} /\ router'[a] # "none"
    /\ \A b \in Actions \ {a} : router'[b] = router[b]
    /\ UNCHANGED <<task, background>>

Reports(a) ==
    /\ \E type \in {"batch_completed", "spawn_failed"} : Deliver(Note(type, a))
    /\ a \in background /\ background' \subseteq background
    /\ UNCHANGED <<task, router>>

ProcessMove(a) ==
    /\ UNCHANGED <<loopVars, timerVars, retryVars, recordVars, routerVars, sent>>
    /\ \A b \in Actions \ {a} : task'[b] = task[b]
    /\ ReplyReady(a) \/ ReplyCast(a) \/ RouterSends(a) \/ Reports(a)

\* A step that is none of a Task or Router, receives nothing and decides nothing
OtherMove ==
    /\ UNCHANGED <<task, background, decision, counter, pending, results, waitTimer>>
    /\ \/ mailbox' = mailbox
       \/ \E n \in Envelopes : Deliver(n) /\ n.type \in {"trigger", "message", "stop_requested"}
    /\ status' = "up" => status = "up"
    /\ activeRouters' \subseteq activeRouters
    /\ \/ router' = router
       \/ /\ status' # "up"
          /\ \E a \in activeRouters : router' = [router EXCEPT ![a] = "stopped"]

ReceiveView ==
    /\ UNCHANGED <<task, background, decision, counter, activeRouters, sent>>
    /\ status' = "up" => status = "up"
    /\ \A b \in Actions : router'[b] = router[b] \/ (router[b] = "calling" /\ router'[b] = "answered")

LEMMA OutcomesOf ==
    ASSUME TypeOK, NEW a \in Actions, NEW o \in Outcomes(a)
    PROVE  /\ o[1] \in {"ok", "error", "running", "ack"} /\ o[2] # "none"
           /\ o[1] = "running" => decision[a].kind = "shell"
           /\ o[1] = "ok" /\ decision[a].kind = "wait" /\ decision[a].wait = "timed" => o[2] = "timer"
  BY DEF Outcomes

LEMMA ProcessView ==
    ASSUME TypeOK, NEW a \in Actions, Dispatch(a) \/ Complete(a)
    PROVE  ProcessMove(a)
<1>1. UNCHANGED <<loopVars, timerVars, retryVars, recordVars, routerVars, sent>>
  BY ProcessSteps
<1>2. \A b \in Actions \ {a} : task'[b] = task[b]
  BY DEF TypeOK, Dispatch, Complete, RejectAction, CrashTask, StartExecution, CallAgent,
         RouterReplies, CheckShell, CastReply, RouterTimerFires, ShellCompletes,
         AsyncCompletes, BackgroundReports
<1>3. task \in [Actions -> TaskStates] /\ router \in [Actions -> RouterStates]
  BY DEF TypeOK
<1>4. CASE RejectAction(a) \/ StartExecution(a)
  <2>1. ReplyReady(a)
    BY <1>3, <1>4 DEF RejectAction, StartExecution, ReplyReady, TaskReplies
  <2> QED
    BY <1>1, <1>2, <2>1 DEF ProcessMove
<1>5. CASE RouterReplies(a)
  <2>1. PICK o \in Outcomes(a) :
           /\ task' = [task EXCEPT ![a] = o[1]]
           /\ router' = [router EXCEPT ![a] = o[2]]
           /\ \E left \in LeavesBackground(a, o[1]) :
                background' = IF left THEN background \cup {a} ELSE background
    BY <1>5 DEF RouterReplies
  <2>2. /\ mailbox' = mailbox /\ task[a] = "executing" /\ router[a] \in {"busy", "answered"}
    BY <1>5 DEF RouterReplies
  <2>3. /\ o[1] \in {"ok", "error", "running", "ack"} /\ o[2] # "none"
        /\ o[1] = "running" => decision[a].kind = "shell"
        /\ o[1] = "ok" /\ decision[a].kind = "wait" /\ decision[a].wait = "timed" => o[2] = "timer"
    BY OutcomesOf
  <2>4. PICK left \in LeavesBackground(a, o[1]) :
           background' = IF left THEN background \cup {a} ELSE background
    BY <2>1
  <2>5. left => Notifies(decision[a].kind)
    BY DEF LeavesBackground, Notifies
  <2>6. ReplyReady(a)
    BY <1>3, <2>1, <2>2, <2>3, <2>4, <2>5 DEF ReplyReady, TaskReplies
  <2> QED
    BY <1>1, <1>2, <2>6 DEF ProcessMove
<1>6. CASE CheckShell(a)
  <2>1. ReplyReady(a)
    BY <1>3, <1>6 DEF CheckShell, ReplyReady, TaskReplies
  <2> QED
    BY <1>1, <1>2, <2>1 DEF ProcessMove
<1>7. CASE CrashTask(a) \/ CastReply(a)
  <2>1. ReplyCast(a)
    BY <1>3, <1>7 DEF CrashTask, CastReply, ReplyCast, TaskReplies
  <2> QED
    BY <1>1, <1>2, <2>1 DEF ProcessMove
<1>8. CASE CallAgent(a) \/ RouterTimerFires(a) \/ ShellCompletes(a) \/ AsyncCompletes(a)
  <2>1. RouterSends(a)
    BY <1>3, <1>8 DEF CallAgent, RouterTimerFires, ShellCompletes, AsyncCompletes, RouterSends
  <2> QED
    BY <1>1, <1>2, <2>1 DEF ProcessMove
<1>9. CASE BackgroundReports(a)
  <2>1. Reports(a)
    BY <1>9 DEF BackgroundReports, Reports
  <2> QED
    BY <1>1, <1>2, <2>1 DEF ProcessMove
<1> QED
  BY <1>4, <1>5, <1>6, <1>7, <1>8, <1>9 DEF Dispatch, Complete

LEMMA ReceiveViewed ==
    ASSUME TypeOK, Receive
    PROVE  ReceiveView
<1>1. CASE HandleCall
  <2>1. Receives("call") /\ router' = [router EXCEPT ![Head(mailbox).id] =
                                              IF @ = "calling" THEN "answered" ELSE @]
    BY <1>1 DEF HandleCall
  <2>2. Head(mailbox).id \in Actions
    BY <2>1, ReceivedTypes
  <2> QED
    BY <1>1, <2>1, <2>2 DEF ReceiveView, HandleCall, TypeOK
<1>2. CASE Receive /\ ~HandleCall
  BY <1>2 DEF ReceiveView, Receive, SkipTaken, HandleAgentMessage, IgnoreStaleTrigger,
              HandleTrigger, IgnoreStaleWaitExpired, HandleWaitExpired, IgnoreUnknownResult,
              HandleResult, HandleBackground, HandleStopRequested, Receives
<1> QED
  BY <1>1, <1>2

LEMMA StepCases ==
    ASSUME TypeOK, [Next]_vars
    PROVE  \/ Receive /\ ReceiveView
           \/ Decide
           \/ \E a \in Actions : ProcessMove(a)
           \/ OtherMove /\ (HandleRouterDown \/ RetryConsensus \/ ExhaustRetries \/ FailFatally
                            \/ AgentTimerFires \/ SendMessage \/ Stop \/ RequestStop \/ UNCHANGED vars)
<1>1. CASE HandleRouterDown \/ ExhaustRetries \/ FailFatally \/ FinishStop \/ UNCHANGED vars
  <2>1. OtherMove
    BY <1>1 DEF HandleRouterDown, ExhaustRetries, FailsRetryably, FailFatally, FinishStop, vars, OtherMove
  <2> QED
    BY <1>1, <2>1 DEF Stop
<1>2. CASE RetryConsensus
  <2>1. Deliver(Trigger(0)) /\ Trigger(0) \in Envelopes /\ Trigger(0).type = "trigger"
    BY <1>2, EnvelopeTypes DEF RetryConsensus, Deliver, Trigger
  <2> QED
    BY <1>2, <2>1 DEF RetryConsensus, OtherMove
<1>3. CASE AgentTimerFires
  <2>1. Deliver(Trigger(waitTimer)) /\ Trigger(waitTimer) \in Envelopes /\ Trigger(waitTimer).type = "trigger"
    BY <1>3, EnvelopeTypes DEF AgentTimerFires, Trigger, TypeOK
  <2> QED
    BY <1>3, <2>1 DEF AgentTimerFires, OtherMove
<1>4. CASE SendMessage
  <2>1. sent' \in Messages /\ Deliver(Message(sent'))
    BY <1>4 DEF SendMessage, TypeOK
  <2>2. Message(sent') \in Envelopes /\ Message(sent').type = "message"
    BY <2>1, EnvelopeTypes DEF Message
  <2> QED
    BY <1>4, <2>1, <2>2 DEF SendMessage, OtherMove
<1>5. CASE RequestStop
  <2>1. Deliver(Note("stop_requested", 0)) /\ Note("stop_requested", 0) \in Envelopes
        /\ Note("stop_requested", 0).type = "stop_requested"
    BY <1>5, EnvelopeTypes DEF RequestStop, Note
  <2> QED
    BY <1>5, <2>1 DEF RequestStop, OtherMove
<1>6. CASE StopRouter
  <2>1. OtherMove
    BY <1>6 DEF StopRouter, OtherMove
  <2> QED
    BY <1>6, <2>1 DEF Stop
<1>7. CASE Receive
  BY <1>7, ReceiveViewed
<1>8. ASSUME NEW a \in Actions, Dispatch(a) \/ Complete(a) PROVE ProcessMove(a)
  BY <1>8, ProcessView
<1> QED
  BY <1>1, <1>2, <1>3, <1>4, <1>5, <1>6, <1>7, <1>8 DEF Next, EndCycle, Stop

-----------------------------------------------------------------------------
(* Actions and the processes that work on them *)

\* Nothing is known of an action before it is decided on
FreshInv ==
    /\ waitTimer <= counter
    /\ \A a \in Actions : a > counter =>
          /\ decision[a] = NoDecision /\ pending[a] = "none" /\ results[a] = 0
          /\ task[a] = "none" /\ router[a] = "none" /\ a \notin activeRouters

\* Only a command is acknowledged as running, once and by its Task; only an action
\* that notifies has a background process; only a check has no Router of its own
SenderInv ==
    \A a \in Actions :
        /\ task[a] = "running" \/ Has(mailbox, Note("running", a)) => decision[a].kind = "shell"
        /\ Has(mailbox, Note("running", a)) => task[a] = "done"
        /\ Once(mailbox, Note("running", a))
        /\ a \in background \/ Has(mailbox, Note("batch_completed", a)) \/ Has(mailbox, Note("spawn_failed", a))
              => Notifies(decision[a].kind)
        /\ task[a] # "none" /\ router[a] = "none" => decision[a].kind = "check"

\* The result handler counts an action's results; an action waits for a second
\* one only after it was acknowledged as running
ResultInv ==
    \A a \in Actions :
        /\ pending[a] = "open" => results[a] = 0
        /\ pending[a] = "acked" =>
              /\ results[a] = 1 /\ decision[a].kind = "shell" /\ task[a] = "done"
              /\ ~Has(mailbox, Note("running", a))
        /\ results[a] <= IF decision[a].kind = "shell" THEN 2 ELSE 1

\* What a decision does.
LEMMA DecideView ==
    ASSUME TypeOK, Decide
    PROVE  \E a \in Actions : \E d :
              /\ a = counter + 1 /\ counter' = a /\ deciding /\ deciding' = FALSE
              /\ decision' = [decision EXCEPT ![a] = d]
              /\ pending' = [pending EXCEPT ![a] = "open"]
              /\ task' = [task EXCEPT ![a] = "calling"]
              /\ \/ d.kind = "check" /\ UNCHANGED <<router, activeRouters>>
                 \/ router' = [router EXCEPT ![a] = "idle"] /\ activeRouters' = activeRouters \cup {a}
              /\ UNCHANGED <<mailbox, status, queued, scheduled, timerVars, history, results,
                             considered, shellRouters, background, sent>>
<1>1. PICK d : ExecuteDecision(d)
  BY DEF Decide
<1>2. counter + 1 \in Actions /\ counter' = counter + 1
  BY <1>1 DEF Decide, TypeOK, ExecuteDecision
<1>3. \/ d.kind = "check" /\ UNCHANGED <<router, activeRouters>>
      \/ /\ router' = [router EXCEPT ![counter + 1] = "idle"]
         /\ activeRouters' = activeRouters \cup {counter + 1}
  BY <1>1 DEF ExecuteDecision, UsesExistingRouter
<1>4. /\ decision' = [decision EXCEPT ![counter + 1] = d]
      /\ pending' = [pending EXCEPT ![counter + 1] = "open"]
      /\ task' = [task EXCEPT ![counter + 1] = "calling"]
  BY <1>1 DEF ExecuteDecision
<1>5. /\ deciding /\ deciding' = FALSE
      /\ UNCHANGED <<mailbox, status, queued, scheduled, timerVars, history, results,
                     considered, shellRouters, background, sent>>
  BY Zenon DEF Decide
<1> QED
  BY <1>2, <1>3, <1>4, <1>5

\* What the result handler does with the result it receives.
LEMMA ResultView ==
    ASSUME TypeOK, HandleResult
    PROVE  \E type \in ResultTypes, a \in Actions :
              /\ Receives(type) /\ a = Head(mailbox).id /\ Has(mailbox, Note(type, a))
              /\ pending[a] # "none"
              /\ pending' = [pending EXCEPT ![a] = PendingAfter(type)]
              /\ results' = [results EXCEPT ![a] = results[a] + 1]
              /\ history' = history \o queued /\ queued' = <<>>
              /\ \/ /\ SetsTimer(type, a) /\ waitTimer' = a /\ scheduled' = scheduled
                    /\ armed' = ~(decision[a].kind = "wait" /\ type = "ok")
                    /\ mailbox' = Tail(mailbox)
                 \/ waitTimer' = 0 /\ armed' = FALSE
              /\ UNCHANGED <<status, deciding>>
<1>1. PICK type \in ResultTypes :
         /\ Receives(type)
         /\ pending[Head(mailbox).id] # "none"
         /\ pending' = [pending EXCEPT ![Head(mailbox).id] = PendingAfter(type)]
         /\ results' = [results EXCEPT ![Head(mailbox).id] = results[Head(mailbox).id] + 1]
         /\ FlushQueued
         /\ Continue(type, Head(mailbox).id)
  BY DEF HandleResult
<1>2. Head(mailbox).id \in Actions /\ Has(mailbox, Note(type, Head(mailbox).id))
  BY <1>1, ReceivedTypes, HeadIs
<1>3. history' = history \o queued /\ queued' = <<>>
  BY <1>1, Zenon DEF FlushQueued
<1>4. \/ /\ SetsTimer(type, Head(mailbox).id) /\ waitTimer' = Head(mailbox).id /\ scheduled' = scheduled
         /\ armed' = ~(decision[Head(mailbox).id].kind = "wait" /\ type = "ok")
         /\ mailbox' = Tail(mailbox)
      \/ waitTimer' = 0 /\ armed' = FALSE
  BY <1>1, Zenon DEF Continue, SetWaitTimer, CancelWaitTimer
<1>5. UNCHANGED <<status, deciding>>
  BY Zenon DEF HandleResult
<1> QED
  BY <1>1, <1>2, <1>3, <1>4, <1>5

\* Every other handler leaves the actions alone.
LEMMA OtherReceive ==
    ASSUME TypeOK, Receive, ~HandleResult
    PROVE  UNCHANGED <<pending, results>> /\ waitTimer' \in {0, waitTimer}
<1>1. CASE HandleAgentMessage \/ HandleTrigger \/ HandleWaitExpired \/ IgnoreUnknownResult
  BY <1>1 DEF HandleAgentMessage, HandleTrigger, HandleWaitExpired, IgnoreUnknownResult, CancelWaitTimer
<1>2. CASE \/ SkipTaken \/ IgnoreStaleTrigger \/ IgnoreStaleWaitExpired
           \/ HandleBackground \/ HandleCall \/ HandleStopRequested
  BY <1>2 DEF SkipTaken, IgnoreStaleTrigger, IgnoreStaleWaitExpired, HandleBackground, HandleCall,
              HandleStopRequested
<1> QED
  BY <1>1, <1>2 DEF Receive

LEMMA FreshPreserved ==
    ASSUME TypeOK, FreshInv, [Next]_vars
    PROVE  FreshInv'
<1>0. /\ counter \in Nat /\ waitTimer \in Nat
      /\ decision \in [Actions -> Decisions \cup {NoDecision}]
      /\ pending \in [Actions -> {"none", "open", "acked"}] /\ results \in [Actions -> Nat]
      /\ task \in [Actions -> TaskStates] /\ router \in [Actions -> RouterStates]
  BY DEF TypeOK
<1>1. CASE Receive /\ ReceiveView
  <2>1. CASE HandleResult
    <3>1. PICK type \in ResultTypes, a \in Actions :
             /\ pending[a] # "none"
             /\ pending' = [pending EXCEPT ![a] = PendingAfter(type)]
             /\ results' = [results EXCEPT ![a] = results[a] + 1]
             /\ waitTimer' \in {0, a}
      BY <2>1, ResultView
    <3>2. a <= counter
      BY <1>0, <3>1 DEF FreshInv
    <3> QED
      BY <1>0, <1>1, <3>1, <3>2 DEF FreshInv, ReceiveView
  <2>2. CASE ~HandleResult
    <3>1. UNCHANGED <<pending, results>> /\ waitTimer' \in {0, waitTimer}
      BY <1>1, <2>2, OtherReceive
    <3> QED
      BY <1>0, <1>1, <3>1 DEF FreshInv, ReceiveView
  <2> QED
    BY <2>1, <2>2
<1>2. CASE Decide
  <2>1. PICK a \in Actions : \E d :
              /\ a = counter + 1 /\ counter' = a /\ deciding /\ deciding' = FALSE
              /\ decision' = [decision EXCEPT ![a] = d]
              /\ pending' = [pending EXCEPT ![a] = "open"]
              /\ task' = [task EXCEPT ![a] = "calling"]
              /\ \/ d.kind = "check" /\ UNCHANGED <<router, activeRouters>>
                 \/ router' = [router EXCEPT ![a] = "idle"] /\ activeRouters' = activeRouters \cup {a}
              /\ UNCHANGED <<mailbox, status, queued, scheduled, timerVars, history, results,
                             considered, shellRouters, background, sent>>
    BY <1>2, DecideView
  <2> QED
    BY <1>0, <2>1 DEF FreshInv
<1>3. ASSUME NEW a \in Actions, ProcessMove(a) PROVE FreshInv'
  <2>1. task[a] # "none" \/ router[a] # "none" \/ a \in background
    BY <1>3 DEF ProcessMove, ReplyReady, ReplyCast, RouterSends, Reports, TaskReplies
  <2>2. UNCHANGED <<counter, waitTimer, decision, pending, results, activeRouters>>
    BY <1>3 DEF ProcessMove
  <2>3. \A b \in Actions : b > counter => task'[b] = task[b] /\ router'[b] = router[b]
    <3> SUFFICES ASSUME NEW b \in Actions, b > counter
                 PROVE  task'[b] = task[b] /\ router'[b] = router[b]
      OBVIOUS
    <3>1. task[b] = "none" /\ router[b] = "none"
      BY DEF FreshInv
    <3>2. CASE b # a
      BY <1>3, <3>1, <3>2 DEF ProcessMove, ReplyReady, ReplyCast, RouterSends, Reports
    <3>3. CASE b = a
      BY <1>3, <3>1, <3>3 DEF ProcessMove, ReplyReady, ReplyCast, RouterSends, Reports, TaskReplies
    <3> QED
      BY <3>2, <3>3
  <2> QED
    BY <2>2, <2>3 DEF FreshInv
<1>4. CASE OtherMove
  BY <1>0, <1>4 DEF OtherMove, FreshInv
<1> QED
  BY <1>1, <1>2, <1>3, <1>4, StepCases

\* What a message that is not the mailbox's own business needs to be there.
LEMMA HasAfter ==
    ASSUME TypeOK, NEW e, e.type \notin Silent
    PROVE  /\ Receive => (Has(mailbox', e) => Has(mailbox, e))
           /\ \A n \in Envelopes : Deliver(n) => (Has(mailbox', e) <=> Has(mailbox, e) \/ e = n)
<1>1. ASSUME Receive, Has(mailbox', e) PROVE Has(mailbox, e)
  BY <1>1, ReceiveMailbox DEF Taken, Trigger, Silent
<1>2. ASSUME NEW n \in Envelopes, Deliver(n) PROVE Has(mailbox', e) <=> Has(mailbox, e) \/ e = n
  BY <1>2, DeliverMailbox
<1> QED
  BY <1>1, <1>2

LEMMA SenderPreserved ==
    ASSUME TypeOK, FreshInv, SenderInv, [Next]_vars
    PROVE  SenderInv'
<1>0. /\ decision \in [Actions -> Decisions \cup {NoDecision}]
      /\ task \in [Actions -> TaskStates] /\ router \in [Actions -> RouterStates]
  BY DEF TypeOK
<1> SUFFICES ASSUME NEW b \in Actions
             PROVE  /\ task'[b] = "running" \/ Has(mailbox', Note("running", b)) => decision'[b].kind = "shell"
                    /\ Has(mailbox', Note("running", b)) => task'[b] = "done"
                    /\ Once(mailbox', Note("running", b))
                    /\ b \in background' \/ Has(mailbox', Note("batch_completed", b))
                          \/ Has(mailbox', Note("spawn_failed", b)) => Notifies(decision'[b].kind)
                    /\ task'[b] # "none" /\ router'[b] = "none" => decision'[b].kind = "check"
  BY DEF SenderInv, Has, Note
<1> DEFINE e == Note("running", b)
           f == Note("batch_completed", b)
           g == Note("spawn_failed", b)
<1>1. e.type \notin Silent /\ f.type \notin Silent /\ g.type \notin Silent
  BY DEF Note, Silent
<1>2. /\ task[b] = "running" \/ Has(mailbox, e) => decision[b].kind = "shell"
      /\ Has(mailbox, e) => task[b] = "done"
      /\ Once(mailbox, e)
      /\ b \in background \/ Has(mailbox, f) \/ Has(mailbox, g) => Notifies(decision[b].kind)
      /\ task[b] # "none" /\ router[b] = "none" => decision[b].kind = "check"
  BY DEF SenderInv
<1>3. CASE Receive /\ ReceiveView
  <2>1. /\ Has(mailbox', e) => Has(mailbox, e)
        /\ Has(mailbox', f) => Has(mailbox, f)
        /\ Has(mailbox', g) => Has(mailbox, g)
    BY <1>1, <1>3, HasAfter
  <2>2. Once(mailbox', e)
    BY <1>1, <1>2, <1>3, ReceiveOrder
  <2>3. task' = task /\ background' = background /\ decision' = decision
        /\ (router'[b] = router[b] \/ (router[b] = "calling" /\ router'[b] = "answered"))
    BY <1>3 DEF ReceiveView
  <2> HIDE DEF e, f, g
  <2> QED
    BY <1>2, <2>1, <2>2, <2>3 DEF e, f, g
<1>4. CASE Decide
  <2>1. PICK a \in Actions : \E d :
              /\ a = counter + 1 /\ counter' = a /\ deciding /\ deciding' = FALSE
              /\ decision' = [decision EXCEPT ![a] = d]
              /\ pending' = [pending EXCEPT ![a] = "open"]
              /\ task' = [task EXCEPT ![a] = "calling"]
              /\ \/ d.kind = "check" /\ UNCHANGED <<router, activeRouters>>
                 \/ router' = [router EXCEPT ![a] = "idle"] /\ activeRouters' = activeRouters \cup {a}
              /\ UNCHANGED <<mailbox, status, queued, scheduled, timerVars, history, results,
                             considered, shellRouters, background, sent>>
    BY <1>4, DecideView
  <2>2. counter \in Nat
    BY DEF TypeOK
  <2>3. decision[a] = NoDecision /\ task[a] = "none" /\ router[a] = "none"
    BY <2>1, <2>2 DEF FreshInv
  <2>4. ~Notifies(decision[a].kind)
    BY <2>3 DEF NoDecision, Notifies
  <2>5. mailbox' = mailbox /\ background' = background
    BY <2>1
  <2>6. CASE b = a
    <3>1. ~Has(mailbox, e) /\ ~Has(mailbox, f) /\ ~Has(mailbox, g) /\ b \notin background
      BY <1>2, <2>3, <2>4, <2>6
    <3>2. task'[b] = "calling" /\ (router'[b] = "none" => decision'[b].kind = "check")
      BY <1>0, <2>1, <2>6
    <3> HIDE DEF e, f, g
    <3> QED
      BY <1>2, <2>5, <3>1, <3>2 DEF e, f, g
  <2>7. CASE b # a
    <3>1. decision'[b] = decision[b] /\ task'[b] = task[b] /\ router'[b] = router[b]
      BY <1>0, <2>1, <2>7
    <3> HIDE DEF e, f, g
    <3> QED
      BY <1>2, <2>5, <3>1 DEF e, f, g
  <2> QED
    BY <2>6, <2>7
<1>5. ASSUME NEW a \in Actions, ProcessMove(a)
      PROVE  /\ task'[b] = "running" \/ Has(mailbox', e) => decision'[b].kind = "shell"
             /\ Has(mailbox', e) => task'[b] = "done"
             /\ Once(mailbox', e)
             /\ b \in background' \/ Has(mailbox', f) \/ Has(mailbox', g) => Notifies(decision'[b].kind)
             /\ task'[b] # "none" /\ router'[b] = "none" => decision'[b].kind = "check"
  <2>1. decision' = decision /\ (b # a => task'[b] = task[b])
    BY <1>5 DEF ProcessMove
  <2>2. CASE ReplyReady(a)
    <3>1. mailbox' = mailbox /\ task[a] \in {"calling", "executing"}
          /\ task'[a] \in {"executing", "ok", "error", "running", "ack"}
          /\ (task'[a] = "running" => decision[a].kind = "shell")
          /\ (b \in background' => b \in background \/ Notifies(decision[b].kind))
          /\ (router'[b] = "none" => router[b] = "none")
      BY <2>2 DEF ReplyReady, TaskReplies
    <3>2. b = a => ~Has(mailbox, e) /\ (router'[b] = "none" => decision[b].kind = "check")
      BY <1>2, <3>1
    <3> HIDE DEF e, f, g
    <3> QED
      BY <1>2, <2>1, <3>1, <3>2
  <2>3. CASE ReplyCast(a)
    <3>1. PICK type \in TaskReplies \cup {"crash"} :
             Deliver(Note(type, a)) /\ task[a] = (IF type = "crash" THEN "calling" ELSE type)
      BY <2>3 DEF ReplyCast
    <3>2. Note(type, a) \in Envelopes /\ task'[a] = "done" /\ router' = router /\ background' = background
      BY <2>3, EnvelopeTypes DEF ReplyCast, ResultTypes
    <3>3. /\ Has(mailbox', e) <=> Has(mailbox, e) \/ e = Note(type, a)
          /\ Has(mailbox', f) <=> Has(mailbox, f) \/ f = Note(type, a)
          /\ Has(mailbox', g) <=> Has(mailbox, g) \/ g = Note(type, a)
      BY <1>1, <3>1, <3>2, HasAfter
    <3>4. /\ e = Note(type, a) <=> (a = b /\ type = "running")
          /\ f # Note(type, a) /\ g # Note(type, a)
      BY DEF Note, TaskReplies
    <3>5. e = Note(type, a) => task[b] = "running" /\ ~Has(mailbox, e)
      BY <1>2, <3>1, <3>4
    <3>6. Once(mailbox', e)
      BY <1>2, <3>1, <3>2, <3>5, DeliverOrder
    <3>7. task[a] # "none"
      BY <3>1 DEF TaskReplies
    <3> HIDE DEF e, f, g
    <3> QED
      BY <1>2, <2>1, <3>2, <3>3, <3>4, <3>5, <3>6, <3>7
  <2>4. CASE RouterSends(a)
    <3>1. PICK type \in {"call", "wait_expired", "completed", "late"} : Deliver(Note(type, a))
      BY <2>4 DEF RouterSends
    <3>2. /\ Note(type, a) \in Envelopes /\ task' = task /\ background' = background
          /\ (router'[b] = "none" => router[b] = "none")
      BY <2>4, EnvelopeTypes DEF RouterSends, ResultTypes
    <3>3. e # Note(type, a) /\ f # Note(type, a) /\ g # Note(type, a)
      BY DEF Note
    <3>4. /\ Has(mailbox', e) <=> Has(mailbox, e)
          /\ Has(mailbox', f) <=> Has(mailbox, f)
          /\ Has(mailbox', g) <=> Has(mailbox, g)
      BY <1>1, <3>1, <3>2, <3>3, HasAfter
    <3>5. Once(mailbox', e)
      BY <1>2, <3>1, <3>2, <3>3, DeliverOrder
    <3> HIDE DEF e, f, g
    <3> QED
      BY <1>2, <2>1, <3>2, <3>4, <3>5
  <2>5. CASE Reports(a)
    <3>1. PICK type \in {"batch_completed", "spawn_failed"} : Deliver(Note(type, a))
      BY <2>5 DEF Reports
    <3>2. /\ Note(type, a) \in Envelopes /\ task' = task /\ router' = router
          /\ a \in background /\ background' \subseteq background
      BY <2>5, EnvelopeTypes DEF Reports
    <3>3. e # Note(type, a) /\ (f = Note(type, a) \/ g = Note(type, a) => a = b)
      BY DEF Note
    <3>4. /\ Has(mailbox', e) <=> Has(mailbox, e)
          /\ Has(mailbox', f) => Has(mailbox, f) \/ a = b
          /\ Has(mailbox', g) => Has(mailbox, g) \/ a = b
      BY <1>1, <3>1, <3>2, <3>3, HasAfter
    <3>5. Once(mailbox', e)
      BY <1>2, <3>1, <3>2, <3>3, DeliverOrder
    <3> HIDE DEF e, f, g
    <3> QED
      BY <1>2, <2>1, <3>2, <3>4, <3>5
  <2> HIDE DEF e, f, g
  <2> QED
    BY <1>5, <2>2, <2>3, <2>4, <2>5 DEF ProcessMove
<1>6. CASE OtherMove
  <2>1. task' = task /\ background' = background /\ decision' = decision
    BY <1>6 DEF OtherMove
  <2>2. router'[b] = "none" => router[b] = "none"
    BY <1>0, <1>6 DEF OtherMove
  <2>3. /\ Has(mailbox', e) <=> Has(mailbox, e)
        /\ Has(mailbox', f) <=> Has(mailbox, f)
        /\ Has(mailbox', g) <=> Has(mailbox, g)
        /\ Once(mailbox', e)
    <3>1. CASE mailbox' = mailbox
      BY <1>2, <3>1
    <3>2. ASSUME NEW n \in Envelopes, Deliver(n), n.type \in {"trigger", "message", "stop_requested"}
          PROVE  /\ Has(mailbox', e) <=> Has(mailbox, e)
                 /\ Has(mailbox', f) <=> Has(mailbox, f)
                 /\ Has(mailbox', g) <=> Has(mailbox, g)
                 /\ Once(mailbox', e)
      <4>1. n # e /\ n # f /\ n # g
        BY <3>2 DEF Note
      <4> QED
        BY <1>1, <1>2, <3>2, <4>1, HasAfter, DeliverOrder
    <3> QED
      BY <1>6, <3>1, <3>2 DEF OtherMove
  <2> HIDE DEF e, f, g
  <2> QED
    BY <1>2, <2>1, <2>2, <2>3 DEF e, f, g
<1> QED
  BY <1>3, <1>4, <1>5, <1>6, StepCases

LEMMA ResultPreserved ==
    ASSUME TypeOK, TypeOK', FreshInv, SenderInv, ResultInv, [Next]_vars
    PROVE  ResultInv'
<1>0. /\ counter \in Nat
      /\ decision \in [Actions -> Decisions \cup {NoDecision}]
      /\ pending \in [Actions -> {"none", "open", "acked"}] /\ results \in [Actions -> Nat]
      /\ task \in [Actions -> TaskStates]
  BY DEF TypeOK
<1> SUFFICES ASSUME NEW b \in Actions
             PROVE  /\ pending'[b] = "open" => results'[b] = 0
                    /\ pending'[b] = "acked" =>
                          /\ results'[b] = 1 /\ decision'[b].kind = "shell" /\ task'[b] = "done"
                          /\ ~Has(mailbox', Note("running", b))
                    /\ results'[b] <= IF decision'[b].kind = "shell" THEN 2 ELSE 1
  BY DEF ResultInv, Has, Note
<1> DEFINE e == Note("running", b)
<1>1. /\ e.type \notin Silent
      /\ pending[b] = "open" => results[b] = 0
      /\ pending[b] = "acked" =>
            results[b] = 1 /\ decision[b].kind = "shell" /\ task[b] = "done" /\ ~Has(mailbox, e)
      /\ results[b] <= IF decision[b].kind = "shell" THEN 2 ELSE 1
  BY DEF ResultInv, Note, Silent
<1>2. CASE Receive /\ ReceiveView
  <2>1. Has(mailbox', e) => Has(mailbox, e)
    BY <1>1, <1>2, HasAfter
  <2>2. task' = task /\ decision' = decision
    BY <1>2 DEF ReceiveView
  <2>3. CASE HandleResult
    <3>1. PICK type \in ResultTypes, a \in Actions :
             /\ Receives(type) /\ a = Head(mailbox).id /\ Has(mailbox, Note(type, a))
             /\ pending[a] # "none"
             /\ pending' = [pending EXCEPT ![a] = PendingAfter(type)]
             /\ results' = [results EXCEPT ![a] = results[a] + 1]
      BY <2>3, ResultView
    <3>2. CASE b # a
      <4>1. pending'[b] = pending[b] /\ results'[b] = results[b]
        BY <1>0, <3>1, <3>2
      <4> HIDE DEF e
      <4> QED
        BY <1>1, <2>1, <2>2, <4>1 DEF e
    <3>3. CASE b = a /\ type = "running"
      <4>1. Has(mailbox, e) /\ decision[b].kind = "shell" /\ task[b] = "done" /\ Once(mailbox, e)
        BY <3>1, <3>3 DEF SenderInv
      <4>2. pending[b] = "open" /\ results[b] = 0
        BY <1>0, <1>1, <3>1, <3>3, <4>1
      <4>3. pending'[b] = "acked" /\ results'[b] = 1
        BY <1>0, <3>1, <3>3, <4>2 DEF PendingAfter
      <4>4. 1 \in DOMAIN mailbox /\ mailbox[1] = e
        BY <3>1, <3>3, HeadIs
      <4>5. ~Has(mailbox', e)
        <5> SUFFICES ASSUME NEW i \in DOMAIN mailbox', mailbox'[i] = e PROVE FALSE
          BY DEF Has
        <5>1. i \in Nat /\ i + 1 \in DOMAIN mailbox /\ mailbox[i + 1] = e
          BY <1>1, <1>2, ReceiveShift
        <5>2. i + 1 = 1
          BY <4>1, <4>4, <5>1 DEF Once
        <5>3. mailbox' \in Seq(Envelopes)
          BY DEF TypeOK
        <5> HIDE DEF e
        <5> QED
          BY <5>1, <5>2, <5>3
      <4> HIDE DEF e
      <4> QED
        BY <2>2, <4>1, <4>3, <4>5 DEF e
    <3>4. CASE b = a /\ type # "running"
      <4>1. pending'[b] = "none" /\ results'[b] = results[b] + 1
        BY <1>0, <3>1, <3>4 DEF PendingAfter
      <4>2. pending[b] = "open" \/ pending[b] = "acked"
        BY <1>0, <3>1, <3>4
      <4> HIDE DEF e
      <4> QED
        BY <1>1, <2>2, <4>1, <4>2
    <3> QED
      BY <3>2, <3>3, <3>4
  <2>4. CASE ~HandleResult
    <3>1. pending' = pending /\ results' = results
      BY <1>2, <2>4, OtherReceive
    <3> HIDE DEF e
    <3> QED
      BY <1>1, <2>1, <2>2, <3>1 DEF e
  <2> QED
    BY <2>3, <2>4
<1>3. CASE Decide
  <2>1. PICK a \in Actions : \E d :
              /\ a = counter + 1 /\ counter' = a /\ deciding /\ deciding' = FALSE
              /\ decision' = [decision EXCEPT ![a] = d]
              /\ pending' = [pending EXCEPT ![a] = "open"]
              /\ task' = [task EXCEPT ![a] = "calling"]
              /\ \/ d.kind = "check" /\ UNCHANGED <<router, activeRouters>>
                 \/ router' = [router EXCEPT ![a] = "idle"] /\ activeRouters' = activeRouters \cup {a}
              /\ UNCHANGED <<mailbox, status, queued, scheduled, timerVars, history, results,
                             considered, shellRouters, background, sent>>
    BY <1>3, DecideView
  <2>2. results[a] = 0 /\ mailbox' = mailbox /\ results' = results
    BY <1>0, <2>1 DEF FreshInv
  <2>3. CASE b = a
    <3>1. pending'[b] = "open" /\ results'[b] = 0
      BY <1>0, <2>1, <2>2, <2>3
    <3> QED
      BY <3>1
  <2>4. CASE b # a
    <3>1. pending'[b] = pending[b] /\ decision'[b] = decision[b] /\ task'[b] = task[b]
      BY <1>0, <2>1, <2>4
    <3> HIDE DEF e
    <3> QED
      BY <1>1, <2>2, <3>1 DEF e
  <2> QED
    BY <2>3, <2>4
<1>4. ASSUME NEW a \in Actions, ProcessMove(a)
      PROVE  pending[b] = "acked" => task'[b] = "done" /\ ~Has(mailbox', e)
  <2> SUFFICES ASSUME pending[b] = "acked" PROVE task'[b] = "done" /\ ~Has(mailbox', e)
    OBVIOUS
  <2>0. task[b] = "done" /\ ~Has(mailbox, e) /\ (b # a => task'[b] = task[b])
    BY <1>1, <1>4 DEF ProcessMove
  <2>1. CASE ReplyReady(a)
    <3>1. mailbox' = mailbox /\ b # a
      BY <2>0, <2>1 DEF ReplyReady
    <3> QED
      BY <2>0, <3>1
  <2>2. CASE ReplyCast(a)
    <3>1. PICK type \in TaskReplies \cup {"crash"} :
             Deliver(Note(type, a)) /\ task[a] = (IF type = "crash" THEN "calling" ELSE type)
      BY <2>2 DEF ReplyCast
    <3>2. a # b
      BY <2>0, <3>1 DEF TaskReplies
    <3>3. Note(type, a) \in Envelopes /\ e # Note(type, a)
      BY <3>2, EnvelopeTypes DEF ResultTypes, Note
    <3>4. Has(mailbox', e) <=> Has(mailbox, e)
      BY <1>1, <3>1, <3>3, HasAfter
    <3> HIDE DEF e
    <3> QED
      BY <2>0, <3>2, <3>4
  <2>3. ASSUME NEW type \in {"call", "wait_expired", "completed", "late", "batch_completed", "spawn_failed"},
               Deliver(Note(type, a)), task' = task
        PROVE  task'[b] = "done" /\ ~Has(mailbox', e)
    <3>1. Note(type, a) \in Envelopes /\ e # Note(type, a)
      BY EnvelopeTypes DEF ResultTypes, Note
    <3>2. Has(mailbox', e) <=> Has(mailbox, e)
      BY <1>1, <2>3, <3>1, HasAfter
    <3> HIDE DEF e
    <3> QED
      BY <2>0, <2>3, <3>2
  <2>4. CASE RouterSends(a)
    <3>1. PICK type \in {"call", "wait_expired", "completed", "late"} : Deliver(Note(type, a))
      BY <2>4 DEF RouterSends
    <3>2. task' = task
      BY <2>4 DEF RouterSends
    <3> QED
      BY <2>3, <3>1, <3>2
  <2>5. CASE Reports(a)
    <3>1. PICK type \in {"batch_completed", "spawn_failed"} : Deliver(Note(type, a))
      BY <2>5 DEF Reports
    <3>2. task' = task
      BY <2>5 DEF Reports
    <3> QED
      BY <2>3, <3>1, <3>2
  <2> HIDE DEF e
  <2> QED
    BY <1>4, <2>1, <2>2, <2>4, <2>5 DEF ProcessMove
<1>5. ASSUME NEW a \in Actions, ProcessMove(a)
      PROVE  UNCHANGED <<pending, results, decision>>
  BY <1>5 DEF ProcessMove
<1>6. CASE OtherMove
  <2>1. task' = task /\ decision' = decision /\ pending' = pending /\ results' = results
    BY <1>6 DEF OtherMove
  <2>2. Has(mailbox', e) => Has(mailbox, e)
    <3>1. CASE mailbox' = mailbox
      BY <3>1
    <3>2. ASSUME NEW n \in Envelopes, Deliver(n), n.type \in {"trigger", "message", "stop_requested"}
          PROVE  Has(mailbox', e) => Has(mailbox, e)
      <4>1. n # e
        BY <3>2 DEF Note
      <4> QED
        BY <1>1, <3>2, <4>1, HasAfter
    <3> HIDE DEF e
    <3> QED
      BY <1>6, <3>1, <3>2 DEF OtherMove
  <2> HIDE DEF e
  <2> QED
    BY <1>1, <2>1, <2>2 DEF e
<1> HIDE DEF e
<1>7. ASSUME NEW a \in Actions, ProcessMove(a)
      PROVE  /\ pending'[b] = "open" => results'[b] = 0
             /\ pending'[b] = "acked" =>
                   /\ results'[b] = 1 /\ decision'[b].kind = "shell" /\ task'[b] = "done"
                   /\ ~Has(mailbox', e)
             /\ results'[b] <= IF decision'[b].kind = "shell" THEN 2 ELSE 1
  BY <1>1, <1>4, <1>5, <1>7
<1> QED
  BY <1>2, <1>3, <1>6, <1>7, StepCases DEF e

-----------------------------------------------------------------------------
(* One action at a time *)

Quiet == \A a \in Actions : ~Notifies(decision[a].kind)

\* While no action notifies the agent on its own, at most one of these is under
\* way: an open action, a consensus cycle, a scheduled one, a wait timer
OneThing ==
    /\ \A a, b \in Actions : pending[a] = "open" /\ pending[b] = "open" => a = b
    /\ Unacked => ~deciding
    /\ Unacked \/ deciding => ~scheduled /\ waitTimer = 0
    /\ scheduled => waitTimer = 0

FlightInv == Quiet => OneThing

\* The result handler closes the one open action.
LEMMA ResultFlight ==
    ASSUME TypeOK, SenderInv, ResultInv, Quiet, OneThing, HandleResult
    PROVE  OneThing'
<1>1. PICK type \in ResultTypes, a \in Actions :
         /\ Receives(type) /\ a = Head(mailbox).id /\ Has(mailbox, Note(type, a))
         /\ pending[a] # "none"
         /\ pending' = [pending EXCEPT ![a] = PendingAfter(type)]
         /\ \/ waitTimer' = a /\ scheduled' = scheduled
            \/ waitTimer' = 0
         /\ UNCHANGED <<status, deciding>>
  BY ResultView
<1>2. pending \in [Actions -> {"none", "open", "acked"}] /\ ~deciding
  BY <1>1 DEF TypeOK, Receives
<1>3. decision[a].kind # "shell"
  BY DEF Quiet, Notifies
<1>4. pending[a] = "open"
  BY <1>1, <1>2, <1>3 DEF ResultInv
<1>5. type # "running"
  BY <1>1, <1>3 DEF SenderInv
<1>6. \A b \in Actions : pending'[b] # "open"
  BY <1>1, <1>2, <1>4, <1>5 DEF OneThing, PendingAfter
<1>7. ~scheduled
  BY <1>4 DEF OneThing, Unacked
<1> QED
  BY <1>1, <1>2, <1>6, <1>7 DEF OneThing, Unacked

\* The other handlers start a cycle or schedule one only with no action open.
LEMMA ReceiveFlight ==
    ASSUME TypeOK, SenderInv, ResultInv, Quiet, OneThing, Receive
    PROVE  OneThing'
<1>1. CASE HandleAgentMessage
  <2>1. waitTimer' = 0 /\ pending' = pending /\ deciding' = deciding /\ ~deciding
    BY <1>1 DEF HandleAgentMessage, CancelWaitTimer, Receives
  <2>2. scheduled' = scheduled \/ ~Unacked
    BY <1>1 DEF HandleAgentMessage, MustQueue
  <2> QED
    BY <2>1, <2>2 DEF OneThing, Unacked
<1>2. CASE HandleTrigger
  <2>1. /\ waitTimer' = 0 /\ pending' = pending /\ deciding' = TRUE /\ scheduled' = FALSE
        /\ scheduled \/ waitTimer # 0
    BY <1>2 DEF HandleTrigger, CancelWaitTimer, IsStale, StartCycle
  <2>2. ~Unacked
    BY <2>1 DEF OneThing
  <2> QED
    BY <2>1, <2>2 DEF OneThing, Unacked
<1>3. CASE HandleWaitExpired
  <2>1. /\ waitTimer' = 0 /\ pending' = pending /\ deciding' = TRUE /\ scheduled' = scheduled
        /\ Receives("wait_expired") /\ waitTimer = Head(mailbox).id
    BY <1>3 DEF HandleWaitExpired, CancelWaitTimer, StartCycle
  <2>2. waitTimer # 0
    BY <2>1, ReceivedTypes
  <2>3. ~Unacked /\ ~scheduled
    BY <2>2 DEF OneThing
  <2> QED
    BY <2>1, <2>3 DEF OneThing, Unacked
<1>4. CASE IgnoreUnknownResult
  BY <1>4 DEF IgnoreUnknownResult, CancelWaitTimer, OneThing, Unacked
<1>5. CASE HandleBackground
  <2>1. PICK type \in {"batch_completed", "spawn_failed"} : Receives(type)
    BY <1>5 DEF HandleBackground
  <2>2. /\ Head(mailbox) \in Envelopes /\ Head(mailbox).type = type
        /\ Has(mailbox, Note(type, Head(mailbox).id))
    BY <2>1, HeadIs DEF Receives
  <2>3. Head(mailbox).id \in Actions
    BY <2>2 DEF Envelopes, ResultTypes, TaskReplies
  <2> QED
    BY <2>1, <2>2, <2>3 DEF SenderInv, Quiet
<1>6. CASE HandleResult
  BY <1>6, ResultFlight
<1>7. CASE \/ SkipTaken \/ IgnoreStaleTrigger \/ IgnoreStaleWaitExpired \/ HandleCall
           \/ HandleStopRequested
  <2>1. UNCHANGED <<pending, deciding, scheduled, waitTimer>>
    BY <1>7 DEF SkipTaken, IgnoreStaleTrigger, IgnoreStaleWaitExpired, HandleCall, HandleStopRequested
  <2> QED
    BY <2>1 DEF OneThing, Unacked
<1> QED
  BY <1>1, <1>2, <1>3, <1>4, <1>5, <1>6, <1>7 DEF Receive

LEMMA FlightPreserved ==
    ASSUME TypeOK, FreshInv, SenderInv, ResultInv, FlightInv, [Next]_vars
    PROVE  FlightInv'
<1>0. /\ counter \in Nat
      /\ decision \in [Actions -> Decisions \cup {NoDecision}]
      /\ pending \in [Actions -> {"none", "open", "acked"}]
  BY DEF TypeOK
<1> SUFFICES ASSUME Quiet' PROVE OneThing'
  BY DEF FlightInv
<1>1. CASE Receive /\ ReceiveView
  <2>1. Quiet
    BY <1>1 DEF ReceiveView, Quiet
  <2> QED
    BY <1>1, <2>1, ReceiveFlight DEF FlightInv
<1>2. CASE Decide
  <2>1. PICK a \in Actions : \E d :
              /\ a = counter + 1 /\ counter' = a /\ deciding /\ deciding' = FALSE
              /\ decision' = [decision EXCEPT ![a] = d]
              /\ pending' = [pending EXCEPT ![a] = "open"]
              /\ task' = [task EXCEPT ![a] = "calling"]
              /\ \/ d.kind = "check" /\ UNCHANGED <<router, activeRouters>>
                 \/ router' = [router EXCEPT ![a] = "idle"] /\ activeRouters' = activeRouters \cup {a}
              /\ UNCHANGED <<mailbox, status, queued, scheduled, timerVars, history, results,
                             considered, shellRouters, background, sent>>
    BY <1>2, DecideView
  <2>2. decision[a] = NoDecision
    BY <1>0, <2>1 DEF FreshInv
  <2>3. Quiet
    BY <1>0, <2>1, <2>2 DEF Quiet, NoDecision, Notifies
  <2>4. (\A b \in Actions : pending[b] # "open") /\ ~scheduled /\ waitTimer = 0
    BY <2>1, <2>3 DEF FlightInv, OneThing, Unacked
  <2>5. \A b \in Actions : pending'[b] = "open" => b = a
    BY <1>0, <2>1, <2>4
  <2> QED
    BY <2>1, <2>4, <2>5 DEF OneThing, Unacked
<1>3. ASSUME NEW a \in Actions, ProcessMove(a) PROVE OneThing'
  <2>1. UNCHANGED <<decision, pending, deciding, scheduled, waitTimer>>
    BY <1>3 DEF ProcessMove
  <2> QED
    BY <2>1 DEF FlightInv, OneThing, Quiet, Unacked
<1>4. CASE OtherMove /\ (HandleRouterDown \/ RetryConsensus \/ ExhaustRetries \/ FailFatally
                         \/ AgentTimerFires \/ SendMessage \/ Stop \/ RequestStop \/ UNCHANGED vars)
  <2>1. Quiet
    BY <1>4 DEF OtherMove, Quiet
  <2>2. CASE RetryConsensus
    <3>1. deciding /\ deciding' = FALSE /\ waitTimer' = waitTimer /\ pending' = pending
      BY <2>2 DEF RetryConsensus, FailsRetryably
    <3> QED
      BY <2>1, <3>1 DEF FlightInv, OneThing, Unacked
  <2>3. CASE ExhaustRetries \/ FailFatally
    <3>1. deciding' = FALSE /\ UNCHANGED <<waitTimer, pending, scheduled>>
      BY <2>3 DEF ExhaustRetries, FailsRetryably, FailFatally
    <3> QED
      BY <2>1, <3>1 DEF FlightInv, OneThing, Unacked
  <2>4. CASE HandleRouterDown \/ AgentTimerFires \/ SendMessage \/ Stop \/ RequestStop \/ UNCHANGED vars
    <3>1. UNCHANGED <<pending, deciding, scheduled, waitTimer>>
      BY <2>4 DEF HandleRouterDown, AgentTimerFires, SendMessage, Stop, StopRouter, FinishStop,
                  RequestStop, vars
    <3> QED
      BY <2>1, <3>1 DEF FlightInv, OneThing, Unacked
  <2> QED
    BY <1>4, <2>2, <2>3, <2>4
<1> QED
  BY <1>1, <1>2, <1>3, <1>4, StepCases

\* What the lemmas above preserve together.
ActionsInv == FreshInv /\ SenderInv /\ ResultInv /\ FlightInv

LEMMA ActionsInvariant == Spec => []ActionsInv
<1>1. Init => ActionsInv
  <2> SUFFICES ASSUME Init PROVE ActionsInv
    OBVIOUS
  <2>1. \A e : ~Has(mailbox, e) /\ Once(mailbox, e)
    BY DEF Init, Has, Once
  <2>2. FreshInv /\ SenderInv /\ ResultInv
    BY <2>1 DEF Init, FreshInv, SenderInv, ResultInv, NoDecision
  <2>3. OneThing
    BY DEF Init, OneThing, Unacked
  <2> QED
    BY <2>2, <2>3 DEF ActionsInv, FlightInv
<1>2. TypeOK /\ TypeOK' /\ ActionsInv /\ [Next]_vars => ActionsInv'
  BY FreshPreserved, SenderPreserved, ResultPreserved, FlightPreserved DEF ActionsInv
<1> QED
  BY <1>1, <1>2, TypeCorrect, PTL DEF Spec

\* The result handler records an action's result once, a command's at most twice,
\* in whatever order its Task and its Router get to send them.
THEOREM ResultsAreRecordedOnce == Spec => []ResultsRecordedOnce
<1>1. ActionsInv => ResultsRecordedOnce
  BY DEF ActionsInv, ResultInv, ResultsRecordedOnce
<1> QED
  BY <1>1, ActionsInvariant, PTL

\* The agent never deliberates over an action still open and never has two of
\* them, as long as no action that notifies it later was taken: queueing a message
\* while an action is open or a cycle is scheduled is enough for that.
THEOREM FlightsAreSingle == Spec => []SingleFlight
<1>1. TypeOK /\ ActionsInv => SingleFlight
  <2> SUFFICES ASSUME TypeOK, ActionsInv, Quiet
               PROVE  /\ Cardinality({a \in Actions : pending[a] = "open"}) <= 1
                      /\ deciding => ~Unacked
    BY DEF SingleFlight, Quiet
  <2>1. OneThing
    BY DEF ActionsInv, FlightInv
  <2> DEFINE open == {a \in Actions : pending[a] = "open"}
  <2>2. CASE open = {}
    <3>1. Cardinality(open) = 0
      BY <2>2, FS_EmptySet
    <3> QED
      BY <2>1, <3>1 DEF OneThing
  <2>3. CASE open # {}
    <3> PICK a \in Actions : a \in open
      BY <2>3
    <3>1. open = {a}
      BY <2>1 DEF OneThing
    <3>2. Cardinality({a}) = 1
      BY FS_Singleton
    <3> QED
      BY <2>1, <3>1, <3>2 DEF OneThing
  <2> QED
    BY <2>2, <2>3
<1> QED
  BY <1>1, ActionsInvariant, TypeCorrect, PTL

-----------------------------------------------------------------------------
(* The wait timer *)

\* A :wait action's reply comes before its expiry, and until the reply is handled
\* its Router's timer runs or has sent the expiry
TimerInv ==
    ~TinyWaits => \A a \in Actions :
        /\ Has(mailbox, Note("ok", a)) \/ Has(mailbox, Note("wait_expired", a)) => task[a] = "done"
        /\ Precedes(mailbox, Note("ok", a), Note("wait_expired", a))
        /\ /\ status = "up" /\ decision[a].kind = "wait" /\ decision[a].wait = "timed"
           /\ task[a] = "ok" \/ Has(mailbox, Note("ok", a))
           => router[a] = "timer" \/ Has(mailbox, Note("wait_expired", a))

LEMMA TimerPreserved ==
    ASSUME TypeOK, FreshInv, SenderInv, TimerInv, [Next]_vars
    PROVE  TimerInv'
<1>0. /\ counter \in Nat
      /\ decision \in [Actions -> Decisions \cup {NoDecision}]
      /\ task \in [Actions -> TaskStates] /\ router \in [Actions -> RouterStates]
  BY DEF TypeOK
<1> SUFFICES ASSUME ~TinyWaits, NEW b \in Actions
             PROVE  /\ Has(mailbox', Note("ok", b)) \/ Has(mailbox', Note("wait_expired", b)) => task'[b] = "done"
                    /\ Precedes(mailbox', Note("ok", b), Note("wait_expired", b))
                    /\ /\ status' = "up" /\ decision'[b].kind = "wait" /\ decision'[b].wait = "timed"
                       /\ task'[b] = "ok" \/ Has(mailbox', Note("ok", b))
                       => router'[b] = "timer" \/ Has(mailbox', Note("wait_expired", b))
  BY DEF TimerInv, Has, Note, Precedes
<1> DEFINE e == Note("ok", b)
           f == Note("wait_expired", b)
<1>1. /\ e.type \notin Silent /\ f.type \notin Silent /\ e # f
      /\ Has(mailbox, e) \/ Has(mailbox, f) => task[b] = "done"
      /\ Precedes(mailbox, e, f)
      /\ status = "up" /\ decision[b].kind = "wait" /\ decision[b].wait = "timed"
            /\ (task[b] = "ok" \/ Has(mailbox, e))
         => router[b] = "timer" \/ Has(mailbox, f)
  BY DEF TimerInv, Note, Silent
<1>2. CASE Receive /\ ReceiveView
  <2>1. (Has(mailbox', e) => Has(mailbox, e)) /\ (Has(mailbox', f) => Has(mailbox, f))
    BY <1>1, <1>2, HasAfter
  <2>2. Precedes(mailbox', e, f)
    BY <1>1, <1>2, ReceiveOrder
  <2>3. task' = task /\ decision' = decision /\ (status' = "up" => status = "up")
        /\ (router[b] = "timer" => router'[b] = "timer")
    BY <1>2 DEF ReceiveView
  <2>4. Has(mailbox, f) => Has(mailbox', f) \/ f = Head(mailbox)
    BY <1>2, ReceiveMailbox DEF Note
  <2>5. f = Head(mailbox) => ~Has(mailbox, e) /\ task[b] # "ok"
    <3> SUFFICES ASSUME f = Head(mailbox) PROVE ~Has(mailbox, e) /\ task[b] # "ok"
      OBVIOUS
    <3>1. mailbox \in Seq(Envelopes) /\ mailbox # <<>>
      BY <1>2 DEF TypeOK, Receive, Receives, SkipTaken, HandleAgentMessage, IgnoreStaleTrigger,
         HandleTrigger, IgnoreStaleWaitExpired, HandleWaitExpired, IgnoreUnknownResult,
         HandleResult, HandleBackground, HandleCall, HandleStopRequested
    <3> HIDE DEF e, f
    <3>2. 1 \in DOMAIN mailbox /\ mailbox[1] = f /\ \A i \in DOMAIN mailbox : i \in Nat /\ ~(i < 1)
      BY <3>1
    <3>3. Has(mailbox, f)
      BY <3>2 DEF Has
    <3>4. ~Has(mailbox, e)
      BY <1>1, <3>2 DEF Has, Precedes
    <3> QED
      BY <1>1, <3>3, <3>4
  <2> HIDE DEF e, f
  <2> QED
    BY <1>1, <2>1, <2>2, <2>3, <2>4, <2>5 DEF e, f
<1>3. CASE Decide
  <2>1. PICK a \in Actions : \E d :
              /\ a = counter + 1 /\ counter' = a /\ deciding /\ deciding' = FALSE
              /\ decision' = [decision EXCEPT ![a] = d]
              /\ pending' = [pending EXCEPT ![a] = "open"]
              /\ task' = [task EXCEPT ![a] = "calling"]
              /\ \/ d.kind = "check" /\ UNCHANGED <<router, activeRouters>>
                 \/ router' = [router EXCEPT ![a] = "idle"] /\ activeRouters' = activeRouters \cup {a}
              /\ UNCHANGED <<mailbox, status, queued, scheduled, timerVars, history, results,
                             considered, shellRouters, background, sent>>
    BY <1>3, DecideView
  <2>2. mailbox' = mailbox /\ status' = status /\ task[a] = "none"
    BY <1>0, <2>1 DEF FreshInv
  <2>3. CASE b = a
    <3>1. ~Has(mailbox, e) /\ ~Has(mailbox, f) /\ task'[b] = "calling"
      BY <1>0, <1>1, <2>1, <2>2, <2>3
    <3> HIDE DEF e, f
    <3> QED
      BY <1>1, <2>2, <3>1 DEF e, f
  <2>4. CASE b # a
    <3>1. decision'[b] = decision[b] /\ task'[b] = task[b] /\ router'[b] = router[b]
      BY <1>0, <2>1, <2>4
    <3> HIDE DEF e, f
    <3> QED
      BY <1>1, <2>2, <3>1 DEF e, f
  <2> QED
    BY <2>3, <2>4
<1>4. ASSUME NEW a \in Actions, ProcessMove(a)
      PROVE  /\ Has(mailbox', e) \/ Has(mailbox', f) => task'[b] = "done"
             /\ Precedes(mailbox', e, f)
             /\ status' = "up" /\ decision'[b].kind = "wait" /\ decision'[b].wait = "timed"
                   /\ (task'[b] = "ok" \/ Has(mailbox', e))
                => router'[b] = "timer" \/ Has(mailbox', f)
  <2>1. decision' = decision /\ status' = status /\ (b # a => task'[b] = task[b])
    BY <1>4 DEF ProcessMove
  <2>2. CASE ReplyReady(a)
    <3>1. mailbox' = mailbox /\ task[a] \in {"calling", "executing"}
          /\ (router[b] = "timer" => router'[b] = "timer")
          /\ (task'[a] = "ok" => \/ (decision[a].kind = "wait" /\ decision[a].wait = "timed" => router'[a] = "timer")
                                 \/ router[a] = "none")
      BY <2>2 DEF ReplyReady
    <3>2. router[a] = "none" => decision[a].kind # "wait"
      BY <3>1 DEF SenderInv
    <3>3. b = a => ~Has(mailbox, e) /\ ~Has(mailbox, f)
      BY <1>1, <3>1
    <3> HIDE DEF e, f
    <3> QED
      BY <1>1, <2>1, <3>1, <3>2, <3>3
  <2>3. CASE ReplyCast(a)
    <3>1. PICK type \in TaskReplies \cup {"crash"} :
             Deliver(Note(type, a)) /\ task[a] = (IF type = "crash" THEN "calling" ELSE type)
      BY <2>3 DEF ReplyCast
    <3>2. Note(type, a) \in Envelopes /\ task'[a] = "done" /\ router' = router
      BY <2>3, EnvelopeTypes DEF ReplyCast, ResultTypes
    <3>3. /\ Has(mailbox', e) <=> Has(mailbox, e) \/ e = Note(type, a)
          /\ Has(mailbox', f) <=> Has(mailbox, f) \/ f = Note(type, a)
      BY <1>1, <3>1, <3>2, HasAfter
    <3>4. f # Note(type, a) /\ (e = Note(type, a) => a = b /\ type = "ok")
      BY DEF Note, TaskReplies
    <3>5. e = Note(type, a) => task[b] = "ok" /\ ~Has(mailbox, f)
      BY <1>1, <3>1, <3>4
    <3>6. Precedes(mailbox', e, f)
      BY <1>1, <3>1, <3>2, <3>5, DeliverOrder
    <3> HIDE DEF e, f
    <3> QED
      BY <1>1, <2>1, <3>2, <3>3, <3>4, <3>5, <3>6
  <2>4. CASE RouterSends(a)
    <3>1. PICK type \in {"call", "wait_expired", "completed", "late"} :
             /\ Deliver(Note(type, a))
             /\ type = "wait_expired" <=> router[a] = "timer"
             /\ type = "wait_expired" => task[a] = "done"
      BY <2>4 DEF RouterSends
    <3>2. Note(type, a) \in Envelopes /\ task' = task /\ (b # a => router'[b] = router[b])
      BY <2>4, EnvelopeTypes DEF RouterSends, ResultTypes
    <3>3. /\ Has(mailbox', e) <=> Has(mailbox, e) \/ e = Note(type, a)
          /\ Has(mailbox', f) <=> Has(mailbox, f) \/ f = Note(type, a)
      BY <1>1, <3>1, <3>2, HasAfter
    <3>4. e # Note(type, a) /\ (f = Note(type, a) <=> a = b /\ type = "wait_expired")
      BY DEF Note
    <3>5. Precedes(mailbox', e, f)
      BY <1>1, <3>1, <3>2, <3>4, DeliverOrder
    <3> HIDE DEF e, f
    <3> QED
      BY <1>1, <2>1, <3>1, <3>2, <3>3, <3>4, <3>5
  <2>5. CASE Reports(a)
    <3>1. PICK type \in {"batch_completed", "spawn_failed"} : Deliver(Note(type, a))
      BY <2>5 DEF Reports
    <3>2. Note(type, a) \in Envelopes /\ task' = task /\ router' = router
      BY <2>5, EnvelopeTypes DEF Reports
    <3>3. e # Note(type, a) /\ f # Note(type, a)
      BY DEF Note
    <3>4. (Has(mailbox', e) <=> Has(mailbox, e)) /\ (Has(mailbox', f) <=> Has(mailbox, f))
      BY <1>1, <3>1, <3>2, <3>3, HasAfter
    <3>5. Precedes(mailbox', e, f)
      BY <1>1, <3>1, <3>2, <3>3, DeliverOrder
    <3> HIDE DEF e, f
    <3> QED
      BY <1>1, <2>1, <3>2, <3>4, <3>5
  <2> HIDE DEF e, f
  <2> QED
    BY <1>4, <2>2, <2>3, <2>4, <2>5 DEF ProcessMove
<1>5. CASE OtherMove
  <2>1. /\ task' = task /\ decision' = decision /\ (status' = "up" => status = "up")
        /\ status' = "up" => router' = router
    BY <1>5 DEF OtherMove
  <2>2. /\ Has(mailbox', e) <=> Has(mailbox, e)
        /\ Has(mailbox', f) <=> Has(mailbox, f)
        /\ Precedes(mailbox', e, f)
    <3>1. CASE mailbox' = mailbox
      BY <1>1, <3>1
    <3>2. ASSUME NEW n \in Envelopes, Deliver(n), n.type \in {"trigger", "message", "stop_requested"}
          PROVE  /\ Has(mailbox', e) <=> Has(mailbox, e)
                 /\ Has(mailbox', f) <=> Has(mailbox, f)
                 /\ Precedes(mailbox', e, f)
      <4>1. n # e /\ n # f
        BY <3>2 DEF Note
      <4> QED
        BY <1>1, <3>2, <4>1, HasAfter, DeliverOrder
    <3> HIDE DEF e, f
    <3> QED
      BY <1>5, <3>1, <3>2 DEF OtherMove
  <2> HIDE DEF e, f
  <2> QED
    BY <1>1, <2>1, <2>2 DEF e, f
<1> HIDE DEF e, f
<1> QED
  BY <1>2, <1>3, <1>4, <1>5, StepCases DEF e, f

HasTrigger(box) == \E i \in DOMAIN box : box[i].type = "trigger"

\* The receive steps that neither stop the agent nor cancel the wait timer.
LEMMA TimerKept ==
    ASSUME TypeOK, Receive, status' = "up", waitTimer' # 0
    PROVE  \/ HandleResult
           \/ /\ waitTimer' = waitTimer /\ armed' = armed /\ status = "up"
              /\ Head(mailbox).type = "wait_expired" => Head(mailbox).id # waitTimer
              /\ Head(mailbox).type # "trigger"
              /\ mailbox' = Tail(mailbox) \/ mailbox' = Append(Tail(mailbox), Trigger(0))
<1>1. CASE HandleAgentMessage \/ HandleTrigger \/ HandleWaitExpired \/ IgnoreUnknownResult
  BY <1>1 DEF HandleAgentMessage, HandleTrigger, HandleWaitExpired, IgnoreUnknownResult, CancelWaitTimer
<1>2. CASE IgnoreStaleTrigger \/ HandleStopRequested
  BY <1>2 DEF IgnoreStaleTrigger, IsStale, HandleStopRequested
<1>3. CASE SkipTaken \/ IgnoreStaleWaitExpired \/ HandleBackground \/ HandleCall
  BY <1>3 DEF SkipTaken, IgnoreStaleWaitExpired, HandleBackground, HandleCall, Receives, Schedule
<1> QED
  BY <1>1, <1>2, <1>3 DEF Receive

\* The result handler sets the timer of an action that still has it.
LEMMA TimerSet ==
    ASSUME TypeOK, TimerInv, HandleResult, status' = "up", waitTimer' # 0,
           ~(TinyWaits /\ decision'[waitTimer'].kind = "wait")
    PROVE  armed' \/ router'[waitTimer'] = "timer" \/ Has(mailbox', Note("wait_expired", waitTimer'))
<1>1. PICK type \in ResultTypes, a \in Actions :
         /\ Receives(type) /\ Has(mailbox, Note(type, a)) /\ a = Head(mailbox).id
         /\ SetsTimer(type, a) /\ waitTimer' = a
         /\ armed' = ~(decision[a].kind = "wait" /\ type = "ok")
  BY ResultView
<1>2. router' = router /\ decision' = decision /\ status = "up"
  BY <1>1 DEF HandleResult, Receives
<1>3. CASE decision[a].kind = "wait" /\ type = "ok"
  <2>1. ~TinyWaits /\ decision[a].wait = "timed"
    BY <1>1, <1>2, <1>3 DEF SetsTimer, WaitOf, TaskReplies
  <2>2. router[a] = "timer" \/ Has(mailbox, Note("wait_expired", a))
    BY <1>1, <1>2, <1>3, <2>1 DEF TimerInv
  <2>3. Has(mailbox, Note("wait_expired", a)) => Has(mailbox', Note("wait_expired", a))
    <3>1. Note("wait_expired", a).type = "wait_expired" /\ Head(mailbox).type = "ok"
      BY <1>1, <1>3 DEF Note, Receives
    <3> QED
      BY <3>1, ReceiveMailbox DEF Receive
  <2> QED
    BY <1>1, <1>2, <2>2, <2>3
<1>4. CASE ~(decision[a].kind = "wait" /\ type = "ok")
  <2>1. armed'
    BY <1>1, <1>4, Zenon
  <2> QED
    BY <2>1, Zenon
<1> QED
  BY <1>3, <1>4

LEMMA WaitPreserved ==
    ASSUME TypeOK, FreshInv, TimerInv, WaitTimerIsLive, [Next]_vars
    PROVE  WaitTimerIsLive'
<1>0. waitTimer \in 0..MaxActions /\ counter \in Nat /\ armed \in BOOLEAN /\ waitTimer <= counter
      /\ mailbox \in Seq(Envelopes)
  BY DEF TypeOK, FreshInv
<1> SUFFICES ASSUME status' = "up", waitTimer' # 0, ~(TinyWaits /\ decision'[waitTimer'].kind = "wait")
             PROVE  armed' \/ router'[waitTimer'] = "timer"
                    \/ Has(mailbox', Note("wait_expired", waitTimer')) \/ HasTrigger(mailbox')
  BY DEF WaitTimerIsLive, InMailbox, Has, HasTrigger
\* It is enough that the step keeps the timer and what keeps it live.
<1>1. ASSUME status = "up", waitTimer' = waitTimer, decision'[waitTimer].kind = decision[waitTimer].kind
      PROVE  /\ waitTimer \in Actions
             /\ armed \/ router[waitTimer] = "timer"
                \/ Has(mailbox, Note("wait_expired", waitTimer)) \/ HasTrigger(mailbox)
  BY <1>0, <1>1 DEF WaitTimerIsLive, InMailbox, Has, HasTrigger
<1>2. CASE Receive /\ ReceiveView
  <2>1. CASE HandleResult
    BY <2>1, TimerSet
  <2>2. CASE ~HandleResult
    <3>1. /\ waitTimer' = waitTimer /\ armed' = armed /\ status = "up" /\ decision' = decision
          /\ Head(mailbox).type = "wait_expired" => Head(mailbox).id # waitTimer
          /\ Head(mailbox).type # "trigger"
          /\ mailbox' = Tail(mailbox) \/ mailbox' = Append(Tail(mailbox), Trigger(0))
      BY <1>2, <2>2, TimerKept DEF ReceiveView
    <3>2. /\ waitTimer \in Actions
          /\ armed \/ router[waitTimer] = "timer"
             \/ Has(mailbox, Note("wait_expired", waitTimer)) \/ HasTrigger(mailbox)
      BY <1>1, <3>1
    <3>3. router[waitTimer] = "timer" => router'[waitTimer] = "timer"
      BY <1>2, <3>2 DEF ReceiveView
    <3>4. Has(mailbox, Note("wait_expired", waitTimer)) => Has(mailbox', Note("wait_expired", waitTimer))
      <4>1. Note("wait_expired", waitTimer).type # "trigger" /\ Note("wait_expired", waitTimer) # Head(mailbox)
        BY <3>1 DEF Note
      <4> QED
        BY <1>2, <4>1, ReceiveMailbox
    <3>5. HasTrigger(mailbox) => HasTrigger(mailbox')
      <4> SUFFICES ASSUME NEW i \in DOMAIN mailbox, mailbox[i].type = "trigger" PROVE HasTrigger(mailbox')
        BY DEF HasTrigger
      <4>1. mailbox # <<>>
        BY <1>0
      <4>2. Tail(mailbox) \in Seq(Envelopes)
            /\ \A k \in DOMAIN mailbox : mailbox[k] = Head(mailbox) \/ \E j \in DOMAIN Tail(mailbox) : Tail(mailbox)[j] = mailbox[k]
        BY <1>0, <4>1, TailElements
      <4>3. PICK j \in DOMAIN Tail(mailbox) : Tail(mailbox)[j].type = "trigger"
        BY <3>1, <4>2
      <4>4. Trigger(0) \in Envelopes
        BY EnvelopeTypes
      <4>5. j \in DOMAIN mailbox' /\ mailbox'[j] = Tail(mailbox)[j]
        BY <3>1, <4>2, <4>4, AppendElements
      <4> QED
        BY <4>3, <4>5 DEF HasTrigger
    <3> QED
      BY <3>1, <3>2, <3>3, <3>4, <3>5
  <2> QED
    BY <2>1, <2>2
<1>3. CASE Decide
  <2>1. PICK a \in Actions : \E d :
              /\ a = counter + 1 /\ counter' = a /\ deciding /\ deciding' = FALSE
              /\ decision' = [decision EXCEPT ![a] = d]
              /\ pending' = [pending EXCEPT ![a] = "open"]
              /\ task' = [task EXCEPT ![a] = "calling"]
              /\ \/ d.kind = "check" /\ UNCHANGED <<router, activeRouters>>
                 \/ router' = [router EXCEPT ![a] = "idle"] /\ activeRouters' = activeRouters \cup {a}
              /\ UNCHANGED <<mailbox, status, queued, scheduled, timerVars, history, results,
                             considered, shellRouters, background, sent>>
    BY <1>3, DecideView
  <2>2. waitTimer # a /\ waitTimer' = waitTimer /\ armed' = armed /\ mailbox' = mailbox /\ status = "up"
    BY <1>0, <2>1
  <2>3. decision'[waitTimer].kind = decision[waitTimer].kind
    BY <1>0, <2>1, <2>2 DEF TypeOK
  <2>4. waitTimer \in Actions /\ router'[waitTimer] = router[waitTimer]
    BY <1>0, <2>1, <2>2 DEF TypeOK
  <2> QED
    BY <1>1, <2>2, <2>3, <2>4
<1>4. ASSUME NEW a \in Actions, ProcessMove(a)
      PROVE  armed' \/ router'[waitTimer'] = "timer"
             \/ Has(mailbox', Note("wait_expired", waitTimer')) \/ HasTrigger(mailbox')
  <2>1. waitTimer' = waitTimer /\ armed' = armed /\ status = "up" /\ decision' = decision
    BY <1>4 DEF ProcessMove
  <2>2. /\ waitTimer \in Actions
        /\ armed \/ router[waitTimer] = "timer"
           \/ Has(mailbox, Note("wait_expired", waitTimer)) \/ HasTrigger(mailbox)
    BY <1>1, <2>1
  <2>3. /\ Has(mailbox, Note("wait_expired", waitTimer)) => Has(mailbox', Note("wait_expired", waitTimer))
        /\ HasTrigger(mailbox) => HasTrigger(mailbox')
    <3>1. CASE mailbox' = mailbox
      BY <3>1
    <3>2. ASSUME NEW n \in Envelopes, Deliver(n)
          PROVE  /\ Has(mailbox, Note("wait_expired", waitTimer)) => Has(mailbox', Note("wait_expired", waitTimer))
                 /\ HasTrigger(mailbox) => HasTrigger(mailbox')
      BY <3>2, DeliverMailbox DEF HasTrigger
    <3>3. mailbox' = mailbox \/ \E n \in Envelopes : Deliver(n)
      BY <1>4, EnvelopeTypes DEF ProcessMove, ReplyReady, ReplyCast, RouterSends, Reports, ResultTypes
    <3> QED
      BY <3>1, <3>2, <3>3
  <2>4. router[waitTimer] = "timer" => router'[waitTimer] = "timer" \/ Has(mailbox', Note("wait_expired", waitTimer))
    <3>1. CASE RouterSends(a)
      <4>1. PICK type \in {"call", "wait_expired", "completed", "late"} :
               Deliver(Note(type, a)) /\ (type = "wait_expired" <=> router[a] = "timer")
        BY <3>1 DEF RouterSends
      <4>2. Note(type, a) \in Envelopes
        BY EnvelopeTypes DEF ResultTypes
      <4>3. Has(mailbox', Note(type, a))
        BY <4>1, <4>2, DeliverMailbox
      <4> QED
        BY <2>2, <3>1, <4>1, <4>3 DEF RouterSends
    <3>2. CASE ReplyReady(a) \/ ReplyCast(a) \/ Reports(a)
      BY <2>2, <3>2 DEF ReplyReady, ReplyCast, Reports
    <3> QED
      BY <1>4, <3>1, <3>2 DEF ProcessMove
  <2> QED
    BY <2>1, <2>2, <2>3, <2>4
<1>5. CASE OtherMove /\ (HandleRouterDown \/ RetryConsensus \/ ExhaustRetries \/ FailFatally
                         \/ AgentTimerFires \/ SendMessage \/ Stop \/ RequestStop \/ UNCHANGED vars)
  <2>1. waitTimer' = waitTimer /\ status = "up" /\ decision' = decision /\ router' = router
    BY <1>5 DEF OtherMove
  <2>2. /\ waitTimer \in Actions
        /\ armed \/ router[waitTimer] = "timer"
           \/ Has(mailbox, Note("wait_expired", waitTimer)) \/ HasTrigger(mailbox)
    BY <1>1, <2>1
  <2>3. /\ Has(mailbox, Note("wait_expired", waitTimer)) => Has(mailbox', Note("wait_expired", waitTimer))
        /\ HasTrigger(mailbox) => HasTrigger(mailbox')
    <3>1. CASE mailbox' = mailbox
      BY <3>1
    <3>2. ASSUME NEW n \in Envelopes, Deliver(n)
          PROVE  /\ Has(mailbox, Note("wait_expired", waitTimer)) => Has(mailbox', Note("wait_expired", waitTimer))
                 /\ HasTrigger(mailbox) => HasTrigger(mailbox')
      BY <3>2, DeliverMailbox DEF HasTrigger
    <3> QED
      BY <1>5, <3>1, <3>2 DEF OtherMove
  <2>4. CASE AgentTimerFires
    <3>1. Deliver(Trigger(waitTimer)) /\ Trigger(waitTimer) \in Envelopes /\ Trigger(waitTimer).type = "trigger"
      BY <1>0, <2>4, EnvelopeTypes DEF AgentTimerFires, Trigger
    <3>2. Has(mailbox', Trigger(waitTimer))
      BY <3>1, DeliverMailbox
    <3> QED
      BY <3>1, <3>2 DEF Has, HasTrigger
  <2>5. CASE ~AgentTimerFires
    <3>1. armed' = armed
      BY <1>5, <2>5 DEF HandleRouterDown, RetryConsensus, ExhaustRetries, FailsRetryably, FailFatally,
                        SendMessage, Stop, StopRouter, FinishStop, RequestStop, vars
    <3> QED
      BY <2>1, <2>2, <2>3, <3>1
  <2> QED
    BY <2>4, <2>5
<1> QED
  BY <1>2, <1>3, <1>4, <1>5, StepCases

\* A set wait timer will still wake the agent: it is the agent's own and runs, or
\* the Router of the :wait action has it, or its message is on the way.
THEOREM WaitTimersAreLive == Spec => []WaitTimerIsLive
<1>1. Init => TimerInv /\ WaitTimerIsLive
  <2> SUFFICES ASSUME Init PROVE TimerInv /\ WaitTimerIsLive
    OBVIOUS
  <2>1. \A e, f : ~Has(mailbox, e) /\ Precedes(mailbox, e, f)
    BY DEF Init, Has, Precedes
  <2> QED
    BY <2>1 DEF Init, TimerInv, WaitTimerIsLive
<1>2. TypeOK /\ ActionsInv /\ TimerInv /\ WaitTimerIsLive /\ [Next]_vars => TimerInv' /\ WaitTimerIsLive'
  BY TimerPreserved, WaitPreserved DEF ActionsInv
<1> QED
  BY <1>1, <1>2, ActionsInvariant, TypeCorrect, PTL DEF Spec

-----------------------------------------------------------------------------
(* Messages *)

\* What taking a message, and flushing the queue, make of the recorded messages.
LEMMA RecordedSequences ==
    ASSUME NEW S, NEW h \in Seq(S), NEW q \in Seq(S)
    PROVE  /\ h \o q \in Seq(S)
           /\ (h \o q) \o <<>> = h \o q
           /\ \A m \in S : h \o Append(q, m) = Append(h \o q, m)
           /\ \A m \in S : Append(h, m) \o <<>> = Append(h \o <<>>, m)
<1>1. h \o q \in Seq(S) /\ (h \o q) \o <<>> = h \o q
  BY ConcatProperties, ConcatEmptySeq
<1>2. ASSUME NEW m \in S PROVE h \o Append(q, m) = Append(h \o q, m)
  <2>1. <<m>> \in Seq(S)
    OBVIOUS
  <2>2. Append(q, m) = q \o <<m>> /\ Append(h \o q, m) = (h \o q) \o <<m>>
    BY <1>1, AppendIsConcat
  <2>3. (h \o q) \o <<m>> = h \o (q \o <<m>>)
    BY <2>1, ConcatAssociative
  <2> QED
    BY <2>2, <2>3
<1>3. ASSUME NEW m \in S PROVE Append(h, m) \o <<>> = Append(h \o <<>>, m)
  <2>1. Append(h, m) \in Seq(S) /\ h \o <<>> = h
    BY ConcatEmptySeq
  <2>2. Append(h, m) \o <<>> = Append(h, m)
    BY <2>1, ConcatEmptySeq
  <2> QED
    BY <2>1, <2>2
<1> QED
  BY <1>1, <1>2, <1>3

\* The handlers of the other messages only move messages from the queue to the
\* history.
LEMMA RecordedKept ==
    ASSUME TypeOK, Receive, ~HandleAgentMessage
    PROVE  Recorded' = Recorded /\ Head(mailbox).type # "message" /\ sent' = sent
<1>1. history \in Seq(Messages) /\ queued \in Seq(Messages)
  BY DEF TypeOK
<1>2. (history \o queued) \o <<>> = history \o queued
  BY <1>1, RecordedSequences
<1>3. \/ history' = history \o queued /\ queued' = <<>>
      \/ history' = history /\ queued' = queued
  <2>1. CASE HandleResult
    BY <2>1, ResultView
  <2>2. CASE HandleTrigger \/ HandleWaitExpired
    <3>1. FlushQueued
      BY <2>2 DEF HandleTrigger, HandleWaitExpired, StartCycle
    <3> QED
      BY <3>1, Zenon DEF FlushQueued
  <2>3. CASE \/ SkipTaken \/ IgnoreStaleTrigger \/ IgnoreStaleWaitExpired \/ HandleBackground
             \/ HandleCall \/ HandleStopRequested \/ IgnoreUnknownResult
    BY <2>3 DEF SkipTaken, IgnoreStaleTrigger, IgnoreStaleWaitExpired, HandleBackground,
                HandleCall, HandleStopRequested, IgnoreUnknownResult
  <2> QED
    BY <2>1, <2>2, <2>3 DEF Receive
<1>4. Head(mailbox).type # "message"
  BY DEF Receive, SkipTaken, IgnoreStaleTrigger, HandleTrigger, IgnoreStaleWaitExpired,
         HandleWaitExpired, IgnoreUnknownResult, HandleResult, HandleBackground, HandleCall,
         HandleStopRequested, Receives, ResultTypes, TaskReplies
<1>5. sent' = sent
  BY ReceiveViewed DEF ReceiveView
<1> QED
  BY <1>2, <1>3, <1>4, <1>5 DEF Recorded

\* The messages of the mailbox that are from other agents or the user.
LEMMA MessageSlots ==
    ASSUME TypeOK, NEW i \in DOMAIN mailbox, mailbox[i].type = "message"
    PROVE  mailbox[i] = Note("message", mailbox[i].id) /\ mailbox[i].id \in Messages
<1>1. mailbox[i] \in Envelopes
  BY DEF TypeOK
<1> QED
  BY <1>1 DEF Envelopes, Note, ResultTypes, TaskReplies

\* What is to be shown of the mailbox, in terms of the messages it has.
MessageOrder(box) ==
    \A i, j \in DOMAIN box :
        i < j /\ box[i].type = "message" /\ box[j].type = "message" => box[i].id < box[j].id

LEMMA EveryMessageOnceHas ==
    EveryMessageOnce <=>
        /\ Len(Recorded) <= sent
        /\ Recorded = [i \in 1..Len(Recorded) |-> i]
        /\ \A m \in Messages : Has(mailbox, Note("message", m)) <=> m \in (Len(Recorded) + 1)..sent
        /\ MessageOrder(mailbox)
  BY DEF EveryMessageOnce, MessageOrder, InMailbox, Has

\* Receiving keeps the order.
LEMMA ReceiveMessageOrder ==
    ASSUME TypeOK, TypeOK', MessageOrder(mailbox), Receive
    PROVE  MessageOrder(mailbox')
<1> SUFFICES ASSUME NEW i \in DOMAIN mailbox', NEW j \in DOMAIN mailbox', i < j,
                    mailbox'[i].type = "message", mailbox'[j].type = "message"
             PROVE  mailbox'[i].id < mailbox'[j].id
  BY DEF MessageOrder
<1>1. /\ i \in Nat /\ i + 1 \in DOMAIN mailbox /\ mailbox[i + 1] = mailbox'[i]
      /\ j \in Nat /\ j + 1 \in DOMAIN mailbox /\ mailbox[j + 1] = mailbox'[j]
  BY ReceiveShift DEF Silent
<1>2. i + 1 < j + 1
  BY <1>1
<1>3. mailbox[i + 1].id < mailbox[j + 1].id
  BY <1>1, <1>2 DEF MessageOrder
<1> QED
  BY <1>1, <1>3

\* So does delivering what is no message, or a message later than those there.
LEMMA DeliverMessageOrder ==
    ASSUME TypeOK, MessageOrder(mailbox), NEW n \in Envelopes, Deliver(n),
           n.type = "message" => \A i \in DOMAIN mailbox : mailbox[i].type = "message" => mailbox[i].id < n.id
    PROVE  MessageOrder(mailbox')
<1>1. mailbox \in Seq(Envelopes) /\ mailbox' = Append(mailbox, n)
  BY DEF TypeOK, Deliver
<1>2. \A i \in DOMAIN mailbox' : \/ i \in DOMAIN mailbox /\ mailbox'[i] = mailbox[i] /\ i < Len(mailbox) + 1
                                 \/ i = Len(mailbox) + 1 /\ mailbox'[i] = n
  BY <1>1
<1>3. Len(mailbox) \in Nat /\ \A i \in DOMAIN mailbox : i \in Nat
  BY <1>1
<1> QED
  BY <1>2, <1>3 DEF MessageOrder

\* The message received is the first that is not yet recorded.
LEMMA NextMessage ==
    ASSUME TypeOK, EveryMessageOnce, Receives("message")
    PROVE  Head(mailbox).id = Len(Recorded) + 1 /\ Head(mailbox).id <= sent
<1> DEFINE m == Head(mailbox).id
           n == Len(Recorded)
<1>1. /\ Head(mailbox) = Note("message", m) /\ 1 \in DOMAIN mailbox /\ mailbox[1] = Note("message", m)
      /\ Has(mailbox, Note("message", m)) /\ m \in Messages
  BY HeadIs, ReceivedTypes
<1>2. m \in (n + 1)..sent
  BY <1>1, EveryMessageOnceHas
<1>3. n \in Nat /\ sent \in 0..MaxMessages
  <2>1. Recorded \in Seq(Messages)
    BY RecordedSequences DEF TypeOK, Recorded
  <2> QED
    BY <2>1 DEF TypeOK
<1>4. Has(mailbox, Note("message", n + 1))
  BY <1>2, <1>3, EveryMessageOnceHas
<1>5. PICK j \in DOMAIN mailbox : mailbox[j] = Note("message", n + 1)
  BY <1>4 DEF Has
<1>6. j \in Nat \ {0}
  BY DEF TypeOK
<1>7. CASE j = 1
  BY <1>1, <1>2, <1>5, <1>7 DEF Note
<1>8. CASE j > 1
  <2>1. mailbox[1].id < mailbox[j].id
    BY <1>1, <1>5, <1>8, EveryMessageOnceHas DEF MessageOrder, Note
  <2>2. mailbox[1].id = m /\ mailbox[j].id = n + 1
    BY <1>1, <1>5 DEF Note
  <2> HIDE DEF m, n
  <2> QED
    BY <1>2, <1>3, <2>1, <2>2
<1> QED
  BY <1>6, <1>7, <1>8

\* Handling it, directly or by queueing it, records it next.
LEMMA HandleMessageRecords ==
    ASSUME TypeOK, TypeOK', QueueIsGuarded, EveryMessageOnce, HandleAgentMessage
    PROVE  EveryMessageOnce'
<1> DEFINE m == Head(mailbox).id
           n == Len(Recorded)
<1>0. /\ Receives("message") /\ Receive /\ sent' = sent
      /\ history \in Seq(Messages) /\ queued \in Seq(Messages)
  BY DEF HandleAgentMessage, Receive, TypeOK
<1>1. m = n + 1 /\ m <= sent /\ m \in Messages
  BY <1>0, NextMessage, ReceivedTypes
<1>2. Recorded \in Seq(Messages) /\ n \in Nat /\ sent \in Nat
  <2>1. Recorded \in Seq(Messages)
    BY <1>0, RecordedSequences DEF Recorded
  <2> QED
    BY <2>1 DEF TypeOK
<1>3. Recorded' = Append(Recorded, m)
  <2>1. CASE MustQueue /\ history' = history /\ queued' = Append(queued, m)
    BY <1>0, <1>1, <2>1, RecordedSequences DEF Recorded
  <2>2. CASE ~MustQueue /\ history' = Append(history, m) /\ queued' = queued
    <3>1. queued = <<>>
      BY <2>2 DEF QueueIsGuarded, MustQueue
    <3>2. Append(history, m) \o <<>> = Append(history \o <<>>, m)
      BY <1>0, <1>1, RecordedSequences
    <3> QED
      BY <2>2, <3>1, <3>2 DEF Recorded
  <2> QED
    BY <2>1, <2>2 DEF HandleAgentMessage
<1>4. Len(Recorded') = n + 1 /\ Recorded' = [i \in 1..(n + 1) |-> i]
  <2>1. Recorded = [i \in 1..n |-> i]
    BY EveryMessageOnceHas
  <2> HIDE DEF n, m
  <2>2. /\ Append(Recorded, m) \in Seq(Messages) /\ Len(Append(Recorded, m)) = n + 1
        /\ \A i \in 1..n : Append(Recorded, m)[i] = i
        /\ Append(Recorded, m)[n + 1] = n + 1
    BY <1>1, <1>2, <2>1, AppendProperties DEF n
  <2> DEFINE t == Append(Recorded, m)
  <2>3. t = [i \in 1..(n + 1) |-> i]
    <3>1. \A i \in 1..(n + 1) : t[i] = i
      BY <1>2, <2>2
    <3>2. t \in Seq(Messages) /\ Len(t) = n + 1
      BY <2>2
    <3> HIDE DEF t
    <3>3. t = [i \in 1..(n + 1) |-> t[i]]
      BY <3>2
    <3> QED
      BY <3>1, <3>3
  <2> QED
    BY <1>3, <2>2, <2>3
<1>5. ASSUME NEW k \in Messages
      PROVE  Has(mailbox', Note("message", k)) <=> Has(mailbox, Note("message", k)) /\ k # m
  <2>1. Head(mailbox) = Note("message", m) /\ 1 \in DOMAIN mailbox /\ mailbox[1] = Note("message", m)
    BY <1>0, HeadIs
  <2>2. Note("message", k) # Taken /\ Note("message", k) # Trigger(0)
        /\ Note("message", k).type \notin Silent /\ Note("message", k).type # "trigger"
    BY DEF Note, Taken, Trigger, Silent
  <2>3. /\ Has(mailbox', Note("message", k)) => Has(mailbox, Note("message", k))
        /\ Has(mailbox, Note("message", k)) => Has(mailbox', Note("message", k)) \/ Note("message", k) = Head(mailbox)
    BY <1>0, <2>2, ReceiveMailbox
  <2>4. k # m => Note("message", k) # Head(mailbox)
    BY <2>1 DEF Note
  <2>5. k = m => ~Has(mailbox', Note("message", k))
    <3> SUFFICES ASSUME k = m, NEW i \in DOMAIN mailbox', mailbox'[i] = Note("message", m) PROVE FALSE
      BY DEF Has
    <3>1. i \in Nat /\ i + 1 \in DOMAIN mailbox /\ mailbox[i + 1] = Note("message", m)
      BY <1>0, <2>2, ReceiveShift
    <3>2. i \in Nat \ {0}
      <4>1. mailbox' \in Seq(Envelopes)
        BY DEF TypeOK
      <4> QED
        BY <4>1
    <3>3. mailbox[1].type = "message" /\ mailbox[i + 1].type = "message" /\ mailbox[1].id = m /\ mailbox[i + 1].id = m
      BY <2>1, <3>1 DEF Note
    <3>4. mailbox[1].id < mailbox[i + 1].id
      BY <2>1, <3>1, <3>2, <3>3, EveryMessageOnceHas DEF MessageOrder
    <3> HIDE DEF m, n
    <3> QED
      BY <1>1, <1>2, <3>3, <3>4
  <2> QED
    BY <2>3, <2>4, <2>5
<1>6. MessageOrder(mailbox')
  BY <1>0, EveryMessageOnceHas, ReceiveMessageOrder
<1> HIDE DEF m, n
<1>7. \A k \in Messages : Has(mailbox', Note("message", k)) <=> k \in (n + 2)..sent
  <2> SUFFICES ASSUME NEW k \in Messages
               PROVE  Has(mailbox', Note("message", k)) <=> k \in (n + 2)..sent
    OBVIOUS
  <2>1. Has(mailbox, Note("message", k)) <=> k \in (n + 1)..sent
    BY EveryMessageOnceHas DEF n
  <2> QED
    BY <1>1, <1>2, <1>5, <2>1
<1> QED
  BY <1>0, <1>1, <1>2, <1>4, <1>6, <1>7 DEF EveryMessageOnce, MessageOrder, InMailbox, Has

\* A step that records nothing and sends nothing.
LEMMA NoMessageMoved ==
    ASSUME EveryMessageOnce, Recorded' = Recorded, sent' = sent, MessageOrder(mailbox'),
           \A m \in Messages : Has(mailbox', Note("message", m)) <=> Has(mailbox, Note("message", m))
    PROVE  EveryMessageOnce'
<1>1. \A m \in Messages : Has(mailbox', Note("message", m)) <=> m \in (Len(Recorded) + 1)..sent
  BY EveryMessageOnceHas
<1>2. Len(Recorded') <= sent' /\ Recorded' = [i \in 1..Len(Recorded') |-> i]
  BY EveryMessageOnceHas
<1> QED
  BY <1>1, <1>2 DEF EveryMessageOnce, MessageOrder, InMailbox, Has

LEMMA MessagesPreserved ==
    ASSUME TypeOK, TypeOK', QueueIsGuarded, EveryMessageOnce, [Next]_vars
    PROVE  EveryMessageOnce'
<1>0. MessageOrder(mailbox)
  BY EveryMessageOnceHas
<1>1. CASE Receive
  <2>1. CASE HandleAgentMessage
    BY <2>1, HandleMessageRecords
  <2>2. CASE ~HandleAgentMessage
    <3>1. Recorded' = Recorded /\ Head(mailbox).type # "message" /\ sent' = sent
      BY <1>1, <2>2, RecordedKept
    <3>2. MessageOrder(mailbox')
      BY <1>0, <1>1, ReceiveMessageOrder
    <3>3. ASSUME NEW m \in Messages
          PROVE  Has(mailbox', Note("message", m)) <=> Has(mailbox, Note("message", m))
      <4>1. Note("message", m) # Taken /\ Note("message", m) # Trigger(0)
            /\ Note("message", m).type # "trigger" /\ Note("message", m) # Head(mailbox)
        BY <3>1 DEF Note, Taken, Trigger
      <4> QED
        BY <1>1, <4>1, ReceiveMailbox
    <3> QED
      BY <3>1, <3>2, <3>3, NoMessageMoved
  <2> QED
    BY <2>1, <2>2
<1>2. ASSUME UNCHANGED <<history, queued, sent>>,
             mailbox' = mailbox \/ \E n \in Envelopes : Deliver(n) /\ n.type # "message"
      PROVE  EveryMessageOnce'
  <2>1. Recorded' = Recorded /\ sent' = sent
    BY <1>2 DEF Recorded
  <2>2. CASE mailbox' = mailbox
    <3>1. MessageOrder(mailbox')
      BY <1>0, <2>2 DEF MessageOrder
    <3> QED
      BY <2>1, <2>2, <3>1, NoMessageMoved
  <2>3. ASSUME NEW n \in Envelopes, Deliver(n), n.type # "message" PROVE EveryMessageOnce'
    <3>1. MessageOrder(mailbox')
      BY <1>0, <2>3, DeliverMessageOrder
    <3>2. ASSUME NEW m \in Messages
          PROVE  Has(mailbox', Note("message", m)) <=> Has(mailbox, Note("message", m))
      <4>1. Note("message", m) # n
        BY <2>3 DEF Note
      <4> QED
        BY <2>3, <4>1, DeliverMailbox
    <3> QED
      BY <2>1, <3>1, <3>2, NoMessageMoved
  <2> QED
    BY <1>2, <2>2, <2>3
<1>3. CASE Decide
  <2>1. UNCHANGED <<history, queued, sent, mailbox>>
    BY <1>3 DEF Decide
  <2> QED
    BY <1>2, <2>1
<1>4. ASSUME NEW a \in Actions, ProcessMove(a) PROVE EveryMessageOnce'
  <2>1. UNCHANGED <<history, queued, sent>>
    BY <1>4 DEF ProcessMove
  <2>2. mailbox' = mailbox \/ \E type \in ResultTypes \cup {"call", "wait_expired", "batch_completed", "spawn_failed"} :
                                 Deliver(Note(type, a))
    BY <1>4 DEF ProcessMove, ReplyReady, ReplyCast, RouterSends, Reports, ResultTypes
  <2>3. \A type \in ResultTypes \cup {"call", "wait_expired", "batch_completed", "spawn_failed"} :
           Note(type, a) \in Envelopes /\ Note(type, a).type # "message"
    BY EnvelopeTypes DEF ResultTypes, TaskReplies, Note
  <2> QED
    BY <1>2, <2>1, <2>2, <2>3
<1>5. CASE SendMessage
  <2>1. /\ sent \in Nat /\ sent < MaxMessages /\ sent' = sent + 1 /\ sent' \in Messages
        /\ Deliver(Note("message", sent')) /\ Recorded' = Recorded
    BY <1>5 DEF SendMessage, TypeOK, Message, Note, Recorded
  <2>2. Note("message", sent') \in Envelopes /\ Note("message", sent').type = "message"
        /\ Note("message", sent').id = sent + 1
    BY <2>1, EnvelopeTypes DEF Note, Message
  <2>3. Len(Recorded) <= sent /\ Len(Recorded) \in Nat
    <3>1. Recorded \in Seq(Messages)
      BY RecordedSequences DEF Recorded, TypeOK
    <3> QED
      BY <3>1, EveryMessageOnceHas
  <2>4. MessageOrder(mailbox')
    <3>1. ASSUME NEW i \in DOMAIN mailbox, mailbox[i].type = "message" PROVE mailbox[i].id < sent + 1
      <4>1. mailbox[i] = Note("message", mailbox[i].id) /\ mailbox[i].id \in Messages
        BY <3>1, MessageSlots
      <4>2. Has(mailbox, Note("message", mailbox[i].id))
        BY <4>1 DEF Has
      <4>3. mailbox[i].id \in (Len(Recorded) + 1)..sent
        BY <4>1, <4>2, EveryMessageOnceHas
      <4> QED
        BY <2>1, <2>3, <4>3
    <3> QED
      BY <1>0, <2>1, <2>2, <3>1, DeliverMessageOrder
  <2>5. \A m \in Messages : Has(mailbox', Note("message", m)) <=> m \in (Len(Recorded) + 1)..(sent + 1)
    <3> SUFFICES ASSUME NEW m \in Messages
                 PROVE  Has(mailbox', Note("message", m)) <=> m \in (Len(Recorded) + 1)..(sent + 1)
      OBVIOUS
    <3>1. Has(mailbox, Note("message", m)) <=> m \in (Len(Recorded) + 1)..sent
      BY EveryMessageOnceHas
    <3>2. Has(mailbox', Note("message", m)) <=> Has(mailbox, Note("message", m)) \/ Note("message", m) = Note("message", sent')
      BY <2>1, <2>2, DeliverMailbox
    <3>3. Note("message", m) = Note("message", sent') <=> m = sent + 1
      BY <2>1 DEF Note
    <3> QED
      BY <2>1, <2>3, <3>1, <3>2, <3>3
  <2>6. Recorded' = [i \in 1..Len(Recorded') |-> i] /\ Len(Recorded') <= sent'
    BY <2>1, <2>3, EveryMessageOnceHas
  <2> QED
    BY <2>1, <2>4, <2>5, <2>6 DEF EveryMessageOnce, MessageOrder, InMailbox, Has
<1>6. CASE OtherMove /\ (HandleRouterDown \/ RetryConsensus \/ ExhaustRetries \/ FailFatally
                         \/ AgentTimerFires \/ SendMessage \/ Stop \/ RequestStop \/ UNCHANGED vars)
  <2>1. CASE ~SendMessage
    <3>1. UNCHANGED <<history, queued, sent>>
      BY <1>6, <2>1 DEF HandleRouterDown, RetryConsensus, ExhaustRetries, FailsRetryably, FailFatally,
                        AgentTimerFires, Stop, StopRouter, FinishStop, RequestStop, vars
    <3>2. mailbox' = mailbox \/ \E n \in {Trigger(0), Trigger(waitTimer), Note("stop_requested", 0)} : Deliver(n)
      BY <1>6, <2>1 DEF HandleRouterDown, RetryConsensus, ExhaustRetries, FailsRetryably, FailFatally,
                        AgentTimerFires, Stop, StopRouter, FinishStop, RequestStop, vars, Deliver
    <3>3. \A n \in {Trigger(0), Trigger(waitTimer), Note("stop_requested", 0)} : n \in Envelopes /\ n.type # "message"
      <4>1. waitTimer \in 0..MaxActions /\ 0 \in 0..MaxActions
        BY DEF TypeOK
      <4>2. Trigger(0) \in Envelopes /\ Trigger(waitTimer) \in Envelopes /\ Note("stop_requested", 0) \in Envelopes
        BY <4>1, EnvelopeTypes
      <4> QED
        BY <4>2 DEF Trigger, Note
    <3> QED
      BY <1>2, <3>1, <3>2, <3>3
  <2> QED
    BY <1>5, <2>1
<1> QED
  BY <1>1, <1>3, <1>4, <1>6, StepCases

\* Every message sent is recorded once and in the order sent: the queue's two
\* flushes and the direct way never overtake each other.
THEOREM MessagesRecordedOnce == Spec => []EveryMessageOnce
<1>1. Init => EveryMessageOnce
  <2> SUFFICES ASSUME Init PROVE EveryMessageOnce
    OBVIOUS
  <2>1. Recorded = <<>> /\ Len(Recorded) = 0 /\ mailbox = <<>> /\ sent = 0
    BY DEF Init, Recorded
  <2>2. Recorded = [i \in 1..Len(Recorded) |-> i]
    BY <2>1
  <2> QED
    BY <2>1, <2>2 DEF EveryMessageOnce, InMailbox
<1>2. TypeOK /\ TypeOK' /\ QueueIsGuarded /\ EveryMessageOnce /\ [Next]_vars => EveryMessageOnce'
  BY MessagesPreserved
<1> QED
  BY <1>1, <1>2, TypeCorrect, QueueGuarded, PTL DEF Spec

=============================================================================
