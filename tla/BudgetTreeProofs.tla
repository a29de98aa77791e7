--------------------------- MODULE BudgetTreeProofs ---------------------------
(***************************************************************************)
(* Theorems about BudgetTree, for every value of its constants: the types  *)
(* of the ledger of agents, actions and messages and of the costs, how     *)
(* budgets are inherited, that absorbing costs conserves them, and that    *)
(* what an agent commits to its children stays within its own allocation.  *)
(* The last rests on what becomes of an action's messages on their way     *)
(* through the mailboxes, and on one open action at a time for each agent. *)
(***************************************************************************)
EXTENDS BudgetTree, SetSums, SequenceTheorems, TLAPS

USE ParametersAssumption DEF ParametersAssumption

-----------------------------------------------------------------------------
(* The inductive invariants *)

IsSeq(s) == \E S : s \in Seq(S)

\* An action taken names agents, a child other than the root, and amounts
OpFacts(o) ==
    /\ o.kind \in Kinds
    /\ o.by \in Agents /\ o.child \in Agents \ {Root}
    /\ o.amount \in Amounts \cup {NA}
    /\ o.kind = "adjust" => o.amount \in Amounts
    /\ o.snap.budget \in Budgets

OpsTyped == IsSeq(op) /\ \A i \in DOMAIN op : OpFacts(op[i])

TypeInv == LedgerTypeOK /\ OpsTyped

Early == {"none", "dispatched", "rejected", "starting"}

\* Ids are used once
SpawnsAreOnce ==
    \A i, j \in DOMAIN op :
        op[i].kind = "spawn" /\ op[j].kind = "spawn" /\ op[i].child = op[j].child => i = j

Started(c) == c = Root \/ \E i \in OpsOn("spawn", c) : stage[i] \notin Early

\* Nobody lives or acts before its start
StartedFirst ==
    /\ \A c \in alive : Started(c)
    /\ \A i \in DOMAIN op : Started(op[i].by)

\* The mode in a snapshot is never stale
SnapshotModes ==
    \A i \in DOMAIN op :
        op[i].by \in alive => budget[op[i].by].mode = op[i].snap.budget.mode

\* A spawn that names no budget gets past its check only without one above it
SpawnsChecked ==
    \A i \in DOMAIN op :
        /\ op[i].kind = "spawn" /\ op[i].amount = NA
        /\ stage[i] \notin {"none", "dispatched", "rejected"}
        => op[i].snap.budget.mode = "na"

\* A child started with an allocation always has one
AllocationStays ==
    \A c \in alive : \A i \in OpsOn("spawn", c) :
        op[i].amount # NA => budget[c].mode = "allocated" /\ budget[c].allocated # NA

EditKeepsMode == \A e \in edit : e.mode = budget[Root].mode

InheritInv ==
    /\ SpawnsAreOnce /\ StartedFirst /\ SnapshotModes
    /\ SpawnsChecked /\ AllocationStays /\ EditKeepsMode

-----------------------------------------------------------------------------
(* Sequences and mailboxes *)

\* Appending adds one element at the end and moves nothing.
LEMMA AppendElements ==
    ASSUME NEW S, NEW s \in Seq(S), NEW e
    PROVE  /\ Append(s, e) \in Seq(S \cup {e})
           /\ Len(Append(s, e)) = Len(s) + 1
           /\ DOMAIN Append(s, e) = DOMAIN s \cup {Len(s) + 1}
           /\ \A i \in DOMAIN s : Append(s, e)[i] = s[i]
           /\ Append(s, e)[Len(s) + 1] = e
<1>1. s \in Seq(S \cup {e}) /\ e \in S \cup {e}
  OBVIOUS
<1> QED
  BY <1>1

\* Concatenating a pair adds its two elements at the end and moves nothing.
LEMMA PairElements ==
    ASSUME NEW S, NEW s \in Seq(S), NEW e \in S, NEW f \in S
    PROVE  /\ s \o <<e, f>> \in Seq(S)
           /\ Len(s \o <<e, f>>) = Len(s) + 2
           /\ \A i \in 1..Len(s) : (s \o <<e, f>>)[i] = s[i]
           /\ (s \o <<e, f>>)[Len(s) + 1] = e
           /\ (s \o <<e, f>>)[Len(s) + 2] = f
<1>1. <<e, f>> \in Seq(S) /\ Len(<<e, f>>) = 2
  OBVIOUS
<1> QED
  BY <1>1, ConcatProperties

\* The tail of a sequence over S, and its head, are over S.
LEMMA TailType ==
    ASSUME NEW S, NEW s \in Seq(S), s # <<>>
    PROVE  Tail(s) \in Seq(S) /\ Head(s) \in S
  OBVIOUS

\* Posting a message keeps the type of the mailboxes.
LEMMA PostType ==
    ASSUME NEW box \in [Agents -> Seq(Messages)], NEW a \in Agents, NEW m \in Messages
    PROVE  Post(box, a, m) \in [Agents -> Seq(Messages)]
<1>1. box[a] \in Seq(Messages)
  OBVIOUS
<1>2. Append(box[a], m) \in Seq(Messages)
  BY <1>1
<1> QED
  BY <1>2 DEF Post

\* Handling a message keeps the type of the mailboxes; the message names an
\* action of a kind it may be about.
LEMMA ReceivedType ==
    ASSUME LedgerTypeOK, NEW a \in Agents, NEW type, Receives(a, type)
    PROVE  /\ Handled(a) \in [Agents -> Seq(Messages)]
           /\ Head(mailbox[a]) \in Messages
           /\ type # "update_budget_data" =>
                 /\ Head(mailbox[a]).id \in DOMAIN op
                 /\ op[Head(mailbox[a]).id].kind \in About(type)
<1>1. mailbox[a] \in Seq(Messages) /\ mailbox[a] # <<>> /\ Head(mailbox[a]).type = type
  BY DEF LedgerTypeOK, Receives
<1>2. Tail(mailbox[a]) \in Seq(Messages) /\ Head(mailbox[a]) \in Messages
  BY <1>1, TailType
<1>3. Handled(a) \in [Agents -> Seq(Messages)]
  BY <1>2 DEF Handled, LedgerTypeOK
<1>4. ASSUME NEW m \in Messages, m.type # "update_budget_data"
      PROVE  m.id \in DOMAIN op /\ op[m.id].kind \in About(m.type)
  BY <1>4 DEF Messages
<1>5. type # "update_budget_data" =>
          Head(mailbox[a]).id \in DOMAIN op /\ op[Head(mailbox[a]).id].kind \in About(type)
  BY <1>1, <1>2, <1>4
<1> QED
  BY <1>2, <1>3, <1>5

\* A message about an action of the right kind is a message.
LEMMA MsgType ==
    ASSUME NEW i \in DOMAIN op, NEW type,
           \/ type = "result" /\ op[i].kind \in Kinds
           \/ type \in {"child_spawned", "spawn_failed"} /\ op[i].kind = "spawn"
           \/ type \in {"adjust", "set_allocated"} /\ op[i].kind = "adjust"
           \/ type \in {"get_state", "release", "child_dismissed"} /\ op[i].kind = "dismiss"
    PROVE  Msg(type, i) \in Messages
<1>1. op[i].kind \in About(type)
  BY DEF About
<1>2. type \in {"result", "child_spawned", "spawn_failed", "adjust", "set_allocated",
                "get_state", "release", "child_dismissed"}
  OBVIOUS
<1> QED
  BY <1>1, <1>2 DEF Messages, Msg

\* While no action is taken, the messages are what they were.
LEMMA SameOps ==
    ASSUME op' = op
    PROVE  /\ Messages' = Messages
           /\ OpsTyped => OpsTyped'
  BY DEF Messages, OpsTyped, IsSeq, OpFacts

\* Taking actions only adds messages.
LEMMA MoreOps ==
    ASSUME \A i \in DOMAIN op : i \in DOMAIN op' /\ op'[i] = op[i]
    PROVE  \A s \in Seq(Messages) : s \in Seq(Messages')
<1>1. Messages \subseteq Messages'
  BY DEF Messages
<1> QED
  BY <1>1

-----------------------------------------------------------------------------
(* Budgets *)

\* Every operation of the ledger yields a budget and keeps its mode, and all but
\* the creation of one keep the allocation.
LEMMA BudgetOperations ==
    /\ NewRoot \in Budgets
    /\ \A m \in Amounts \cup {NA} : NewChild(m) \in Budgets
    /\ \A b \in Budgets : \A n \in Nat :
          /\ AddCommitted(b, n) \in Budgets
          /\ AddCommitted(b, n).mode = b.mode
          /\ AddCommitted(b, n).allocated = b.allocated
    /\ \A b \in Budgets : \A n \in Nat \cup {NA} :
          /\ ReleaseCommitted(b, n) \in Budgets
          /\ ReleaseCommitted(b, n).mode = b.mode
          /\ ReleaseCommitted(b, n).allocated = b.allocated
<1>1. NewRoot \in Budgets
  BY DEF NewRoot, Budgets, Modes, NA
<1>2. ASSUME NEW m \in Amounts \cup {NA} PROVE NewChild(m) \in Budgets
  BY DEF NewChild, Budgets, Modes, NA
<1>3. ASSUME NEW b \in Budgets, NEW n \in Nat
      PROVE  /\ AddCommitted(b, n) \in Budgets
             /\ AddCommitted(b, n).mode = b.mode
             /\ AddCommitted(b, n).allocated = b.allocated
  BY DEF AddCommitted, Budgets
<1>4. ASSUME NEW b \in Budgets, NEW n \in Nat \cup {NA}
      PROVE  /\ ReleaseCommitted(b, n) \in Budgets
             /\ ReleaseCommitted(b, n).mode = b.mode
             /\ ReleaseCommitted(b, n).allocated = b.allocated
<2>1. (IF b.committed < n THEN 0 ELSE b.committed - n) \in Nat
  BY DEF Budgets, NA
<2> QED
  BY <2>1 DEF ReleaseCommitted, Budgets
<1> QED
  BY <1>1, <1>2, <1>3, <1>4

\* Committing and adjusting, too.
LEMMA EscrowOperations ==
    ASSUME NEW b \in Budgets
    PROVE  /\ \A m \in Amounts \cup {NA} :
                 /\ CommitAmount(b, m) \in Budgets
                 /\ CommitAmount(b, m).mode = b.mode
                 /\ CommitAmount(b, m).allocated = b.allocated
           /\ \A current \in Nat, new \in Nat :
                 /\ AdjustEscrow(b, current, new) \in Budgets
                 /\ AdjustEscrow(b, current, new).mode = b.mode
                 /\ AdjustEscrow(b, current, new).allocated = b.allocated
<1>1. ASSUME NEW m \in Amounts \cup {NA}
      PROVE  /\ CommitAmount(b, m) \in Budgets
             /\ CommitAmount(b, m).mode = b.mode
             /\ CommitAmount(b, m).allocated = b.allocated
  BY BudgetOperations DEF CommitAmount
<1>2. ASSUME NEW current \in Nat, NEW new \in Nat
      PROVE  /\ AdjustEscrow(b, current, new) \in Budgets
             /\ AdjustEscrow(b, current, new).mode = b.mode
             /\ AdjustEscrow(b, current, new).allocated = b.allocated
<2>1. new >= current => new - current \in Nat
  OBVIOUS
<2>2. ~(new >= current) => current - new \in Nat
  OBVIOUS
<2> QED
  BY <2>1, <2>2, BudgetOperations DEF AdjustEscrow
<1> QED
  BY <1>1, <1>2

\* Replacing a budget, or the allocation in it, keeps the type of the ledger.
LEMMA SetAllocation ==
    ASSUME NEW b \in Budgets, NEW m \in Amounts
    PROVE  /\ [b EXCEPT !.allocated = m] \in Budgets
           /\ [b EXCEPT !.allocated = m].mode = b.mode
           /\ [b EXCEPT !.allocated = m].allocated = m
           /\ m # NA
  BY DEF Budgets, NA

-----------------------------------------------------------------------------
(* Type correctness *)

USE DEF treeVars, ledgerVars, opVars, workVars, costVars, editVars

\* A step that takes no action and types what it changes keeps the invariant.
LEMMA Retyped ==
    ASSUME TypeInv, op' = op,
           alive' \subseteq Agents, budget' \in [Agents -> Budgets],
           listed' \subseteq Agents \ {Root}, known' \in [Agents -> Nat \cup {NA}],
           stage' \in [Ops -> Stages], reply' \in [Ops -> Replies],
           busy' \in [Agents -> {0} \cup DOMAIN op],
           mailbox' \in [Agents -> Seq(Messages)],
           seen' \in [Ops -> Budgets], edit' \subseteq Budgets
    PROVE  TypeInv'
  BY SameOps DEF TypeInv, LedgerTypeOK

\* An action that was taken has an id, and names what OpFacts says.
LEMMA TakenOps ==
    ASSUME TypeInv, NEW i \in DOMAIN op
    PROVE  /\ i \in Ops /\ OpFacts(op[i])
           /\ \A to \in Stages : [stage EXCEPT ![i] = to] \in [Ops -> Stages]
           /\ \A to \in Replies : [reply EXCEPT ![i] = to] \in [Ops -> Replies]
<1>1. DOMAIN op = 1..Len(op) /\ Len(op) \in Nat
  BY DEF TypeInv, OpsTyped, IsSeq
<1>2. i \in Ops
  BY <1>1 DEF TypeInv, LedgerTypeOK, Ops
<1> QED
  BY <1>2 DEF TypeInv, LedgerTypeOK, OpsTyped

\* Moving an action on and answering it keep their types.
LEMMA MovedOps ==
    ASSUME TypeInv, NEW i \in DOMAIN op
    PROVE  /\ \A to \in Stages : Goes(i, to) => stage' \in [Ops -> Stages]
           /\ Replied(i) => reply' \in [Ops -> Replies]
<1>1. ASSUME Replied(i) PROVE reply' \in [Ops -> Replies]
  BY <1>1, TakenOps DEF Replied, Replies, TypeInv, LedgerTypeOK
<1> QED
  BY <1>1, TakenOps DEF Goes

\* The options of an agent name a child and an amount the kind calls for.
LEMMA OptionTypes ==
    ASSUME TypeInv, NEW a \in Agents, NEW choice \in Options(a), NEW batched
    PROVE  /\ OpFacts(NewOp(a, choice, batched))
           /\ NewOp(a, choice, batched).by = a
           /\ NewOp(a, choice, batched).kind = choice.kind
           /\ NewOp(a, choice, batched).child = choice.child
           /\ NewOp(a, choice, batched).snap.budget = budget[a]
           /\ choice.kind = "spawn" => ~IsSpawned(choice.child)
<1>1. \A c \in ChildrenOf(a) : c \in Agents \ {Root}
<2>1. ASSUME NEW c \in Agents, OpsOn("spawn", c) # {} PROVE c # Root
  BY <2>1 DEF OpsOn, TypeInv, OpsTyped, OpFacts
<2> QED
  BY <2>1 DEF ChildrenOf, IsSpawned
<1>2. budget[a] \in Budgets
  BY DEF TypeInv, LedgerTypeOK
<1>3. \/ \E c \in {x \in Agents \ {Root} : ~IsSpawned(x)}, m \in Amounts \cup {NA} :
             choice = [kind |-> "spawn", child |-> c, amount |-> m]
      \/ \E c \in ChildrenOf(a), m \in Amounts :
             choice = [kind |-> "adjust", child |-> c, amount |-> m]
      \/ \E c \in ChildrenOf(a) : choice = [kind |-> "dismiss", child |-> c, amount |-> NA]
  BY DEF Options
<1>4. /\ choice.kind \in Kinds /\ choice.child \in Agents \ {Root}
      /\ choice.amount \in Amounts \cup {NA}
      /\ choice.kind = "adjust" => choice.amount \in Amounts
      /\ choice.kind = "spawn" => ~IsSpawned(choice.child)
  BY <1>1, <1>3 DEF Kinds
<1> QED
  BY <1>2, <1>4 DEF NewOp, Snapshot, OpFacts

\* Taking one action, or two at once, adds them at the end.
LEMMA TakenAtTheEnd ==
    ASSUME TypeInv, NEW first, NEW second,
           \/ op' = Append(op, first)
           \/ op' = op \o <<first>>
           \/ op' = op \o <<first, second>>
    PROVE  /\ IsSeq(op') /\ Len(op') \in Nat /\ DOMAIN op' = 1..Len(op')
           /\ DOMAIN op = 1..Len(op) /\ Len(op) \in Nat
           /\ \A i \in DOMAIN op : i \in DOMAIN op' /\ op'[i] = op[i]
           /\ \A i \in DOMAIN op' \ DOMAIN op :
                 op'[i] = IF i = Len(op) + 1 THEN first ELSE second
           /\ op' \in {Append(op, first), op \o <<first>>} =>
                 DOMAIN op' \ DOMAIN op = {Len(op) + 1}
           /\ DOMAIN op' \ DOMAIN op \subseteq {Len(op) + 1, Len(op) + 2}
<1>1. PICK S : op \in Seq(S)
  BY DEF TypeInv, OpsTyped, IsSeq
<1>2. op \in Seq(S \cup {first, second})
  BY <1>1
<1>3. first \in S \cup {first, second} /\ second \in S \cup {first, second}
  OBVIOUS
<1>4. ASSUME \/ op' = Append(op, first)
             \/ op' = op \o <<first>>
      PROVE  /\ op' \in Seq(S \cup {first, second}) /\ Len(op') = Len(op) + 1
             /\ \A i \in 1..Len(op) : op'[i] = op[i]
             /\ op'[Len(op) + 1] = first
<2>1. op' = Append(op, first)
  BY <1>2, <1>3, <1>4
<2> QED
  BY <1>2, <1>3, <2>1
<1>5. ASSUME op' = op \o <<first, second>>
      PROVE  /\ op' \in Seq(S \cup {first, second}) /\ Len(op') = Len(op) + 2
             /\ \A i \in 1..Len(op) : op'[i] = op[i]
             /\ op'[Len(op) + 1] = first /\ op'[Len(op) + 2] = second
  BY <1>2, <1>3, <1>5, PairElements
<1>6. op' \in Seq(S \cup {first, second})
  BY <1>4, <1>5
<1>7. IsSeq(op')
  BY <1>6 DEF IsSeq
<1>8. Len(op) \in Nat /\ DOMAIN op = 1..Len(op) /\ Len(op') \in Nat /\ DOMAIN op' = 1..Len(op')
  BY <1>2, <1>6
<1>9. CASE op' \in {Append(op, first), op \o <<first>>}
<2>1. Len(op') = Len(op) + 1 /\ op'[Len(op) + 1] = first /\ \A i \in 1..Len(op) : op'[i] = op[i]
  BY <1>4, <1>9
<2>2. DOMAIN op' \ DOMAIN op = {Len(op) + 1}
  BY <1>8, <2>1
<2> QED
  BY <1>7, <1>8, <2>1, <2>2
<1>10. CASE op' = op \o <<first, second>>
  BY <1>2, <1>5, <1>7, <1>8, <1>10
<1> QED
  BY <1>9, <1>10

\* The initial state has its types.
LEMMA InitTypes == Init => TypeInv
<1> SUFFICES ASSUME Init PROVE TypeInv
  OBVIOUS
<1>1. op \in Seq({}) /\ Len(op) = 0 /\ DOMAIN op = {}
  BY DEF Init
<1>2. budget \in [Agents -> Budgets] /\ seen \in [Ops -> Budgets]
<2>1. NewRoot \in Budgets /\ NewChild(NA) \in Budgets
  BY BudgetOperations
<2> QED
  BY <2>1 DEF Init
<1>3. mailbox \in [Agents -> Seq(Messages)]
  BY DEF Init
<1>4. OpsTyped
  BY <1>1 DEF OpsTyped, IsSeq
<1>5. stage \in [Ops -> Stages] /\ reply \in [Ops -> Replies]
  BY DEF Init, Stages, Replies
<1> QED
  BY <1>1, <1>2, <1>3, <1>4, <1>5 DEF Init, TypeInv, LedgerTypeOK

\* Taking actions keeps the types: the new ones are what OptionTypes says, and
\* what was typed by the old ones still is.
LEMMA TakingTypes ==
    ASSUME TypeInv, NEW a \in Agents, TakeAction(a) \/ TakeBatch(a)
    PROVE  TypeInv'
<1>1. PICK first \in Options(a), second \in Options(a), batched \in BOOLEAN :
          \/ op' = Append(op, NewOp(a, first, batched))
          \/ op' = op \o <<NewOp(a, first, batched)>>
          \/ op' = op \o <<NewOp(a, first, batched), NewOp(a, second, batched)>>
<2>1. CASE TakeAction(a)
  BY <2>1 DEF TakeAction
<2>2. CASE TakeBatch(a)
  BY <2>2 DEF TakeBatch
<2> QED
  BY <2>1, <2>2
<1> DEFINE x == NewOp(a, first, batched)
           y == NewOp(a, second, batched)
<1>2. /\ IsSeq(op') /\ Len(op') \in Nat /\ DOMAIN op' = 1..Len(op')
      /\ \A i \in DOMAIN op : i \in DOMAIN op' /\ op'[i] = op[i]
      /\ \A i \in DOMAIN op' \ DOMAIN op : op'[i] \in {x, y}
  <2> HIDE DEF x, y
  <2> QED
    BY <1>1, TakenAtTheEnd DEF x, y
<1>3. OpFacts(x) /\ OpFacts(y)
  BY OptionTypes
<1>4. OpsTyped'
<2>1. ASSUME NEW i \in DOMAIN op' PROVE OpFacts(op'[i])
  BY <1>2, <1>3 DEF TypeInv, OpsTyped
<2> QED
  BY <1>2, <2>1 DEF OpsTyped, OpFacts, IsSeq
<1>5. mailbox' \in [Agents -> Seq(Messages')]
<2>1. mailbox' = mailbox /\ mailbox \in [Agents -> Seq(Messages)]
  BY DEF TakeAction, TakeBatch, TypeInv, LedgerTypeOK
<2>2. \A b \in Agents : mailbox[b] \in Seq(Messages')
  BY <1>2, <2>1, MoreOps
<2> QED
  BY <2>1, <2>2
<1>6. Len(op') <= MaxOps
  BY DEF TakeAction, TakeBatch, FitsOps
<1>7. busy' \in [Agents -> {0} \cup DOMAIN op']
<2>1. CASE TakeAction(a)
<3>1. Len(op) + 1 \in DOMAIN op'
  BY <2>1, TakenAtTheEnd DEF TakeAction
<3> QED
  BY <1>2, <2>1, <3>1 DEF TakeAction, TypeInv, LedgerTypeOK
<2>2. CASE TakeBatch(a)
  BY <1>2, <2>2 DEF TakeBatch, TypeInv, LedgerTypeOK
<2> QED
  BY <2>1, <2>2
<1>8. stage' \in [Ops -> Stages]
  BY DEF TakeAction, TakeBatch, TypeInv, LedgerTypeOK, Stages
<1> QED
  BY <1>4, <1>5, <1>6, <1>7, <1>8 DEF TakeAction, TakeBatch, TypeInv, LedgerTypeOK

\* Every handler of an agent keeps the types.
LEMMA HandlerTypes ==
    ASSUME TypeInv, NEW a \in Agents,
           \/ HandleResult(a) \/ HandleChildSpawned(a) \/ HandleSpawnFailed(a)
           \/ HandleAdjust(a) \/ HandleSetAllocated(a)
           \/ HandleGetState(a) \/ HandleRelease(a) \/ HandleChildDismissed(a)
    PROVE  TypeInv'
<1> DEFINE i == Head(mailbox[a]).id
<1>1. LedgerTypeOK /\ budget[a] \in Budgets
  BY DEF TypeInv, LedgerTypeOK
<1>2. ASSUME NEW type, type # "update_budget_data", Receives(a, type)
      PROVE  /\ i \in DOMAIN op /\ i \in Ops /\ OpFacts(op[i])
             /\ op[i].kind \in About(type)
             /\ Handled(a) \in [Agents -> Seq(Messages)]
  BY <1>1, <1>2, ReceivedType, TakenOps
<1>3. \A c \in Agents : Current(c) \in Nat
  BY DEF Current, TypeInv, LedgerTypeOK, NA
<1>4. CASE HandleResult(a)
<2>1. Receives(a, "result")
  BY <1>4 DEF HandleResult
<2>2. budget' \in [Agents -> Budgets]
<3>1. op[i].amount \in Amounts \cup {NA}
  BY <1>2, <2>1 DEF OpFacts
<3>2. CommitAmount(budget[a], op[i].amount) \in Budgets
  BY <1>1, <3>1, EscrowOperations
<3>3. \/ budget' = budget
      \/ budget' = [budget EXCEPT ![a] = CommitAmount(budget[a], op[i].amount)]
  BY <1>4 DEF HandleResult
<3> QED
  BY <3>2, <3>3 DEF TypeInv, LedgerTypeOK
<2>3. listed' \subseteq Agents \ {Root} /\ known' \in [Agents -> Nat \cup {NA}]
  BY <1>2, <1>4, <2>1 DEF HandleResult, OpFacts, TypeInv, LedgerTypeOK
<2>4. reply' \in [Ops -> Replies] /\ busy' \in [Agents -> {0} \cup DOMAIN op]
  BY <1>2, <1>4, <2>1 DEF HandleResult, Replies, TypeInv, LedgerTypeOK
<2> QED
  BY <1>2, <1>4, <2>1, <2>2, <2>3, <2>4, Retyped DEF HandleResult, TypeInv, LedgerTypeOK
<1>5. CASE HandleChildSpawned(a)
<2>1. Receives(a, "child_spawned")
  BY <1>5 DEF HandleChildSpawned
<2> QED
  BY <1>2, <1>5, <2>1, Retyped DEF HandleChildSpawned, OpFacts, TypeInv, LedgerTypeOK
<1>6. CASE HandleSpawnFailed(a)
<2>1. Receives(a, "spawn_failed")
  BY <1>6 DEF HandleSpawnFailed
<2>2. listed' \subseteq Agents \ {Root} /\ known' \in [Agents -> Nat \cup {NA}]
  BY <1>6 DEF HandleSpawnFailed, Unlist, TypeInv, LedgerTypeOK
<2> QED
  BY <1>2, <1>6, <2>1, <2>2, Retyped DEF HandleSpawnFailed, TypeInv, LedgerTypeOK
<1>7. CASE HandleAdjust(a)
<2>1. Receives(a, "adjust")
  BY <1>7 DEF HandleAdjust
<2>2. op[i].kind = "adjust" /\ op[i].amount \in Amounts /\ op[i].child \in Agents
  BY <1>2, <2>1 DEF OpFacts, About
<2>3. budget' \in [Agents -> Budgets]
<3>1. AdjustEscrow(budget[a], Current(op[i].child), op[i].amount) \in Budgets
  BY <1>1, <1>3, <2>2, EscrowOperations
<3>2. \/ budget' = budget
      \/ budget' = [budget EXCEPT ![a] =
                        AdjustEscrow(budget[a], Current(op[i].child), op[i].amount)]
  BY <1>7 DEF HandleAdjust
<3> QED
  BY <3>1, <3>2 DEF TypeInv, LedgerTypeOK
<2>4. known' \in [Agents -> Nat \cup {NA}]
  BY <1>7, <2>2 DEF HandleAdjust, TypeInv, LedgerTypeOK
<2>5. mailbox' \in [Agents -> Seq(Messages)]
<3>1. Msg("set_allocated", i) \in Messages
  BY <1>2, <2>1, <2>2, MsgType
<3> QED
  BY <1>2, <1>7, <2>1, <2>2, <3>1, PostType DEF HandleAdjust
<2>6. stage' \in [Ops -> Stages] /\ reply' \in [Ops -> Replies]
  BY <1>2, <1>7, <2>1, MovedOps DEF HandleAdjust, Stages
<2> QED
  BY <1>7, <2>3, <2>4, <2>5, <2>6, Retyped DEF HandleAdjust, TypeInv, LedgerTypeOK
<1>8. CASE HandleSetAllocated(a)
<2>1. Receives(a, "set_allocated")
  BY <1>8 DEF HandleSetAllocated
<2>2. op[i].amount \in Amounts
  BY <1>2, <2>1 DEF OpFacts, About
<2>3. budget' \in [Agents -> Budgets]
  BY <1>1, <1>8, <2>2, SetAllocation DEF HandleSetAllocated, TypeInv, LedgerTypeOK
<2> QED
  BY <1>2, <1>8, <2>1, <2>3, Retyped DEF HandleSetAllocated, TypeInv, LedgerTypeOK
<1>9. CASE HandleGetState(a)
<2>1. Receives(a, "get_state")
  BY <1>9 DEF HandleGetState
<2>2. seen' \in [Ops -> Budgets] /\ stage' \in [Ops -> Stages]
  BY <1>1, <1>2, <1>9, <2>1, MovedOps DEF HandleGetState, Stages, TypeInv, LedgerTypeOK
<2> QED
  BY <1>2, <1>9, <2>1, <2>2, Retyped DEF HandleGetState, TypeInv, LedgerTypeOK
<1>10. CASE HandleRelease(a)
<2>1. Receives(a, "release")
  BY <1>10 DEF HandleRelease
<2>2. stage' \in [Ops -> Stages]
  BY <1>2, <1>10, <2>1, MovedOps DEF HandleRelease, Stages
<2>3. budget' \in [Agents -> Budgets]
<3>1. seen[i].allocated \in Nat \cup {NA}
  BY <1>2, <2>1 DEF TypeInv, LedgerTypeOK, Budgets
<3>2. ReleaseCommitted(budget[a], seen[i].allocated) \in Budgets
  BY <1>1, <3>1, BudgetOperations
<3> QED
  BY <1>10, <3>2 DEF HandleRelease, TypeInv, LedgerTypeOK
<2> QED
  BY <1>2, <1>10, <2>1, <2>2, <2>3, Retyped DEF HandleRelease, TypeInv, LedgerTypeOK
<1>11. CASE HandleChildDismissed(a)
<2>1. Receives(a, "child_dismissed")
  BY <1>11 DEF HandleChildDismissed
<2>2. listed' \subseteq Agents \ {Root} /\ known' \in [Agents -> Nat \cup {NA}]
  BY <1>11 DEF HandleChildDismissed, Unlist, TypeInv, LedgerTypeOK
<2> QED
  BY <1>2, <1>11, <2>1, <2>2, Retyped DEF HandleChildDismissed, TypeInv, LedgerTypeOK
<1> QED
  BY <1>4, <1>5, <1>6, <1>7, <1>8, <1>9, <1>10, <1>11

\* Every step of an action or of its background task keeps the types.
LEMMA OpTypes ==
    ASSUME TypeInv, NEW i \in Ops, OpStep(i)
    PROVE  TypeInv'
<1>1. i \in DOMAIN op
  BY DEF OpStep, RejectAction, CastReply, AcknowledgeDismiss, ExecuteSpawn, StartChild,
         FailSpawn, AnnounceChild, ExecuteAdjust, ExecuteDismiss, GetStateExits, SelectCosts,
         CommitAbsorption, AbsorptionFails, TerminateSubtree, FinishDismissal, At
<1>2. /\ OpFacts(op[i])
      /\ \A to \in Stages : Goes(i, to) => stage' \in [Ops -> Stages]
      /\ Replied(i) => reply' \in [Ops -> Replies]
      /\ \A to \in Replies : [reply EXCEPT ![i] = to] \in [Ops -> Replies]
  BY <1>1, MovedOps, TakenOps
<1>3. Msg("result", i) \in Messages
  BY <1>1, <1>2, MsgType DEF OpFacts
<1>4. /\ op[i].kind = "spawn" => {Msg("spawn_failed", i), Msg("child_spawned", i)} \subseteq Messages
      /\ op[i].kind = "adjust" => Msg("adjust", i) \in Messages
      /\ op[i].kind = "dismiss" =>
            {Msg("get_state", i), Msg("release", i), Msg("child_dismissed", i)} \subseteq Messages
  BY <1>1, MsgType
<1>5. mailbox \in [Agents -> Seq(Messages)]
  BY DEF TypeInv, LedgerTypeOK
<1>6. ASSUME Answer(i)
      PROVE  mailbox' \in [Agents -> Seq(Messages)] /\ reply' \in [Ops -> Replies]
  BY <1>2, <1>3, <1>5, <1>6, PostType DEF Answer, OpFacts, Replies
<1>7. CASE RejectAction(i)
<2>1. stage' \in [Ops -> Stages]
  BY <1>2, <1>7 DEF RejectAction, Stages
<2>2. mailbox' \in [Agents -> Seq(Messages)] /\ reply' \in [Ops -> Replies]
  BY <1>6, <1>7 DEF RejectAction, TypeInv, LedgerTypeOK
<2> QED
  BY <1>7, <2>1, <2>2, Retyped DEF RejectAction, TypeInv, LedgerTypeOK
<1>8. CASE CastReply(i)
  BY <1>6, <1>8, Retyped DEF CastReply, TypeInv, LedgerTypeOK
<1>9. CASE AcknowledgeDismiss(i)
  BY <1>6, <1>9, Retyped DEF AcknowledgeDismiss, TypeInv, LedgerTypeOK
<1>10. CASE ExecuteSpawn(i)
<2>1. stage' \in [Ops -> Stages] /\ reply' \in [Ops -> Replies]
  BY <1>2, <1>10 DEF ExecuteSpawn, Stages
<2> QED
  BY <1>10, <2>1, Retyped DEF ExecuteSpawn, TypeInv, LedgerTypeOK
<1>11. CASE StartChild(i)
<2>1. stage' \in [Ops -> Stages]
  BY <1>2, <1>11 DEF StartChild, Stages
<2>2. budget' \in [Agents -> Budgets]
<3>1. NewChild(op[i].amount) \in Budgets
  BY <1>2, BudgetOperations DEF OpFacts
<3> QED
  BY <1>11, <3>1 DEF StartChild, TypeInv, LedgerTypeOK
<2> QED
  BY <1>2, <1>11, <2>1, <2>2, Retyped DEF StartChild, OpFacts, TypeInv, LedgerTypeOK
<1>12. CASE FailSpawn(i)
<2>1. stage' \in [Ops -> Stages]
  BY <1>2, <1>12 DEF FailSpawn, Stages
<2>2. mailbox' \in [Agents -> Seq(Messages)]
  BY <1>2, <1>4, <1>5, <1>12, PostType DEF FailSpawn, At, OpFacts
<2> QED
  BY <1>12, <2>1, <2>2, Retyped DEF FailSpawn, TypeInv, LedgerTypeOK
<1>13. CASE AnnounceChild(i)
<2>1. stage' \in [Ops -> Stages]
  BY <1>2, <1>13 DEF AnnounceChild, Stages
<2>2. mailbox' \in [Agents -> Seq(Messages)]
  BY <1>2, <1>4, <1>5, <1>13, PostType DEF AnnounceChild, At, OpFacts
<2> QED
  BY <1>13, <2>1, <2>2, Retyped DEF AnnounceChild, TypeInv, LedgerTypeOK
<1>14. CASE ExecuteAdjust(i)
<2>1. stage' \in [Ops -> Stages]
  BY <1>2, <1>14 DEF ExecuteAdjust, Stages
<2>2. mailbox' \in [Agents -> Seq(Messages)]
  BY <1>2, <1>4, <1>5, <1>14, PostType DEF ExecuteAdjust, At, OpFacts
<2> QED
  BY <1>14, <2>1, <2>2, Retyped DEF ExecuteAdjust, TypeInv, LedgerTypeOK
<1>15. CASE ExecuteDismiss(i)
<2>1. stage' \in [Ops -> Stages] /\ reply' \in [Ops -> Replies]
  BY <1>2, <1>15 DEF ExecuteDismiss, Stages
<2>2. mailbox' \in [Agents -> Seq(Messages)]
  BY <1>2, <1>4, <1>5, <1>15, PostType DEF ExecuteDismiss, At, OpFacts
<2> QED
  BY <1>15, <2>1, <2>2, Retyped DEF ExecuteDismiss, TypeInv, LedgerTypeOK
<1>16. ASSUME \/ GetStateExits(i) \/ SelectCosts(i) \/ CommitAbsorption(i)
              \/ AbsorptionFails(i)
       PROVE  TypeInv'
<2>1. stage' \in [Ops -> Stages]
  BY <1>2, <1>16
     DEF GetStateExits, SelectCosts, CommitAbsorption, AbsorptionFails, Stages
<2> QED
  BY <1>16, <2>1, Retyped
     DEF GetStateExits, SelectCosts, CommitAbsorption, AbsorptionFails, TypeInv, LedgerTypeOK
<1>17. CASE TerminateSubtree(i)
<2> DEFINE dead == LiveSubtree(op[i].child)
           left == [a \in Agents |-> IF a \in dead THEN <<>> ELSE mailbox[a]]
<2>1. stage' \in [Ops -> Stages]
  BY <1>2, <1>17 DEF TerminateSubtree, Stages
<2>2. mailbox' \in [Agents -> Seq(Messages)]
<3>1. left \in [Agents -> Seq(Messages)]
  BY <1>5
<3>2. mailbox' = left \/ mailbox' = Post(left, op[i].by, Msg("release", i))
  BY <1>17 DEF TerminateSubtree
<3>3. op[i].by \in Agents /\ Msg("release", i) \in Messages
  BY <1>2, <1>4, <1>17 DEF TerminateSubtree, At, OpFacts
<3> HIDE DEF left
<3> QED
  BY <3>1, <3>2, <3>3, PostType
<2>3. budget' \in [Agents -> Budgets]
<3>1. NewChild(NA) \in Budgets
  BY BudgetOperations
<3> QED
  BY <1>17, <3>1 DEF TerminateSubtree, TypeInv, LedgerTypeOK
<2>4. listed' \subseteq Agents \ {Root} /\ known' \in [Agents -> Nat \cup {NA}]
  BY <1>17 DEF TerminateSubtree, TypeInv, LedgerTypeOK
<2>5. alive' \subseteq Agents /\ busy' \in [Agents -> {0} \cup DOMAIN op]
  BY <1>17 DEF TerminateSubtree, TypeInv, LedgerTypeOK
<2> QED
  BY <1>17, <2>1, <2>2, <2>3, <2>4, <2>5, Retyped DEF TerminateSubtree, TypeInv, LedgerTypeOK
<1>18. CASE FinishDismissal(i)
<2>1. stage' \in [Ops -> Stages]
  BY <1>2, <1>18 DEF FinishDismissal, Stages
<2>2. mailbox' \in [Agents -> Seq(Messages)]
  BY <1>2, <1>4, <1>5, <1>18, PostType DEF FinishDismissal, At, OpFacts
<2> QED
  BY <1>18, <2>1, <2>2, Retyped DEF FinishDismissal, TypeInv, LedgerTypeOK
<1> QED
  BY <1>7, <1>8, <1>9, <1>10, <1>11, <1>12, <1>13, <1>14, <1>15, <1>16, <1>17, <1>18
     DEF OpStep

\* The user's edit keeps the types.
LEMMA EditTypes ==
    ASSUME TypeInv, EditStep
    PROVE  TypeInv'
<1>1. CASE \E new \in Amounts : BeginEdit(new)
<2>1. PICK new \in Amounts : BeginEdit(new)
  BY <1>1
<2>2. edit' \subseteq Budgets
  BY <2>1, SetAllocation DEF BeginEdit, TypeInv, LedgerTypeOK
<2> QED
  BY <2>1, <2>2, Retyped DEF BeginEdit, TypeInv, LedgerTypeOK
<1>2. CASE SendEdit
<2>1. Msg("update_budget_data", 0) \in Messages
  BY DEF Msg, Messages
<2>2. mailbox' \in [Agents -> Seq(Messages)]
  BY <1>2, <2>1, PostType DEF SendEdit, TypeInv, LedgerTypeOK
<2> QED
  BY <1>2, <2>2, Retyped DEF SendEdit, TypeInv, LedgerTypeOK
<1>3. CASE HandleUpdateBudgetData
<2>1. Handled(Root) \in [Agents -> Seq(Messages)]
  BY <1>3, ReceivedType DEF HandleUpdateBudgetData, TypeInv
<2>2. budget' \in [Agents -> Budgets]
  BY <1>3 DEF HandleUpdateBudgetData, TypeInv, LedgerTypeOK
<2> QED
  BY <1>3, <2>1, <2>2, Retyped DEF HandleUpdateBudgetData, TypeInv, LedgerTypeOK
<1> QED
  BY <1>1, <1>2, <1>3 DEF EditStep

\* The types are inductive.
LEMMA TypesPreserved == TypeInv /\ [Next]_vars => TypeInv'
<1> SUFFICES ASSUME TypeInv, [Next]_vars PROVE TypeInv'
  OBVIOUS
<1>1. ASSUME NEW a \in Agents, AgentStep(a) PROVE TypeInv'
<2>1. CASE RecordCost(a)
  BY <2>1, Retyped DEF RecordCost, TypeInv, LedgerTypeOK
<2> QED
  BY <1>1, <2>1, TakingTypes, HandlerTypes DEF AgentStep
<1>2. ASSUME NEW i \in Ops, OpStep(i) PROVE TypeInv'
  BY <1>2, OpTypes
<1>3. CASE UNCHANGED vars
  BY <1>3, Retyped DEF vars, TypeInv, LedgerTypeOK
<1> QED
  BY <1>1, <1>2, <1>3, EditTypes DEF Next

\* The ledger keeps its types: committed is never negative (schema.ex:75), and
\* every message and waiting agent names an action of the kind its handler expects.
THEOREM LedgerTyped == Spec => []LedgerTypeOK
<1>1. TypeInv => LedgerTypeOK
  BY DEF TypeInv
<1> QED
  BY InitTypes, TypesPreserved, <1>1, PTL DEF Spec

-----------------------------------------------------------------------------
(* Budgets are inherited *)

\* A spawn that has got somewhere stays there, and gets past its check only as
\* SpawnsChecked says.
SpawnProgress ==
    \A i \in DOMAIN op :
        op[i].kind = "spawn" =>
            /\ stage[i] \notin Early => stage'[i] \notin Early
            /\ \/ stage[i] \notin {"none", "dispatched", "rejected"}
               \/ stage'[i] \in {"none", "dispatched", "rejected"}
               \/ op[i].amount = NA => op[i].snap.budget.mode = "na"

\* A step that takes no action, starts nobody and keeps the modes and the
\* allocations of those who live on keeps the invariant.
LEMMA Inherited ==
    ASSUME TypeInv, InheritInv, op' = op, alive' \subseteq alive,
           \A c \in alive' \cup {Root} : budget'[c].mode = budget[c].mode,
           \A c \in alive' \ {Root} : budget[c].allocated # NA => budget'[c].allocated # NA,
           SpawnProgress,
           \A e \in edit' : e.mode = budget[Root].mode
    PROVE  InheritInv'
<1>1. SpawnsAreOnce'
  BY DEF InheritInv, SpawnsAreOnce
<1>2. \A c : Started(c) => Started(c)'
  BY DEF Started, OpsOn, SpawnProgress
<1>3. StartedFirst'
  BY <1>2 DEF InheritInv, StartedFirst
<1>4. SnapshotModes'
  BY DEF InheritInv, SnapshotModes
<1>5. SpawnsChecked'
  BY DEF InheritInv, SpawnsChecked, SpawnProgress
<1>6. AllocationStays'
<2>1. ASSUME NEW c \in alive', NEW i \in OpsOn("spawn", c), op[i].amount # NA
      PROVE  budget'[c].mode = "allocated" /\ budget'[c].allocated # NA
<3>1. c \in alive \ {Root}
  BY <2>1 DEF OpsOn, TypeInv, OpsTyped, OpFacts
<3> QED
  BY <2>1, <3>1 DEF InheritInv, AllocationStays
<2> QED
  BY <2>1 DEF AllocationStays, OpsOn
<1>7. EditKeepsMode'
  BY DEF EditKeepsMode
<1> QED
  BY <1>1, <1>3, <1>4, <1>5, <1>6, <1>7 DEF InheritInv

\* A spawn keeps its place while other actions move on.
LEMMA OthersMove ==
    ASSUME TypeInv, NEW i \in DOMAIN op, NEW to, Goes(i, to),
           op[i].kind # "spawn"
    PROVE  SpawnProgress
<1>1. \A j \in DOMAIN op : j \in Ops
  BY TakenOps
<1>2. \A j \in DOMAIN op : j # i => stage'[j] = stage[j]
  BY <1>1 DEF Goes, TypeInv, LedgerTypeOK
<1> QED
  BY <1>2 DEF SpawnProgress, Early

\* While no action moves on, neither does a spawn.
LEMMA NobodyMoves == stage' = stage => SpawnProgress
  BY DEF SpawnProgress, Early

\* Initially there is only the root agent.
LEMMA InitInherits == Init => InheritInv
  BY DEF Init, InheritInv, SpawnsAreOnce, StartedFirst, SnapshotModes, SpawnsChecked,
         AllocationStays, EditKeepsMode, Started, OpsOn

\* An action taken is by a living agent, carries its mode, and a spawn names an
\* id no other spawn has.
LEMMA TakingInherits ==
    ASSUME TypeInv, InheritInv, NEW a \in Agents, TakeAction(a) \/ TakeBatch(a)
    PROVE  InheritInv'
<1>1. PICK first \in Options(a), second \in Options(a), batched \in BOOLEAN :
          /\ \/ op' = Append(op, NewOp(a, first, batched))
             \/ op' = op \o <<NewOp(a, first, batched)>>
             \/ op' = op \o <<NewOp(a, first, batched), NewOp(a, second, batched)>>
          /\ \/ op' \in {Append(op, NewOp(a, first, batched)), op \o <<NewOp(a, first, batched)>>}
             \/ first.kind = "spawn" => first.child # second.child
<2>1. CASE TakeAction(a)
  BY <2>1 DEF TakeAction
<2>2. CASE TakeBatch(a)
  BY <2>2 DEF TakeBatch
<2> QED
  BY <2>1, <2>2
<1> DEFINE x == NewOp(a, first, batched)
           y == NewOp(a, second, batched)
<1>2. /\ Len(op) \in Nat /\ DOMAIN op = 1..Len(op)
      /\ \A i \in DOMAIN op : i \in DOMAIN op' /\ op'[i] = op[i]
      /\ \A i \in DOMAIN op' \ DOMAIN op : op'[i] = IF i = Len(op) + 1 THEN x ELSE y
      /\ op' \in {Append(op, x), op \o <<x>>} => DOMAIN op' \ DOMAIN op = {Len(op) + 1}
      /\ DOMAIN op' \ DOMAIN op \subseteq {Len(op) + 1, Len(op) + 2}
  <2> HIDE DEF x, y
  <2> QED
    BY <1>1, TakenAtTheEnd DEF x, y
<1>3. \A o \in {x, y} : /\ o.by = a /\ o.snap.budget = budget[a]
                        /\ o.kind = "spawn" => \A i \in DOMAIN op :
                              op[i].kind = "spawn" => op[i].child # o.child
  BY OptionTypes DEF IsSpawned, OpsOn
<1>4. x.kind = first.kind /\ x.child = first.child /\ y.child = second.child
  BY OptionTypes
<1>5. a \in alive /\ UNCHANGED <<alive, budget, edit>>
  BY DEF TakeAction, TakeBatch
<1>6. /\ \A i \in DOMAIN op : stage'[i] = stage[i]
      /\ \A i \in DOMAIN op' \ DOMAIN op : stage'[i] = "dispatched"
<2>1. \A i \in DOMAIN op : i \in Ops
  BY TakenOps
<2>2. \A i \in DOMAIN op' : i \in Ops
<3>1. Len(op') <= MaxOps
  BY DEF TakeAction, TakeBatch, FitsOps
<3>2. Len(op') \in Nat /\ DOMAIN op' = 1..Len(op')
  BY <1>1, TakenAtTheEnd
<3> QED
  BY <3>1, <3>2 DEF Ops
<2>3. CASE TakeAction(a)
<3>1. DOMAIN op' \ DOMAIN op = {Len(op) + 1}
  BY <2>3, TakenAtTheEnd DEF TakeAction
<3> QED
  BY <1>2, <2>1, <2>2, <2>3, <3>1 DEF TakeAction, TypeInv, LedgerTypeOK
<2>4. CASE TakeBatch(a)
  BY <2>1, <2>2, <2>4 DEF TakeBatch
<2> QED
  BY <2>3, <2>4
<1> HIDE DEF x, y
<1>7. SpawnsAreOnce'
  BY <1>1, <1>2, <1>3, <1>4 DEF x, y, InheritInv, SpawnsAreOnce
<1>8. \A c : Started(c) => Started(c)'
  BY <1>2, <1>6 DEF Started, OpsOn
<1>9. \A i \in DOMAIN op' \ DOMAIN op : op'[i] \in {x, y}
  BY <1>2
<1>10. StartedFirst'
  BY <1>2, <1>3, <1>5, <1>8, <1>9 DEF InheritInv, StartedFirst
<1>11. SnapshotModes'
  BY <1>2, <1>3, <1>5, <1>9 DEF InheritInv, SnapshotModes
<1>12. SpawnsChecked'
  BY <1>2, <1>6 DEF InheritInv, SpawnsChecked
<1>13. AllocationStays'
<2>1. ASSUME NEW c \in alive, NEW i \in DOMAIN op' \ DOMAIN op,
             op'[i].kind = "spawn" /\ op'[i].child = c
      PROVE  c = Root
<3>1. \A j \in DOMAIN op : op[j].kind = "spawn" => op[j].child # c
  BY <1>3, <1>9, <2>1
<3> QED
  BY <3>1 DEF InheritInv, StartedFirst, Started, OpsOn
<2>2. \A i \in DOMAIN op' : op'[i].child # Root
  BY <1>1, <1>9, <1>2, OptionTypes DEF x, y, OpFacts, TypeInv, OpsTyped
<2> QED
  BY <1>2, <1>5, <2>1, <2>2 DEF InheritInv, AllocationStays, OpsOn
<1>14. EditKeepsMode'
  BY <1>5 DEF InheritInv, EditKeepsMode
<1> QED
  BY <1>7, <1>10, <1>11, <1>12, <1>13, <1>14 DEF InheritInv

\* The start of a child comes before anything it does, and gives it what the
\* spawn said.
LEMMA StartInherits ==
    ASSUME TypeInv, InheritInv, NEW i \in Ops, StartChild(i)
    PROVE  InheritInv'
<1>0. PICK c : c = op[i].child
  OBVIOUS
<1>1. /\ i \in OpsOn("spawn", c) /\ i \in DOMAIN op /\ op[i].kind = "spawn" /\ stage[i] = "starting"
      /\ c \in Agents \ {Root} /\ op' = op /\ op[i].amount \in Amounts \cup {NA}
      /\ alive' = alive \cup {c} /\ edit' = edit
      /\ budget' = [budget EXCEPT ![c] = NewChild(op[i].amount)]
      /\ stage' = [stage EXCEPT ![i] = "started"]
  BY <1>0 DEF StartChild, At, Goes, OpsOn, TypeInv, OpsTyped, OpFacts
<1>2. \A j \in DOMAIN op : op[j].kind = "spawn" /\ op[j].child = c => j = i
  BY <1>0, <1>1 DEF InheritInv, SpawnsAreOnce
<1>3. ~Started(c)
  BY <1>1, <1>2 DEF Started, OpsOn, Early
<1>4. c \notin alive /\ \A j \in DOMAIN op : op[j].by # c
  BY <1>3 DEF InheritInv, StartedFirst
<1>5. \A a \in Agents \ {c} : budget'[a] = budget[a]
  BY <1>1 DEF TypeInv, LedgerTypeOK
<1>6. budget'[c] = NewChild(op[i].amount)
  BY <1>1 DEF TypeInv, LedgerTypeOK
<1>7. stage'[i] = "started" /\ \A j \in DOMAIN op : j # i => stage'[j] = stage[j]
  BY <1>1, TakenOps DEF TypeInv, LedgerTypeOK
<1>8. SpawnsAreOnce'
  BY <1>1 DEF InheritInv, SpawnsAreOnce
<1>9. \A a : Started(a) => Started(a)'
  BY <1>1, <1>7 DEF Started, OpsOn, Early
<1>10. Started(c)'
  BY <1>1, <1>7 DEF Started, OpsOn, Early
<1>11. StartedFirst'
  BY <1>1, <1>9, <1>10 DEF InheritInv, StartedFirst
<1>12. SnapshotModes'
  BY <1>1, <1>4, <1>5 DEF InheritInv, SnapshotModes, TypeInv, OpsTyped, OpFacts
<1>13. SpawnsChecked'
  BY <1>1, <1>7 DEF InheritInv, SpawnsChecked
<1>14. AllocationStays'
<2>1. op[i].amount # NA => budget'[c].mode = "allocated" /\ budget'[c].allocated # NA
  BY <1>6 DEF NewChild
<2>2. \A a \in alive : a \in Agents \ {c}
  BY <1>4 DEF TypeInv, LedgerTypeOK
<2> QED
  BY <1>1, <1>2, <1>5, <2>1, <2>2 DEF InheritInv, AllocationStays, OpsOn
<1>15. EditKeepsMode'
  BY <1>1, <1>5 DEF InheritInv, EditKeepsMode
<1> QED
  BY <1>8, <1>11, <1>12, <1>13, <1>14, <1>15 DEF InheritInv

\* A subtree that is terminated is below a child: the root agent is not in it.
LEMMA RootIsNoDescendant ==
    ASSUME TypeInv, NEW i \in DOMAIN op
    PROVE  Root \notin LiveSubtree(op[i].child)
  BY DEF LiveSubtree, Subtree, TypeInv, OpsTyped, OpFacts

\* Every step of an action or its task keeps the invariant.
LEMMA OpInherits ==
    ASSUME TypeInv, InheritInv, NEW i \in Ops, OpStep(i)
    PROVE  InheritInv'
<1>1. \A e \in edit : e.mode = budget[Root].mode
  BY DEF InheritInv, EditKeepsMode
<1>2. CASE RejectAction(i) \/ CastReply(i) \/ AcknowledgeDismiss(i)
<2>1. SpawnProgress
<3>1. CASE RejectAction(i)
  BY <3>1, TakenOps DEF RejectAction, Goes, SpawnProgress, Early, TypeInv, LedgerTypeOK
<3> QED
  BY <1>2, <3>1, NobodyMoves DEF CastReply, AcknowledgeDismiss
<2> QED
  BY <1>1, <1>2, <2>1, Inherited DEF RejectAction, CastReply, AcknowledgeDismiss
<1>3. CASE ExecuteSpawn(i)
<2>1. op[i].amount = NA => op[i].snap.budget.mode = "na"
  BY <1>3 DEF ExecuteSpawn, BudgetValid
<2>2. SpawnProgress
  BY <1>3, <2>1, TakenOps DEF ExecuteSpawn, At, Goes, SpawnProgress, Early, TypeInv, LedgerTypeOK
<2> QED
  BY <1>1, <1>3, <2>2, Inherited DEF ExecuteSpawn
<1>4. CASE StartChild(i)
  BY <1>4, StartInherits
<1>5. CASE FailSpawn(i) \/ AnnounceChild(i)
<2>1. SpawnProgress
<3>1. /\ i \in DOMAIN op /\ stage[i] \in {"starting", "started"}
      /\ Goes(i, "failed") \/ Goes(i, "done")
  BY <1>5 DEF FailSpawn, AnnounceChild, At
<3> QED
  BY <3>1, TakenOps DEF Goes, SpawnProgress, Early, TypeInv, LedgerTypeOK
<2> QED
  BY <1>1, <1>5, <2>1, Inherited DEF FailSpawn, AnnounceChild
<1>6. CASE \/ ExecuteAdjust(i) \/ ExecuteDismiss(i) \/ GetStateExits(i) \/ SelectCosts(i)
           \/ CommitAbsorption(i) \/ AbsorptionFails(i) \/ FinishDismissal(i)
<2>1. SpawnProgress
  BY <1>6, OthersMove
     DEF ExecuteAdjust, ExecuteDismiss, GetStateExits, SelectCosts, CommitAbsorption,
         AbsorptionFails, FinishDismissal, At
<2> QED
  BY <1>1, <1>6, <2>1, Inherited
     DEF ExecuteAdjust, ExecuteDismiss, GetStateExits, SelectCosts, CommitAbsorption,
         AbsorptionFails, FinishDismissal
<1>7. CASE TerminateSubtree(i)
<2> DEFINE dead == LiveSubtree(op[i].child)
<2>1. i \in DOMAIN op /\ op[i].kind = "dismiss" /\ op' = op /\ edit' = edit
  BY <1>7 DEF TerminateSubtree, At
<2>2. SpawnProgress
  BY <1>7, <2>1, OthersMove DEF TerminateSubtree
<2>3. Root \notin dead
  BY <2>1, RootIsNoDescendant
<2>4. /\ alive' = alive \ dead
      /\ budget' = [a \in Agents |-> IF a \in dead THEN NewChild(NA) ELSE budget[a]]
  BY <1>7 DEF TerminateSubtree
<2> HIDE DEF dead
<2>5. \A a \in alive' \cup {Root} : budget'[a] = budget[a]
  BY <2>3, <2>4 DEF TypeInv, LedgerTypeOK
<2> QED
  BY <1>1, <2>1, <2>2, <2>4, <2>5, Inherited
<1> QED
  BY <1>2, <1>3, <1>4, <1>5, <1>6, <1>7 DEF OpStep

\* No handler changes the mode of a budget or takes an allocation away.
LEMMA HandlerInherits ==
    ASSUME TypeInv, InheritInv, NEW a \in Agents,
           \/ HandleResult(a) \/ HandleChildSpawned(a) \/ HandleSpawnFailed(a)
           \/ HandleAdjust(a) \/ HandleSetAllocated(a)
           \/ HandleGetState(a) \/ HandleRelease(a) \/ HandleChildDismissed(a)
    PROVE  InheritInv'
<1> DEFINE i == Head(mailbox[a]).id
<1>1. \A e \in edit : e.mode = budget[Root].mode
  BY DEF InheritInv, EditKeepsMode
<1>2. LedgerTypeOK /\ budget[a] \in Budgets
  BY DEF TypeInv, LedgerTypeOK
<1>3. ASSUME NEW type, type # "update_budget_data", Receives(a, type)
      PROVE  i \in DOMAIN op /\ i \in Ops /\ OpFacts(op[i]) /\ op[i].kind \in About(type)
  BY <1>2, <1>3, ReceivedType, TakenOps
<1>4. ASSUME NEW b, b.mode = budget[a].mode, budget[a].allocated # NA => b.allocated # NA,
             budget' = [budget EXCEPT ![a] = b], op' = op, alive' = alive, edit' = edit,
             SpawnProgress
      PROVE  InheritInv'
<2>1. \A c \in Agents : /\ budget'[c].mode = budget[c].mode
                        /\ budget[c].allocated # NA => budget'[c].allocated # NA
  BY <1>4 DEF TypeInv, LedgerTypeOK
<2>2. alive \cup {Root} \subseteq Agents
  BY DEF TypeInv, LedgerTypeOK
<2> QED
  BY <1>1, <1>4, <2>1, <2>2, Inherited
<1>5. CASE HandleResult(a)
<2>1. i \in DOMAIN op /\ op[i].amount \in Amounts \cup {NA}
  BY <1>3, <1>5 DEF HandleResult, OpFacts
<2>2. SpawnProgress
  BY <1>5, NobodyMoves DEF HandleResult
<2>3. CASE TracksChild(i)
<3>1. budget' = [budget EXCEPT ![a] = CommitAmount(budget[a], op[i].amount)]
  BY <1>5, <2>3 DEF HandleResult
<3> QED
  BY <1>2, <1>4, <1>5, <2>1, <2>2, <3>1, EscrowOperations DEF HandleResult
<2>4. CASE ~TracksChild(i)
  BY <1>1, <1>5, <2>2, <2>4, Inherited DEF HandleResult
<2> QED
  BY <2>3, <2>4
<1>6. CASE HandleChildSpawned(a) \/ HandleSpawnFailed(a) \/ HandleChildDismissed(a)
<2>1. SpawnProgress
  BY <1>6, NobodyMoves DEF HandleChildSpawned, HandleSpawnFailed, HandleChildDismissed
<2> QED
  BY <1>1, <1>6, <2>1, Inherited DEF HandleChildSpawned, HandleSpawnFailed, HandleChildDismissed
<1>7. CASE HandleAdjust(a)
<2>1. /\ i \in DOMAIN op /\ op[i].kind = "adjust"
      /\ op[i].amount \in Amounts /\ op[i].child \in Agents
  BY <1>3, <1>7 DEF HandleAdjust, OpFacts, About
<2>2. SpawnProgress
  BY <1>7, <2>1, OthersMove DEF HandleAdjust
<2>3. Current(op[i].child) \in Nat
  BY <2>1 DEF Current, TypeInv, LedgerTypeOK, NA
<2>4. CASE MayAdjust(a, op[i].child, op[i].amount)
<3>1. budget' = [budget EXCEPT ![a] =
                    AdjustEscrow(budget[a], Current(op[i].child), op[i].amount)]
  BY <1>7, <2>4 DEF HandleAdjust
<3>2. op[i].amount \in Nat
  BY <2>1
<3> QED
  BY <1>2, <1>4, <1>7, <2>2, <2>3, <3>1, <3>2, EscrowOperations DEF HandleAdjust
<2>5. CASE ~MayAdjust(a, op[i].child, op[i].amount)
  BY <1>1, <1>7, <2>2, <2>5, Inherited DEF HandleAdjust
<2> QED
  BY <2>4, <2>5
<1>8. CASE HandleSetAllocated(a)
<2>1. op[i].amount \in Amounts
  BY <1>3, <1>8 DEF HandleSetAllocated, OpFacts, About
<2>2. budget' = [budget EXCEPT ![a] = [budget[a] EXCEPT !.allocated = op[i].amount]]
  BY <1>8 DEF HandleSetAllocated
<2>3. SpawnProgress
  BY <1>8, NobodyMoves DEF HandleSetAllocated
<2> QED
  BY <1>2, <1>4, <1>8, <2>1, <2>2, <2>3, SetAllocation DEF HandleSetAllocated
<1>9. CASE HandleGetState(a)
<2>1. SpawnProgress
  BY <1>3, <1>9, OthersMove DEF HandleGetState, About
<2> QED
  BY <1>1, <1>9, <2>1, Inherited DEF HandleGetState
<1>10. CASE HandleRelease(a)
<2>1. i \in Ops /\ SpawnProgress
  BY <1>3, <1>10, OthersMove DEF HandleRelease, About
<2>2. seen[i].allocated \in Nat \cup {NA}
  BY <2>1 DEF TypeInv, LedgerTypeOK, Budgets
<2>3. budget' = [budget EXCEPT ![a] = ReleaseCommitted(budget[a], seen[i].allocated)]
  BY <1>10 DEF HandleRelease
<2> QED
  BY <1>2, <1>4, <1>10, <2>1, <2>2, <2>3, BudgetOperations DEF HandleRelease
<1> QED
  BY <1>5, <1>6, <1>7, <1>8, <1>9, <1>10

\* The dashboard writes back the mode it read.
LEMMA EditInherits ==
    ASSUME TypeInv, InheritInv, EditStep
    PROVE  InheritInv'
<1>1. \A e \in edit : e.mode = budget[Root].mode
  BY DEF InheritInv, EditKeepsMode
<1>2. stage' = stage /\ op' = op /\ alive' = alive
  BY DEF EditStep, BeginEdit, SendEdit, HandleUpdateBudgetData
<1>3. SpawnProgress
  BY <1>2, NobodyMoves
<1>4. CASE \E new \in Amounts : BeginEdit(new)
<2>1. PICK new \in Amounts : BeginEdit(new)
  BY <1>4
<2>2. budget' = budget /\ \A e \in edit' : e.mode = budget[Root].mode
  BY <2>1, SetAllocation DEF BeginEdit, TypeInv, LedgerTypeOK
<2> QED
  BY <1>2, <1>3, <2>2, Inherited
<1>5. CASE SendEdit
  BY <1>1, <1>2, <1>3, <1>5, Inherited DEF SendEdit
<1>6. CASE HandleUpdateBudgetData
<2>1. PICK e \in edit : budget' = [budget EXCEPT ![Root] = e]
  BY <1>6 DEF HandleUpdateBudgetData
<2>2. \A c \in Agents : /\ budget'[c].mode = budget[c].mode
                        /\ c # Root => budget'[c] = budget[c]
  BY <1>1, <2>1 DEF TypeInv, LedgerTypeOK
<2>3. alive \cup {Root} \subseteq Agents /\ edit' = {}
  BY <1>6 DEF HandleUpdateBudgetData, TypeInv, LedgerTypeOK
<2> QED
  BY <1>2, <1>3, <2>2, <2>3, Inherited
<1> QED
  BY <1>4, <1>5, <1>6 DEF EditStep

\* The invariant is inductive.
LEMMA InheritancePreserved == TypeInv /\ InheritInv /\ [Next]_vars => InheritInv'
<1> SUFFICES ASSUME TypeInv, InheritInv, [Next]_vars PROVE InheritInv'
  OBVIOUS
<1>1. \A e \in edit : e.mode = budget[Root].mode
  BY DEF InheritInv, EditKeepsMode
<1>2. ASSUME NEW a \in Agents, AgentStep(a) PROVE InheritInv'
<2>1. CASE RecordCost(a)
  BY <1>1, <2>1, NobodyMoves, Inherited DEF RecordCost
<2> QED
  BY <1>2, <2>1, TakingInherits, HandlerInherits DEF AgentStep
<1>3. ASSUME NEW i \in Ops, OpStep(i) PROVE InheritInv'
  BY <1>3, OpInherits
<1>4. CASE UNCHANGED vars
  BY <1>1, <1>4, NobodyMoves, Inherited DEF vars
<1> QED
  BY <1>2, <1>3, <1>4, EditInherits DEF Next

\* Whoever lives below a budgeted agent was spawned with an amount: the spawn's
\* snapshot had the mode its parent still has.
LEMMA InheritanceFollows == TypeInv /\ InheritInv => BudgetIsInherited
<1> SUFFICES ASSUME TypeInv, InheritInv,
                    NEW c \in alive \ {Root}, HasLimit(ParentOf(c))
             PROVE  budget[c].mode = "allocated" /\ budget[c].allocated # NA
  BY DEF BudgetIsInherited
<1>1. PICK i \in OpsOn("spawn", c) : stage[i] \notin Early
  BY DEF InheritInv, StartedFirst, Started
<1>2. \A j \in OpsOn("spawn", c) : j = i
  BY <1>1 DEF OpsOn, InheritInv, SpawnsAreOnce
<1>3. ParentOf(c) = op[i].by
  BY <1>1, <1>2 DEF ParentOf
<1>4. op[i].snap.budget.mode # "na"
  BY <1>1, <1>3 DEF HasLimit, OpsOn, InheritInv, SnapshotModes
<1>5. op[i].amount # NA
  BY <1>1, <1>4 DEF OpsOn, InheritInv, SpawnsChecked, Early
<1> QED
  BY <1>1, <1>5 DEF InheritInv, AllocationStays

\* Below a budgeted agent nobody is without a limit (budget_validation.ex:18),
\* however spawns, adjustments, dismissals and edits interleave, for any tree,
\* any amounts and any number of actions, in batches or not.
THEOREM BudgetInherited == Spec => []BudgetIsInherited
<1> DEFINE Inv == TypeInv /\ InheritInv
<1>1. Init => Inv
  BY InitTypes, InitInherits
<1>2. Inv /\ [Next]_vars => Inv'
  BY TypesPreserved, InheritancePreserved
<1>3. Inv => BudgetIsInherited
  BY InheritanceFollows
<1> QED
  BY <1>1, <1>2, <1>3, PTL DEF Spec

-----------------------------------------------------------------------------
(* The costs *)

\* The costs of a set of agents are a natural number.
LEMMA CostsOfSome ==
    ASSUME CostTypeOK, NEW S \in SUBSET Agents
    PROVE  SumOf(S) \in Nat /\ IsFiniteSet(S) /\ SumOf(S) = Total(costs, S)
<1>1. costs \in [Agents -> Nat]
  BY DEF CostTypeOK
<1>2. IsFiniteSet(S)
  BY FS_Subset
<1>3. Total(costs, S) \in Nat
  BY <1>1, <1>2, TotalNatural
<1>4. SumOf(S) = Total(costs, S)
  BY DEF SumOf, Total
<1> QED
  BY <1>2, <1>3, <1>4

\* A subtree consists of agents.
LEMMA SubtreeType ==
    ASSUME LedgerTypeOK, NEW c \in Agents
    PROVE  Subtree(c) \in SUBSET Agents /\ LiveSubtree(c) \in SUBSET Agents
  BY DEF Subtree, LiveSubtree, LedgerTypeOK

\* A step that takes no action and records, reads and moves no costs.
LEMMA CostsUntouched ==
    ASSUME CostTypeOK,
           UNCHANGED <<op, ids, sum, costs, incurred, raced, edits, torn>>
    PROVE  CostTypeOK'
  BY DEF CostTypeOK

\* An option is an action with a snapshot.
LEMMA NewOpType ==
    ASSUME TypeInv, CostTypeOK, NEW a \in Agents, NEW choice \in Options(a), NEW batched \in BOOLEAN
    PROVE  NewOp(a, choice, batched) \in OpType
<1>1. budget[a] \in Budgets /\ costs[a] \in Nat
  BY DEF TypeInv, LedgerTypeOK, CostTypeOK
<1>2. Snapshot(a) \in Snapshots
  BY <1>1 DEF Snapshot, Snapshots
<1>3. OpFacts(NewOp(a, choice, batched))
  BY OptionTypes
<1>4. choice.kind \in Kinds /\ choice.child \in Agents /\ choice.amount \in Amounts \cup {NA}
  BY <1>3 DEF OpFacts, NewOp
<1> QED
  BY <1>2, <1>4 DEF NewOp, OpType

\* Taking actions keeps the types.
LEMMA TakingCostTypes ==
    ASSUME TypeInv, CostTypeOK, NEW a \in Agents, TakeAction(a) \/ TakeBatch(a)
    PROVE  CostTypeOK'
<1>1. op \in Seq(OpType)
  BY DEF CostTypeOK
<1>2. op' \in Seq(OpType)
  <2>0. \A x, y \in OpType : /\ Append(op, x) \in Seq(OpType)
                            /\ op \o <<x>> \in Seq(OpType)
                            /\ op \o <<x, y>> \in Seq(OpType)
    <3>1. ASSUME NEW x \in OpType, NEW y \in OpType
          PROVE  <<x>> \in Seq(OpType) /\ <<x, y>> \in Seq(OpType)
      OBVIOUS
    <3> QED
      BY <1>1, <3>1, ConcatProperties
  <2>1. CASE TakeAction(a)
    <3>1. PICK choice \in Options(a) : op' = Append(op, NewOp(a, choice, FALSE))
      BY <2>1 DEF TakeAction
    <3>2. NewOp(a, choice, FALSE) \in OpType
      BY NewOpType
    <3> QED
      BY <2>0, <3>1, <3>2
  <2>2. CASE TakeBatch(a)
    <3>1. PICK first \in Options(a), second \in Options(a) :
              \/ op' = op \o <<NewOp(a, first, TRUE)>>
              \/ op' = op \o <<NewOp(a, first, TRUE), NewOp(a, second, TRUE)>>
      BY <2>2 DEF TakeBatch
    <3>2. NewOp(a, first, TRUE) \in OpType /\ NewOp(a, second, TRUE) \in OpType
      BY NewOpType
    <3> QED
      BY <2>0, <3>1, <3>2
  <2> QED
    BY <2>1, <2>2
<1>3. UNCHANGED <<ids, sum, costs, incurred, raced, edits, torn>>
  BY DEF TakeAction, TakeBatch
<1> QED
  BY <1>2, <1>3 DEF CostTypeOK

\* Every handler leaves the costs alone.
LEMMA HandlersTouchNoCosts ==
    ASSUME NEW a,
           \/ HandleResult(a) \/ HandleChildSpawned(a) \/ HandleSpawnFailed(a)
           \/ HandleAdjust(a) \/ HandleSetAllocated(a)
           \/ HandleGetState(a) \/ HandleRelease(a) \/ HandleChildDismissed(a)
    PROVE  UNCHANGED <<op, ids, sum, costs, incurred, raced, edits, torn>>
  BY DEF HandleResult, HandleChildSpawned, HandleSpawnFailed, HandleAdjust, HandleSetAllocated,
         HandleGetState, HandleRelease, HandleChildDismissed

\* So does every step of an action but the SELECT and the COMMIT of a dismissal.
LEMMA OpsTouchNoCosts ==
    ASSUME NEW i, OpStep(i)
    PROVE  \/ SelectCosts(i)
           \/ CommitAbsorption(i)
           \/ UNCHANGED <<op, ids, sum, costs, incurred, raced, edits, torn>>
  BY DEF OpStep, RejectAction, CastReply, AcknowledgeDismiss, ExecuteSpawn, StartChild,
         FailSpawn, AnnounceChild, ExecuteAdjust, ExecuteDismiss, GetStateExits,
         AbsorptionFails, TerminateSubtree, FinishDismissal

\* What the SELECT reads are costs.
LEMMA SelectTypes ==
    ASSUME TypeInv, CostTypeOK, NEW i \in Ops, SelectCosts(i)
    PROVE  CostTypeOK'
<1>1. i \in DOMAIN op /\ op[i].child \in Agents
  BY DEF SelectCosts, At, TypeInv, OpsTyped, OpFacts
<1>2. PICK S : S = Subtree(op[i].child)
  OBVIOUS
<1>3. S \in SUBSET Agents
  BY <1>1, <1>2, SubtreeType DEF TypeInv
<1>4. SumOf(S) \in Nat
  BY <1>3, CostsOfSome
<1>5. ids' = [ids EXCEPT ![i] = S] /\ sum' = [sum EXCEPT ![i] = SumOf(S)]
  BY <1>2 DEF SelectCosts
<1>6. UNCHANGED <<op, costs, incurred, raced, edits, torn>>
  BY DEF SelectCosts
<1> QED
  BY <1>3, <1>4, <1>5, <1>6 DEF CostTypeOK

\* What the transaction writes are costs.
LEMMA CommitTypes ==
    ASSUME TypeInv, CostTypeOK, NEW i \in Ops, CommitAbsorption(i)
    PROVE  CostTypeOK'
<1>1. Moved(i) \in [Agents -> Nat]
  <2>1. sum[i] \in Nat /\ costs \in [Agents -> Nat]
    BY DEF CostTypeOK
  <2> QED
    BY <2>1 DEF Moved
<1>2. costs' \in [Agents -> Nat]
  BY <1>1 DEF CommitAbsorption, CostTypeOK
<1>3. raced' \in BOOLEAN
  BY DEF CommitAbsorption, CostTypeOK, Races
<1>4. UNCHANGED <<op, ids, sum, incurred, edits, torn>>
  BY DEF CommitAbsorption
<1> QED
  BY <1>2, <1>3, <1>4 DEF CostTypeOK

\* Recording a cost adds a natural number.
LEMMA RecordTypes ==
    ASSUME CostTypeOK, NEW a \in Agents, RecordCost(a)
    PROVE  CostTypeOK'
<1>1. costs' \in [Agents -> Nat] /\ incurred' \in Nat
  BY DEF RecordCost, CostTypeOK
<1>2. raced' \in BOOLEAN
  BY DEF RecordCost, CostTypeOK, Races
<1> QED
  BY <1>1, <1>2 DEF RecordCost, CostTypeOK

\* The user's edit counts itself, and notes whether it overwrote anything.
LEMMA EditCostTypes ==
    ASSUME CostTypeOK, EditStep
    PROVE  CostTypeOK'
<1>1. torn' \in BOOLEAN /\ edits' \in Nat
  <2>1. CASE HandleUpdateBudgetData
    <3>1. PICK new \in edit : torn' = (torn \/ new.committed # budget[Root].committed)
      BY <2>1 DEF HandleUpdateBudgetData
    <3>2. edits' = edits
      BY <2>1 DEF HandleUpdateBudgetData
    <3> QED
      BY <3>1, <3>2 DEF CostTypeOK
  <2>2. CASE ~HandleUpdateBudgetData
    BY <2>2 DEF EditStep, BeginEdit, SendEdit, CostTypeOK
  <2> QED
    BY <2>1, <2>2
<1>2. UNCHANGED <<op, ids, sum, costs, incurred, raced>>
  BY DEF EditStep, BeginEdit, SendEdit, HandleUpdateBudgetData
<1> QED
  BY <1>1, <1>2 DEF CostTypeOK

\* Initially nobody has spent anything.
LEMMA InitCostTypes == Init => CostTypeOK
<1> SUFFICES ASSUME Init PROVE CostTypeOK
  OBVIOUS
<1>1. op \in Seq(OpType)
  BY DEF Init
<1>2. ids \in [Ops -> SUBSET Agents] /\ sum \in [Ops -> Nat] /\ costs \in [Agents -> Nat]
  BY DEF Init
<1> QED
  BY <1>1, <1>2 DEF Init, CostTypeOK

\* The types of the costs are inductive.
LEMMA CostTypesPreserved == TypeInv /\ CostTypeOK /\ [Next]_vars => CostTypeOK'
<1> SUFFICES ASSUME TypeInv, CostTypeOK, [Next]_vars PROVE CostTypeOK'
  OBVIOUS
<1>1. ASSUME NEW a \in Agents, AgentStep(a) PROVE CostTypeOK'
  BY <1>1, TakingCostTypes, HandlersTouchNoCosts, CostsUntouched, RecordTypes DEF AgentStep
<1>2. ASSUME NEW i \in Ops, OpStep(i) PROVE CostTypeOK'
  BY <1>2, OpsTouchNoCosts, CostsUntouched, SelectTypes, CommitTypes
<1>3. CASE UNCHANGED vars
  BY <1>3, CostsUntouched DEF vars
<1> QED
  BY <1>1, <1>2, <1>3, EditCostTypes DEF Next

\* No handler meets a value it does not expect: committed never becomes negative
\* (schema.ex:75), costs and what a dismissal read of them are amounts, and what
\* a message refers to exists.
THEOREM TypeCorrect == Spec => []TypeOK
<1> DEFINE Inv == TypeInv /\ CostTypeOK
<1>1. Init => Inv
  BY InitTypes, InitCostTypes
<1>2. Inv /\ [Next]_vars => Inv'
  BY TypesPreserved, CostTypesPreserved
<1>3. Inv => TypeOK
  BY DEF TypeInv, TypeOK
<1> QED
  BY <1>1, <1>2, <1>3, PTL DEF Spec

-----------------------------------------------------------------------------
(* The tree is ordered by its spawns *)

\* An agent acts after its own spawn was taken
SpawnOrder ==
    \A i \in DOMAIN op : op[i].by # Root =>
        \E j \in OpsOn("spawn", op[i].by) : j < i

\* Only a parent adjusts and dismisses a child, after its spawn
OwnChild ==
    \A i \in DOMAIN op : op[i].kind # "spawn" =>
        \E j \in OpsOn("spawn", op[i].child) : j < i /\ op[j].by = op[i].by

TreeInv == SpawnOrder /\ OwnChild

\* With one spawn per id, the parent is whoever made it.
LEMMA ParentIs ==
    ASSUME InheritInv, NEW c, NEW i \in OpsOn("spawn", c)
    PROVE  ParentOf(c) = op[i].by /\ \A j \in OpsOn("spawn", c) : j = i
<1>1. \A j \in OpsOn("spawn", c) : j = i
  BY DEF OpsOn, InheritInv, SpawnsAreOnce
<1> QED
  BY <1>1 DEF ParentOf

\* The order of the tree is kept: an action is taken by an agent that has
\* started, and names one of its children or a new id.
LEMMA TakingKeepsTree ==
    ASSUME TypeInv, InheritInv, TreeInv, NEW a \in Agents, TakeAction(a) \/ TakeBatch(a)
    PROVE  TreeInv'
<1>1. PICK first \in Options(a), second \in Options(a), batched \in BOOLEAN :
          \/ op' = Append(op, NewOp(a, first, batched))
          \/ op' = op \o <<NewOp(a, first, batched)>>
          \/ op' = op \o <<NewOp(a, first, batched), NewOp(a, second, batched)>>
  <2>1. CASE TakeAction(a)
    BY <2>1 DEF TakeAction
  <2>2. CASE TakeBatch(a)
    BY <2>2 DEF TakeBatch
  <2> QED
    BY <2>1, <2>2
<1> DEFINE x == NewOp(a, first, batched)
           y == NewOp(a, second, batched)
           Spawns(j, c) == op'[j].kind = "spawn" /\ op'[j].child = c
<1>2. /\ Len(op) \in Nat /\ DOMAIN op = 1..Len(op)
      /\ \A i \in DOMAIN op : i \in DOMAIN op' /\ op'[i] = op[i]
      /\ \A i \in DOMAIN op' \ DOMAIN op : op'[i] \in {x, y} /\ i \in Nat /\ i > Len(op)
  <2>1. /\ Len(op) \in Nat /\ DOMAIN op = 1..Len(op) /\ DOMAIN op' = 1..Len(op') /\ Len(op') \in Nat
        /\ \A i \in DOMAIN op : i \in DOMAIN op' /\ op'[i] = op[i]
        /\ \A i \in DOMAIN op' \ DOMAIN op : op'[i] \in {x, y}
    <3> HIDE DEF x, y
    <3> QED
      BY <1>1, TakenAtTheEnd DEF x, y
  <2> HIDE DEF x, y
  <2> QED
    BY <2>1
<1>3. a # Root => \E j \in OpsOn("spawn", a) : TRUE
  BY DEF TakeAction, TakeBatch, InheritInv, StartedFirst, Started
<1>4. ASSUME NEW choice \in Options(a), choice.kind # "spawn"
      PROVE  \E j \in OpsOn("spawn", choice.child) : op[j].by = a
  <2>1. choice.child \in ChildrenOf(a)
    BY <1>4 DEF Options
  <2>2. PICK j \in OpsOn("spawn", choice.child) : TRUE
    BY <2>1 DEF ChildrenOf, IsSpawned
  <2>3. op[j].by = a
    BY <2>1, <2>2, ParentIs DEF ChildrenOf
  <2> QED
    BY <2>3
<1>5. \A o \in {x, y} : /\ o.by = a
                        /\ o.kind # "spawn" =>
                              \E j \in OpsOn("spawn", o.child) : op[j].by = a
  BY <1>4, OptionTypes
<1>6. \A c : \A j \in OpsOn("spawn", c) :
          j \in 1..Len(op) /\ op'[j].by = op[j].by /\ j \in DOMAIN op' /\ Spawns(j, c)
  BY <1>2 DEF OpsOn
<1> HIDE DEF x, y, Spawns
<1>7. SpawnOrder'
  <2>1. ASSUME NEW i \in DOMAIN op', op'[i].by # Root
        PROVE  \E j \in DOMAIN op' : Spawns(j, op'[i].by) /\ j < i
    <3>1. CASE i \in DOMAIN op
      BY <1>2, <1>6, <2>1, <3>1 DEF TreeInv, SpawnOrder
    <3>2. CASE i \notin DOMAIN op
      <4>1. op'[i].by = a /\ i > Len(op) /\ i \in Nat
        BY <1>2, <1>5, <3>2
      <4>2. PICK j \in OpsOn("spawn", a) : TRUE
        BY <1>3, <2>1, <4>1
      <4>3. j \in 1..Len(op) /\ j \in DOMAIN op' /\ Spawns(j, a)
        BY <1>6, <4>2
      <4> QED
        BY <1>2, <4>1, <4>3
    <3> QED
      BY <3>1, <3>2
  <2> QED
    BY <2>1 DEF SpawnOrder, OpsOn, Spawns
<1>8. OwnChild'
  <2>1. ASSUME NEW i \in DOMAIN op', op'[i].kind # "spawn"
        PROVE  \E j \in DOMAIN op' : Spawns(j, op'[i].child) /\ j < i /\ op'[j].by = op'[i].by
    <3>1. CASE i \in DOMAIN op
      BY <1>2, <1>6, <2>1, <3>1 DEF TreeInv, OwnChild
    <3>2. CASE i \notin DOMAIN op
      <4>1. op'[i] \in {x, y} /\ op'[i].by = a /\ i > Len(op) /\ i \in Nat
        BY <1>2, <1>5, <3>2
      <4>2. PICK j \in OpsOn("spawn", op'[i].child) : op[j].by = a
        BY <1>5, <2>1, <4>1
      <4>3. /\ j \in 1..Len(op) /\ j \in DOMAIN op' /\ Spawns(j, op'[i].child)
            /\ op'[j].by = a
        BY <1>6, <4>2
      <4> QED
        BY <1>2, <4>1, <4>3
    <3> QED
      BY <3>1, <3>2
  <2> QED
    BY <2>1 DEF OwnChild, OpsOn, Spawns
<1> QED
  BY <1>7, <1>8 DEF TreeInv

\* Every other step takes no action.
LEMMA StepsTakeNoAction ==
    ASSUME [Next]_vars
    PROVE  op' = op \/ \E a \in Agents : TakeAction(a) \/ TakeBatch(a)
<1>1. ASSUME NEW a \in Agents, AgentStep(a)
      PROVE  op' = op \/ TakeAction(a) \/ TakeBatch(a)
  BY <1>1, HandlersTouchNoCosts DEF AgentStep, RecordCost
<1>2. ASSUME NEW i \in Ops, OpStep(i) PROVE op' = op
  BY <1>2, OpsTouchNoCosts DEF SelectCosts, CommitAbsorption
<1>3. EditStep => op' = op
  BY DEF EditStep, BeginEdit, SendEdit, HandleUpdateBudgetData
<1>4. UNCHANGED vars => op' = op
  BY DEF vars
<1> QED
  BY <1>1, <1>2, <1>3, <1>4 DEF Next

LEMMA TreePreserved == TypeInv /\ InheritInv /\ TreeInv /\ [Next]_vars => TreeInv'
<1> SUFFICES ASSUME TypeInv, InheritInv, TreeInv, [Next]_vars PROVE TreeInv'
  OBVIOUS
<1>1. CASE op' = op
  BY <1>1 DEF TreeInv, SpawnOrder, OwnChild, OpsOn
<1> QED
  BY <1>1, StepsTakeNoAction, TakingKeepsTree

\* A parent is not below its child.
LEMMA ParentIsAbove ==
    ASSUME TypeInv, InheritInv, TreeInv, NEW i \in DOMAIN op, op[i].kind # "spawn"
    PROVE  op[i].by \notin Subtree(op[i].child)
<1>1. PICK s \in OpsOn("spawn", op[i].child) : op[s].by = op[i].by
  BY DEF TreeInv, OwnChild
<1> DEFINE below == {c \in Agents : \E j \in OpsOn("spawn", c) : s <= j}
<1>2. DOMAIN op \subseteq Nat /\ s \in DOMAIN op
  <2>1. DOMAIN op = 1..Len(op) /\ Len(op) \in Nat
    BY DEF TypeInv, OpsTyped, IsSeq
  <2> QED
    BY <2>1 DEF OpsOn
<1>3. op[i].child \in below
  BY <1>1, <1>2 DEF TypeInv, OpsTyped, OpFacts
<1>4. \A c : \A j \in OpsOn("spawn", c) : c # Root /\ j \in DOMAIN op
  BY DEF OpsOn, TypeInv, OpsTyped, OpFacts
<1>5. ClosedDownwards(below)
  <2>1. ASSUME NEW c \in alive \ {Root}, ParentOf(c) \in below PROVE c \in below
    <3>1. PICK j \in OpsOn("spawn", c) : TRUE
      BY DEF InheritInv, StartedFirst, Started
    <3>2. ParentOf(c) = op[j].by /\ j \in DOMAIN op
      BY <1>4, <3>1, ParentIs
    <3>3. PICK k \in OpsOn("spawn", op[j].by) : s <= k
      BY <2>1, <3>2
    <3>4. PICK l \in OpsOn("spawn", op[j].by) : l < j
      BY <1>4, <3>2, <3>3 DEF TreeInv, SpawnOrder
    <3>5. l = k
      BY <3>3, <3>4, ParentIs
    <3>6. s <= j
      BY <1>2, <1>4, <3>2, <3>3, <3>4, <3>5
    <3>7. c \in Agents
      BY DEF TypeInv, LedgerTypeOK
    <3> QED
      BY <3>1, <3>6, <3>7
  <2> QED
    BY <2>1 DEF ClosedDownwards
<1>6. op[i].by \notin below
  <2>1. SUFFICES ASSUME NEW k \in OpsOn("spawn", op[s].by), s <= k PROVE FALSE
    BY <1>1
  <2>2. PICK l \in OpsOn("spawn", op[s].by) : l < s
    BY <1>2, <1>4 DEF TreeInv, SpawnOrder
  <2>3. l = k
    BY <2>2, ParentIs
  <2> QED
    BY <1>2, <1>4, <2>1, <2>2, <2>3
<1>7. below \in SUBSET Agents
  OBVIOUS
<1> HIDE DEF below
<1> QED
  BY <1>3, <1>5, <1>6, <1>7 DEF Subtree

-----------------------------------------------------------------------------
(* Absorbing costs *)

Reading(j) == At(j, "dismiss", "selected")

\* What a transaction has read is what there is, unless it was raced, and the
\* parent it will write to is none of those it deletes
ReadsAreCurrent ==
    \A j \in Ops : Reading(j) =>
        /\ op[j].by \in Agents \ ids[j]
        /\ ~raced => sum[j] = SumOf(ids[j])

ConserveInv == ReadsAreCurrent /\ CostsConservedUnlessRaced

\* No step but the SELECT starts a transaction.
LEMMA NobodyElseReads ==
    ASSUME TypeInv, [Next]_vars
    PROVE  \A j \in Ops : Reading(j)' =>
               \/ Reading(j) /\ op'[j] = op[j]
               \/ SelectCosts(j) /\ op'[j] = op[j]
<1> SUFFICES ASSUME NEW j \in Ops, Reading(j)'
             PROVE  \/ Reading(j) /\ op'[j] = op[j]
                    \/ SelectCosts(j) /\ op'[j] = op[j]
  OBVIOUS
<1>1. j \in DOMAIN op' /\ op'[j].kind = "dismiss" /\ stage'[j] = "selected"
  BY DEF Reading, At
<1>2. stage \in [Ops -> Stages]
  BY DEF TypeInv, LedgerTypeOK
<1>3. ASSUME stage'[j] = stage[j], op' = op PROVE Reading(j) /\ op'[j] = op[j]
  BY <1>1, <1>3 DEF Reading, At
<1>4. ASSUME NEW a \in Agents, TakeAction(a) \/ TakeBatch(a)
      PROVE  Reading(j) /\ op'[j] = op[j]
  <2>1. PICK first \in Options(a), second \in Options(a), batched \in BOOLEAN :
            \/ op' = Append(op, NewOp(a, first, batched))
            \/ op' = op \o <<NewOp(a, first, batched)>>
            \/ op' = op \o <<NewOp(a, first, batched), NewOp(a, second, batched)>>
    <3>1. CASE TakeAction(a)
      BY <3>1 DEF TakeAction
    <3>2. CASE TakeBatch(a)
      BY <3>2 DEF TakeBatch
    <3> QED
      BY <1>4, <3>1, <3>2
  <2> DEFINE x == NewOp(a, first, batched)
             y == NewOp(a, second, batched)
  <2>2. /\ \A i \in DOMAIN op : i \in DOMAIN op' /\ op'[i] = op[i]
        /\ op' = Append(op, x) => DOMAIN op' \ DOMAIN op = {Len(op) + 1}
    <3> HIDE DEF x, y
    <3> QED
      BY <2>1, TakenAtTheEnd DEF x, y
  <2>3. j \in DOMAIN op
    <3> SUFFICES ASSUME j \in DOMAIN op' \ DOMAIN op PROVE stage'[j] = "dispatched"
      BY <1>1
    <3>1. CASE TakeAction(a)
      <4>1. DOMAIN op' \ DOMAIN op = {Len(op) + 1}
        BY <3>1, TakenAtTheEnd DEF TakeAction
      <4>2. stage' = [stage EXCEPT ![j] = "dispatched"]
        BY <3>1, <4>1 DEF TakeAction
      <4> QED
        BY <1>2, <4>2
    <3>2. CASE TakeBatch(a)
      BY <3>2 DEF TakeBatch
    <3> QED
      BY <1>4, <3>1, <3>2
  <2>4. stage'[j] = stage[j]
    <3>1. CASE TakeAction(a)
      <4>1. Len(op) + 1 # j
        <5>1. DOMAIN op' \ DOMAIN op = {Len(op) + 1}
          BY <3>1, TakenAtTheEnd DEF TakeAction
        <5> QED
          BY <2>3, <5>1
      <4> QED
        BY <1>2, <3>1, <4>1 DEF TakeAction
    <3>2. CASE TakeBatch(a)
      BY <2>3, <3>2 DEF TakeBatch
    <3> QED
      BY <1>4, <3>1, <3>2
  <2> QED
    BY <1>1, <2>2, <2>3, <2>4 DEF Reading, At
<1>5. ASSUME NEW a \in Agents, HandleAdjust(a) \/ HandleGetState(a) \/ HandleRelease(a)
      PROVE  stage'[j] = stage[j] /\ op' = op
  <2>1. PICK i : \E to \in {"done", "known", "released"} :
                     stage' = [stage EXCEPT ![i] = to] /\ op' = op
    BY <1>5 DEF HandleAdjust, HandleGetState, HandleRelease, Goes
  <2> QED
    BY <1>1, <1>2, <2>1
<1>6. ASSUME NEW a \in Agents, AgentStep(a)
      PROVE  Reading(j) /\ op'[j] = op[j]
  <2>1. CASE \/ HandleResult(a) \/ HandleChildSpawned(a) \/ HandleSpawnFailed(a)
             \/ HandleSetAllocated(a) \/ HandleChildDismissed(a) \/ RecordCost(a)
    BY <1>3, <2>1 DEF HandleResult, HandleChildSpawned, HandleSpawnFailed, HandleSetAllocated,
                      HandleChildDismissed, RecordCost
  <2> QED
    BY <1>3, <1>4, <1>5, <1>6, <2>1 DEF AgentStep
<1>7. ASSUME NEW i \in Ops, OpStep(i), ~SelectCosts(j)
      PROVE  stage'[j] = stage[j] /\ op' = op
  <2>1. CASE SelectCosts(i)
    BY <1>1, <1>2, <1>7, <2>1 DEF SelectCosts, Goes
  <2>2. CASE CastReply(i) \/ AcknowledgeDismiss(i)
    BY <2>2 DEF CastReply, AcknowledgeDismiss
  <2>3. CASE ~ (SelectCosts(i) \/ CastReply(i) \/ AcknowledgeDismiss(i))
    <3>1. \E to \in Stages \ {"selected"} : stage' = [stage EXCEPT ![i] = to]
      BY <1>7, <2>3
         DEF OpStep, RejectAction, ExecuteSpawn, StartChild, FailSpawn, AnnounceChild,
             ExecuteAdjust, ExecuteDismiss, GetStateExits, CommitAbsorption, AbsorptionFails,
             TerminateSubtree, FinishDismissal, Goes, Stages
    <3>2. op' = op
      BY <1>7, OpsTouchNoCosts DEF SelectCosts, CommitAbsorption
    <3> QED
      BY <1>1, <1>2, <3>1, <3>2
  <2> QED
    BY <2>1, <2>2, <2>3
<1>8. SelectCosts(j) => op' = op
  BY DEF SelectCosts
<1>9. EditStep => stage' = stage /\ op' = op
  BY DEF EditStep, BeginEdit, SendEdit, HandleUpdateBudgetData
<1>10. UNCHANGED vars => stage' = stage /\ op' = op
  BY DEF vars
<1> QED
  BY <1>3, <1>6, <1>7, <1>8, <1>9, <1>10 DEF Next

LEMMA SumsAreTotals ==
    \A S : SumOf(S) = Total(costs, S) /\ SumOf(S)' = Total(costs', S)
  BY DEF SumOf, Total, MapThenSumSet, MapThenFoldSet

\* A step that moves no costs and reads none keeps the invariant.
LEMMA ConservedUntouched ==
    ASSUME TypeInv, ConserveInv, [Next]_vars, UNCHANGED <<ids, sum, costs, incurred, raced>>,
           \A j \in Ops : ~SelectCosts(j)
    PROVE  ConserveInv'
<1>1. \A j \in Ops : Reading(j)' => Reading(j) /\ op'[j] = op[j]
  BY NobodyElseReads
<1>2. \A S : SumOf(S)' = SumOf(S)
  BY SumsAreTotals
<1>3. ReadsAreCurrent'
  BY <1>1, <1>2 DEF ConserveInv, ReadsAreCurrent
<1>4. CostsConservedUnlessRaced'
  BY <1>2 DEF ConserveInv, CostsConservedUnlessRaced
<1> QED
  BY <1>3, <1>4 DEF ConserveInv

\* What the SELECT reads is current.
LEMMA SelectConserves ==
    ASSUME TypeInv, CostTypeOK, InheritInv, TreeInv, ConserveInv, [Next]_vars,
           NEW i \in Ops, SelectCosts(i)
    PROVE  ConserveInv'
<1>1. i \in DOMAIN op /\ op[i].kind = "dismiss" /\ op' = op
  BY DEF SelectCosts, At
<1>2. PICK S : S = Subtree(op[i].child)
  OBVIOUS
<1>3. op[i].by \in Agents \ S
  BY <1>1, <1>2, ParentIsAbove DEF TypeInv, OpsTyped, OpFacts
<1>4. PICK n : n = SumOf(S)
  OBVIOUS
<1>5. ids' = [ids EXCEPT ![i] = S] /\ sum' = [sum EXCEPT ![i] = n]
  BY <1>2, <1>4 DEF SelectCosts
<1>6. UNCHANGED <<costs, incurred, raced>>
  BY DEF SelectCosts
<1>7. \A R : SumOf(R)' = SumOf(R)
  BY <1>6, SumsAreTotals
<1>8. CostsConservedUnlessRaced'
  BY <1>6, <1>7 DEF ConserveInv, CostsConservedUnlessRaced
<1>9. ASSUME NEW j \in Ops, Reading(j)'
      PROVE  /\ op'[j].by \in Agents \ ids'[j]
             /\ ~raced' => sum'[j] = SumOf(ids'[j])
  <2>1. CASE j = i
    <3>1. ids'[j] = S /\ sum'[j] = n
      BY <1>5, <2>1 DEF CostTypeOK
    <3> QED
      BY <1>1, <1>3, <1>4, <2>1, <3>1
  <2>2. CASE j # i
    <3>1. ids'[j] = ids[j] /\ sum'[j] = sum[j]
      BY <1>5, <2>2
    <3>2. Reading(j)
      BY <1>1, <1>9, <2>2 DEF Reading, At, SelectCosts, Goes
    <3> QED
      BY <1>1, <1>6, <3>1, <3>2 DEF ConserveInv, ReadsAreCurrent
  <2> QED
    BY <2>1, <2>2
<1>10. ReadsAreCurrent'
  BY <1>7, <1>9 DEF ReadsAreCurrent
<1> QED
  BY <1>8, <1>10 DEF ConserveInv

\* The rows a transaction deletes are what it inserts, if nobody changed them in
\* between; other transactions that had read any of them are raced.
LEMMA CommitConserves ==
    ASSUME TypeInv, CostTypeOK, ConserveInv, [Next]_vars, NEW i \in Ops, CommitAbsorption(i)
    PROVE  ConserveInv'
<1>1. op' = op /\ ids' = ids /\ sum' = sum /\ incurred' = incurred
  BY DEF CommitAbsorption
<1>2. stage' = [stage EXCEPT ![i] = "absorbed"] /\ Reading(i)
  BY DEF CommitAbsorption, Goes, Reading
<1>3. ASSUME NEW j \in Ops, Reading(j)' PROVE j # i /\ Reading(j)
  BY <1>1, <1>2, <1>3 DEF Reading, At, TypeInv, LedgerTypeOK
<1>4. CASE sum[i] = 0
  <2>1. costs' = costs /\ raced' = raced
    BY <1>4 DEF CommitAbsorption
  <2>2. \A S : SumOf(S)' = SumOf(S)
    BY <2>1, SumsAreTotals
  <2> QED
    BY <1>1, <1>3, <2>1, <2>2 DEF ConserveInv, ReadsAreCurrent, CostsConservedUnlessRaced
<1>5. CASE sum[i] # 0
  <2> DEFINE p == op[i].by
             S == ids[i]
             rest == Agents \ S
  <2>1. costs' = Moved(i) /\ raced' = (raced \/ Races(i, S \cup {p}))
    BY <1>5 DEF CommitAbsorption
  <2>2. p \in rest /\ S \in SUBSET Agents /\ costs \in [Agents -> Nat] /\ sum[i] \in Nat
    BY <1>2 DEF ConserveInv, ReadsAreCurrent, CostTypeOK
  <2>3. costs' \in [Agents -> Int] /\ costs \in [Agents -> Int]
    BY <2>1, <2>2 DEF Moved
  <2>4. /\ \A a \in S : costs'[a] = 0
        /\ \A a \in rest \ {p} : costs'[a] = costs[a]
        /\ costs'[p] = costs[p] + sum[i]
    BY <2>1, <2>2 DEF Moved
  <2> HIDE DEF p, S
  <2>5. ASSUME ~raced' PROVE SumOf(Agents)' = incurred'
    <3>1. ~raced /\ sum[i] = Total(costs, S) /\ Total(costs, Agents) = incurred
      <4>1. ~raced
        BY <2>1, <2>5
      <4> QED
        BY <1>2, <4>1, SumsAreTotals
           DEF ConserveInv, ReadsAreCurrent, CostsConservedUnlessRaced, S
    <3>2. IsFiniteSet(S) /\ IsFiniteSet(rest) /\ S \cap rest = {} /\ S \cup rest = Agents
      BY <2>2, FS_Subset
    <3>3. Total(costs', S) = 0
      <4>1. Agree(costs', [a \in Agents |-> 0], S)
        BY <2>2, <2>4 DEF Agree
      <4>2. Total(costs', S) = Total([a \in Agents |-> 0], S)
        BY <3>2, <4>1, TotalSame
      <4> QED
        BY <2>2, <3>2, <4>2, TotalZero
    <3>4. Agree(costs, costs', rest \ {p})
      BY <2>4 DEF Agree
    <3>5. Total(costs', rest) = Total(costs, rest) - costs[p] + costs'[p]
      <4>1. rest \in SUBSET Agents
        OBVIOUS
      <4> HIDE DEF rest
      <4> QED
        BY <2>2, <2>3, <3>2, <3>4, <4>1, TotalChange
    <3>6. rest \in SUBSET Agents
      OBVIOUS
    <3> HIDE DEF rest
    <3>7. Total(costs, Agents) = Total(costs, S) + Total(costs, rest)
      BY <2>2, <2>3, <3>2, <3>6, TotalUnion
    <3>8. Total(costs', Agents) = Total(costs', S) + Total(costs', rest)
      BY <2>2, <2>3, <3>2, <3>6, TotalUnion
    <3>9. Total(costs, rest) \in Int /\ Total(costs, S) \in Int /\ costs[p] \in Int
      BY <2>2, <2>3, <3>2, <3>6, TotalType
    <3>10. Total(costs', Agents) = incurred
      BY <2>4, <3>1, <3>3, <3>5, <3>7, <3>8, <3>9
    <3> QED
      BY <1>1, <3>10, SumsAreTotals
  <2>6. ASSUME NEW j \in Ops, Reading(j), j # i, ~raced'
        PROVE  sum[j] = Total(costs', ids[j])
    <3>1. ~raced /\ ~ Races(i, S \cup {p})
      BY <2>1, <2>6
    <3>2. ids[j] \cap (S \cup {p}) = {}
      BY <2>6, <3>1 DEF Races, Reading
    <3>3. ids[j] \in SUBSET Agents
      BY DEF CostTypeOK
    <3>4. Agree(costs', costs, ids[j])
      BY <2>4, <3>2, <3>3 DEF Agree
    <3>5. IsFiniteSet(ids[j])
      BY <3>3, FS_Subset
    <3>6. sum[j] = Total(costs, ids[j])
      BY <2>6, <3>1, SumsAreTotals DEF ConserveInv, ReadsAreCurrent
    <3> QED
      BY <3>4, <3>5, <3>6, TotalSame
  <2>7. ReadsAreCurrent'
    <3>1. ASSUME NEW j \in Ops, Reading(j)'
          PROVE  /\ op'[j].by \in Agents \ ids'[j]
                 /\ ~raced' => sum'[j] = Total(costs', ids'[j])
      <4>1. j # i /\ Reading(j)
        BY <1>3, <3>1
      <4>2. ~raced' => sum[j] = Total(costs', ids[j])
        BY <2>6, <4>1
      <4>3. op[j].by \in Agents \ ids[j]
        BY <4>1 DEF ConserveInv, ReadsAreCurrent
      <4> QED
        BY <1>1, <4>2, <4>3
    <3> QED
      BY <3>1, SumsAreTotals DEF ReadsAreCurrent
  <2> QED
    BY <2>5, <2>7 DEF ConserveInv, CostsConservedUnlessRaced
<1> QED
  BY <1>4, <1>5

\* A new row races the transactions that have read the agent's rows.
LEMMA RecordConserves ==
    ASSUME TypeInv, CostTypeOK, ConserveInv, [Next]_vars, NEW a \in Agents, RecordCost(a)
    PROVE  ConserveInv'
<1>1. /\ UNCHANGED <<op, stage, ids, sum>>
      /\ incurred' = incurred + 1 /\ costs' = [costs EXCEPT ![a] = @ + 1]
      /\ raced' = (raced \/ Races(0, {a}))
  BY DEF RecordCost
<1>2. costs \in [Agents -> Int] /\ costs' \in [Agents -> Int] /\ incurred \in Nat
  BY <1>1 DEF CostTypeOK
<1>3. costs'[a] = costs[a] + 1 /\ \A b \in Agents \ {a} : costs'[b] = costs[b]
  BY <1>1, <1>2
<1>4. Agents \in SUBSET Agents /\ IsFiniteSet(Agents) /\ Agree(costs, costs', Agents \ {a})
  BY <1>3 DEF Agree
<1>5. Total(costs', Agents) = Total(costs, Agents) - costs[a] + costs'[a]
  BY <1>2, <1>4, TotalChange
<1>6. Total(costs, Agents) \in Int /\ costs[a] \in Int
  BY <1>2, <1>4, TotalType
<1>7. Total(costs', Agents) = Total(costs, Agents) + 1
  BY <1>3, <1>5, <1>6
<1>8. CostsConservedUnlessRaced'
  BY <1>1, <1>7, SumsAreTotals DEF ConserveInv, CostsConservedUnlessRaced
<1>9. ASSUME NEW j \in Ops, Reading(j)
      PROVE  /\ op[j].by \in Agents \ ids[j]
             /\ ~raced' => sum[j] = Total(costs', ids[j])
  <2>1. SUFFICES ASSUME ~raced' PROVE sum[j] = Total(costs', ids[j])
    BY <1>9 DEF ConserveInv, ReadsAreCurrent
  <2>2. ~raced /\ ~ Races(0, {a})
    BY <1>1, <2>1
  <2>3. a \notin ids[j]
    BY <1>9, <2>2 DEF Races, Reading, Ops
  <2>4. ids[j] \in SUBSET Agents
    BY DEF CostTypeOK
  <2>5. Agree(costs', costs, ids[j]) /\ IsFiniteSet(ids[j])
    BY <1>3, <2>3, <2>4, FS_Subset DEF Agree
  <2>6. sum[j] = Total(costs, ids[j])
    BY <1>9, <2>2, SumsAreTotals DEF ConserveInv, ReadsAreCurrent
  <2> QED
    BY <2>5, <2>6, TotalSame
<1>10. ReadsAreCurrent'
  BY <1>1, <1>9, SumsAreTotals DEF ReadsAreCurrent, Reading, At
<1> QED
  BY <1>8, <1>10 DEF ConserveInv

\* Initially there are no costs.
LEMMA InitConserves == Init => ConserveInv
<1> SUFFICES ASSUME Init PROVE ConserveInv
  OBVIOUS
<1>1. ReadsAreCurrent
  BY DEF Init, ReadsAreCurrent, Reading, At
<1>2. costs = [a \in Agents |-> 0] /\ incurred = 0
  BY DEF Init
<1>3. Total(costs, Agents) = 0
  BY <1>2, TotalZero
<1>4. CostsConservedUnlessRaced
  BY <1>2, <1>3, SumsAreTotals DEF CostsConservedUnlessRaced
<1> QED
  BY <1>1, <1>4 DEF ConserveInv

\* Costs are conserved by every step.
LEMMA ConservationPreserved ==
    TypeInv /\ CostTypeOK /\ InheritInv /\ TreeInv /\ ConserveInv /\ [Next]_vars => ConserveInv'
<1> SUFFICES ASSUME TypeInv, CostTypeOK, InheritInv, TreeInv, ConserveInv, [Next]_vars
             PROVE  ConserveInv'
  OBVIOUS
<1>1. CASE \E j \in Ops : SelectCosts(j)
  BY <1>1, SelectConserves
<1>2. CASE \E j \in Ops : CommitAbsorption(j)
  BY <1>2, CommitConserves
<1>3. CASE \E a \in Agents : RecordCost(a)
  BY <1>3, RecordConserves
<1>4. CASE /\ \A j \in Ops : ~SelectCosts(j) /\ ~CommitAbsorption(j)
           /\ \A a \in Agents : ~RecordCost(a)
  <2>1. ASSUME NEW a \in Agents, AgentStep(a)
        PROVE  UNCHANGED <<ids, sum, costs, incurred, raced>>
    <3>1. TakeAction(a) \/ TakeBatch(a) => UNCHANGED <<ids, sum, costs, incurred, raced>>
      BY DEF TakeAction, TakeBatch
    <3> QED
      BY <1>4, <2>1, <3>1, HandlersTouchNoCosts DEF AgentStep
  <2>2. ASSUME NEW i \in Ops, OpStep(i)
        PROVE  UNCHANGED <<ids, sum, costs, incurred, raced>>
    BY <1>4, <2>2, OpsTouchNoCosts
  <2>3. EditStep \/ UNCHANGED vars => UNCHANGED <<ids, sum, costs, incurred, raced>>
    BY DEF EditStep, BeginEdit, SendEdit, HandleUpdateBudgetData, vars
  <2>4. UNCHANGED <<ids, sum, costs, incurred, raced>>
    BY <2>1, <2>2, <2>3 DEF Next
  <2> QED
    BY <1>4, <2>4, ConservedUntouched
<1> QED
  BY <1>1, <1>2, <1>3, <1>4

\* Absorbing costs neither loses nor duplicates one unless the rows changed
\* between the transaction's SELECT and its DELETE (cost_transaction.ex:24), for
\* any tree, any costs and any number of dismissals at work at once.
THEOREM CostsConservedByAbsorption == Spec => []CostsConservedUnlessRaced
<1> DEFINE Inv == TypeInv /\ CostTypeOK /\ InheritInv /\ TreeInv /\ ConserveInv
<1>1. Init => Inv
  <2>1. Init => TreeInv
    BY DEF Init, TreeInv, SpawnOrder, OwnChild
  <2> QED
    BY <2>1, InitTypes, InitCostTypes, InitInherits, InitConserves
<1>2. Inv /\ [Next]_vars => Inv'
  BY TypesPreserved, CostTypesPreserved, InheritancePreserved, TreePreserved, ConservationPreserved
<1>3. Inv => CostsConservedUnlessRaced
  BY DEF ConserveInv
<1> QED
  BY <1>1, <1>2, <1>3, PTL DEF Spec

-----------------------------------------------------------------------------
(* How an action and its reply may move *)

\* The stages an action of each kind goes through
KindStages(kind) ==
    CASE kind = "spawn" -> {"dispatched", "rejected", "starting", "started", "failed", "done"}
      [] kind = "adjust" -> {"dispatched", "rejected", "calling", "done"}
      [] kind = "dismiss" -> {"dispatched", "rejected", "asked", "known", "selected", "absorbed",
                              "failed", "releasing", "released", "done"}

StageOK(i) ==
    /\ stage[i] \in KindStages(op[i].kind)
    /\ op[i].batched => reply[i] \in {"none", "ready"}
    /\ op[i].kind # "dismiss" /\ stage[i] \in {"dispatched", "calling"} => reply[i] = "none"

ReplyInv ==
    /\ \A i \in Ops \ DOMAIN op : stage[i] = "none" /\ reply[i] = "none"
    /\ \A i \in DOMAIN op : StageOK(i)

\* A message names an action that is still where its handler expects it
Due(a, m) ==
    LET i == m.id
    IN  /\ m.type = "result" => op[i].by = a /\ reply[i] = "sent" /\ ~op[i].batched
        /\ m.type = "adjust" => op[i].by = a /\ stage[i] = "calling"
        /\ m.type = "set_allocated" => op[i].child = a /\ stage[i] = "done"
        /\ m.type = "get_state" => op[i].child = a /\ stage[i] = "asked"
        /\ m.type = "release" => op[i].by = a /\ stage[i] = "releasing"
        /\ m.type \in {"child_spawned", "child_dismissed"} => op[i].by = a /\ stage[i] = "done"
        /\ m.type = "spawn_failed" => op[i].by = a /\ stage[i] = "failed"
        /\ m.type = "update_budget_data" => a = Root

MessageTypes == {"result", "child_spawned", "spawn_failed", "adjust", "set_allocated",
                 "get_state", "release", "child_dismissed"}

Contents(s) == {s[k] : k \in DOMAIN s}
Distinct(s) == \A k, l \in DOMAIN s : s[k] = s[l] => k = l

\* The dead have no messages, and no message is delivered twice
MailInv ==
    \A a \in Agents :
        /\ mailbox[a] # <<>> => a \in alive
        /\ \A m \in Contents(mailbox[a]) : Due(a, m)
        /\ Distinct(mailbox[a])

FlowInv == ReplyInv /\ MailInv

Moves(i, from, to) == stage[i] = from /\ stage'[i] = to

ReplyStays(i) == reply'[i] = reply[i]
ReplyReady(i) == reply'[i] = IF reply[i] = "none" THEN "ready" ELSE reply[i]
ReplySent(i)  == reply'[i] = "sent" /\ ~op[i].batched

\* One step of an action, its reply or its background task
Moved1(i) ==
    \/ /\ Moves(i, "dispatched", "rejected")
       /\ ReplyStays(i) \/ (ReplySent(i) /\ reply[i] = "none")
    \/ ReplySent(i) /\ reply[i] = "ready" /\ stage'[i] = stage[i]
    \/ /\ op[i].kind = "dismiss" /\ ReplySent(i) /\ reply[i] = "none"
       /\ stage[i] = "dispatched" /\ stage'[i] = stage[i]
    \/ /\ op[i].kind = "spawn"
       /\ \/ Moves(i, "dispatched", "starting") /\ ReplyReady(i)
          \/ Moves(i, "starting", "started") /\ ReplyStays(i)
          \/ Moves(i, "starting", "failed") /\ ReplyStays(i)
          \/ Moves(i, "started", "failed") /\ ReplyStays(i)
          \/ Moves(i, "started", "done") /\ ReplyStays(i)
    \/ op[i].kind = "adjust" /\ Moves(i, "dispatched", "calling") /\ ReplyStays(i)
    \/ /\ op[i].kind = "dismiss"
       /\ \/ Moves(i, "dispatched", "asked") /\ ReplyReady(i)
          \/ Moves(i, "dispatched", "done") /\ ReplyReady(i)
          \/ /\ ReplyStays(i)
             /\ \/ Moves(i, "asked", "known") /\ op[i].child \notin alive
                \/ Moves(i, "known", "selected")
                \/ Moves(i, "selected", "absorbed")
                \/ Moves(i, "selected", "failed")
                \/ Moves(i, "absorbed", "releasing")
                \/ Moves(i, "absorbed", "released")
                \/ Moves(i, "releasing", "done") /\ op[i].by \notin alive
                \/ Moves(i, "released", "done")

\* The step in which a handler takes the message it is due
MovedByMessage(i, type) ==
    \/ type = "result" /\ reply'[i] = "handled" /\ stage'[i] = stage[i]
    \/ type = "adjust" /\ stage'[i] = "done" /\ ReplyReady(i)
    \/ type = "get_state" /\ stage'[i] = "known" /\ ReplyStays(i)
    \/ type = "release" /\ stage'[i] = "released" /\ ReplyStays(i)
    \/ /\ type \in {"child_spawned", "spawn_failed", "set_allocated", "child_dismissed"}
       /\ stage'[i] = stage[i] /\ ReplyStays(i)

OthersStay(i) ==
    /\ op' = op
    /\ \A j \in Ops \ {i} : stage'[j] = stage[j] /\ reply'[j] = reply[j]

Handlers(a) ==
    \/ HandleResult(a) \/ HandleChildSpawned(a) \/ HandleSpawnFailed(a)
    \/ HandleAdjust(a) \/ HandleSetAllocated(a)
    \/ HandleGetState(a) \/ HandleRelease(a) \/ HandleChildDismissed(a)

\* Every step of an action is one of those.
LEMMA OpMoves ==
    ASSUME TypeInv, NEW i \in Ops, OpStep(i)
    PROVE  i \in DOMAIN op /\ OthersStay(i) /\ Moved1(i)
<1>1. i \in DOMAIN op /\ op' = op
  <2>1. op' = op
    BY OpsTouchNoCosts DEF SelectCosts, CommitAbsorption
  <2>2. i \in DOMAIN op
    BY DEF OpStep, RejectAction, CastReply, AcknowledgeDismiss, ExecuteSpawn, StartChild,
           FailSpawn, AnnounceChild, ExecuteAdjust, ExecuteDismiss, GetStateExits, SelectCosts,
           CommitAbsorption, AbsorptionFails, TerminateSubtree, FinishDismissal, At
  <2> QED
    BY <2>1, <2>2
<1>2. stage \in [Ops -> Stages] /\ reply \in [Ops -> Replies]
  BY DEF TypeInv, LedgerTypeOK
<1>3. \A to : Goes(i, to) => stage'[i] = to /\ \A j \in Ops \ {i} : stage'[j] = stage[j]
  BY <1>2 DEF Goes
<1>4. Replied(i) => ReplyReady(i) /\ \A j \in Ops \ {i} : reply'[j] = reply[j]
  BY <1>2 DEF Replied, ReplyReady
<1>5. Answer(i) => reply'[i] = "sent" /\ \A j \in Ops \ {i} : reply'[j] = reply[j]
  BY <1>2 DEF Answer
<1>6. reply' = reply => ReplyStays(i) /\ \A j \in Ops \ {i} : reply'[j] = reply[j]
  BY DEF ReplyStays
<1>7. stage' = stage => stage'[i] = stage[i] /\ \A j \in Ops \ {i} : stage'[j] = stage[j]
  OBVIOUS
<1> HIDE DEF Goes, Replied, Answer, ReplyReady, ReplyStays
<1>8. CASE RejectAction(i)
  <2>1. Moves(i, "dispatched", "rejected") /\ \A j \in Ops \ {i} : stage'[j] = stage[j]
    BY <1>3, <1>8 DEF RejectAction, Moves
  <2>2. \/ reply' = reply
        \/ ~op[i].batched /\ reply[i] = "none" /\ Answer(i)
    BY <1>8 DEF RejectAction
  <2>3. /\ ReplyStays(i) \/ (ReplySent(i) /\ reply[i] = "none")
        /\ \A j \in Ops \ {i} : reply'[j] = reply[j]
    <3>1. CASE reply' = reply
      BY <3>1 DEF ReplyStays, ReplySent
    <3>2. CASE ~op[i].batched /\ reply[i] = "none" /\ Answer(i)
      BY <1>5, <3>2 DEF ReplySent
    <3> QED
      BY <2>2, <3>1, <3>2
  <2> QED
    BY <1>1, <2>1, <2>3 DEF OthersStay, Moved1
<1>9. CASE CastReply(i)
  BY <1>1, <1>5, <1>7, <1>9 DEF CastReply, OthersStay, Moved1, ReplySent
<1>10. CASE AcknowledgeDismiss(i)
  BY <1>1, <1>5, <1>7, <1>10 DEF AcknowledgeDismiss, At, OthersStay, Moved1, ReplySent
<1>11. CASE ExecuteSpawn(i)
  BY <1>1, <1>3, <1>4, <1>11 DEF ExecuteSpawn, At, OthersStay, Moved1, Moves
<1>12. CASE StartChild(i) \/ FailSpawn(i) \/ AnnounceChild(i)
  BY <1>1, <1>3, <1>6, <1>12 DEF StartChild, FailSpawn, AnnounceChild, At, OthersStay, Moved1, Moves
<1>13. CASE ExecuteAdjust(i)
  BY <1>1, <1>3, <1>6, <1>13 DEF ExecuteAdjust, At, OthersStay, Moved1, Moves
<1>14. CASE ExecuteDismiss(i)
  BY <1>1, <1>3, <1>4, <1>14 DEF ExecuteDismiss, At, OthersStay, Moved1, Moves
<1>15. CASE GetStateExits(i) \/ SelectCosts(i) \/ CommitAbsorption(i) \/ AbsorptionFails(i)
  BY <1>1, <1>3, <1>6, <1>15
     DEF GetStateExits, SelectCosts, CommitAbsorption, AbsorptionFails, At, OthersStay, Moved1, Moves
<1>16. CASE TerminateSubtree(i) \/ FinishDismissal(i)
  BY <1>1, <1>3, <1>6, <1>16 DEF TerminateSubtree, FinishDismissal, At, OthersStay, Moved1, Moves
<1> QED
  BY <1>8, <1>9, <1>10, <1>11, <1>12, <1>13, <1>14, <1>15, <1>16 DEF OpStep

\* Every handler takes a message about an action that is where it is expected.
LEMMA HandlerMoves ==
    ASSUME TypeInv, MailInv, NEW a \in Agents, Handlers(a)
    PROVE  \E i \in DOMAIN op, type \in MessageTypes :
               /\ Receives(a, type) /\ Head(mailbox[a]) = Msg(type, i)
               /\ op[i].kind \in About(type) /\ Due(a, Msg(type, i))
               /\ OthersStay(i) /\ MovedByMessage(i, type)
<1>1. PICK i : i = Head(mailbox[a]).id
  OBVIOUS
<1>2. ASSUME NEW type, type # "update_budget_data", Receives(a, type)
      PROVE  /\ i \in DOMAIN op /\ i \in Ops
             /\ Head(mailbox[a]) = Msg(type, i)
             /\ op[i].kind \in About(type) /\ Due(a, Msg(type, i))
  <2>1. i \in DOMAIN op /\ op[i].kind \in About(type) /\ Head(mailbox[a]) \in Messages
    BY <1>1, <1>2, ReceivedType DEF TypeInv
  <2>2. Head(mailbox[a]) = Msg(type, i)
    BY <1>1, <1>2, <2>1 DEF Messages, Msg, Receives
  <2>3. Head(mailbox[a]) = mailbox[a][1] /\ 1 \in DOMAIN mailbox[a]
    <3>1. mailbox[a] \in Seq(Messages) /\ mailbox[a] # <<>>
      BY <1>2 DEF Receives, TypeInv, LedgerTypeOK
    <3> QED
      BY <3>1
  <2>4. Due(a, Head(mailbox[a]))
    BY <2>3 DEF MailInv, Contents
  <2> QED
    BY <2>1, <2>2, <2>4, TakenOps
<1>3. stage \in [Ops -> Stages] /\ reply \in [Ops -> Replies]
  BY DEF TypeInv, LedgerTypeOK
<1>4. i \in Ops =>
          /\ \A to : Goes(i, to) => stage'[i] = to /\ \A j \in Ops \ {i} : stage'[j] = stage[j]
          /\ Replied(i) => ReplyReady(i) /\ \A j \in Ops \ {i} : reply'[j] = reply[j]
  BY <1>3 DEF Goes, Replied, ReplyReady
<1>5. reply' = reply => ReplyStays(i) /\ \A j \in Ops \ {i} : reply'[j] = reply[j]
  BY DEF ReplyStays
<1>6. CASE HandleResult(a)
  <2>1. Receives(a, "result") /\ i \in Ops
    BY <1>2, <1>6 DEF HandleResult
  <2>2. reply'[i] = "handled" /\ \A j \in Ops \ {i} : reply'[j] = reply[j]
    BY <1>1, <1>3, <1>6, <2>1 DEF HandleResult
  <2>3. op' = op /\ stage' = stage
    BY <1>6 DEF HandleResult
  <2> QED
    BY <1>2, <2>1, <2>2, <2>3 DEF OthersStay, MovedByMessage, MessageTypes
<1>7. CASE HandleAdjust(a)
  <2>1. Receives(a, "adjust") /\ op' = op /\ Replied(i) /\ Goes(i, "done")
    BY <1>1, <1>7 DEF HandleAdjust
  <2> QED
    BY <1>2, <1>4, <2>1 DEF OthersStay, MovedByMessage, MessageTypes
<1>8. CASE HandleGetState(a)
  <2>1. Receives(a, "get_state") /\ op' = op /\ reply' = reply /\ Goes(i, "known")
    BY <1>1, <1>8 DEF HandleGetState
  <2> QED
    BY <1>2, <1>4, <1>5, <2>1 DEF OthersStay, MovedByMessage, MessageTypes
<1>9. CASE HandleRelease(a)
  <2>1. Receives(a, "release") /\ op' = op /\ reply' = reply /\ Goes(i, "released")
    BY <1>1, <1>9 DEF HandleRelease
  <2> QED
    BY <1>2, <1>4, <1>5, <2>1 DEF OthersStay, MovedByMessage, MessageTypes
<1>10. CASE HandleChildSpawned(a) \/ HandleSpawnFailed(a) \/ HandleSetAllocated(a)
            \/ HandleChildDismissed(a)
  <2>1. PICK type \in {"child_spawned", "spawn_failed", "set_allocated", "child_dismissed"} :
            Receives(a, type)
    BY <1>10 DEF HandleChildSpawned, HandleSpawnFailed, HandleSetAllocated, HandleChildDismissed
  <2>2. op' = op /\ reply' = reply /\ stage' = stage
    BY <1>10 DEF HandleChildSpawned, HandleSpawnFailed, HandleSetAllocated, HandleChildDismissed
  <2> QED
    BY <1>2, <1>5, <2>1, <2>2 DEF OthersStay, MovedByMessage, MessageTypes
<1> QED
  BY <1>6, <1>7, <1>8, <1>9, <1>10 DEF Handlers

\* Taking the head of a mailbox without duplicates, and adding a new message.
LEMMA BoxContents ==
    ASSUME NEW S, NEW s \in Seq(S), Distinct(s)
    PROVE  /\ s # <<>> => Distinct(Tail(s)) /\ Contents(Tail(s)) = Contents(s) \ {Head(s)}
           /\ \A e \in S : Contents(Append(s, e)) = Contents(s) \cup {e}
           /\ \A e \in S : e \notin Contents(s) => Distinct(Append(s, e))
           /\ Contents(s) \subseteq S
<1>1. DOMAIN s = 1..Len(s) /\ Len(s) \in Nat /\ \A k \in DOMAIN s : s[k] \in S
  OBVIOUS
<1>2. ASSUME s # <<>>
      PROVE  Distinct(Tail(s)) /\ Contents(Tail(s)) = Contents(s) \ {Head(s)}
  <2>1. /\ DOMAIN Tail(s) = 1..(Len(s) - 1) /\ Len(s) >= 1 /\ Head(s) = s[1]
        /\ \A k \in 1..(Len(s) - 1) : Tail(s)[k] = s[k + 1]
    BY <1>2
  <2>2. \A k \in 1..(Len(s) - 1) : k + 1 \in DOMAIN s /\ k + 1 # 1
    BY <1>1
  <2>3. \A k \in DOMAIN s : k # 1 => k - 1 \in 1..(Len(s) - 1) /\ (k - 1) + 1 = k
    BY <1>1
  <2>4. Distinct(Tail(s))
    <3>1. ASSUME NEW k \in 1..(Len(s) - 1), NEW l \in 1..(Len(s) - 1), Tail(s)[k] = Tail(s)[l]
          PROVE  k = l
      <4>1. s[k + 1] = s[l + 1]
        BY <2>1, <3>1
      <4>2. k + 1 = l + 1
        BY <2>2, <4>1 DEF Distinct
      <4> QED
        BY <4>2
    <3> QED
      BY <2>1, <3>1 DEF Distinct
  <2>5. ASSUME NEW e \in Contents(Tail(s)) PROVE e \in Contents(s) \ {Head(s)}
    <3>1. PICK k \in 1..(Len(s) - 1) : e = s[k + 1]
      BY <2>1, <2>5 DEF Contents
    <3>2. k + 1 \in DOMAIN s /\ k + 1 # 1 /\ 1 \in DOMAIN s
      BY <1>1, <2>1, <2>2
    <3>3. e # s[1]
      BY <3>1, <3>2 DEF Distinct
    <3> QED
      BY <2>1, <3>1, <3>2, <3>3 DEF Contents
  <2>6. ASSUME NEW e \in Contents(s), e # Head(s) PROVE e \in Contents(Tail(s))
    <3>1. PICK k \in DOMAIN s : e = s[k]
      BY DEF Contents
    <3>2. k # 1
      BY <2>1, <2>6, <3>1
    <3>3. k - 1 \in 1..(Len(s) - 1) /\ Tail(s)[k - 1] = s[k]
      BY <2>1, <2>3, <3>2
    <3> QED
      BY <2>1, <3>1, <3>3 DEF Contents
  <2> QED
    BY <2>4, <2>5, <2>6
<1>3. ASSUME NEW e \in S
      PROVE  /\ Contents(Append(s, e)) = Contents(s) \cup {e}
             /\ e \notin Contents(s) => Distinct(Append(s, e))
  <2>1. /\ DOMAIN Append(s, e) = 1..(Len(s) + 1)
        /\ \A k \in DOMAIN s : Append(s, e)[k] = s[k]
        /\ Append(s, e)[Len(s) + 1] = e
    BY <1>1, AppendElements
  <2>2. DOMAIN Append(s, e) = DOMAIN s \cup {Len(s) + 1}
    BY <1>1, AppendElements
  <2>3. Contents(Append(s, e)) = Contents(s) \cup {e}
    BY <2>1, <2>2 DEF Contents
  <2>4. e \notin Contents(s) => Distinct(Append(s, e))
    BY <2>1, <2>2 DEF Contents, Distinct
  <2> QED
    BY <2>3, <2>4
<1>4. Contents(s) \subseteq S
  BY <1>1 DEF Contents
<1> QED
  BY <1>2, <1>3, <1>4

\* While an action moves on, the messages about it and about others stay due.
LEMMA DueStays ==
    ASSUME NEW i \in Ops, OthersStay(i), Moved1(i), NEW a \in alive, NEW m \in Messages,
           TypeInv, Due(a, m)
    PROVE  Due(a, m)'
<1>1. op' = op
  BY DEF OthersStay
<1>2. m.type # "update_budget_data" => m.id \in Ops
  BY TakenOps DEF Messages
<1>3. CASE m.id # i
  BY <1>1, <1>2, <1>3 DEF Due, OthersStay
<1>4. CASE m.id = i
  <2>1. reply[i] = "sent" => reply'[i] = "sent"
    BY DEF Moved1, ReplyStays, ReplyReady, ReplySent
  <2>2. stage[i] \in {"calling", "done", "failed"} => stage'[i] = stage[i]
    BY DEF Moved1, Moves
  <2>3. op[i].child \in alive /\ stage[i] = "asked" => stage'[i] = stage[i]
    BY DEF Moved1, Moves
  <2>4. op[i].by \in alive /\ stage[i] = "releasing" => stage'[i] = stage[i]
    BY DEF Moved1, Moves
  <2> QED
    BY <1>1, <1>4, <2>1, <2>2, <2>3, <2>4 DEF Due
<1> QED
  BY <1>3, <1>4

\* While a message is handled, every other message stays due.
LEMMA DueStaysHandled ==
    ASSUME NEW i \in Ops, NEW type, OthersStay(i), MovedByMessage(i, type),
           NEW b, Due(b, Msg(type, i)), NEW a, NEW m \in Messages, TypeInv, Due(a, m),
           ~(a = b /\ m = Msg(type, i))
    PROVE  Due(a, m)'
<1>1. op' = op
  BY DEF OthersStay
<1>2. m.type # "update_budget_data" => m.id \in Ops
  BY TakenOps DEF Messages
<1>3. CASE m.id # i
  BY <1>1, <1>2, <1>3 DEF Due, OthersStay
<1>4. CASE m.id = i
  <2>1. m.type = type => m = Msg(type, i)
    BY <1>4 DEF Messages, Msg
  <2>2. Msg(type, i).type = type /\ Msg(type, i).id = i
    BY DEF Msg
  <2>3. CASE m.type # type
    BY <1>1, <1>4, <2>2, <2>3 DEF Due, MovedByMessage, ReplyStays, ReplyReady
  <2>4. CASE m.type = type
    BY <1>1, <1>4, <2>1, <2>2, <2>4 DEF Due, MovedByMessage, ReplyStays, ReplyReady
  <2> QED
    BY <2>3, <2>4
<1> QED
  BY <1>3, <1>4

-----------------------------------------------------------------------------
(* Taking actions *)

NewOps == DOMAIN op' \ DOMAIN op

\* What an agent takes, it takes alone or in a batch, and it comes last
Takes(a) ==
    /\ a \in alive /\ busy[a] = 0
    /\ UNCHANGED <<treeVars, ledgerVars, mailbox, reply, workVars, costVars, editVars>>
    /\ \A i \in DOMAIN op : i \in DOMAIN op' /\ op'[i] = op[i] /\ stage'[i] = stage[i]
    /\ \A i \in NewOps :
          /\ i \in Ops /\ stage'[i] = "dispatched"
          /\ op'[i].by = a /\ op'[i].snap = Snapshot(a) /\ op'[i].kind \in Kinds
          /\ op'[i].kind = "spawn" => ~IsSpawned(op'[i].child)
          /\ op'[i].kind # "spawn" => op'[i].child \in ChildrenOf(a)
          /\ op'[i].batched \/ (busy'[a] = i /\ \A j \in DOMAIN op' : j <= i)
          /\ \A j \in DOMAIN op : j < i
    /\ \A i \in Ops \ DOMAIN op' : stage'[i] = stage[i]
    /\ \A b \in Agents \ {a} : busy'[b] = busy[b]

\* Both ways of taking actions are of that form.
LEMMA WhatIsTaken ==
    ASSUME TypeInv, NEW a \in Agents, TakeAction(a) \/ TakeBatch(a)
    PROVE  Takes(a)
<1>1. PICK first \in Options(a), second \in Options(a), batched \in BOOLEAN :
          \/ TakeAction(a) /\ ~batched /\ op' = Append(op, NewOp(a, first, batched))
          \/ /\ TakeBatch(a) /\ batched
             /\ \/ op' = op \o <<NewOp(a, first, batched)>>
                \/ op' = op \o <<NewOp(a, first, batched), NewOp(a, second, batched)>>
  <2>1. CASE TakeAction(a)
    BY <2>1 DEF TakeAction
  <2>2. CASE TakeBatch(a)
    BY <2>2 DEF TakeBatch
  <2> QED
    BY <2>1, <2>2
<1> DEFINE x == NewOp(a, first, batched)
           y == NewOp(a, second, batched)
<1>2. /\ Len(op) \in Nat /\ DOMAIN op = 1..Len(op) /\ DOMAIN op' = 1..Len(op') /\ Len(op') \in Nat
      /\ \A i \in DOMAIN op : i \in DOMAIN op' /\ op'[i] = op[i]
      /\ \A i \in NewOps : op'[i] \in {x, y}
      /\ NewOps \subseteq {Len(op) + 1, Len(op) + 2}
      /\ op' = Append(op, x) => NewOps = {Len(op) + 1}
  <2> HIDE DEF x, y
  <2> QED
    BY <1>1, TakenAtTheEnd DEF x, y, NewOps
<1>3. \A o \in {x, y} :
          /\ o.by = a /\ o.snap = Snapshot(a) /\ o.kind \in Kinds /\ o.batched = batched
          /\ o.kind = "spawn" => ~IsSpawned(o.child)
          /\ o.kind # "spawn" => o.child \in ChildrenOf(a)
  <2>1. ASSUME NEW choice \in Options(a)
        PROVE  /\ choice.kind \in Kinds
               /\ choice.kind = "spawn" => ~IsSpawned(choice.child)
               /\ choice.kind # "spawn" => choice.child \in ChildrenOf(a)
    BY DEF Options, Kinds
  <2>2. ASSUME NEW choice \in Options(a)
        PROVE  LET o == NewOp(a, choice, batched)
               IN  /\ o.by = a /\ o.snap = Snapshot(a) /\ o.kind \in Kinds /\ o.batched = batched
                   /\ o.kind = "spawn" => ~IsSpawned(o.child)
                   /\ o.kind # "spawn" => o.child \in ChildrenOf(a)
    BY <2>1 DEF NewOp
  <2> QED
    BY <2>2
<1> HIDE DEF x, y
<1>4. Len(op') <= MaxOps
  BY DEF TakeAction, TakeBatch, FitsOps
<1>5. DOMAIN op' \subseteq Ops
  <2>1. Len(op') \in Nat /\ DOMAIN op' = 1..Len(op')
    BY <1>2
  <2> QED
    BY <1>4, <2>1 DEF Ops
<1>6. \A i \in NewOps : \A j \in DOMAIN op : j < i
  <2>1. Len(op) \in Nat /\ DOMAIN op = 1..Len(op) /\ NewOps \subseteq {Len(op) + 1, Len(op) + 2}
    BY <1>2
  <2> QED
    BY <2>1
<1>7. /\ a \in alive /\ busy[a] = 0
      /\ UNCHANGED <<treeVars, ledgerVars, mailbox, reply, workVars, costVars, editVars>>
  BY DEF TakeAction, TakeBatch
<1>8. stage \in [Ops -> Stages] /\ busy \in [Agents -> {0} \cup DOMAIN op]
  BY DEF TypeInv, LedgerTypeOK
<1>9. CASE TakeAction(a) /\ ~batched /\ op' = Append(op, x)
  <2>1. NewOps = {Len(op) + 1} /\ Len(op) + 1 \in Ops
    BY <1>2, <1>5, <1>9 DEF NewOps
  <2>2. /\ stage' = [stage EXCEPT ![Len(op) + 1] = "dispatched"]
        /\ busy' = [busy EXCEPT ![a] = Len(op) + 1]
    BY <1>9 DEF TakeAction
  <2>3. \A i \in NewOps : stage'[i] = "dispatched" /\ busy'[a] = i /\ \A j \in DOMAIN op' : j <= i
    <3>1. \A j \in DOMAIN op' : j \in DOMAIN op \/ j = Len(op) + 1
      BY <2>1 DEF NewOps
    <3> QED
      BY <1>2, <1>8, <2>1, <2>2, <3>1
  <2>4. \A i \in Ops \ NewOps : stage'[i] = stage[i]
    BY <1>8, <2>1, <2>2
  <2>5. \A b \in Agents \ {a} : busy'[b] = busy[b]
    BY <1>8, <2>2
  <2> QED
    BY <1>2, <1>3, <1>5, <1>6, <1>7, <2>3, <2>4, <2>5 DEF Takes, NewOps
<1>10. CASE TakeBatch(a) /\ batched
  <2>1. /\ stage' = [i \in Ops |-> IF i \in NewOps THEN "dispatched" ELSE stage[i]]
        /\ busy' = busy
    BY <1>10 DEF TakeBatch, NewOps
  <2>2. \A i \in NewOps : i \in Ops /\ stage'[i] = "dispatched" /\ op'[i].batched
    BY <1>2, <1>3, <1>5, <1>10, <2>1 DEF NewOps
  <2>3. \A i \in Ops \ NewOps : stage'[i] = stage[i]
    BY <2>1
  <2> QED
    BY <1>2, <1>3, <1>5, <1>6, <1>7, <2>1, <2>2, <2>3 DEF Takes, NewOps
<1> QED
  BY <1>1, <1>9, <1>10 DEF x

-----------------------------------------------------------------------------
(* Mailboxes *)

\* The mailboxes are good after a step that leaves them as they are in box
Keeps(box) ==
    \A a \in Agents :
        /\ box[a] # <<>> => a \in alive'
        /\ Distinct(box[a])
        /\ \A m \in Contents(box[a]) : Due(a, m)'

\* Good mailboxes stay good, also when one new message is posted.
LEMMA MailMoved ==
    ASSUME TypeInv, NEW box \in [Agents -> Seq(Messages)], Keeps(box),
           \/ mailbox' = box
           \/ \E a \in Agents, m \in Messages :
                 /\ mailbox' = Post(box, a, m)
                 /\ m \notin Contents(box[a])
                 /\ a \in alive => a \in alive' /\ Due(a, m)'
    PROVE  MailInv'
<1>1. CASE mailbox' = box
  BY <1>1 DEF MailInv, Keeps
<1>2. ASSUME NEW a \in Agents, NEW m \in Messages,
             mailbox' = Post(box, a, m), m \notin Contents(box[a]),
             a \in alive, a \in alive', Due(a, m)'
      PROVE  MailInv'
  <2>1. /\ mailbox' = [box EXCEPT ![a] = Append(box[a], m)]
        /\ \A b \in Agents \ {a} : mailbox'[b] = box[b]
        /\ mailbox'[a] = Append(box[a], m)
    BY <1>2 DEF Post
  <2>2. /\ Contents(Append(box[a], m)) = Contents(box[a]) \cup {m}
        /\ Distinct(Append(box[a], m))
    <3>1. box[a] \in Seq(Messages) /\ Distinct(box[a])
      BY DEF Keeps
    <3> QED
      BY <1>2, <3>1, BoxContents
  <2>3. ASSUME NEW b \in Agents
        PROVE  /\ mailbox'[b] # <<>> => b \in alive'
               /\ Distinct(mailbox'[b])
               /\ \A n \in Contents(mailbox'[b]) : Due(b, n)'
    <3>1. CASE b = a
      BY <1>2, <2>1, <2>2, <3>1 DEF Keeps
    <3>2. CASE b # a
      BY <2>1, <3>2 DEF Keeps
    <3> QED
      BY <3>1, <3>2
  <2> QED
    BY <2>3 DEF MailInv
<1>3. ASSUME NEW a, a \notin alive, NEW m, mailbox' = Post(box, a, m) PROVE MailInv'
  <2>1. mailbox' = box
    BY <1>3 DEF Post
  <2> QED
    BY <1>1, <2>1
<1> QED
  BY <1>1, <1>2, <1>3

\* The mailboxes stay good while an action moves on.
LEMMA BoxKept ==
    ASSUME TypeInv, MailInv, NEW i \in Ops, OthersStay(i), Moved1(i), alive \subseteq alive'
    PROVE  Keeps(mailbox)
<1>1. ASSUME NEW a \in Agents
      PROVE  /\ mailbox[a] # <<>> => a \in alive'
             /\ Distinct(mailbox[a])
             /\ \A m \in Contents(mailbox[a]) : Due(a, m)'
  <2>1. Distinct(mailbox[a]) /\ (mailbox[a] # <<>> => a \in alive)
    BY DEF MailInv
  <2>2. ASSUME NEW m \in Contents(mailbox[a]) PROVE Due(a, m)'
    <3>1. a \in alive
      BY <2>1, <2>2 DEF Contents
    <3>2. mailbox[a] \in Seq(Messages)
      BY DEF TypeInv, LedgerTypeOK
    <3>3. m \in Messages /\ Due(a, m)
      BY <2>1, <2>2, <3>2, BoxContents DEF MailInv
    <3> QED
      BY <3>1, <3>3, DueStays
  <2> QED
    BY <2>1, <2>2
<1> QED
  BY <1>1 DEF Keeps

\* What a handler leaves in the mailboxes is good.
LEMMA HandledKept ==
    ASSUME TypeInv, MailInv, NEW b \in Agents, NEW i \in Ops, NEW type,
           Receives(b, type), Head(mailbox[b]) = Msg(type, i), Due(b, Msg(type, i)),
           OthersStay(i), MovedByMessage(i, type), alive' = alive
    PROVE  Keeps(Handled(b)) /\ Msg(type, i) \notin Contents(Handled(b)[b])
<1>1. \A a \in Agents : mailbox[a] \in Seq(Messages) /\ Distinct(mailbox[a])
  BY DEF TypeInv, LedgerTypeOK, MailInv
<1>2. mailbox[b] # <<>> /\ b \in alive
  BY DEF Receives
<1>3. /\ Handled(b)[b] = Tail(mailbox[b])
      /\ \A a \in Agents \ {b} : Handled(b)[a] = mailbox[a]
  BY DEF Handled, TypeInv, LedgerTypeOK
<1>4. /\ Distinct(Tail(mailbox[b]))
      /\ Contents(Tail(mailbox[b])) = Contents(mailbox[b]) \ {Msg(type, i)}
  BY <1>1, <1>2, BoxContents
<1>5. ASSUME NEW a \in Agents, NEW m \in Contents(Handled(b)[a])
      PROVE  m \in Messages /\ Due(a, m) /\ ~(a = b /\ m = Msg(type, i))
  <2>1. m \in Contents(mailbox[a]) /\ ~(a = b /\ m = Msg(type, i))
    BY <1>3, <1>4, <1>5
  <2>2. m \in Messages
    BY <1>1, <2>1, BoxContents
  <2> QED
    BY <2>1, <2>2 DEF MailInv
<1>6. ASSUME NEW a \in Agents
      PROVE  /\ Handled(b)[a] # <<>> => a \in alive'
             /\ Distinct(Handled(b)[a])
             /\ \A m \in Contents(Handled(b)[a]) : Due(a, m)'
  <2>1. \A m \in Contents(Handled(b)[a]) : Due(a, m)'
    BY <1>5, DueStaysHandled
  <2>2. Distinct(Handled(b)[a]) /\ (Handled(b)[a] # <<>> => a \in alive')
    BY <1>1, <1>2, <1>3, <1>4 DEF MailInv
  <2> QED
    BY <2>1, <2>2
<1>7. Keeps(Handled(b))
  BY <1>6 DEF Keeps
<1> QED
  BY <1>3, <1>4, <1>7

\* What an action posts is new.
LEMMA OpMail ==
    ASSUME TypeInv, InheritInv, TreeInv, FlowInv, NEW i \in Ops, OpStep(i)
    PROVE  MailInv'
<1>1. i \in DOMAIN op /\ OthersStay(i) /\ Moved1(i) /\ op' = op /\ OpFacts(op[i])
  BY OpMoves, TakenOps DEF OthersStay
<1>2. mailbox \in [Agents -> Seq(Messages)] /\ stage \in [Ops -> Stages] /\ reply \in [Ops -> Replies]
  BY DEF TypeInv, LedgerTypeOK
<1>3. \A a \in Agents : \A m \in Contents(mailbox[a]) : Due(a, m)
  BY DEF FlowInv, MailInv
<1>4. op[i].by \in Agents /\ op[i].child \in Agents
  BY <1>1 DEF OpFacts
<1>5. ASSUME mailbox' = mailbox, alive \subseteq alive'
      PROVE  MailInv'
  BY <1>1, <1>2, <1>5, BoxKept, MailMoved DEF FlowInv
<1>6. ASSUME NEW a \in Agents, NEW m \in Messages, alive' = alive,
             mailbox' = Post(mailbox, a, m), ~Due(a, m), a \in alive => Due(a, m)'
      PROVE  MailInv'
  <2>1. Keeps(mailbox)
    BY <1>1, <1>6, BoxKept DEF FlowInv
  <2>2. m \notin Contents(mailbox[a])
    BY <1>3, <1>6
  <2> QED
    BY <1>2, <1>6, <2>1, <2>2, MailMoved
<1>7. \A type : Msg(type, i).type = type /\ Msg(type, i).id = i
  BY DEF Msg
<1>8. ASSUME Answer(i), ~op[i].batched, reply[i] # "sent", alive' = alive PROVE MailInv'
  <2>1. Msg("result", i) \in Messages
    BY <1>1, MsgType DEF OpFacts
  <2> PICK a : a = op[i].by
    OBVIOUS
  <2>2. ~Due(a, Msg("result", i))
    BY <1>7, <1>8 DEF Due
  <2>3. reply'[i] = "sent"
    BY <1>2, <1>8 DEF Answer
  <2>4. Due(a, Msg("result", i))'
    BY <1>1, <1>4, <1>7, <1>8, <2>3 DEF Due
  <2> QED
    BY <1>4, <1>6, <1>8, <2>1, <2>2, <2>4 DEF Answer
<1>9. \A to : Goes(i, to) => stage'[i] = to
  BY <1>2 DEF Goes
<1>10. CASE RejectAction(i)
  <2>1. alive' = alive
    BY <1>10 DEF RejectAction
  <2>2. \/ mailbox' = mailbox
        \/ Answer(i) /\ ~op[i].batched /\ reply[i] # "sent"
    BY <1>10 DEF RejectAction
  <2> QED
    BY <1>5, <1>8, <2>1, <2>2
<1>11. CASE CastReply(i) \/ AcknowledgeDismiss(i)
  <2>1. Answer(i) /\ ~op[i].batched /\ reply[i] # "sent" /\ alive' = alive
    BY <1>11 DEF CastReply, AcknowledgeDismiss
  <2> QED
    BY <1>8, <2>1
<1>12. CASE ExecuteSpawn(i) \/ StartChild(i) \/ GetStateExits(i) \/ SelectCosts(i)
             \/ CommitAbsorption(i) \/ AbsorptionFails(i)
  <2>1. mailbox' = mailbox /\ alive \subseteq alive'
    BY <1>12 DEF ExecuteSpawn, StartChild, GetStateExits, SelectCosts, CommitAbsorption, AbsorptionFails
  <2> QED
    BY <1>5, <2>1
<1>13. ASSUME NEW type, NEW from, NEW to, NEW a \in {op[i].by, op[i].child},
              Msg(type, i) \in Messages, stage[i] # to, Goes(i, to), alive' = alive,
              mailbox' = Post(mailbox, a, Msg(type, i)),
              \/ type = "spawn_failed" /\ to = "failed" /\ a = op[i].by
              \/ type = "child_spawned" /\ to = "done" /\ a = op[i].by
              \/ type = "adjust" /\ to = "calling" /\ a = op[i].by
              \/ type = "child_dismissed" /\ to = "done" /\ a = op[i].by
              \/ type = "get_state" /\ (a \in alive => to = "asked") /\ a = op[i].child
                 /\ stage[i] # "asked"
       PROVE  MailInv'
  <2>1. ~Due(a, Msg(type, i))
    BY <1>7, <1>13 DEF Due
  <2>2. stage'[i] = to
    BY <1>9, <1>13
  <2>3. a \in alive => Due(a, Msg(type, i))'
    BY <1>1, <1>7, <1>13, <2>2 DEF Due
  <2> QED
    BY <1>4, <1>6, <1>13, <2>1, <2>3
<1>14. CASE FailSpawn(i)
  <2>1. Msg("spawn_failed", i) \in Messages /\ stage[i] # "failed"
    BY <1>1, <1>14, MsgType DEF FailSpawn, At
  <2>2. /\ Goes(i, "failed") /\ alive' = alive
        /\ mailbox' = Post(mailbox, op[i].by, Msg("spawn_failed", i))
    BY <1>14 DEF FailSpawn
  <2> QED
    BY <1>13, <2>1, <2>2
<1>15. CASE AnnounceChild(i)
  <2>1. Msg("child_spawned", i) \in Messages /\ stage[i] # "done"
    BY <1>1, <1>15, MsgType DEF AnnounceChild, At
  <2>2. /\ Goes(i, "done") /\ alive' = alive
        /\ mailbox' = Post(mailbox, op[i].by, Msg("child_spawned", i))
    BY <1>15 DEF AnnounceChild
  <2> QED
    BY <1>13, <2>1, <2>2
<1>16. CASE ExecuteAdjust(i)
  <2>1. Msg("adjust", i) \in Messages /\ stage[i] # "calling"
    BY <1>1, <1>16, MsgType DEF ExecuteAdjust, At
  <2>2. /\ Goes(i, "calling") /\ alive' = alive
        /\ mailbox' = Post(mailbox, op[i].by, Msg("adjust", i))
    BY <1>16 DEF ExecuteAdjust
  <2> QED
    BY <1>13, <2>1, <2>2
<1>17. CASE ExecuteDismiss(i)
  <2>1. Msg("get_state", i) \in Messages /\ stage[i] = "dispatched"
    BY <1>1, <1>17, MsgType DEF ExecuteDismiss, At
  <2>2. PICK to \in {"asked", "done"} :
            /\ Goes(i, to) /\ (op[i].child \in alive => to = "asked") /\ alive' = alive
            /\ mailbox' = Post(mailbox, op[i].child, Msg("get_state", i))
    BY <1>17 DEF ExecuteDismiss
  <2> QED
    BY <1>13, <2>1, <2>2
<1>18. CASE FinishDismissal(i)
  <2>1. Msg("child_dismissed", i) \in Messages /\ stage[i] # "done"
    BY <1>1, <1>18, MsgType DEF FinishDismissal, At
  <2>2. /\ Goes(i, "done") /\ alive' = alive
        /\ mailbox' = Post(mailbox, op[i].by, Msg("child_dismissed", i))
    BY <1>18 DEF FinishDismissal
  <2> QED
    BY <1>13, <2>1, <2>2
<1>19. CASE TerminateSubtree(i)
  <2>1. PICK dead : dead = LiveSubtree(op[i].child)
    OBVIOUS
  <2>2. PICK left : left = [a \in Agents |-> IF a \in dead THEN <<>> ELSE mailbox[a]]
    OBVIOUS
  <2>3. /\ alive' = alive \ dead /\ op[i].kind = "dismiss" /\ stage[i] = "absorbed"
        /\ IF Releases(i) THEN mailbox' = Post(left, op[i].by, Msg("release", i)) ELSE mailbox' = left
        /\ Goes(i, IF Releases(i) THEN "releasing" ELSE "released")
    BY <1>19, <2>1, <2>2 DEF TerminateSubtree, At
  <2>4. op[i].by \notin dead
    BY <1>1, <2>1, <2>3, ParentIsAbove DEF LiveSubtree
  <2>5. left \in [Agents -> Seq(Messages)]
    <3>1. <<>> \in Seq(Messages)
      OBVIOUS
    <3> QED
      BY <1>2, <2>2, <3>1
  <2>6. Keeps(left)
    <3>1. ASSUME NEW a \in Agents
          PROVE  /\ left[a] # <<>> => a \in alive'
                 /\ Distinct(left[a])
                 /\ \A m \in Contents(left[a]) : Due(a, m)'
      <4>1. CASE a \in dead
        <5>1. left[a] = <<>>
          BY <2>2, <4>1
        <5> QED
          BY <5>1 DEF Distinct, Contents
      <4>2. CASE a \notin dead
        <5>1. left[a] = mailbox[a]
          BY <2>2, <4>2
        <5>2. Distinct(mailbox[a]) /\ (mailbox[a] # <<>> => a \in alive)
          BY DEF FlowInv, MailInv
        <5>3. ASSUME NEW m \in Contents(mailbox[a]) PROVE Due(a, m)'
          <6>1. a \in alive
            BY <5>2, <5>3 DEF Contents
          <6>2. m \in Messages /\ Due(a, m)
            BY <1>2, <1>3, <5>2, <5>3, BoxContents
          <6> QED
            BY <1>1, <6>1, <6>2, DueStays
        <5> QED
          BY <2>3, <4>2, <5>1, <5>2, <5>3
      <4> QED
        BY <4>1, <4>2
    <3> QED
      BY <3>1 DEF Keeps
  <2>7. CASE Releases(i)
    <3>1. Msg("release", i) \in Messages
      BY <1>1, <2>3, MsgType
    <3>2. stage'[i] = "releasing"
      BY <1>9, <2>3, <2>7
    <3> PICK a : a = op[i].by
      OBVIOUS
    <3>3. Due(a, Msg("release", i))' /\ ~Due(a, Msg("release", i))
      BY <1>1, <1>7, <2>3, <3>2 DEF Due
    <3>4. Msg("release", i) \notin Contents(left[a])
      BY <1>3, <1>4, <2>2, <2>4, <3>3
    <3>5. mailbox' = Post(left, a, Msg("release", i))
      BY <2>3, <2>7
    <3>6. a \in alive => a \in alive'
      BY <2>3, <2>4
    <3> QED
      BY <1>4, <2>5, <2>6, <3>1, <3>3, <3>4, <3>5, <3>6, MailMoved
  <2>8. CASE ~Releases(i)
    <3>1. mailbox' = left
      BY <2>3, <2>8
    <3> QED
      BY <2>5, <2>6, <3>1, MailMoved
  <2> QED
    BY <2>7, <2>8
<1> QED
  BY <1>10, <1>11, <1>12, <1>14, <1>15, <1>16, <1>17, <1>18, <1>19 DEF OpStep

\* While no action moves on, messages stay due.
LEMMA QuietKept ==
    ASSUME TypeInv, MailInv, UNCHANGED <<opVars, alive>>, NEW b \in Agents
    PROVE  Keeps(mailbox) /\ (mailbox[b] # <<>> => Keeps(Handled(b)))
<1>1. \A a, m : Due(a, m) => Due(a, m)'
  BY DEF Due
<1>2. \A a \in Agents : mailbox[a] \in Seq(Messages) /\ Distinct(mailbox[a])
  BY DEF TypeInv, LedgerTypeOK, MailInv
<1>3. Keeps(mailbox)
  BY <1>1 DEF Keeps, MailInv
<1>4. ASSUME mailbox[b] # <<>> PROVE Keeps(Handled(b))
  <2>1. /\ Handled(b)[b] = Tail(mailbox[b])
        /\ \A a \in Agents \ {b} : Handled(b)[a] = mailbox[a]
    BY DEF Handled, TypeInv, LedgerTypeOK
  <2>2. /\ Distinct(Tail(mailbox[b]))
        /\ Contents(Tail(mailbox[b])) = Contents(mailbox[b]) \ {Head(mailbox[b])}
    BY <1>2, <1>4, BoxContents
  <2>3. ASSUME NEW a \in Agents
        PROVE  /\ Handled(b)[a] # <<>> => a \in alive'
               /\ Distinct(Handled(b)[a])
               /\ \A m \in Contents(Handled(b)[a]) : Due(a, m)'
    <3>1. CASE a = b
      BY <1>1, <1>4, <2>1, <2>2, <3>1 DEF MailInv
    <3>2. CASE a # b
      BY <1>1, <2>1, <3>2 DEF MailInv
    <3> QED
      BY <3>1, <3>2
  <2> QED
    BY <2>3 DEF Keeps
<1> QED
  BY <1>3, <1>4

\* Edits of the task's budget are sent one at a time.
LEMMA EditMail ==
    ASSUME TypeInv, MailInv, EditStep
    PROVE  MailInv'
<1>1. UNCHANGED <<opVars, alive>>
  BY DEF EditStep, BeginEdit, SendEdit, HandleUpdateBudgetData
<1>2. mailbox \in [Agents -> Seq(Messages)] /\ Root \in Agents
  BY DEF TypeInv, LedgerTypeOK
<1>3. Keeps(mailbox) /\ (mailbox[Root] # <<>> => Keeps(Handled(Root)))
  BY <1>1, <1>2, QuietKept
<1>4. CASE \E new \in Amounts : BeginEdit(new)
  <2>1. mailbox' = mailbox
    BY <1>4 DEF BeginEdit
  <2> QED
    BY <1>2, <1>3, <2>1, MailMoved
<1>5. CASE SendEdit
  <2>1. /\ mailbox' = Post(mailbox, Root, Msg("update_budget_data", 0))
        /\ \A k \in DOMAIN mailbox[Root] : mailbox[Root][k].type # "update_budget_data"
    BY <1>5 DEF SendEdit
  <2>2. /\ Msg("update_budget_data", 0) \in Messages
        /\ Msg("update_budget_data", 0).type = "update_budget_data"
    BY DEF Msg, Messages
  <2>3. Msg("update_budget_data", 0) \notin Contents(mailbox[Root])
    BY <2>1, <2>2 DEF Contents
  <2>4. Due(Root, Msg("update_budget_data", 0))'
    BY <2>2 DEF Due
  <2> QED
    BY <1>1, <1>2, <1>3, <2>1, <2>2, <2>3, <2>4, MailMoved
<1>6. CASE HandleUpdateBudgetData
  <2>1. mailbox' = Handled(Root) /\ Receives(Root, "update_budget_data")
    BY <1>6 DEF HandleUpdateBudgetData
  <2>2. Handled(Root) \in [Agents -> Seq(Messages)]
    BY <1>2, <2>1, ReceivedType DEF TypeInv
  <2>3. Keeps(Handled(Root))
    BY <1>3, <2>1 DEF Receives
  <2> QED
    BY <2>1, <2>2, <2>3, MailMoved
<1> QED
  BY <1>4, <1>5, <1>6 DEF EditStep

\* Only an adjustment makes its handler post a message, which is new.
LEMMA HandlerMail ==
    ASSUME TypeInv, MailInv, NEW a \in Agents, Handlers(a)
    PROVE  MailInv'
<1>1. PICK i \in DOMAIN op, type \in MessageTypes :
          /\ Receives(a, type) /\ Head(mailbox[a]) = Msg(type, i)
          /\ op[i].kind \in About(type) /\ Due(a, Msg(type, i))
          /\ OthersStay(i) /\ MovedByMessage(i, type)
  BY HandlerMoves
<1>2. i \in Ops /\ OpFacts(op[i]) /\ op' = op
  BY <1>1, TakenOps DEF OthersStay
<1>3. alive' = alive
  BY DEF Handlers, HandleResult, HandleChildSpawned, HandleSpawnFailed, HandleAdjust,
         HandleSetAllocated, HandleGetState, HandleRelease, HandleChildDismissed
<1>4. Handled(a) \in [Agents -> Seq(Messages)] /\ Keeps(Handled(a))
  BY <1>1, <1>2, <1>3, HandledKept, ReceivedType DEF TypeInv
<1>5. CASE mailbox' = Handled(a)
  BY <1>4, <1>5, MailMoved
<1>6. CASE HandleAdjust(a) /\ mailbox' # Handled(a)
  <2>1. Head(mailbox[a]).id = i /\ type = "adjust"
    BY <1>1, <1>6 DEF HandleAdjust, Receives, Msg
  <2> PICK c : c = op[i].child
    OBVIOUS
  <2>2. mailbox' = Post(Handled(a), c, Msg("set_allocated", i))
    BY <1>6, <2>1 DEF HandleAdjust
  <2>3. stage[i] = "calling" /\ op[i].kind = "adjust"
    BY <1>1, <2>1 DEF Due, Msg, About
  <2>4. stage'[i] = "done"
    BY <1>1, <2>1 DEF MovedByMessage
  <2>5. c \in Agents /\ Msg("set_allocated", i) \in Messages
    BY <1>2, <2>3, MsgType DEF OpFacts
  <2>6. ~Due(c, Msg("set_allocated", i)) /\ Due(c, Msg("set_allocated", i))'
    BY <1>2, <2>3, <2>4 DEF Due, Msg
  <2>7. Contents(Handled(a)[c]) \subseteq Contents(mailbox[c])
    <3>1. mailbox[a] \in Seq(Messages) /\ Distinct(mailbox[a]) /\ mailbox[a] # <<>>
      BY <1>1 DEF TypeInv, LedgerTypeOK, MailInv, Receives
    <3>2. Contents(Tail(mailbox[a])) \subseteq Contents(mailbox[a])
      BY <3>1, BoxContents
    <3> QED
      BY <2>5, <3>2 DEF Handled, TypeInv, LedgerTypeOK
  <2>8. Msg("set_allocated", i) \notin Contents(Handled(a)[c])
    BY <2>5, <2>6, <2>7 DEF MailInv
  <2> QED
    BY <1>3, <1>4, <2>2, <2>5, <2>6, <2>8, MailMoved
<1> QED
  BY <1>5, <1>6
     DEF Handlers, HandleResult, HandleChildSpawned, HandleSpawnFailed, HandleAdjust,
         HandleSetAllocated, HandleGetState, HandleRelease, HandleChildDismissed

\* Taking an action neither posts nor moves anything.
LEMMA TakingFlow ==
    ASSUME TypeInv, FlowInv, NEW a \in Agents, Takes(a)
    PROVE  FlowInv'
<1>1. /\ mailbox' = mailbox /\ reply' = reply /\ alive' = alive
      /\ \A i \in DOMAIN op : i \in DOMAIN op' /\ op'[i] = op[i] /\ stage'[i] = stage[i]
  BY DEF Takes
<1>2. ASSUME NEW b \in Agents, NEW m \in Contents(mailbox[b]) PROVE Due(b, m)'
  <2>1. m \in Messages /\ Due(b, m)
    <3>1. mailbox[b] \in Seq(Messages)
      BY DEF TypeInv, LedgerTypeOK
    <3> QED
      BY <3>1, BoxContents DEF FlowInv, MailInv
  <2>2. m.id \in DOMAIN op \/ m.type = "update_budget_data"
    BY <2>1 DEF Messages
  <2> QED
    BY <1>1, <2>1, <2>2 DEF Due
<1>3. MailInv'
  BY <1>1, <1>2 DEF FlowInv, MailInv
<1>4. ASSUME NEW i \in Ops \ DOMAIN op' PROVE stage'[i] = "none" /\ reply'[i] = "none"
  BY <1>1 DEF Takes, FlowInv, ReplyInv
<1>5. ASSUME NEW i \in DOMAIN op' PROVE StageOK(i)'
  <2>1. CASE i \in DOMAIN op
    BY <1>1, <2>1 DEF FlowInv, ReplyInv, StageOK, KindStages
  <2>2. CASE i \notin DOMAIN op
    <3>1. i \in Ops \ DOMAIN op /\ stage'[i] = "dispatched" /\ op'[i].kind \in Kinds
      BY <2>2 DEF Takes, NewOps
    <3>2. reply'[i] = "none"
      BY <1>1, <3>1 DEF FlowInv, ReplyInv
    <3> QED
      BY <3>1, <3>2 DEF StageOK, KindStages, Kinds
  <2> QED
    BY <2>1, <2>2
<1> QED
  BY <1>3, <1>4, <1>5 DEF FlowInv, ReplyInv

\* Each action stays in the stages of its kind, and is answered at most once.
LEMMA OpReplies ==
    ASSUME ReplyInv, NEW i \in Ops, OthersStay(i), i \in DOMAIN op,
           \/ Moved1(i) /\ OpFacts(op[i])
           \/ \E a, type : /\ MovedByMessage(i, type) /\ op[i].kind \in About(type)
                            /\ Due(a, Msg(type, i)),
           DOMAIN op \subseteq Ops
    PROVE  ReplyInv'
<1>1. op' = op /\ \A j \in Ops \ {i} : stage'[j] = stage[j] /\ reply'[j] = reply[j]
  BY DEF OthersStay
<1>2. StageOK(i)
  BY DEF ReplyInv
<1>3. StageOK(i)'
  <2>1. CASE Moved1(i) /\ OpFacts(op[i])
    BY <1>1, <1>2, <2>1
       DEF StageOK, KindStages, Moved1, Moves, ReplyStays, ReplyReady, ReplySent, OpFacts, Kinds
  <2>2. ASSUME NEW a, NEW type, MovedByMessage(i, type), op[i].kind \in About(type),
               Due(a, Msg(type, i))
        PROVE  StageOK(i)'
    BY <1>1, <1>2, <2>2
       DEF StageOK, KindStages, MovedByMessage, ReplyStays, ReplyReady, About, Due, Msg, Kinds
  <2> QED
    BY <2>1, <2>2
<1>4. ASSUME NEW j \in DOMAIN op, j # i PROVE StageOK(j)'
  <2>1. StageOK(j) /\ stage'[j] = stage[j] /\ reply'[j] = reply[j]
    BY <1>1, <1>4 DEF ReplyInv
  <2> QED
    BY <1>1, <2>1 DEF StageOK, KindStages
<1> QED
  BY <1>1, <1>3, <1>4 DEF ReplyInv

\* Nothing has been taken or posted at first.
LEMMA InitFlow == Init => FlowInv
<1> SUFFICES ASSUME Init PROVE FlowInv
  OBVIOUS
<1>1. ReplyInv
  BY DEF Init, ReplyInv
<1>2. MailInv
  BY DEF Init, MailInv, Contents, Distinct
<1> QED
  BY <1>1, <1>2 DEF FlowInv

\* Every step keeps messages and replies where they should be.
LEMMA FlowPreserved ==
    TypeInv /\ InheritInv /\ TreeInv /\ FlowInv /\ [Next]_vars => FlowInv'
<1> SUFFICES ASSUME TypeInv, InheritInv, TreeInv, FlowInv, [Next]_vars
             PROVE  FlowInv'
  OBVIOUS
<1>1. DOMAIN op \subseteq Ops
  BY TakenOps
<1>2. ASSUME UNCHANGED <<opVars, mailbox, alive>> PROVE FlowInv'
  <2>1. ReplyInv'
    BY <1>2 DEF FlowInv, ReplyInv, StageOK, KindStages
  <2>2. MailInv'
    BY <1>2 DEF FlowInv, MailInv, Due
  <2> QED
    BY <2>1, <2>2 DEF FlowInv
<1>3. ASSUME NEW a \in Agents, AgentStep(a) PROVE FlowInv'
  <2>1. CASE TakeAction(a) \/ TakeBatch(a)
    BY <2>1, WhatIsTaken, TakingFlow
  <2>2. CASE Handlers(a)
    <3>1. MailInv'
      BY <2>2, HandlerMail DEF FlowInv
    <3>2. PICK i \in DOMAIN op, type \in MessageTypes :
              /\ op[i].kind \in About(type) /\ Due(a, Msg(type, i))
              /\ OthersStay(i) /\ MovedByMessage(i, type)
      BY <2>2, HandlerMoves DEF FlowInv
    <3>3. ReplyInv'
      BY <1>1, <3>2, OpReplies DEF FlowInv
    <3> QED
      BY <3>1, <3>3 DEF FlowInv
  <2>3. CASE RecordCost(a)
    BY <1>2, <2>3 DEF RecordCost
  <2> QED
    BY <1>3, <2>1, <2>2, <2>3 DEF AgentStep, Handlers
<1>4. ASSUME NEW i \in Ops, OpStep(i) PROVE FlowInv'
  <2>1. MailInv'
    BY <1>4, OpMail
  <2>2. i \in DOMAIN op /\ OthersStay(i) /\ Moved1(i) /\ OpFacts(op[i])
    BY <1>4, OpMoves, TakenOps
  <2>3. ReplyInv'
    BY <1>1, <2>2, OpReplies DEF FlowInv
  <2> QED
    BY <2>1, <2>3 DEF FlowInv
<1>5. ASSUME EditStep PROVE FlowInv'
  <2>1. MailInv'
    BY <1>5, EditMail DEF FlowInv
  <2>2. UNCHANGED opVars
    BY <1>5 DEF EditStep, BeginEdit, SendEdit, HandleUpdateBudgetData
  <2>3. ReplyInv'
    BY <2>2 DEF FlowInv, ReplyInv, StageOK, KindStages
  <2> QED
    BY <2>1, <2>3 DEF FlowInv
<1>6. CASE UNCHANGED vars
  BY <1>2, <1>6 DEF vars
<1> QED
  BY <1>3, <1>4, <1>5, <1>6 DEF Next

-----------------------------------------------------------------------------
(* One action at a time *)

\* An agent that has not handled the reply to an action waits for it, and has
\* taken none since
BusyInv ==
    \A i \in DOMAIN op :
        ~op[i].batched /\ op[i].by \in alive /\ reply[i] # "handled" =>
            busy[op[i].by] = i /\ \A j \in DOMAIN op : op[j].by = op[i].by => j <= i

\* No agent acts before its start.
LEMMA StartedByNobody ==
    ASSUME TypeInv, InheritInv, NEW i \in DOMAIN op, At(i, "spawn", "starting")
    PROVE  op[i].child \notin alive /\ \A j \in DOMAIN op : op[j].by # op[i].child
<1>1. op[i].child # Root
  BY TakenOps DEF OpFacts
<1>2. ~Started(op[i].child)
  BY <1>1 DEF Started, OpsOn, At, InheritInv, SpawnsAreOnce, Early
<1> QED
  BY <1>2 DEF InheritInv, StartedFirst

\* An action is answered once; only the handler of the answer makes it handled.
LEMMA UnhandledBefore ==
    ASSUME NEW i, \/ Moved1(i) \/ \E type : MovedByMessage(i, type)
    PROVE  reply'[i] # "handled" => reply[i] # "handled"
  BY DEF Moved1, MovedByMessage, ReplyStays, ReplyReady, ReplySent

LEMMA BusyPreserved ==
    TypeInv /\ InheritInv /\ FlowInv /\ BusyInv /\ [Next]_vars => BusyInv'
<1> SUFFICES ASSUME TypeInv, InheritInv, FlowInv, BusyInv, [Next]_vars
             PROVE  BusyInv'
  OBVIOUS
<1>1. ASSUME op' = op, \A i \in DOMAIN op : reply'[i] # "handled" => reply[i] # "handled",
             \A i \in DOMAIN op : op[i].by \in alive' => op[i].by \in alive,
             \A i \in DOMAIN op : op[i].by \in alive' /\ reply'[i] # "handled"
                                 /\ busy[op[i].by] = i => busy'[op[i].by] = i
      PROVE  BusyInv'
  BY <1>1 DEF BusyInv
<1>2. busy \in [Agents -> {0} \cup DOMAIN op] /\ reply \in [Ops -> Replies]
  BY DEF TypeInv, LedgerTypeOK
<1>3. \A i \in DOMAIN op : i \in Ops /\ op[i].by \in Agents /\ op[i].child \in Agents
  BY TakenOps DEF OpFacts
<1>4. ASSUME NEW a \in Agents, Takes(a) PROVE BusyInv'
  <2>1. ASSUME NEW i \in DOMAIN op', ~op'[i].batched, op'[i].by \in alive', reply'[i] # "handled"
        PROVE  busy'[op'[i].by] = i /\ \A j \in DOMAIN op' : op'[j].by = op'[i].by => j <= i
    <3>1. CASE i \in DOMAIN op
      <4>1. op'[i] = op[i] /\ op[i].by \in alive /\ reply[i] # "handled"
        BY <1>4, <2>1, <3>1 DEF Takes
      <4>2. busy[op[i].by] = i /\ \A j \in DOMAIN op : op[j].by = op[i].by => j <= i
        BY <2>1, <3>1, <4>1 DEF BusyInv
      <4>3. op[i].by # a
        <5>1. i # 0
          BY <1>3, <3>1 DEF Ops
        <5> QED
          BY <1>4, <4>2, <5>1 DEF Takes
      <4>4. \A j \in NewOps : op'[j].by = a
        BY <1>4 DEF Takes
      <4> QED
        BY <1>3, <1>4, <3>1, <4>1, <4>2, <4>3, <4>4 DEF Takes, NewOps
    <3>2. CASE i \in NewOps
      BY <1>4, <2>1, <3>2 DEF Takes
    <3> QED
      BY <3>1, <3>2 DEF NewOps
  <2> QED
    BY <2>1 DEF BusyInv
<1>5. ASSUME NEW a \in Agents, Handlers(a) PROVE BusyInv'
  <2>1. PICK i \in DOMAIN op, type \in MessageTypes :
            /\ Receives(a, type) /\ Head(mailbox[a]) = Msg(type, i)
            /\ OthersStay(i) /\ MovedByMessage(i, type)
    BY <1>5, HandlerMoves DEF FlowInv
  <2>2. op' = op /\ \A j \in DOMAIN op : reply'[j] # "handled" => reply[j] # "handled"
    BY <1>3, <2>1, UnhandledBefore DEF OthersStay
  <2>3. alive' = alive
    BY <1>5 DEF Handlers, HandleResult, HandleChildSpawned, HandleSpawnFailed, HandleAdjust,
                HandleSetAllocated, HandleGetState, HandleRelease, HandleChildDismissed
  <2>4. \/ busy' = busy
        \/ busy' = [busy EXCEPT ![a] = IF @ = i THEN 0 ELSE @] /\ reply'[i] = "handled"
    <3>1. CASE HandleResult(a)
      <4>1. Head(mailbox[a]).id = i
        BY <2>1 DEF Msg
      <4> QED
        BY <1>2, <1>3, <3>1, <4>1 DEF HandleResult
    <3>2. CASE ~HandleResult(a)
      BY <1>5, <3>2 DEF Handlers, HandleChildSpawned, HandleSpawnFailed, HandleAdjust,
                HandleSetAllocated, HandleGetState, HandleRelease, HandleChildDismissed
    <3> QED
      BY <3>1, <3>2
  <2>5. ASSUME NEW j \in DOMAIN op, reply'[j] # "handled", busy[op[j].by] = j
        PROVE  busy'[op[j].by] = j
    BY <1>2, <1>3, <2>4, <2>5
  <2> QED
    BY <1>1, <2>2, <2>3, <2>5
<1>6. ASSUME NEW i \in Ops, OpStep(i) PROVE BusyInv'
  <2>1. i \in DOMAIN op /\ OthersStay(i) /\ Moved1(i)
    BY <1>6, OpMoves
  <2>2. op' = op /\ \A j \in DOMAIN op : reply'[j] # "handled" => reply[j] # "handled"
    BY <1>3, <2>1, UnhandledBefore DEF OthersStay
  <2>3. CASE TerminateSubtree(i)
    <3>1. PICK dead : /\ alive' = alive \ dead
                      /\ busy' = [a \in Agents |-> IF a \in dead THEN 0 ELSE busy[a]]
      BY <2>3 DEF TerminateSubtree
    <3> QED
      BY <1>1, <1>3, <2>2, <3>1
  <2>4. CASE StartChild(i)
    <3>1. alive' = alive \cup {op[i].child} /\ busy' = busy
      BY <2>4 DEF StartChild
    <3>2. \A j \in DOMAIN op : op[j].by # op[i].child
      BY <2>1, <2>4, StartedByNobody DEF StartChild
    <3> QED
      BY <1>1, <2>2, <3>1, <3>2
  <2>5. CASE ~TerminateSubtree(i) /\ ~StartChild(i)
    <3>1. alive' = alive /\ busy' = busy
      BY <1>6, <2>5
         DEF OpStep, RejectAction, CastReply, AcknowledgeDismiss, ExecuteSpawn, FailSpawn,
             AnnounceChild, ExecuteAdjust, ExecuteDismiss, GetStateExits, SelectCosts,
             CommitAbsorption, AbsorptionFails, FinishDismissal
    <3> QED
      BY <1>1, <2>2, <3>1
  <2> QED
    BY <2>3, <2>4, <2>5
<1>7. CASE UNCHANGED <<op, reply, alive, busy>>
  BY <1>1, <1>7
<1>8. EditStep => UNCHANGED <<op, reply, alive, busy>>
  BY DEF EditStep, BeginEdit, SendEdit, HandleUpdateBudgetData
<1>9. ASSUME NEW a \in Agents, AgentStep(a) PROVE BusyInv'
  <2>1. TakeAction(a) \/ TakeBatch(a) => Takes(a)
    BY WhatIsTaken
  <2>2. RecordCost(a) => UNCHANGED <<op, reply, alive, busy>>
    BY DEF RecordCost
  <2> QED
    BY <1>4, <1>5, <1>7, <1>9, <2>1, <2>2 DEF AgentStep, Handlers
<1> QED
  BY <1>6, <1>7, <1>8, <1>9 DEF Next, vars

-----------------------------------------------------------------------------
(* Limits *)

\* An agent with a limit has an allocation, the edits of the task's budget too,
\* and a dismissal that releases one has read it
LimitInv ==
    /\ \A p \in alive \cup {Root} : budget[p].mode # "na" => budget[p].allocated # NA
    /\ \A e \in edit : e.allocated # NA
    /\ edits = 0 => edit = {}
    /\ \A i \in DOMAIN op : stage[i] = "releasing" => seen[i].allocated # NA

\* What the operations of the ledger do to the committed amount.
LEMMA CommittedAfter ==
    ASSUME NEW b \in Budgets
    PROVE  /\ \A m \in Amounts \cup {NA} :
                 CommitAmount(b, m).committed = b.committed + (IF m = NA THEN 0 ELSE m)
           /\ \A n \in Nat :
                 ReleaseCommitted(b, n).committed = IF b.committed < n THEN 0 ELSE b.committed - n
           /\ \A current \in Nat, new \in Nat : b.allocated # NA =>
                 AdjustEscrow(b, current, new).committed =
                     IF new >= current THEN b.committed + (new - current)
                     ELSE IF b.committed < current - new THEN 0
                     ELSE b.committed - (current - new)
<1>1. b = [mode |-> b.mode, allocated |-> b.allocated, committed |-> b.committed]
  BY DEF Budgets
<1>2. b.committed \in Nat /\ NA \notin Nat
  BY DEF Budgets, NA
<1>3. \A n : /\ AddCommitted(b, n).committed = b.committed + n
             /\ ReleaseCommitted(b, n).committed = IF b.committed < n THEN 0 ELSE b.committed - n
  BY <1>1 DEF AddCommitted, ReleaseCommitted
<1>4. \A m \in Amounts \cup {NA} :
          CommitAmount(b, m).committed = b.committed + (IF m = NA THEN 0 ELSE m)
  BY <1>2, <1>3 DEF CommitAmount
<1>5. ASSUME NEW current \in Nat, NEW new \in Nat, b.allocated # NA
      PROVE  AdjustEscrow(b, current, new).committed =
                 IF new >= current THEN b.committed + (new - current)
                 ELSE IF b.committed < current - new THEN 0
                 ELSE b.committed - (current - new)
  BY <1>3, <1>5 DEF AdjustEscrow
<1> QED
  BY <1>3, <1>4, <1>5

\* What a handler finds: the message about action i, and where that is.
LEMMA Handling ==
    ASSUME TypeInv, MailInv, NEW a \in Agents, NEW type, type # "update_budget_data",
           Receives(a, type)
    PROVE  LET i == Head(mailbox[a]).id
           IN  /\ i \in DOMAIN op /\ i \in Ops /\ OpFacts(op[i]) /\ a \in alive
               /\ Head(mailbox[a]) = Msg(type, i) /\ Msg(type, i) \in Contents(mailbox[a])
               /\ op[i].kind \in About(type) /\ Due(a, Msg(type, i))
<1>1. PICK i : i = Head(mailbox[a]).id
  OBVIOUS
<1>2. i \in DOMAIN op /\ op[i].kind \in About(type) /\ Head(mailbox[a]) \in Messages
  BY <1>1, ReceivedType DEF TypeInv
<1>3. Head(mailbox[a]) = Msg(type, i)
  BY <1>1, <1>2 DEF Messages, Msg, Receives
<1>4. Head(mailbox[a]) = mailbox[a][1] /\ 1 \in DOMAIN mailbox[a]
  <2>1. mailbox[a] \in Seq(Messages) /\ mailbox[a] # <<>>
    BY DEF Receives, TypeInv, LedgerTypeOK
  <2> QED
    BY <2>1
<1>5. Msg(type, i) \in Contents(mailbox[a])
  BY <1>3, <1>4 DEF Contents
<1>6. Due(a, Msg(type, i)) /\ a \in alive
  BY <1>5 DEF MailInv, Receives
<1> QED
  BY <1>1, <1>2, <1>3, <1>5, <1>6, TakenOps

\* Every budget stays where it is, except that a handler changes its own agent's
\* in one of these ways.
LEMMA HandlerBudgets ==
    ASSUME TypeInv, MailInv, NEW a \in Agents, Handlers(a)
    PROVE  LET i == Head(mailbox[a]).id
               c == op[i].child
           IN  /\ i \in DOMAIN op /\ i \in Ops /\ OpFacts(op[i]) /\ a \in alive
               /\ \A b \in Agents \ {a} : budget'[b] = budget[b]
               /\ \/ /\ ~HandleResult(a) /\ ~HandleAdjust(a)
                     /\ ~HandleSetAllocated(a) /\ ~HandleRelease(a)
                     /\ budget' = budget
                  \/ /\ HandleResult(a) /\ Due(a, Msg("result", i)) /\ ~TracksChild(i)
                     /\ budget' = budget
                  \/ /\ HandleResult(a) /\ Due(a, Msg("result", i)) /\ TracksChild(i)
                     /\ budget'[a] = CommitAmount(budget[a], op[i].amount)
                  \/ /\ HandleAdjust(a) /\ Due(a, Msg("adjust", i)) /\ op[i].kind = "adjust"
                     /\ ~MayAdjust(a, c, op[i].amount) /\ budget' = budget
                  \/ /\ HandleAdjust(a) /\ Due(a, Msg("adjust", i)) /\ op[i].kind = "adjust"
                     /\ MayAdjust(a, c, op[i].amount)
                     /\ budget'[a] = AdjustEscrow(budget[a], Current(c), op[i].amount)
                  \/ /\ HandleSetAllocated(a) /\ Due(a, Msg("set_allocated", i))
                     /\ op[i].kind = "adjust"
                     /\ budget'[a] = [budget[a] EXCEPT !.allocated = op[i].amount]
                  \/ /\ HandleRelease(a) /\ Due(a, Msg("release", i)) /\ op[i].kind = "dismiss"
                     /\ budget'[a] = ReleaseCommitted(budget[a], seen[i].allocated)
<1> DEFINE i == Head(mailbox[a]).id
<1>1. PICK type : type # "update_budget_data" /\ Receives(a, type)
  BY DEF Handlers, HandleResult, HandleChildSpawned, HandleSpawnFailed, HandleAdjust,
         HandleSetAllocated, HandleGetState, HandleRelease, HandleChildDismissed
<1>2. /\ i \in DOMAIN op /\ i \in Ops /\ OpFacts(op[i]) /\ a \in alive
      /\ Head(mailbox[a]) = Msg(type, i)
      /\ op[i].kind \in About(type) /\ Due(a, Msg(type, i))
  BY <1>1, Handling
<1>3. budget \in [Agents -> Budgets]
  BY DEF TypeInv, LedgerTypeOK
<1>4. \A t : Receives(a, t) => t = type
  BY <1>1 DEF Receives
<1> HIDE DEF i
<1>5. CASE HandleResult(a)
  <2>1. type = "result"
    BY <1>4, <1>5 DEF HandleResult
  <2>2. IF TracksChild(i) THEN budget' = [budget EXCEPT ![a] = CommitAmount(@, op[i].amount)]
        ELSE budget' = budget
    BY <1>5 DEF HandleResult, i
  <2> QED
    BY <1>2, <1>3, <1>5, <2>1, <2>2 DEF i
<1>6. CASE HandleAdjust(a)
  <2>1. type = "adjust"
    BY <1>4, <1>6 DEF HandleAdjust
  <2>2. IF MayAdjust(a, op[i].child, op[i].amount)
        THEN budget' = [budget EXCEPT ![a] = AdjustEscrow(@, Current(op[i].child), op[i].amount)]
        ELSE budget' = budget
    BY <1>6 DEF HandleAdjust, i
  <2>3. op[i].kind = "adjust"
    BY <1>2, <2>1 DEF About
  <2> QED
    BY <1>2, <1>3, <1>6, <2>1, <2>2, <2>3 DEF i
<1>7. CASE HandleSetAllocated(a)
  <2>1. type = "set_allocated"
    BY <1>4, <1>7 DEF HandleSetAllocated
  <2>2. budget' = [budget EXCEPT ![a].allocated = op[i].amount]
    BY <1>7 DEF HandleSetAllocated, i
  <2>3. op[i].kind = "adjust"
    BY <1>2, <2>1 DEF About
  <2>4. budget'[a] = [budget[a] EXCEPT !.allocated = op[i].amount]
    BY <1>3, <2>2
  <2>5. \A b \in Agents \ {a} : budget'[b] = budget[b]
    BY <1>3, <2>2
  <2> QED
    BY <1>2, <1>7, <2>1, <2>3, <2>4, <2>5 DEF i
<1>8. CASE HandleRelease(a)
  <2>1. type = "release"
    BY <1>4, <1>8 DEF HandleRelease
  <2>2. budget' = [budget EXCEPT ![a] = ReleaseCommitted(@, seen[i].allocated)]
    BY <1>8 DEF HandleRelease, i
  <2>3. op[i].kind = "dismiss"
    BY <1>2, <2>1 DEF About
  <2> QED
    BY <1>2, <1>3, <1>8, <2>1, <2>2, <2>3 DEF i
<1>9. CASE /\ ~HandleResult(a) /\ ~HandleAdjust(a)
           /\ ~HandleSetAllocated(a) /\ ~HandleRelease(a)
  <2>1. budget' = budget
    BY <1>9 DEF Handlers, HandleChildSpawned, HandleSpawnFailed, HandleGetState, HandleChildDismissed
  <2> QED
    BY <1>2, <1>9, <2>1 DEF i
<1> QED
  BY <1>5, <1>6, <1>7, <1>8, <1>9

\* No step of an action, except a start and a termination, changes a budget.
LEMMA OpBudgets ==
    ASSUME TypeInv, InheritInv, NEW i \in Ops, OpStep(i)
    PROVE  /\ UNCHANGED <<edit, edits>>
           /\ \/ alive' = alive /\ budget' = budget
              \/ /\ StartChild(i)
                 /\ op[i].child \in Agents \ {Root} /\ op[i].amount \in Amounts \cup {NA}
                 /\ op[i].child \notin alive
                 /\ alive' = alive \cup {op[i].child}
                 /\ \A b \in Agents : budget'[b] = IF b = op[i].child THEN NewChild(op[i].amount)
                                                    ELSE budget[b]
              \/ /\ TerminateSubtree(i)
                 /\ alive' = alive \ LiveSubtree(op[i].child) /\ Root \notin LiveSubtree(op[i].child)
                 /\ \A b \in Agents : budget'[b] = IF b \in LiveSubtree(op[i].child) THEN NewChild(NA)
                                                    ELSE budget[b]
<1>1. UNCHANGED <<edit, edits>>
  BY DEF OpStep, RejectAction, CastReply, AcknowledgeDismiss, ExecuteSpawn, StartChild,
         FailSpawn, AnnounceChild, ExecuteAdjust, ExecuteDismiss, GetStateExits, SelectCosts,
         CommitAbsorption, AbsorptionFails, TerminateSubtree, FinishDismissal
<1>2. i \in DOMAIN op /\ OpFacts(op[i]) /\ budget \in [Agents -> Budgets]
  BY OpMoves, TakenOps DEF TypeInv, LedgerTypeOK
<1>3. CASE StartChild(i)
  BY <1>1, <1>2, <1>3, StartedByNobody DEF StartChild, OpFacts
<1>4. CASE TerminateSubtree(i)
  BY <1>1, <1>2, <1>4, RootIsNoDescendant DEF TerminateSubtree
<1>5. CASE ~StartChild(i) /\ ~TerminateSubtree(i)
  <2>1. alive' = alive /\ budget' = budget
    BY <1>5 DEF OpStep, RejectAction, CastReply, AcknowledgeDismiss, ExecuteSpawn,
         FailSpawn, AnnounceChild, ExecuteAdjust, ExecuteDismiss, GetStateExits, SelectCosts,
         CommitAbsorption, AbsorptionFails, FinishDismissal
  <2> QED
    BY <1>1, <2>1
<1> QED
  BY <1>3, <1>4, <1>5

\* A dismissal goes on to release an allocation only after it has read one.
LEMMA ReleasingSince ==
    ASSUME TypeInv, FlowInv, [Next]_vars, NEW i \in DOMAIN op, stage'[i] = "releasing"
    PROVE  seen'[i] = seen[i] /\ (stage[i] = "releasing" \/ seen[i].allocated # NA)
<1>1. seen \in [Ops -> Budgets] /\ stage \in [Ops -> Stages] /\ i \in Ops
  BY TakenOps DEF TypeInv, LedgerTypeOK
<1>2. ASSUME NEW a \in Agents, AgentStep(a)
      PROVE  seen'[i] = seen[i] /\ stage[i] = "releasing"
  <2>1. CASE TakeAction(a) \/ TakeBatch(a)
    BY <2>1, WhatIsTaken DEF Takes
  <2>2. CASE Handlers(a)
    <3>1. PICK j \in DOMAIN op, type \in MessageTypes :
              /\ Receives(a, type) /\ Head(mailbox[a]) = Msg(type, j)
              /\ Due(a, Msg(type, j)) /\ OthersStay(j) /\ MovedByMessage(j, type)
      BY <2>2, HandlerMoves DEF FlowInv
    <3>2. stage[i] = "releasing"
      BY <1>1, <3>1 DEF OthersStay, MovedByMessage
    <3>3. CASE HandleGetState(a)
      <4>1. type = "get_state" /\ Head(mailbox[a]).id = j
        BY <3>1, <3>3 DEF HandleGetState, Receives, Msg
      <4>2. stage'[j] = "known"
        BY <3>1, <4>1 DEF MovedByMessage
      <4>3. i # j
        BY <4>2
      <4> QED
        BY <1>1, <3>2, <3>3, <4>1, <4>3 DEF HandleGetState
    <3>4. CASE ~HandleGetState(a)
      <4>1. seen' = seen
        BY <2>2, <3>4 DEF Handlers, HandleResult, HandleChildSpawned, HandleSpawnFailed,
                  HandleAdjust, HandleSetAllocated, HandleRelease, HandleChildDismissed
      <4> QED
        BY <3>2, <4>1
    <3> QED
      BY <3>3, <3>4
  <2>3. CASE RecordCost(a)
    BY <2>3 DEF RecordCost
  <2> QED
    BY <1>2, <2>1, <2>2, <2>3 DEF AgentStep, Handlers
<1>3. ASSUME NEW j \in Ops, OpStep(j)
      PROVE  seen'[i] = seen[i] /\ (stage[i] = "releasing" \/ seen[i].allocated # NA)
  <2>1. seen' = seen
    BY <1>3 DEF OpStep, RejectAction, CastReply, AcknowledgeDismiss, ExecuteSpawn, StartChild,
         FailSpawn, AnnounceChild, ExecuteAdjust, ExecuteDismiss, GetStateExits, SelectCosts,
         CommitAbsorption, AbsorptionFails, TerminateSubtree, FinishDismissal
  <2>2. j \in DOMAIN op /\ OthersStay(j) /\ Moved1(j)
    BY <1>3, OpMoves
  <2>3. CASE stage[i] = "releasing"
    BY <2>1, <2>3
  <2>4. CASE stage[i] # "releasing"
    <3>1. i = j
      BY <1>1, <2>2, <2>4 DEF OthersStay
    <3>2. stage[i] = "absorbed"
      BY <2>2, <2>4, <3>1 DEF Moved1, Moves
    <3>3. TerminateSubtree(i)
      BY <1>1, <1>3, <2>4, <3>1, <3>2
         DEF OpStep, RejectAction, CastReply, AcknowledgeDismiss, ExecuteSpawn, StartChild,
         FailSpawn, AnnounceChild, ExecuteAdjust, ExecuteDismiss, GetStateExits, SelectCosts,
         CommitAbsorption, AbsorptionFails, FinishDismissal, At, Goes
    <3>4. stage' = [stage EXCEPT ![i] = IF Releases(i) THEN "releasing" ELSE "released"]
      BY <3>3 DEF TerminateSubtree, Goes
    <3>5. Releases(i)
      BY <1>1, <3>4
    <3> QED
      BY <2>1, <3>5 DEF Releases
  <2> QED
    BY <2>3, <2>4
<1>4. EditStep \/ UNCHANGED vars => seen' = seen /\ stage' = stage
  BY DEF EditStep, BeginEdit, SendEdit, HandleUpdateBudgetData, vars
<1> QED
  BY <1>2, <1>3, <1>4 DEF Next

\* No handler changes the mode of a budget or takes its allocation away, and only
\* set_allocated changes it.
LEMMA HandlerKeepsLimit ==
    ASSUME TypeInv, MailInv, NEW a \in Agents, Handlers(a)
    PROVE  /\ budget'[a].mode = budget[a].mode
           /\ budget[a].allocated # NA => budget'[a].allocated # NA
           /\ HandleSetAllocated(a) \/ budget'[a].allocated = budget[a].allocated
<1> PICK i : i = Head(mailbox[a]).id
  OBVIOUS
<1> PICK c : c = op[i].child
  OBVIOUS
<1>2. /\ i \in DOMAIN op /\ i \in Ops /\ OpFacts(op[i]) /\ a \in alive
      /\ \A b \in Agents \ {a} : budget'[b] = budget[b]
      /\ \/ budget' = budget
         \/ budget'[a] = CommitAmount(budget[a], op[i].amount)
         \/ /\ op[i].kind = "adjust"
            /\ budget'[a] = AdjustEscrow(budget[a], Current(c), op[i].amount)
         \/ /\ HandleSetAllocated(a) /\ op[i].kind = "adjust"
            /\ budget'[a] = [budget[a] EXCEPT !.allocated = op[i].amount]
         \/ budget'[a] = ReleaseCommitted(budget[a], seen[i].allocated)
  BY HandlerBudgets
<1>3. /\ op[i].amount \in Amounts \cup {NA} /\ (op[i].kind = "adjust" => op[i].amount \in Amounts)
      /\ op[i].child \in Agents /\ seen[i].allocated \in Nat \cup {NA}
  BY <1>2 DEF OpFacts, Budgets, TypeInv, LedgerTypeOK
<1>4. Current(c) \in Nat
  BY <1>3 DEF Current, TypeInv, LedgerTypeOK
<1>5. /\ budget'[a].mode = budget[a].mode
      /\ budget[a].allocated # NA => budget'[a].allocated # NA
      /\ HandleSetAllocated(a) \/ budget'[a].allocated = budget[a].allocated
  <2>0. budget[a] \in Budgets
    BY DEF TypeInv, LedgerTypeOK
  <2>1. CASE budget'[a] = CommitAmount(budget[a], op[i].amount)
    <3>1. \A m \in Amounts \cup {NA} :
              /\ CommitAmount(budget[a], m).mode = budget[a].mode
              /\ CommitAmount(budget[a], m).allocated = budget[a].allocated
      BY <2>0, EscrowOperations
    <3> QED
      BY <1>3, <2>1, <3>1
  <2>2. CASE /\ op[i].kind = "adjust"
             /\ budget'[a] = AdjustEscrow(budget[a], Current(c), op[i].amount)
    <3>1. op[i].amount \in Nat
      BY <1>3, <2>2
    <3>2. \A current \in Nat, new \in Nat :
              /\ AdjustEscrow(budget[a], current, new).mode = budget[a].mode
              /\ AdjustEscrow(budget[a], current, new).allocated = budget[a].allocated
      BY <2>0, EscrowOperations
    <3> QED
      BY <1>4, <2>2, <3>1, <3>2
  <2>3. CASE /\ HandleSetAllocated(a) /\ op[i].kind = "adjust"
             /\ budget'[a] = [budget[a] EXCEPT !.allocated = op[i].amount]
    BY <1>3, <2>0, <2>3, SetAllocation
  <2>4. CASE budget'[a] = ReleaseCommitted(budget[a], seen[i].allocated)
    <3>1. \A n \in Nat \cup {NA} :
              /\ ReleaseCommitted(budget[a], n).mode = budget[a].mode
              /\ ReleaseCommitted(budget[a], n).allocated = budget[a].allocated
      BY <2>0, BudgetOperations
    <3> QED
      BY <1>3, <2>4, <3>1
  <2> QED
    BY <1>2, <2>1, <2>2, <2>3, <2>4
<1> QED
  BY <1>5

LEMMA LimitPreserved ==
    TypeInv /\ CostTypeOK /\ InheritInv /\ FlowInv /\ LimitInv /\ [Next]_vars => LimitInv'
<1> SUFFICES ASSUME TypeInv, CostTypeOK, InheritInv, FlowInv, LimitInv, [Next]_vars
             PROVE  LimitInv'
  OBVIOUS
<1>1. budget \in [Agents -> Budgets] /\ alive \subseteq Agents /\ Root \in Agents /\ seen \in [Ops -> Budgets]
  BY DEF TypeInv, LedgerTypeOK
<1>2. ASSUME NEW i \in DOMAIN op', stage'[i] = "releasing"
      PROVE  seen'[i].allocated # NA
  <2>1. CASE i \in DOMAIN op
    BY <1>2, <2>1, ReleasingSince DEF LimitInv
  <2>2. CASE i \notin DOMAIN op
    <3>1. PICK a \in Agents : Takes(a)
      BY <2>2, StepsTakeNoAction, WhatIsTaken
    <3> QED
      BY <1>2, <2>2, <3>1 DEF Takes, NewOps
  <2> QED
    BY <2>1, <2>2
<1>3. ASSUME UNCHANGED <<edit, edits>>,
             \A p \in alive' \cup {Root} : budget'[p].mode # "na" => budget'[p].allocated # NA
      PROVE  LimitInv'
  BY <1>2, <1>3 DEF LimitInv
<1>4. CASE UNCHANGED <<edit, edits, alive, budget>>
  BY <1>3, <1>4 DEF LimitInv
<1>5. ASSUME NEW a \in Agents, Handlers(a) PROVE LimitInv'
  <2>1. UNCHANGED <<edit, edits, alive>>
    BY <1>5 DEF Handlers, HandleResult, HandleChildSpawned, HandleSpawnFailed, HandleAdjust,
                HandleSetAllocated, HandleGetState, HandleRelease, HandleChildDismissed
  <2>2. \A b \in Agents \ {a} : budget'[b] = budget[b]
    BY <1>5, HandlerBudgets DEF FlowInv
  <2>5. /\ budget'[a].mode = budget[a].mode
        /\ budget[a].allocated # NA => budget'[a].allocated # NA
    BY <1>5, HandlerKeepsLimit DEF FlowInv
  <2>6. \A p \in alive' \cup {Root} : budget'[p].mode # "na" => budget'[p].allocated # NA
    <3>1. ASSUME NEW p \in alive' \cup {Root}, budget'[p].mode # "na"
          PROVE  budget'[p].allocated # NA
      <4>1. p \in Agents /\ p \in alive \cup {Root}
        BY <1>1, <2>1
      <4>2. budget[p].mode # "na" => budget[p].allocated # NA
        BY <4>1 DEF LimitInv
      <4> QED
        BY <2>2, <2>5, <3>1, <4>1, <4>2
    <3> QED
      BY <3>1
  <2> QED
    BY <1>3, <2>1, <2>6
<1>6. ASSUME NEW i \in Ops, OpStep(i) PROVE LimitInv'
  <2>1. NewChild(NA).mode = "na" /\ \A m : NewChild(m).mode # "na" => NewChild(m).allocated # NA
    BY DEF NewChild
  <2>2. CASE alive' = alive /\ budget' = budget
    BY <1>4, <1>6, <2>2, OpBudgets
  <2>3. CASE StartChild(i) \/ TerminateSubtree(i)
    <3>1. \A p \in alive' \cup {Root} : budget'[p].mode # "na" => budget'[p].allocated # NA
      <4>1. ASSUME NEW p \in alive' \cup {Root}
            PROVE  p \in Agents /\ \/ \E m : budget'[p] = NewChild(m)
                                   \/ p \in alive \cup {Root} /\ budget'[p] = budget[p]
        BY <1>1, <1>6, <4>1, OpBudgets
      <4> QED
        BY <2>1, <4>1 DEF LimitInv
    <3> QED
      BY <1>3, <1>6, <3>1, OpBudgets
  <2> QED
    BY <1>6, <2>2, <2>3, OpBudgets
<1>7. ASSUME EditStep PROVE LimitInv'
  <2>1. CASE \E new \in Amounts : BeginEdit(new)
    <3>1. PICK new \in Amounts : BeginEdit(new)
      BY <2>1
    <3>2. /\ edit' = {[budget[Root] EXCEPT !.allocated = new]} /\ edits' = edits + 1
          /\ UNCHANGED <<alive, budget>>
      BY <3>1 DEF BeginEdit
    <3>3. [budget[Root] EXCEPT !.allocated = new].allocated # NA
      BY <1>1, SetAllocation
    <3>4. edits' # 0
      BY <3>2 DEF CostTypeOK
    <3> QED
      BY <1>2, <3>2, <3>3, <3>4 DEF LimitInv
  <2>2. CASE SendEdit
    BY <1>4, <2>2 DEF SendEdit
  <2>3. CASE HandleUpdateBudgetData
    <3>1. PICK new \in edit : budget' = [budget EXCEPT ![Root] = new]
      BY <2>3 DEF HandleUpdateBudgetData
    <3>2. UNCHANGED <<alive, edits>> /\ edit' = {}
      BY <2>3 DEF HandleUpdateBudgetData
    <3>3. \A p \in alive' \cup {Root} : budget'[p].mode # "na" => budget'[p].allocated # NA
      BY <1>1, <3>1, <3>2 DEF LimitInv
    <3> QED
      BY <1>2, <3>2, <3>3 DEF LimitInv
  <2> QED
    BY <1>7, <2>1, <2>2, <2>3 DEF EditStep
<1>8. ASSUME NEW a \in Agents, AgentStep(a) PROVE LimitInv'
  <2>1. TakeAction(a) \/ TakeBatch(a) \/ RecordCost(a) => UNCHANGED <<edit, edits, alive, budget>>
    BY DEF TakeAction, TakeBatch, RecordCost
  <2> QED
    BY <1>4, <1>5, <1>8, <2>1 DEF AgentStep, Handlers
<1>9. UNCHANGED vars => UNCHANGED <<edit, edits, alive, budget>>
  BY DEF vars
<1> QED
  BY <1>4, <1>6, <1>7, <1>8, <1>9 DEF Next

\* Initially nobody waits, and the root's limit is the task's.
LEMMA InitLimit == Init => BusyInv /\ LimitInv
<1> SUFFICES ASSUME Init PROVE BusyInv /\ LimitInv
  OBVIOUS
<1>1. BusyInv
  BY DEF Init, BusyInv
<1>2. LimitInv
  BY DEF Init, LimitInv, NewRoot, NewChild
<1> QED
  BY <1>1, <1>2

-----------------------------------------------------------------------------
(* Nobody commits more than it was allocated *)

\* The agents CommittedWithinAllocation speaks of
Careful(p) ==
    HasLimit(p) /\ Undisturbed(p) /\ \A i \in DOMAIN op : op[i].by = p => ~op[i].batched

\* A spawn whose result its parent p has not handled is still to be committed:
\* until it was checked its snapshot is what p has, then there is room for it
RoomFor(p, i) ==
    op[i].by = p /\ op[i].kind = "spawn" /\ reply[i] # "handled" =>
        /\ stage[i] = "dispatched" =>
              /\ op[i].snap.budget.committed >= budget[p].committed
              /\ op[i].snap.budget.allocated = budget[p].allocated
        /\ stage[i] \notin {"dispatched", "rejected"} /\ op[i].amount # NA =>
              budget[p].committed + op[i].amount <= budget[p].allocated

WithinAt(p) ==
    /\ budget[p].committed <= budget[p].allocated
    /\ \A i \in DOMAIN op : RoomFor(p, i)

WithinInv == \A p \in Agents : Careful(p) => WithinAt(p)

\* Who is careful was so before, but for those just started.
LEMMA CarefulBefore ==
    ASSUME [Next]_vars, LimitInv, CostTypeOK, NEW p \in alive,
           \A i \in DOMAIN op : i \in DOMAIN op' /\ op'[i] = op[i],
           Careful(p)', budget'[p].mode = budget[p].mode
    PROVE  Careful(p)
<1>1. HasLimit(p)
  BY DEF Careful, HasLimit
<1>2. edits' = 0 => edits = 0
  <2>1. edits' = edits \/ edits' = edits + 1
    BY HandlersTouchNoCosts, OpsTouchNoCosts
       DEF Next, AgentStep, TakeAction, TakeBatch, RecordCost, SelectCosts, CommitAbsorption,
           EditStep, BeginEdit, SendEdit, HandleUpdateBudgetData, vars
  <2> QED
    BY <2>1 DEF CostTypeOK
<1>3. OpsOn("adjust", p) \subseteq OpsOn("adjust", p)'
  BY DEF OpsOn
<1>4. Undisturbed(p)
  BY <1>2, <1>3 DEF Careful, Undisturbed
<1>5. \A i \in DOMAIN op : op[i].by = p => ~op[i].batched
  BY DEF Careful
<1> QED
  BY <1>1, <1>4, <1>5 DEF Careful

\* Nothing about p changes but the stages of its actions.
LEMMA WithinKept ==
    ASSUME NEW p, WithinAt(p), op' = op, budget'[p] = budget[p],
           \A i \in DOMAIN op : reply'[i] # "handled" => reply[i] # "handled",
           \A i \in DOMAIN op : op[i].kind = "spawn" /\ stage'[i] = "dispatched" =>
               stage[i] = "dispatched",
           \A i \in DOMAIN op :
               op[i].kind = "spawn" /\ stage'[i] \notin {"dispatched", "rejected"} =>
                   \/ stage[i] \notin {"dispatched", "rejected"}
                   \/ RoomFor(p, i)'
    PROVE  WithinAt(p)'
<1>1. ASSUME NEW i \in DOMAIN op PROVE RoomFor(p, i)'
  <2>1. RoomFor(p, i)
    BY DEF WithinAt
  <2> QED
    BY <2>1 DEF RoomFor
<1> QED
  BY <1>1 DEF WithinAt

\* Taking an action copies the budget.
LEMMA TakingWithin ==
    ASSUME TypeInv, CostTypeOK, LimitInv, WithinInv, [Next]_vars, NEW a \in Agents, Takes(a),
           NEW p \in Agents, Careful(p)'
    PROVE  WithinAt(p)'
<1>1. /\ budget' = budget /\ reply' = reply /\ alive' = alive
      /\ \A i \in DOMAIN op : i \in DOMAIN op' /\ op'[i] = op[i] /\ stage'[i] = stage[i]
  BY DEF Takes
<1>2. WithinAt(p)
  <2>1. p \in alive
    BY <1>1 DEF Careful, HasLimit
  <2> QED
    BY <1>1, <2>1, CarefulBefore DEF WithinInv
<1>3. ASSUME NEW i \in DOMAIN op' PROVE RoomFor(p, i)'
  <2>1. CASE i \in DOMAIN op
    <3>1. RoomFor(p, i)
      BY <1>2, <2>1 DEF WithinAt
    <3> QED
      BY <1>1, <2>1, <3>1 DEF RoomFor
  <2>2. CASE i \notin DOMAIN op
    <3>1. stage'[i] = "dispatched" /\ op'[i].by = a /\ op'[i].snap = Snapshot(a)
      BY <2>2 DEF Takes, NewOps
    <3>2. op'[i].snap.budget = budget[a]
      BY <3>1 DEF Snapshot
    <3>3. budget[a].committed \in Nat
      BY DEF TypeInv, LedgerTypeOK, Budgets
    <3> QED
      BY <1>1, <3>1, <3>2, <3>3 DEF RoomFor
  <2> QED
    BY <2>1, <2>2
<1> QED
  BY <1>1, <1>2, <1>3 DEF WithinAt

\* A spawn passes its check only if there is room for it.
LEMMA OpWithin ==
    ASSUME TypeInv, CostTypeOK, InheritInv, LimitInv, WithinInv, [Next]_vars,
           NEW i \in Ops, OpStep(i), NEW p \in Agents, Careful(p)'
    PROVE  WithinAt(p)'
<1>1. i \in DOMAIN op /\ OthersStay(i) /\ Moved1(i) /\ OpFacts(op[i])
  BY OpMoves, TakenOps
<1>2. /\ op' = op
      /\ \A j \in DOMAIN op : j # i => stage'[j] = stage[j] /\ reply'[j] = reply[j]
  BY <1>1, TakenOps DEF OthersStay
<1>3. \A j \in DOMAIN op : reply'[j] # "handled" => reply[j] # "handled"
  BY <1>1, <1>2, UnhandledBefore
<1>4. ASSUME p \in alive, budget'[p] = budget[p]
      PROVE  WithinAt(p)'
  <2>1. Careful(p) /\ WithinAt(p)
    BY <1>2, <1>4, CarefulBefore DEF WithinInv
  <2>2. stage'[i] = "dispatched" => stage[i] = "dispatched"
    BY <1>1 DEF Moved1, Moves
  <2>3. ASSUME op[i].kind = "spawn", stage'[i] \notin {"dispatched", "rejected"}
        PROVE  stage[i] \notin {"dispatched", "rejected"} \/ ExecuteSpawn(i)
    <3>1. stage[i] \notin {"dispatched", "rejected"} \/ Moves(i, "dispatched", "starting")
      BY <1>1, <2>3 DEF Moved1, Moves
    <3>2. CASE Moves(i, "dispatched", "starting")
      <4>1. stage \in [Ops -> Stages] /\ stage[i] = "dispatched" /\ stage'[i] = "starting"
        BY <3>2 DEF TypeInv, LedgerTypeOK, Moves
      <4> QED
        BY <4>1
           DEF OpStep, RejectAction, CastReply, AcknowledgeDismiss, StartChild,
               FailSpawn, AnnounceChild, ExecuteAdjust, ExecuteDismiss, GetStateExits, SelectCosts,
               CommitAbsorption, AbsorptionFails, TerminateSubtree, FinishDismissal, At, Goes
    <3> QED
      BY <3>1, <3>2
  <2>4. ASSUME ExecuteSpawn(i) PROVE RoomFor(p, i)'
    <3>1. /\ op[i].kind = "spawn" /\ stage[i] = "dispatched" /\ BudgetValid(op[i].snap, op[i].amount)
          /\ stage'[i] = "starting"
      <4>1. stage \in [Ops -> Stages]
        BY DEF TypeInv, LedgerTypeOK
      <4> QED
        BY <2>4, <4>1 DEF ExecuteSpawn, At, Goes
    <3>2. ASSUME op[i].by = p, reply[i] # "handled", op[i].amount # NA
          PROVE  budget[p].committed + op[i].amount <= budget[p].allocated
      <4>1. /\ op[i].snap.budget.committed >= budget[p].committed
            /\ op[i].snap.budget.allocated = budget[p].allocated
        BY <1>1, <2>1, <3>1, <3>2 DEF WithinAt, RoomFor
      <4>2. op[i].snap.budget.mode = budget[p].mode
        BY <1>1, <1>4, <3>2 DEF InheritInv, SnapshotModes
      <4>3. budget[p].mode # "na"
        BY <2>1 DEF Careful, HasLimit
      <4>4. op[i].snap.budget.allocated - op[i].snap.budget.committed - op[i].snap.spent >= op[i].amount
        BY <3>1, <3>2, <4>2, <4>3 DEF BudgetValid
      <4>5. /\ op[i].amount \in Nat /\ op[i].snap.spent \in Nat /\ op[i].snap.budget.committed \in Nat
            /\ op[i].snap.budget.allocated \in Int /\ budget[p].committed \in Nat
        <5>1. op[i] \in OpType /\ budget[p] \in Budgets
          BY <1>1 DEF CostTypeOK, TypeInv, LedgerTypeOK
        <5>2. \A o \in OpType : /\ o.snap.spent \in Nat /\ o.snap.budget.committed \in Nat
                               /\ o.snap.budget.allocated \in Int
                               /\ o.amount \in Amounts \cup {NA}
          BY DEF OpType, Snapshots, Budgets, NA
        <5>3. budget[p].committed \in Nat
          BY <5>1 DEF Budgets
        <5>4. op[i].amount \in Nat
          BY <3>2, <5>1, <5>2
        <5> QED
          BY <5>1, <5>2, <5>3, <5>4
      <4>6. \A al, co, sp, am, c \in Int :
                al - co - sp >= am /\ sp >= 0 /\ co >= c => c + am <= al
        OBVIOUS
      <4> QED
        BY <4>1, <4>4, <4>5, <4>6
    <3>3. op' = op /\ (reply'[i] # "handled" => reply[i] # "handled") /\ budget'[p] = budget[p]
      BY <1>1, <1>2, <1>3, <1>4
    <3> QED
      BY <3>1, <3>2, <3>3 DEF RoomFor
  <2>5. ASSUME NEW j \in DOMAIN op, op[j].kind = "spawn", stage'[j] \notin {"dispatched", "rejected"}
        PROVE  stage[j] \notin {"dispatched", "rejected"} \/ RoomFor(p, j)'
    BY <1>2, <2>3, <2>4, <2>5
  <2>6. \A j \in DOMAIN op : stage'[j] = "dispatched" => stage[j] = "dispatched"
    BY <1>2, <2>2
  <2> QED
    BY <1>2, <1>3, <1>4, <2>1, <2>5, <2>6, WithinKept
<1>5. CASE alive' = alive /\ budget' = budget
  BY <1>4, <1>5 DEF Careful, HasLimit
<1>6. CASE TerminateSubtree(i)
  <2> PICK dead : dead = LiveSubtree(op[i].child)
    OBVIOUS
  <2>1. /\ alive' = alive \ dead
        /\ \A b \in Agents : budget'[b] = IF b \in dead THEN NewChild(NA) ELSE budget[b]
    <3>1. budget \in [Agents -> Budgets]
      BY DEF TypeInv, LedgerTypeOK
    <3> QED
      BY <1>6, <3>1 DEF TerminateSubtree
  <2> QED
    BY <1>4, <2>1 DEF Careful, HasLimit
<1>7. CASE StartChild(i)
  <2> PICK c : c = op[i].child
    OBVIOUS
  <2>1. /\ alive' = alive \cup {c} /\ budget \in [Agents -> Budgets] /\ c \in Agents
        /\ budget' = [budget EXCEPT ![c] = NewChild(op[i].amount)]
    BY <1>1, <1>7 DEF StartChild, TypeInv, LedgerTypeOK, OpFacts
  <2>2. CASE p # c
    BY <1>4, <2>1, <2>2 DEF Careful, HasLimit
  <2>3. CASE p = c
    <3>1. \A j \in DOMAIN op : op[j].by # c
      BY <1>1, <1>7, StartedByNobody DEF StartChild
    <3>2. budget'[p] = NewChild(op[i].amount)
      BY <2>1, <2>3
    <3>3. budget'[p].mode # "na"
      BY DEF Careful, HasLimit
    <3>4. op[i].amount \in Nat /\ op[i].amount # NA
      <4>1. \A m : NewChild(m).mode # "na" => m # NA
        BY DEF NewChild
      <4>2. op[i].amount # NA
        BY <3>2, <3>3, <4>1
      <4> QED
        BY <1>1, <4>2 DEF OpFacts
    <3>5. budget'[p].committed <= budget'[p].allocated
      BY <3>2, <3>4 DEF NewChild
    <3> QED
      BY <1>2, <2>3, <3>1, <3>5 DEF WithinAt, RoomFor
  <2> QED
    BY <2>2, <2>3
<1> QED
  BY <1>5, <1>6, <1>7, OpBudgets

\* The room is taken when the result is handled; while one spawn waits for that,
\* no other does, and nothing is adjusted.
LEMMA HandlerWithin ==
    ASSUME TypeInv, CostTypeOK, FlowInv, BusyInv, LimitInv, WithinInv, [Next]_vars,
           NEW a \in Agents, Handlers(a), NEW p \in Agents, Careful(p)'
    PROVE  WithinAt(p)'
<1>1. PICK i \in DOMAIN op, type \in MessageTypes :
          /\ Receives(a, type) /\ Head(mailbox[a]) = Msg(type, i)
          /\ op[i].kind \in About(type) /\ Due(a, Msg(type, i))
          /\ OthersStay(i) /\ MovedByMessage(i, type)
  BY HandlerMoves DEF FlowInv
<1>2. /\ i \in Ops /\ OpFacts(op[i]) /\ op' = op /\ Head(mailbox[a]).id = i
      /\ \A j \in DOMAIN op : j # i => stage'[j] = stage[j] /\ reply'[j] = reply[j]
  BY <1>1, TakenOps DEF OthersStay, Msg
<1>3. \A j \in DOMAIN op : reply'[j] # "handled" => reply[j] # "handled"
  BY <1>1, <1>2, UnhandledBefore
<1>4. \A j \in DOMAIN op : op[j].kind = "spawn" => stage'[j] = stage[j]
  BY <1>1, <1>2 DEF MovedByMessage, About
<1>5. alive' = alive
  BY DEF Handlers, HandleResult, HandleChildSpawned, HandleSpawnFailed, HandleAdjust,
         HandleSetAllocated, HandleGetState, HandleRelease, HandleChildDismissed
<1>6. /\ a \in alive /\ \A b \in Agents \ {a} : budget'[b] = budget[b]
      /\ budget'[a].mode = budget[a].mode
  BY HandlerBudgets, HandlerKeepsLimit DEF FlowInv
<1>7. Careful(p) /\ WithinAt(p)
  <2>1. p \in alive /\ budget'[p].mode = budget[p].mode
    BY <1>5, <1>6 DEF Careful, HasLimit
  <2>2. Careful(p)
    BY <1>2, <2>1, CarefulBefore
  <2> QED
    BY <2>2 DEF WithinInv
<1>8. CASE budget'[p] = budget[p]
  BY <1>2, <1>3, <1>4, <1>7, <1>8, WithinKept
<1>9. CASE p = a /\ budget' # budget
  <2> PICK c : c = op[i].child
    OBVIOUS
  <2>9. /\ HandleResult(a) => TracksChild(i) /\ budget'[a] = CommitAmount(budget[a], op[i].amount)
        /\ HandleAdjust(a) => /\ op[i].kind = "adjust" /\ MayAdjust(a, c, op[i].amount)
                              /\ budget'[a] = AdjustEscrow(budget[a], Current(c), op[i].amount)
        /\ HandleRelease(a) => budget'[a] = ReleaseCommitted(budget[a], seen[i].allocated)
        /\ HandleResult(a) \/ HandleAdjust(a) \/ HandleSetAllocated(a) \/ HandleRelease(a)
    <3>1. \A t, u : Receives(a, t) /\ Receives(a, u) => t = u
      BY DEF Receives
    <3>2. /\ HandleResult(a) => Receives(a, "result")
          /\ HandleAdjust(a) => Receives(a, "adjust")
          /\ HandleSetAllocated(a) => Receives(a, "set_allocated")
          /\ HandleRelease(a) => Receives(a, "release")
      BY DEF HandleResult, HandleAdjust, HandleSetAllocated, HandleRelease
    <3>3. /\ HandleResult(a) => ~HandleAdjust(a) /\ ~HandleSetAllocated(a) /\ ~HandleRelease(a)
          /\ HandleAdjust(a) => ~HandleSetAllocated(a) /\ ~HandleRelease(a)
          /\ HandleRelease(a) => ~HandleSetAllocated(a)
      BY <3>1, <3>2
    <3>4. /\ \/ HandleResult(a) /\ TracksChild(i)
                /\ budget'[a] = CommitAmount(budget[a], op[i].amount)
             \/ HandleAdjust(a) /\ op[i].kind = "adjust" /\ MayAdjust(a, c, op[i].amount)
                /\ budget'[a] = AdjustEscrow(budget[a], Current(c), op[i].amount)
             \/ HandleSetAllocated(a)
             \/ HandleRelease(a) /\ budget'[a] = ReleaseCommitted(budget[a], seen[i].allocated)
      <4> HIDE DEF Handlers
      <4> QED
        BY <1>2, <1>9, HandlerBudgets DEF FlowInv
    <3> QED
      BY <3>3, <3>4
  <2>1. /\ budget[a] \in Budgets /\ budget[a].allocated # NA
        /\ budget[a].committed \in Nat /\ budget[a].allocated \in Nat
    <3>1. budget[a].allocated # NA
      BY <1>7, <1>9 DEF LimitInv, Careful, HasLimit
    <3> QED
      BY <3>1 DEF TypeInv, LedgerTypeOK, Budgets
  <2>2. ~HandleSetAllocated(a)
    <3>1. ASSUME HandleSetAllocated(a) PROVE FALSE
      <4>1. op[i].kind = "adjust" /\ op[i].child = a
        BY <1>1, <3>1 DEF HandleSetAllocated, Receives, About, Due, Msg
      <4> QED
        BY <1>7, <1>9, <4>1 DEF Careful, Undisturbed, OpsOn
    <3> QED
      BY <3>1
  <2>3. budget'[a].allocated = budget[a].allocated
    BY <2>2, HandlerKeepsLimit DEF FlowInv
  <2>4. op[i].kind # "dismiss" => op[i].by = a /\ ~op[i].batched /\ reply[i] # "handled"
    <3>1. CASE HandleResult(a)
      <4>1. op[i].by = a /\ ~op[i].batched /\ reply[i] = "sent"
        BY <1>1, <3>1 DEF HandleResult, Receives, Due, Msg
      <4> QED
        BY <4>1
    <3>2. CASE HandleAdjust(a)
      <4>1. op[i].by = a /\ stage[i] = "calling" /\ op[i].kind = "adjust"
        BY <1>1, <3>2 DEF HandleAdjust, Receives, Due, Msg, About
      <4>2. reply[i] = "none"
        BY <1>2, <4>1 DEF FlowInv, ReplyInv, StageOK
      <4> QED
        BY <1>2, <1>7, <1>9, <4>1, <4>2 DEF Careful
    <3>3. CASE HandleRelease(a)
      BY <1>1, <3>3 DEF HandleRelease, Receives, About
    <3> QED
      BY <1>9, <2>2, <3>1, <3>2, <3>3, HandlerBudgets DEF FlowInv
  <2>5. op[i].kind # "dismiss" =>
            \A j \in DOMAIN op : op[j].by = a /\ op[j].kind = "spawn" /\ reply[j] # "handled" => j = i
    <3>1. ASSUME op[i].kind # "dismiss", NEW j \in DOMAIN op, op[j].by = a, op[j].kind = "spawn",
                 reply[j] # "handled"
          PROVE  j = i
      <4>1. ~op[j].batched
        BY <1>7, <1>9, <3>1 DEF Careful
      <4>2. busy[a] = j
        BY <1>6, <3>1, <4>1 DEF BusyInv
      <4>3. busy[a] = i
        BY <1>6, <2>4, <3>1 DEF BusyInv
      <4> QED
        BY <4>2, <4>3
    <3> QED
      BY <3>1
  <2>6. CASE HandleResult(a)
    <3>1. TracksChild(i) /\ budget'[a] = CommitAmount(budget[a], op[i].amount)
      BY <2>6, <2>9
    <3>2. op[i].by = a /\ reply[i] = "sent" /\ op[i].kind = "spawn" /\ stage[i] # "rejected"
      BY <1>1, <2>6, <3>1 DEF HandleResult, Receives, Due, Msg, TracksChild
    <3>3. stage[i] # "dispatched"
      BY <3>2 DEF FlowInv, ReplyInv, StageOK
    <3>4. op[i].amount # NA => budget[a].committed + op[i].amount <= budget[a].allocated
      BY <1>7, <1>9, <3>2, <3>3 DEF WithinAt, RoomFor
    <3>5. budget'[a].committed = budget[a].committed + (IF op[i].amount = NA THEN 0 ELSE op[i].amount)
      <4>1. \A m \in Amounts \cup {NA} :
               CommitAmount(budget[a], m).committed = budget[a].committed + (IF m = NA THEN 0 ELSE m)
        BY <2>1, CommittedAfter
      <4> QED
        BY <1>2, <3>1, <4>1 DEF OpFacts
    <3>6. budget'[a].committed <= budget'[a].allocated
      <4>1. budget[a].committed <= budget[a].allocated
        BY <1>7, <1>9 DEF WithinAt
      <4> QED
        BY <2>1, <2>3, <3>4, <3>5, <4>1
    <3>7. reply'[i] = "handled"
      <4>1. type = "result"
        BY <1>1, <2>6 DEF HandleResult, Receives
      <4> QED
        BY <1>1, <4>1 DEF MovedByMessage
    <3>8. \A j \in DOMAIN op : op[j].by = a /\ op[j].kind = "spawn" => reply'[j] = "handled"
      BY <1>3, <2>5, <3>2, <3>7
    <3> QED
      BY <1>2, <1>9, <3>6, <3>8 DEF WithinAt, RoomFor
  <2>7. CASE HandleAdjust(a)
    <3>1. /\ op[i].kind = "adjust" /\ MayAdjust(a, c, op[i].amount)
          /\ budget'[a] = AdjustEscrow(budget[a], Current(c), op[i].amount)
      BY <2>7, <2>9
    <3>2. op[i].amount \in Nat /\ Current(c) \in Nat /\ costs[a] \in Nat
      BY <1>2, <3>1 DEF OpFacts, Current, TypeInv, LedgerTypeOK, CostTypeOK
    <3>3. PICK cur \in Nat, new \in Nat : cur = Current(c) /\ new = op[i].amount
      BY <3>2
    <3>4. budget'[a].committed = IF new >= cur THEN budget[a].committed + (new - cur)
                                 ELSE IF budget[a].committed < cur - new THEN 0
                                 ELSE budget[a].committed - (cur - new)
      <4>1. budget'[a] = AdjustEscrow(budget[a], cur, new)
        BY <3>1, <3>3
      <4> QED
        BY <2>1, <4>1, CommittedAfter
    <3>5. new > cur => budget[a].allocated - costs[a] - budget[a].committed >= new - cur
      BY <2>1, <3>1, <3>3 DEF MayAdjust, MayAdjustEscrow, HasAvailable, Available
    <3>6. budget'[a].committed <= budget'[a].allocated
      <4>1. budget[a].committed <= budget[a].allocated
        BY <1>7, <1>9 DEF WithinAt
      <4> QED
        BY <2>1, <2>3, <3>2, <3>3, <3>4, <3>5, <4>1
    <3>7. \A j \in DOMAIN op : op[j].by = a /\ op[j].kind = "spawn" => reply'[j] = "handled"
      BY <1>3, <2>5, <3>1
    <3> QED
      BY <1>2, <1>9, <3>6, <3>7 DEF WithinAt, RoomFor
  <2>8. CASE HandleRelease(a)
    <3>1. budget'[a] = ReleaseCommitted(budget[a], seen[i].allocated)
      BY <2>8, <2>9
    <3>2. stage[i] = "releasing"
      BY <1>1, <2>8 DEF HandleRelease, Receives, Due, Msg
    <3>3. seen[i].allocated \in Nat
      BY <1>2, <3>2 DEF LimitInv, TypeInv, LedgerTypeOK, Budgets
    <3>4. budget'[a].committed <= budget[a].committed /\ budget'[a].committed \in Nat
      <4>1. \A n \in Nat : ReleaseCommitted(budget[a], n).committed =
                IF budget[a].committed < n THEN 0 ELSE budget[a].committed - n
        BY <2>1, CommittedAfter
      <4> QED
        BY <2>1, <3>1, <3>3, <4>1
    <3>5. budget'[a].committed <= budget'[a].allocated
      BY <1>7, <1>9, <2>1, <2>3, <3>4 DEF WithinAt
    <3>6. ASSUME NEW j \in DOMAIN op PROVE RoomFor(p, j)'
      <4>1. RoomFor(p, j) /\ OpFacts(op[j])
        BY <1>7, TakenOps DEF WithinAt
      <4>2. /\ op'[j] = op[j] /\ (reply'[j] # "handled" => reply[j] # "handled")
            /\ op[j].kind = "spawn" => stage'[j] = stage[j]
        BY <1>2, <1>3, <1>4
      <4>3. /\ op[j].snap.budget.committed \in Nat
            /\ op[j].amount # NA => op[j].amount \in Nat
        BY <4>1 DEF OpFacts, Budgets
      <4>4. \A x, y, z, w \in Int : x <= y => (w >= y => w >= x) /\ (y + z <= w => x + z <= w)
        OBVIOUS
      <4>5. op[j].by = a /\ op[j].kind = "spawn" /\ reply'[j] # "handled" =>
                /\ stage'[j] = "dispatched" =>
                      /\ op[j].snap.budget.committed >= budget'[a].committed
                      /\ op[j].snap.budget.allocated = budget'[a].allocated
                /\ stage'[j] \notin {"dispatched", "rejected"} /\ op[j].amount # NA =>
                      budget'[a].committed + op[j].amount <= budget'[a].allocated
        BY <1>9, <2>1, <2>3, <3>4, <4>1, <4>2, <4>3, <4>4 DEF RoomFor
      <4> QED
        BY <1>9, <4>2, <4>5 DEF RoomFor
    <3> QED
      BY <1>2, <1>9, <3>5, <3>6 DEF WithinAt
  <2> QED
    BY <2>2, <2>6, <2>7, <2>8, <2>9
<1> QED
  BY <1>6, <1>8, <1>9

\* An agent whose budget nobody edits keeps what it has committed.
LEMMA EditWithin ==
    ASSUME TypeInv, CostTypeOK, LimitInv, WithinInv, [Next]_vars,
           EditStep \/ UNCHANGED <<op, stage, reply, alive, budget, edits>>,
           NEW p \in Agents, Careful(p)'
    PROVE  WithinAt(p)'
<1>1. UNCHANGED <<op, stage, reply, alive>>
  BY DEF EditStep, BeginEdit, SendEdit, HandleUpdateBudgetData
<1>2. p \in alive
  BY <1>1 DEF Careful, HasLimit
<1>3. budget'[p] = budget[p]
  <2>1. CASE HandleUpdateBudgetData
    <3>1. edits' = edits /\ edit # {} /\ \E new : budget' = [budget EXCEPT ![Root] = new]
      BY <2>1 DEF HandleUpdateBudgetData
    <3>2. p # Root
      BY <3>1 DEF LimitInv, Careful, Undisturbed
    <3> QED
      BY <3>1, <3>2 DEF TypeInv, LedgerTypeOK
  <2>2. CASE ~HandleUpdateBudgetData
    BY <2>2 DEF EditStep, BeginEdit, SendEdit
  <2> QED
    BY <2>1, <2>2
<1>4. WithinAt(p)
  BY <1>1, <1>2, <1>3, CarefulBefore DEF WithinInv
<1> QED
  BY <1>1, <1>3, <1>4, WithinKept

LEMMA WithinPreserved ==
    TypeInv /\ CostTypeOK /\ InheritInv /\ FlowInv /\ BusyInv /\ LimitInv /\ WithinInv
    /\ [Next]_vars => WithinInv'
<1> SUFFICES ASSUME TypeInv, CostTypeOK, InheritInv, FlowInv, BusyInv, LimitInv, WithinInv,
                    [Next]_vars, NEW p \in Agents, Careful(p)'
             PROVE  WithinAt(p)'
  BY DEF WithinInv
<1>1. ASSUME NEW a \in Agents, AgentStep(a) PROVE WithinAt(p)'
  <2>1. CASE TakeAction(a) \/ TakeBatch(a)
    BY <2>1, WhatIsTaken, TakingWithin
  <2>2. CASE Handlers(a)
    BY <2>2, HandlerWithin
  <2>3. CASE RecordCost(a)
    BY <2>3, EditWithin DEF RecordCost
  <2> QED
    BY <1>1, <2>1, <2>2, <2>3 DEF AgentStep, Handlers
<1>2. ASSUME NEW i \in Ops, OpStep(i) PROVE WithinAt(p)'
  BY <1>2, OpWithin
<1>3. CASE EditStep \/ UNCHANGED vars
  BY <1>3, EditWithin DEF vars
<1> QED
  BY <1>1, <1>2, <1>3 DEF Next

\* An agent with a limit that was never given less than it started with, and that
\* takes its actions one at a time, has never committed more than it was
\* allocated: its spawns are checked against a copy of its budget, but it handles
\* the result of one before it takes the next (budget_validation.ex:84).
THEOREM NobodyOvercommits == Spec => []CommittedWithinAllocation
<1> DEFINE IInv == TypeInv /\ CostTypeOK /\ InheritInv /\ TreeInv /\ FlowInv /\ BusyInv
                   /\ LimitInv /\ WithinInv
<1>1. Init => IInv
  <2>1. Init => WithinInv
    <3> SUFFICES ASSUME Init, NEW p \in Agents, Careful(p) PROVE WithinAt(p)
      BY DEF WithinInv
    <3>1. p = Root /\ budget[p] = NewRoot
      BY DEF Init, Careful, HasLimit
    <3>2. NewRoot.committed <= NewRoot.allocated
      <4>1. NewRoot.mode # "na"
        BY <3>1 DEF Careful, HasLimit
      <4> QED
        BY <4>1 DEF NewRoot, NA
    <3> QED
      BY <3>1, <3>2 DEF Init, WithinAt
  <2>2. Init => TreeInv
    BY DEF Init, TreeInv, SpawnOrder, OwnChild
  <2> QED
    BY <2>1, <2>2, InitTypes, InitCostTypes, InitInherits, InitFlow, InitLimit
<1>2. IInv /\ [Next]_vars => IInv'
  BY TypesPreserved, CostTypesPreserved, InheritancePreserved, TreePreserved, FlowPreserved,
     BusyPreserved, LimitPreserved, WithinPreserved
<1>3. IInv => CommittedWithinAllocation
  <2> SUFFICES ASSUME IInv, NEW p \in Agents, HasLimit(p), Undisturbed(p),
                      \A i \in DOMAIN op : op[i].by = p => ~op[i].batched
               PROVE  budget[p].committed <= budget[p].allocated
    BY DEF CommittedWithinAllocation
  <2>1. Careful(p)
    BY DEF Careful
  <2> QED
    BY <2>1 DEF WithinInv, WithinAt
<1> QED
  BY <1>1, <1>2, <1>3, PTL DEF Spec
=============================================================================
