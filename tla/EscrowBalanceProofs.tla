----------------------- MODULE EscrowBalanceProofs -----------------------
(***************************************************************************)
(* Theorems about the escrow in BudgetTree, for every value of its         *)
(* constants: what an agent with a limit has committed covers what the     *)
(* children it holds are allocated, and is no more than it owes for them.  *)
(*                                                                         *)
(* The amounts travel: a child is told its allocation by a message, a      *)
(* dismissal reads it with a request and releases it with another message, *)
(* all while the child may be adjusted, fail to start, or end.  So the     *)
(* proof first says what the parent knows of a child, what the child was   *)
(* told and what a dismissal has read, and only then balances the sums.    *)
(***************************************************************************)
EXTENDS BudgetTreeProofs

USE ParametersAssumption
USE DEF ParametersAssumption, treeVars, ledgerVars, opVars, workVars, costVars, editVars

-----------------------------------------------------------------------------
(* What the parent of a child knows of it *)

\* An adjustment of the child was handled
Adjusted(c) == \E i \in OpsOn("adjust", c) : stage[i] = "done"

\* A spawn whose result the parent has handled
Settled(s) == op[s].kind = "spawn" /\ ~op[s].batched /\ reply[s] = "handled"

\* The start of a living child did not fail
LivingStarted == \A c \in alive : \A s \in OpsOn("spawn", c) : stage[s] # "failed"

\* A child is listed by the result of its spawn, or when that is done; with an
\* allocation by the result or an adjustment
ListedInv ==
    /\ \A c \in listed : \E s \in OpsOn("spawn", c) : stage[s] \notin {"dispatched", "rejected"}
    /\ \A c \in Agents : known[c] # NA => c \in listed
    /\ \A c \in Agents : \A s \in OpsOn("spawn", c) :
          known[c] # NA /\ ~Adjusted(c) => known[c] = op[s].amount /\ reply[s] = "handled"

\* Until it is adjusted a child has what it was spawned with
FirstAllocation ==
    \A c \in alive : \A s \in OpsOn("spawn", c) :
        ~Adjusted(c) => budget[c].allocated = op[s].amount

\* Only a child that was started is adjusted
AdjustsStarted ==
    \A j \in DOMAIN op :
        op[j].kind = "adjust" /\ stage[j] \in {"calling", "done"} => Started(op[j].child)

\* A child leaves the list when its start failed or it was dismissed
UnlistedInv ==
    \A s \in DOMAIN op : Settled(s) /\ op[s].by \in alive /\ op[s].child \notin listed =>
        \/ stage[s] \in {"rejected", "failed"}
        \/ \E j \in OpsOn("dismiss", op[s].child) : stage[j] = "done"

\* Who was found by a dismissal was alive, and who was terminated stays so
GoneInv ==
    \A j \in DOMAIN op : op[j].kind = "dismiss" =>
        /\ stage[j] \in {"asked", "known", "selected", "absorbed", "releasing", "released"} =>
              Started(op[j].child)
        /\ stage[j] \in {"releasing", "released"} => op[j].child \notin alive
        /\ \A a \in Agents : Msg("child_dismissed", j) \in Contents(mailbox[a]) =>
              op[j].child \notin alive /\ Started(op[j].child)

ChildInv ==
    /\ LivingStarted /\ ListedInv /\ FirstAllocation /\ AdjustsStarted
    /\ UnlistedInv /\ GoneInv

-----------------------------------------------------------------------------
(* What a child was told, and what its dismissal read *)

Tells(m) == m.type = "set_allocated"

\* The last allocation a mailbox will set is n
TellsLast(box, n) ==
    \E k \in DOMAIN box :
        /\ Tells(box[k]) /\ op[box[k].id].amount = n
        /\ \A l \in DOMAIN box : l > k => ~Tells(box[l])

TellsNothing(box) == \A k \in DOMAIN box : ~Tells(box[k])

\* Once it has read its mailbox the allocation of c is n
ToldIs(c, n) ==
    \/ TellsLast(mailbox[c], n)
    \/ TellsNothing(mailbox[c]) /\ budget[c].allocated = n

\* A child is told its share
ToldInv ==
    \A c \in alive : \A s \in OpsOn("spawn", c) :
        Settled(s) /\ op[s].amount # NA /\ op[s].by \in alive => ToldIs(c, Share(c))

\* The message m is in the mailbox, and no allocation to set behind it
NoneBehind(box, m) ==
    \E k \in DOMAIN box : box[k] = m /\ \A l \in DOMAIN box : l > k => ~Tells(box[l])

\* The message m is in the mailbox, and n is not before it
NotBefore(box, n, m) ==
    \E k \in DOMAIN box : box[k] = m /\ \A l \in DOMAIN box : l < k => box[l] # n

\* A dismissal the escrow is kept for: i, of the child c of p, which has a limit
Proper(i, p, c) ==
    i \in OpsOn("dismiss", c) /\ op[i].by = p /\ HasLimit(p) /\ ~Misused(c)

Asking == {"asked", "known", "selected", "absorbed"}
Knowing == {"known", "selected", "absorbed", "releasing"}

ProperInv(i, p, c) ==
    /\ stage[i] \in Asking => c \in alive
    /\ stage[i] = "asked" => NoneBehind(mailbox[c], Msg("get_state", i))
    /\ stage[i] \in Knowing => seen[i].allocated = Share(c)
    /\ stage[i] \in Knowing \cup {"released"} => seen[i].mode = "allocated"
    /\ stage[i] = "releasing" =>
          /\ c \in listed
          /\ \A s \in OpsOn("spawn", c) :
                NotBefore(mailbox[p], Msg("spawn_failed", s), Msg("release", i))

DismissInv == \A p, c \in Agents : \A i \in Ops : Proper(i, p, c) => ProperInv(i, p, c)

\* Nothing was read before a dismissal asked
SeenInv ==
    \A i \in Ops : stage[i] \in {"none", "dispatched", "rejected", "asked"} => seen[i] = NewChild(NA)

\* A dismissal has ended c, and gives its allocation back
GoneBy(c) ==
    \E j \in OpsOn("dismiss", c) :
        stage[j] \in {"releasing", "released", "done"} /\ seen[j].mode = "allocated"

\* The spawn s made c a child of p, which has a limit
Under(s, p, c) == s \in OpsOn("spawn", c) /\ op[s].by = p /\ HasLimit(p) /\ ~Misused(c)

LostInv(s, p, c) ==
    /\ stage[s] \in {"started", "done"} => c \in alive \/ GoneBy(c)
    /\ stage[s] = "failed" =>
          \A i \in OpsOn("adjust", c) : stage[i] \in {"calling", "done"} => GoneBy(c)
    /\ \A j \in OpsOn("dismiss", c) :
          Msg("child_dismissed", j) \in Contents(mailbox[p]) => seen[j].mode = "allocated"

\* Below an agent with a limit a child is only lost with its allocation given back
DeathInv == \A p, c \in Agents : \A s \in Ops : Under(s, p, c) => LostInv(s, p, c)

-----------------------------------------------------------------------------
(* The balance *)

\* The parents EscrowCoversChildren and EscrowIsOwed speak of
Good(p) == HasLimit(p) /\ ~(p = Root /\ torn) /\ (\A c \in ChildrenOf(p) : ~Misused(c))

\* What the parent must hold back for c
Held(c) ==
    IF c \in listed /\ \A i \in OpsOn("dismiss", c) : stage[i] \notin {"released", "done"}
    THEN Share(c) ELSE 0

\* What the spawn of c committed and an adjustment committed again
Twice(c) ==
    IF Adjusted(c) /\ (known[c] # NA \/ GivenBack(c)) /\ \E s \in OpsOn("spawn", c) : op[s].amount # NA
    THEN op[CHOOSE s \in OpsOn("spawn", c) : TRUE].amount ELSE 0

\* What it may at most hold back for c
Locked(c) == Twice(c) + IF GivenBack(c) THEN 0 ELSE Share(c)

HeldBy == [c \in Agents |-> Held(c)]
LockedBy == [c \in Agents |-> Locked(c)]

BalanceAt(p) ==
    /\ budget[p].committed >= Total(HeldBy, ChildrenOf(p))
    /\ budget[p].committed <= Total(LockedBy, ChildrenOf(p))

BalanceInv == \A p \in Agents : Good(p) => BalanceAt(p)

-----------------------------------------------------------------------------
(* Children and the actions on them *)

\* A step that takes no action keeps who is whose child.
LEMMA OpsKept ==
    ASSUME op' = op
    PROVE  /\ \A kind, c : OpsOn(kind, c)' = OpsOn(kind, c)
           /\ \A c : ParentOf(c)' = ParentOf(c)
           /\ \A a : ChildrenOf(a)' = ChildrenOf(a)
           /\ \A c : Misused(c)' = Misused(c)
           /\ \A m : Tells(m)' = Tells(m)
  BY DEF OpsOn, ParentOf, ChildrenOf, IsSpawned, Misused, Tells

\* The spawn of a child is one.
LEMMA SpawnIs ==
    ASSUME TypeInv, InheritInv, NEW c, NEW s \in OpsOn("spawn", c)
    PROVE  /\ s \in DOMAIN op /\ s \in Ops /\ op[s].kind = "spawn" /\ op[s].child = c
           /\ c \in Agents \ {Root} /\ op[s].by \in Agents /\ op[s].amount \in Amounts \cup {NA}
           /\ ParentOf(c) = op[s].by /\ c \in ChildrenOf(op[s].by)
           /\ OpsOn("spawn", c) = {s}
<1>1. s \in DOMAIN op /\ op[s].kind = "spawn" /\ op[s].child = c
  BY DEF OpsOn
<1>2. s \in Ops /\ OpFacts(op[s])
  BY <1>1, TakenOps
<1>3. ParentOf(c) = op[s].by /\ \A j \in OpsOn("spawn", c) : j = s
  BY ParentIs
<1> QED
  BY <1>1, <1>2, <1>3 DEF OpFacts, ChildrenOf, IsSpawned

\* Who adjusts or dismisses a child is its parent, after the spawn.
LEMMA OwnSpawn ==
    ASSUME TypeInv, InheritInv, TreeInv, NEW i \in DOMAIN op, op[i].kind # "spawn"
    PROVE  \E s \in OpsOn("spawn", op[i].child) : s < i /\ op[s].by = op[i].by
  BY DEF TreeInv, OwnChild

\* The share of a child, with the spawn named.
LEMMA ShareIs ==
    ASSUME TypeInv, InheritInv, NEW c, NEW s \in OpsOn("spawn", c)
    PROVE  Share(c) = IF known[c] # NA THEN known[c]
                      ELSE IF reply[s] = "handled" /\ op[s].amount # NA THEN op[s].amount
                      ELSE 0
<1>1. OpsOn("spawn", c) = {s}
  BY SpawnIs
<1>2. (CHOOSE i \in OpsOn("spawn", c) : TRUE) = s
  BY <1>1
<1> QED
  BY <1>1, <1>2 DEF Share

\* A share is an amount.
LEMMA ShareType ==
    ASSUME TypeInv, InheritInv, NEW c \in Agents, NEW s \in OpsOn("spawn", c)
    PROVE  Share(c) \in Nat
<1>1. known[c] \in Nat \cup {NA} /\ op[s].amount \in Amounts \cup {NA}
  BY SpawnIs DEF TypeInv, LedgerTypeOK
<1>2. op[s].amount \in Nat \cup {NA}
  BY <1>1
<1>3. CASE known[c] # NA
  BY <1>1, <1>3, ShareIs
<1>4. CASE known[c] = NA
  BY <1>2, <1>4, ShareIs
<1> QED
  BY <1>3, <1>4

\* A parent that has not handled the result of a spawn has not touched the child.
LEMMA Untouched ==
    ASSUME TypeInv, InheritInv, TreeInv, BusyInv, NEW c, NEW s \in OpsOn("spawn", c),
           ~op[s].batched, reply[s] # "handled", op[s].by \in alive
    PROVE  OpsOn("adjust", c) = {} /\ OpsOn("dismiss", c) = {}
<1> SUFFICES ASSUME NEW i \in DOMAIN op, op[i].kind # "spawn", op[i].child = c PROVE FALSE
  BY DEF OpsOn
<1>1. PICK t \in OpsOn("spawn", c) : t < i /\ op[t].by = op[i].by
  BY OwnSpawn
<1>2. t = s /\ s \in DOMAIN op /\ s \in Ops /\ i \in Ops
  BY <1>1, SpawnIs, TakenOps
<1>3. i <= s
  BY <1>1, <1>2 DEF BusyInv
<1> QED
  BY <1>1, <1>2, <1>3 DEF Ops

\* A child that is being adjusted by a living parent is not dismissed, or misused.
LEMMA AdjustedAlone ==
    ASSUME TypeInv, InheritInv, TreeInv, FlowInv, BusyInv, NEW c, NEW i \in OpsOn("adjust", c),
           stage[i] \in {"dispatched", "calling"}, op[i].by \in alive, ~Misused(c)
    PROVE  OpsOn("dismiss", c) = {}
<1> SUFFICES ASSUME NEW d \in OpsOn("dismiss", c) PROVE FALSE
  OBVIOUS
<1>1. /\ i \in DOMAIN op /\ op[i].kind = "adjust" /\ op[i].child = c
      /\ d \in DOMAIN op /\ op[d].kind = "dismiss" /\ op[d].child = c
  BY DEF OpsOn
<1>2. i \in Ops /\ d \in Ops
  BY <1>1, TakenOps
<1>3. ~op[i].batched /\ ~(d < i)
  BY DEF Misused
<1>4. PICK s \in OpsOn("spawn", c) : op[s].by = op[i].by
  BY <1>1, OwnSpawn
<1>5. PICK t \in OpsOn("spawn", c) : op[t].by = op[d].by
  BY <1>1, OwnSpawn
<1>6. op[d].by = op[i].by
  BY <1>4, <1>5, SpawnIs
<1>7. reply[i] = "none"
  BY <1>1 DEF FlowInv, ReplyInv, StageOK
<1>8. d <= i
  BY <1>1, <1>3, <1>6, <1>7 DEF BusyInv
<1>9. d # i
  BY <1>1
<1> QED
  BY <1>2, <1>3, <1>8, <1>9 DEF Ops

\* A child that is not misused is dismissed once.
LEMMA DismissedOnce ==
    ASSUME TypeInv, NEW c, ~Misused(c), NEW i \in OpsOn("dismiss", c), NEW j \in OpsOn("dismiss", c)
    PROVE  i = j
<1> SUFFICES ASSUME i # j PROVE FALSE
  OBVIOUS
<1>1. OpsOn("dismiss", c) \subseteq Ops
  BY TakenOps DEF OpsOn
<1>2. IsFiniteSet(Ops)
  BY FS_Interval DEF Ops
<1>3. IsFiniteSet(OpsOn("dismiss", c))
  BY <1>1, <1>2, FS_Subset
<1>4. {i, j} \subseteq OpsOn("dismiss", c) /\ IsFiniteSet({i, j})
  BY <1>3, FS_Subset
<1>5. Cardinality({i, j}) = 2
  <2>1. Cardinality({i}) = 1 /\ IsFiniteSet({i})
    BY FS_Singleton
  <2>2. Cardinality({i} \cup {j}) = Cardinality({i}) + 1
    BY <2>1, FS_AddElement
  <2> QED
    BY <2>1, <2>2
<1>6. Cardinality({i, j}) <= Cardinality(OpsOn("dismiss", c))
  BY <1>3, <1>4, FS_Subset
<1>7. Cardinality(OpsOn("dismiss", c)) \in Nat
  BY <1>3, FS_CardinalityType
<1> QED
  BY <1>5, <1>6, <1>7 DEF Misused

\* When a dismissal is taken the spawn of the child was settled.
LEMMA DismissedSettled ==
    ASSUME TypeInv, InheritInv, TreeInv, BusyInv, NEW p, NEW c, NEW i, Proper(i, p, c)
    PROVE  \E s \in OpsOn("spawn", c) :
               /\ Settled(s) /\ op[s].by = p /\ p \in alive /\ ParentOf(c) = p
               /\ stage[s] \notin {"none", "dispatched", "rejected"} => op[s].amount # NA
<1>1. i \in DOMAIN op /\ op[i].kind = "dismiss" /\ op[i].child = c /\ op[i].by = p
      /\ p \in alive /\ budget[p].mode # "na" /\ ~Misused(c) /\ i \in OpsOn("dismiss", c)
  BY DEF Proper, OpsOn, HasLimit
<1>2. PICK s \in OpsOn("spawn", c) : op[s].by = p
  BY <1>1, OwnSpawn
<1>3. ~op[s].batched
  BY <1>1 DEF Misused
<1>4. reply[s] = "handled"
  BY <1>1, <1>2, <1>3, Untouched
<1>5. s \in DOMAIN op /\ op[s].kind = "spawn" /\ ParentOf(c) = p
  BY <1>2, SpawnIs
<1>6. budget[p].mode = op[s].snap.budget.mode
  BY <1>1, <1>2, <1>5 DEF InheritInv, SnapshotModes
<1>7. stage[s] \notin {"none", "dispatched", "rejected"} => op[s].amount # NA
  BY <1>1, <1>5, <1>6 DEF InheritInv, SpawnsChecked
<1> QED
  BY <1>1, <1>2, <1>3, <1>4, <1>5, <1>7 DEF Settled

-----------------------------------------------------------------------------
(* The order in a mailbox *)

\* Where the messages are when the first was taken, and when one was added.
LEMMA BoxShape ==
    ASSUME NEW S, NEW box \in Seq(S)
    PROVE  /\ DOMAIN box = 1..Len(box) /\ Len(box) \in Nat
           /\ box # <<>> => /\ Head(box) = box[1] /\ 1 \in DOMAIN box
                            /\ DOMAIN Tail(box) = 1..(Len(box) - 1)
                            /\ \A k \in 1..(Len(box) - 1) :
                                  Tail(box)[k] = box[k + 1] /\ k + 1 \in DOMAIN box
                            /\ \A k \in DOMAIN box :
                                  k # 1 => k - 1 \in DOMAIN Tail(box) /\ Tail(box)[k - 1] = box[k]
           /\ \A m : /\ DOMAIN Append(box, m) = 1..(Len(box) + 1)
                     /\ Append(box, m)[Len(box) + 1] = m
                     /\ \A k \in DOMAIN box : Append(box, m)[k] = box[k]
<1>1. DOMAIN box = 1..Len(box) /\ Len(box) \in Nat
  OBVIOUS
<1>2. ASSUME NEW m
      PROVE  /\ DOMAIN Append(box, m) = 1..(Len(box) + 1)
             /\ Append(box, m)[Len(box) + 1] = m
             /\ \A k \in DOMAIN box : Append(box, m)[k] = box[k]
  BY <1>1, AppendElements
<1>3. ASSUME box # <<>>
      PROVE  /\ Head(box) = box[1] /\ 1 \in DOMAIN box
             /\ DOMAIN Tail(box) = 1..(Len(box) - 1)
             /\ \A k \in 1..(Len(box) - 1) : Tail(box)[k] = box[k + 1] /\ k + 1 \in DOMAIN box
             /\ \A k \in DOMAIN box :
                   k # 1 => k - 1 \in DOMAIN Tail(box) /\ Tail(box)[k - 1] = box[k]
  <2>1. Head(box) = box[1] /\ Len(box) # 0
    BY <1>3
  <2>2. DOMAIN Tail(box) = 1..(Len(box) - 1)
    BY <1>3, HeadTailProperties
  <2>3. \A k \in 1..(Len(box) - 1) : Tail(box)[k] = box[k + 1]
    BY <1>3
  <2>4. \A k \in 1..(Len(box) - 1) : k + 1 \in DOMAIN box
    BY <1>1
  <2>5. ASSUME NEW k \in DOMAIN box, k # 1
        PROVE  k - 1 \in 1..(Len(box) - 1) /\ (k - 1) + 1 = k
    BY <1>1, <2>5
  <2> QED
    BY <1>1, <2>1, <2>2, <2>3, <2>4, <2>5
<1> QED
  BY <1>1, <1>2, <1>3

\* What a mailbox tells after the first message was handled.
LEMMA TellsTail ==
    ASSUME NEW S, NEW box \in Seq(S), box # <<>>, NEW n
    PROVE  /\ TellsLast(box, n) =>
                 \/ TellsLast(Tail(box), n)
                 \/ /\ Tells(Head(box)) /\ op[Head(box).id].amount = n
                    /\ TellsNothing(Tail(box))
           /\ TellsNothing(box) => TellsNothing(Tail(box)) /\ ~Tells(Head(box))
<1>1. /\ DOMAIN box = 1..Len(box) /\ Len(box) \in Nat
      /\ Head(box) = box[1] /\ 1 \in DOMAIN box
      /\ DOMAIN Tail(box) = 1..(Len(box) - 1)
      /\ \A k \in DOMAIN Tail(box) : Tail(box)[k] = box[k + 1] /\ k + 1 \in DOMAIN box
      /\ \A k \in DOMAIN box : k # 1 => k - 1 \in DOMAIN Tail(box) /\ Tail(box)[k - 1] = box[k]
  BY BoxShape
<1>2. ASSUME TellsLast(box, n)
      PROVE  \/ TellsLast(Tail(box), n)
             \/ /\ Tells(Head(box)) /\ op[Head(box).id].amount = n
                /\ TellsNothing(Tail(box))
  <2>1. PICK k \in DOMAIN box : /\ Tells(box[k]) /\ op[box[k].id].amount = n
                                /\ \A l \in DOMAIN box : l > k => ~Tells(box[l])
    BY <1>2 DEF TellsLast
  <2>2. \A l \in DOMAIN Tail(box) : l + 1 > k => ~Tells(Tail(box)[l])
    BY <1>1, <2>1
  <2>3. CASE k = 1
    <3>1. \A l \in DOMAIN Tail(box) : l + 1 > k
      BY <1>1, <2>3
    <3> QED
      BY <1>1, <2>1, <2>2, <2>3, <3>1 DEF TellsNothing
  <2>4. CASE k # 1
    <3>1. k - 1 \in DOMAIN Tail(box) /\ Tail(box)[k - 1] = box[k]
      BY <1>1, <2>4
    <3>2. \A l \in DOMAIN Tail(box) : l > k - 1 => l + 1 > k
      BY <1>1
    <3> QED
      BY <2>1, <2>2, <3>1, <3>2 DEF TellsLast
  <2> QED
    BY <2>3, <2>4
<1> QED
  BY <1>1, <1>2 DEF TellsNothing

\* What a mailbox tells after a message was added.
LEMMA TellsAppend ==
    ASSUME NEW S, NEW box \in Seq(S), NEW m, NEW n
    PROVE  /\ ~Tells(m) => /\ TellsLast(box, n) => TellsLast(Append(box, m), n)
                           /\ TellsNothing(box) => TellsNothing(Append(box, m))
           /\ Tells(m) /\ op[m.id].amount = n => TellsLast(Append(box, m), n)
<1> DEFINE new == Append(box, m)
<1>1. /\ DOMAIN box = 1..Len(box) /\ Len(box) \in Nat
      /\ DOMAIN new = 1..(Len(box) + 1)
      /\ new[Len(box) + 1] = m /\ \A k \in DOMAIN box : new[k] = box[k]
  BY BoxShape
<1> HIDE DEF new
<1>2. /\ \A k \in DOMAIN new : k \in DOMAIN box \/ k = Len(box) + 1
      /\ \A k \in DOMAIN box : k \in DOMAIN new
  BY <1>1
<1>3. ASSUME ~Tells(m), TellsLast(box, n) PROVE TellsLast(new, n)
  <2>1. PICK k \in DOMAIN box : /\ Tells(box[k]) /\ op[box[k].id].amount = n
                                /\ \A l \in DOMAIN box : l > k => ~Tells(box[l])
    BY <1>3 DEF TellsLast
  <2>2. \A l \in DOMAIN new : l > k => ~Tells(new[l])
    BY <1>1, <1>2, <1>3, <2>1
  <2> QED
    BY <1>1, <1>2, <2>1, <2>2 DEF TellsLast
<1>4. ASSUME ~Tells(m), TellsNothing(box) PROVE TellsNothing(new)
  BY <1>1, <1>2, <1>4 DEF TellsNothing
<1>5. ASSUME Tells(m), op[m.id].amount = n PROVE TellsLast(new, n)
  <2>1. Len(box) + 1 \in DOMAIN new /\ \A l \in DOMAIN new : ~(l > Len(box) + 1)
    BY <1>1
  <2> QED
    BY <1>1, <1>5, <2>1 DEF TellsLast
<1> QED
  BY <1>3, <1>4, <1>5 DEF new

\* How a message stays in front of no allocation.
LEMMA BehindKept ==
    ASSUME NEW S, NEW box \in Seq(S), NEW m
    PROVE  /\ \A x : ~Tells(x) /\ NoneBehind(box, m) => NoneBehind(Append(box, x), m)
           /\ NoneBehind(Append(box, m), m)
           /\ box # <<>> /\ NoneBehind(box, m) /\ Head(box) # m => NoneBehind(Tail(box), m)
           /\ box # <<>> /\ NoneBehind(box, m) /\ Head(box) = m /\ Distinct(box) =>
                 TellsNothing(Tail(box))
<1>1. /\ DOMAIN box = 1..Len(box) /\ Len(box) \in Nat
      /\ \A x : /\ DOMAIN Append(box, x) = 1..(Len(box) + 1)
                /\ Append(box, x)[Len(box) + 1] = x
                /\ \A k \in DOMAIN box : Append(box, x)[k] = box[k]
  BY BoxShape
<1>2. ASSUME NEW x, ~Tells(x), NoneBehind(box, m) PROVE NoneBehind(Append(box, x), m)
  <2> DEFINE new == Append(box, x)
  <2>1. /\ DOMAIN new = 1..(Len(box) + 1)
        /\ new[Len(box) + 1] = x /\ \A k \in DOMAIN box : new[k] = box[k]
    BY <1>1
  <2> HIDE DEF new
  <2>2. PICK k \in DOMAIN box : box[k] = m /\ \A l \in DOMAIN box : l > k => ~Tells(box[l])
    BY <1>2 DEF NoneBehind
  <2>3. /\ \A l \in DOMAIN new : l \in DOMAIN box \/ l = Len(box) + 1
        /\ k \in DOMAIN new
    BY <1>1, <2>1
  <2>4. \A l \in DOMAIN new : l > k => ~Tells(new[l])
    BY <1>2, <2>1, <2>2, <2>3
  <2>5. NoneBehind(new, m)
    BY <2>1, <2>2, <2>3, <2>4 DEF NoneBehind
  <2> QED
    BY <2>5 DEF new
<1>3. NoneBehind(Append(box, m), m)
  <2> DEFINE new == Append(box, m)
  <2>1. DOMAIN new = 1..(Len(box) + 1) /\ new[Len(box) + 1] = m
    BY <1>1
  <2> HIDE DEF new
  <2>2. Len(box) + 1 \in DOMAIN new /\ \A l \in DOMAIN new : ~(l > Len(box) + 1)
    BY <1>1, <2>1
  <2>3. NoneBehind(new, m)
    BY <2>1, <2>2 DEF NoneBehind
  <2> QED
    BY <2>3 DEF new
<1>4. ASSUME box # <<>>, NoneBehind(box, m)
      PROVE  /\ Head(box) # m => NoneBehind(Tail(box), m)
             /\ Head(box) = m /\ Distinct(box) => TellsNothing(Tail(box))
  <2>1. /\ Head(box) = box[1] /\ 1 \in DOMAIN box
        /\ DOMAIN Tail(box) = 1..(Len(box) - 1)
        /\ \A k \in DOMAIN Tail(box) : Tail(box)[k] = box[k + 1] /\ k + 1 \in DOMAIN box
        /\ \A k \in DOMAIN box : k # 1 => k - 1 \in DOMAIN Tail(box) /\ Tail(box)[k - 1] = box[k]
    BY <1>4, BoxShape
  <2>2. PICK k \in DOMAIN box : box[k] = m /\ \A l \in DOMAIN box : l > k => ~Tells(box[l])
    BY <1>4 DEF NoneBehind
  <2>3. \A l \in DOMAIN Tail(box) : l + 1 > k => ~Tells(Tail(box)[l])
    BY <2>1, <2>2
  <2>4. ASSUME Head(box) # m PROVE NoneBehind(Tail(box), m)
    <3>1. k - 1 \in DOMAIN Tail(box) /\ Tail(box)[k - 1] = m
      BY <2>1, <2>2, <2>4
    <3>2. \A l \in DOMAIN Tail(box) : l > k - 1 => l + 1 > k
      BY <1>1, <2>1
    <3> QED
      BY <2>3, <3>1, <3>2 DEF NoneBehind
  <2>5. ASSUME Head(box) = m, Distinct(box) PROVE TellsNothing(Tail(box))
    <3>1. k = 1
      BY <2>1, <2>2, <2>5 DEF Distinct
    <3>2. \A l \in DOMAIN Tail(box) : l + 1 > k
      BY <1>1, <2>1, <3>1
    <3> QED
      BY <2>3, <3>2 DEF TellsNothing
  <2> QED
    BY <2>4, <2>5
<1> QED
  BY <1>2, <1>3, <1>4

\* How one message stays in front of another.
LEMMA BeforeKept ==
    ASSUME NEW S, NEW box \in Seq(S), NEW n, NEW m
    PROVE  /\ \A x : NotBefore(box, n, m) => NotBefore(Append(box, x), n, m)
           /\ n \notin Contents(box) => NotBefore(Append(box, m), n, m)
           /\ box # <<>> /\ NotBefore(box, n, m) /\ Head(box) # m => NotBefore(Tail(box), n, m)
           /\ box # <<>> /\ NotBefore(box, n, m) /\ n # m => Head(box) # n
<1>1. /\ DOMAIN box = 1..Len(box) /\ Len(box) \in Nat
      /\ \A x : /\ DOMAIN Append(box, x) = 1..(Len(box) + 1)
                /\ Append(box, x)[Len(box) + 1] = x
                /\ \A k \in DOMAIN box : Append(box, x)[k] = box[k]
  BY BoxShape
<1>2. ASSUME NEW x, NotBefore(box, n, m) PROVE NotBefore(Append(box, x), n, m)
  <2> DEFINE new == Append(box, x)
  <2>1. DOMAIN new = 1..(Len(box) + 1) /\ \A k \in DOMAIN box : new[k] = box[k]
    BY <1>1
  <2> HIDE DEF new
  <2>2. PICK k \in DOMAIN box : box[k] = m /\ \A l \in DOMAIN box : l < k => box[l] # n
    BY <1>2 DEF NotBefore
  <2>3. /\ \A l \in DOMAIN new : l < k => l \in DOMAIN box
        /\ k \in DOMAIN new
    BY <1>1, <2>1
  <2>4. NotBefore(new, n, m)
    BY <2>1, <2>2, <2>3 DEF NotBefore
  <2> QED
    BY <2>4 DEF new
<1>3. ASSUME n \notin Contents(box) PROVE NotBefore(Append(box, m), n, m)
  <2> DEFINE new == Append(box, m)
  <2>1. /\ DOMAIN new = 1..(Len(box) + 1)
        /\ new[Len(box) + 1] = m /\ \A k \in DOMAIN box : new[k] = box[k]
    BY <1>1
  <2> HIDE DEF new
  <2>2. Len(box) + 1 \in DOMAIN new /\ \A l \in DOMAIN new : l < Len(box) + 1 => l \in DOMAIN box
    BY <1>1, <2>1
  <2>3. NotBefore(new, n, m)
    BY <1>3, <2>1, <2>2 DEF NotBefore, Contents
  <2> QED
    BY <2>3 DEF new
<1>4. ASSUME box # <<>>, NotBefore(box, n, m)
      PROVE  /\ Head(box) # m => NotBefore(Tail(box), n, m)
             /\ n # m => Head(box) # n
  <2>1. /\ Head(box) = box[1] /\ 1 \in DOMAIN box
        /\ DOMAIN Tail(box) = 1..(Len(box) - 1)
        /\ \A k \in DOMAIN Tail(box) : Tail(box)[k] = box[k + 1] /\ k + 1 \in DOMAIN box
        /\ \A k \in DOMAIN box : k # 1 => k - 1 \in DOMAIN Tail(box) /\ Tail(box)[k - 1] = box[k]
    BY <1>4, BoxShape
  <2>2. PICK k \in DOMAIN box : box[k] = m /\ \A l \in DOMAIN box : l < k => box[l] # n
    BY <1>4 DEF NotBefore
  <2>3. ASSUME Head(box) # m PROVE NotBefore(Tail(box), n, m)
    <3>1. k - 1 \in DOMAIN Tail(box) /\ Tail(box)[k - 1] = m
      BY <2>1, <2>2, <2>3
    <3>2. \A l \in DOMAIN Tail(box) : l < k - 1 => l + 1 < k
      BY <1>1, <2>1
    <3>3. \A l \in DOMAIN Tail(box) : l < k - 1 => Tail(box)[l] # n
      BY <2>1, <2>2, <3>2
    <3> QED
      BY <3>1, <3>3 DEF NotBefore
  <2>4. ASSUME n # m PROVE Head(box) # n
    <3>1. k = 1 \/ 1 < k
      BY <1>1
    <3> QED
      BY <2>1, <2>2, <2>4, <3>1
  <2> QED
    BY <2>3, <2>4
<1> QED
  BY <1>2, <1>3, <1>4

-----------------------------------------------------------------------------
(* What the steps do to lists and mailboxes *)

\* Nobody is its own child.
LEMMA NotOwnChild ==
    ASSUME TypeInv, InheritInv, TreeInv, NEW c, NEW s \in OpsOn("spawn", c)
    PROVE  op[s].by # c
<1> SUFFICES ASSUME op[s].by = c PROVE FALSE
  OBVIOUS
<1>1. s \in DOMAIN op /\ s \in Ops /\ c # Root
  BY SpawnIs
<1>2. PICK j \in OpsOn("spawn", c) : j < s
  BY <1>1 DEF TreeInv, SpawnOrder
<1>3. j = s
  BY <1>2, SpawnIs
<1> QED
  BY <1>1, <1>2, <1>3 DEF Ops

\* Who is terminated with a subtree but not its top loses its parent too.
LEMMA EndsWithParent ==
    ASSUME TypeInv, InheritInv, NEW x \in Agents, NEW c \in LiveSubtree(x), c # x
    PROVE  ParentOf(c) \in LiveSubtree(x)
<1>1. LiveSubtree(x) = Subtree(x) /\ x \in alive
  BY DEF LiveSubtree
<1>2. c \in alive \ {Root} /\ \A S \in SUBSET Agents : x \in S /\ ClosedDownwards(S) => c \in S
  BY <1>1 DEF Subtree
<1> SUFFICES ASSUME ParentOf(c) \notin Subtree(x) PROVE FALSE
  BY <1>1
<1> DEFINE S == Subtree(x) \ {c}
<1>3. S \in SUBSET Agents /\ x \in S
  BY DEF Subtree, TypeInv, LedgerTypeOK
<1>4. ASSUME NEW d \in alive \ {Root}, ParentOf(d) \in S PROVE d \in S
  <2>1. d # c
    BY <1>4
  <2>2. ASSUME NEW T \in SUBSET Agents, x \in T, ClosedDownwards(T) PROVE d \in T
    <3>1. ParentOf(d) \in T
      BY <1>4, <2>2 DEF Subtree
    <3> QED
      BY <2>2, <3>1 DEF ClosedDownwards
  <2>3. d \in Subtree(x)
    BY <2>2 DEF Subtree
  <2> QED
    BY <2>1, <2>3
<1>5. ClosedDownwards(S)
  BY <1>4 DEF ClosedDownwards
<1> HIDE DEF S
<1>6. c \in S
  BY <1>2, <1>3, <1>5
<1> QED
  BY <1>6 DEF S

\* The lists after a termination: the children of the terminated are gone.
LEMMA EndedLists ==
    ASSUME TypeInv, NEW i \in Ops, TerminateSubtree(i), NEW c \in Agents
    PROVE  \/ /\ c \notin listed' /\ known'[c] = NA
              /\ ParentOf(c) \in LiveSubtree(op[i].child)
           \/ (c \in listed' <=> c \in listed) /\ known'[c] = known[c]
<1> DEFINE dead == LiveSubtree(op[i].child)
           gone == UNION {ChildrenOf(a) : a \in dead}
<1>1. listed' = listed \ gone /\ known' = [a \in Agents |-> IF a \in gone THEN NA ELSE known[a]]
  BY DEF TerminateSubtree
<1>2. c \in gone => ParentOf(c) \in dead
  BY DEF ChildrenOf
<1> HIDE DEF gone, dead
<1>3. CASE c \in gone
  BY <1>1, <1>2, <1>3 DEF dead
<1>4. CASE c \notin gone
  BY <1>1, <1>4
<1> QED
  BY <1>3, <1>4

\* What a step of an action asks for and what else it changes.
LEMMA OpFactsOfStep ==
    ASSUME TypeInv, InheritInv, NEW i \in Ops, OpStep(i)
    PROVE  /\ i \in DOMAIN op /\ OthersStay(i) /\ Moved1(i) /\ OpFacts(op[i])
           /\ seen' = seen /\ torn' = torn
           /\ TerminateSubtree(i) \/ UNCHANGED <<listed, known>>
           /\ op[i].kind = "spawn" /\ stage'[i] = "failed" /\ stage[i] # "failed" =>
                 op[i].child \notin alive /\ alive' = alive
           /\ stage'[i] = "calling" /\ stage[i] # "calling" => op[i].child \in alive
           /\ stage'[i] = "asked" /\ stage[i] # "asked" =>
                 /\ op[i].child \in alive /\ alive' = alive
                 /\ mailbox' = Post(mailbox, op[i].child, Msg("get_state", i))
           /\ stage'[i] = "known" /\ stage[i] # "known" => op[i].child \notin alive
           /\ stage[i] = "absorbed" /\ stage'[i] \in {"releasing", "released"} => TerminateSubtree(i)
           /\ TerminateSubtree(i) =>
                 /\ stage[i] = "absorbed" /\ op[i].kind = "dismiss"
                 /\ stage'[i] = IF Releases(i) THEN "releasing" ELSE "released"
<1>1. i \in DOMAIN op /\ OthersStay(i) /\ Moved1(i) /\ OpFacts(op[i])
  BY OpMoves, TakenOps
<1>2. stage \in [Ops -> Stages]
  BY DEF TypeInv, LedgerTypeOK
<1>3. \A to : Goes(i, to) => stage'[i] = to
  BY <1>2 DEF Goes
<1>4. CASE RejectAction(i) \/ CastReply(i) \/ AcknowledgeDismiss(i)
  <2>1. UNCHANGED <<seen, torn, listed, known>> /\ (stage'[i] = stage[i] \/ stage'[i] = "rejected")
    BY <1>3, <1>4 DEF RejectAction, CastReply, AcknowledgeDismiss
  <2>2. ~TerminateSubtree(i)
    BY <1>2, <1>3, <2>1 DEF TerminateSubtree, At
  <2> QED
    BY <1>1, <2>1, <2>2
<1>5. CASE ExecuteSpawn(i) \/ StartChild(i) \/ AnnounceChild(i)
  <2>1. /\ UNCHANGED <<seen, torn, listed, known>> /\ op[i].kind = "spawn"
        /\ stage'[i] \in {"starting", "started", "done"}
    BY <1>3, <1>5 DEF ExecuteSpawn, StartChild, AnnounceChild, At
  <2> QED
    BY <1>1, <2>1 DEF TerminateSubtree, At
<1>6. CASE FailSpawn(i)
  <2>1. /\ UNCHANGED <<seen, torn, listed, known, alive>> /\ op[i].kind = "spawn"
        /\ stage'[i] = "failed"
        /\ At(i, "spawn", "starting") \/ op[i].child \notin alive
    BY <1>3, <1>6 DEF FailSpawn, At
  <2>2. op[i].child \notin alive
    BY <1>1, <2>1, StartedByNobody
  <2> QED
    BY <1>1, <2>1, <2>2 DEF TerminateSubtree, At
<1>7. CASE ExecuteAdjust(i)
  <2>1. /\ UNCHANGED <<seen, torn, listed, known, alive>> /\ op[i].kind = "adjust"
        /\ stage'[i] = "calling" /\ op[i].child \in alive
    BY <1>3, <1>7 DEF ExecuteAdjust, At
  <2> QED
    BY <1>1, <2>1 DEF TerminateSubtree, At
<1>8. CASE ExecuteDismiss(i)
  <2>1. /\ UNCHANGED <<seen, torn, listed, known, alive>> /\ op[i].kind = "dismiss"
        /\ mailbox' = Post(mailbox, op[i].child, Msg("get_state", i))
        /\ stage[i] = "dispatched"
        /\ stage'[i] = IF op[i].child \in alive THEN "asked" ELSE "done"
    BY <1>3, <1>8 DEF ExecuteDismiss, At
  <2> QED
    BY <1>1, <2>1 DEF TerminateSubtree, At
<1>9. CASE GetStateExits(i)
  <2>1. /\ UNCHANGED <<seen, torn, listed, known, alive>> /\ stage[i] = "asked"
        /\ op[i].child \notin alive /\ stage'[i] = "known"
    BY <1>3, <1>9 DEF GetStateExits, At
  <2> QED
    BY <1>1, <2>1 DEF TerminateSubtree, At
<1>10. CASE SelectCosts(i) \/ CommitAbsorption(i) \/ AbsorptionFails(i)
  <2>1. /\ UNCHANGED <<seen, torn, listed, known, alive>> /\ op[i].kind = "dismiss"
        /\ stage[i] \in {"known", "selected"}
        /\ stage'[i] \in {"selected", "absorbed", "failed"}
    BY <1>3, <1>10 DEF SelectCosts, CommitAbsorption, AbsorptionFails, At
  <2> QED
    BY <1>1, <2>1 DEF TerminateSubtree, At
<1>11. CASE TerminateSubtree(i)
  <2>1. /\ UNCHANGED <<seen, torn>> /\ stage[i] = "absorbed" /\ op[i].kind = "dismiss"
        /\ stage'[i] = IF Releases(i) THEN "releasing" ELSE "released"
    BY <1>3, <1>11 DEF TerminateSubtree, At
  <2> QED
    BY <1>1, <1>11, <2>1
<1>12. CASE FinishDismissal(i)
  <2>1. /\ UNCHANGED <<seen, torn, listed, known, alive>> /\ op[i].kind = "dismiss"
        /\ stage[i] \in {"released", "releasing"} /\ stage'[i] = "done"
    BY <1>3, <1>12 DEF FinishDismissal, At
  <2> QED
    BY <1>1, <2>1 DEF TerminateSubtree, At
<1> QED
  BY <1>4, <1>5, <1>6, <1>7, <1>8, <1>9, <1>10, <1>11, <1>12 DEF OpStep

\* The actions taken stay, and do not become early again
Onwards ==
    \A j \in DOMAIN op : /\ j \in DOMAIN op' /\ op'[j] = op[j]
                         /\ stage[j] \notin Early => stage'[j] \notin Early

\* Who was started stays so.
LEMMA StartedStays ==
    ASSUME Onwards
    PROVE  \A c : Started(c) => Started(c)'
<1> SUFFICES ASSUME NEW c, Started(c), c # Root PROVE Started(c)'
  BY DEF Started
<1>1. PICK j \in OpsOn("spawn", c) : stage[j] \notin Early
  BY DEF Started
<1>2. j \in DOMAIN op /\ op[j].kind = "spawn" /\ op[j].child = c
  BY DEF OpsOn
<1>3. j \in DOMAIN op' /\ op'[j].kind = "spawn" /\ op'[j].child = c /\ stage'[j] \notin Early
  BY <1>1, <1>2 DEF Onwards
<1>4. j \in OpsOn("spawn", c)'
  BY <1>3 DEF OpsOn
<1> QED
  BY <1>3, <1>4 DEF Started, Early

\* No step of an action makes one early again.
LEMMA StagesGoOn ==
    ASSUME TypeInv, NEW i \in Ops, OthersStay(i),
           Moved1(i) \/ \E type : MovedByMessage(i, type)
    PROVE  /\ \A c : Started(c) => Started(c)'
           /\ \A j \in DOMAIN op : stage[j] \notin Early => stage'[j] \notin Early
<1>1. stage[i] \notin Early => stage'[i] \notin Early
  BY DEF Moved1, MovedByMessage, Moves, Early
<1>2. \A j \in DOMAIN op : stage[j] \notin Early => stage'[j] \notin Early
  BY <1>1, TakenOps DEF OthersStay
<1>3. Onwards
  BY <1>2 DEF OthersStay, Onwards
<1> QED
  BY <1>2, <1>3, StartedStays

\* What a step of an action adds to the mailboxes of those who live on.
LEMMA OpBoxes ==
    ASSUME TypeInv, NEW i \in Ops, OpStep(i), NEW b \in alive, b \in alive'
    PROVE  \/ mailbox'[b] = mailbox[b]
           \/ \E type \in MessageTypes \ {"set_allocated"} :
                 /\ mailbox'[b] = Append(mailbox[b], Msg(type, i))
                 /\ type = "spawn_failed" => stage'[i] = "failed" /\ op[i].kind = "spawn"
                 /\ type = "child_dismissed" => stage[i] \in {"released", "releasing"}
<1>1. /\ mailbox \in [Agents -> Seq(Messages)] /\ b \in Agents
      /\ stage \in [Ops -> Stages]
  BY DEF TypeInv, LedgerTypeOK
<1>2. ASSUME NEW a, NEW m, mailbox' = Post(mailbox, a, m)
      PROVE  mailbox'[b] = mailbox[b] \/ mailbox'[b] = Append(mailbox[b], m)
  BY <1>1, <1>2 DEF Post
<1>3. \A to : Goes(i, to) => stage'[i] = to
  BY <1>1 DEF Goes
<1>4. CASE RejectAction(i) \/ CastReply(i) \/ AcknowledgeDismiss(i)
  <2>1. mailbox' = mailbox \/ mailbox' = Post(mailbox, op[i].by, Msg("result", i))
    BY <1>4 DEF RejectAction, CastReply, AcknowledgeDismiss, Answer
  <2>2. mailbox'[b] = mailbox[b] \/ mailbox'[b] = Append(mailbox[b], Msg("result", i))
    BY <1>2, <2>1
  <2>3. "result" \in MessageTypes \ {"set_allocated"}
    BY DEF MessageTypes
  <2> QED
    BY <2>2, <2>3
<1>5. CASE \/ ExecuteSpawn(i) \/ StartChild(i) \/ GetStateExits(i) \/ SelectCosts(i)
           \/ CommitAbsorption(i) \/ AbsorptionFails(i)
  BY <1>5 DEF ExecuteSpawn, StartChild, GetStateExits, SelectCosts, CommitAbsorption,
              AbsorptionFails
<1>6. CASE FailSpawn(i)
  <2>1. /\ mailbox' = Post(mailbox, op[i].by, Msg("spawn_failed", i)) /\ op[i].kind = "spawn"
        /\ stage'[i] = "failed"
    BY <1>3, <1>6 DEF FailSpawn, At
  <2> QED
    BY <1>2, <2>1 DEF MessageTypes
<1>7. CASE AnnounceChild(i)
  <2>1. mailbox' = Post(mailbox, op[i].by, Msg("child_spawned", i))
    BY <1>7 DEF AnnounceChild
  <2> QED
    BY <1>2, <2>1 DEF MessageTypes
<1>8. CASE ExecuteAdjust(i)
  <2>1. mailbox' = Post(mailbox, op[i].by, Msg("adjust", i))
    BY <1>8 DEF ExecuteAdjust
  <2> QED
    BY <1>2, <2>1 DEF MessageTypes
<1>9. CASE ExecuteDismiss(i)
  <2>1. mailbox' = Post(mailbox, op[i].child, Msg("get_state", i))
    BY <1>9 DEF ExecuteDismiss
  <2> QED
    BY <1>2, <2>1 DEF MessageTypes
<1>10. CASE TerminateSubtree(i)
  <2> DEFINE dead == LiveSubtree(op[i].child)
             left == [a \in Agents |-> IF a \in dead THEN <<>> ELSE mailbox[a]]
  <2>1. /\ alive' = alive \ dead
        /\ mailbox' = left \/ mailbox' = Post(left, op[i].by, Msg("release", i))
    BY <1>10 DEF TerminateSubtree
  <2>2. left[b] = mailbox[b] /\ left \in [Agents -> {left[a] : a \in Agents}]
    BY <1>1, <2>1
  <2> HIDE DEF left, dead
  <2>3. mailbox'[b] = mailbox[b] \/ mailbox'[b] = Append(mailbox[b], Msg("release", i))
    BY <1>1, <2>1, <2>2 DEF Post
  <2> QED
    BY <2>3 DEF MessageTypes
<1>11. CASE FinishDismissal(i)
  <2>1. /\ mailbox' = Post(mailbox, op[i].by, Msg("child_dismissed", i))
        /\ stage[i] \in {"released", "releasing"}
    BY <1>11 DEF FinishDismissal, At
  <2> QED
    BY <1>2, <2>1 DEF MessageTypes
<1> QED
  BY <1>4, <1>5, <1>6, <1>7, <1>8, <1>9, <1>10, <1>11 DEF OpStep

\* What a handler of a does with a message of this type about action i: to the
\* mailboxes, the lists, the budgets and to what dismissals read
Adjusts(a, i, type) == type = "adjust" /\ MayAdjust(a, op[i].child, op[i].amount)

Unlists(type) == type \in {"spawn_failed", "child_dismissed"}

SameList(x) == (x \in listed' <=> x \in listed) /\ known'[x] = known[x]

HandlesMail(a, i, type) ==
    /\ mailbox'[a] = Tail(mailbox[a])
    /\ \A b \in alive \ {a} :
          mailbox'[b] = IF Adjusts(a, i, type) /\ b = op[i].child
                        THEN Append(mailbox[b], Msg("set_allocated", i)) ELSE mailbox[b]

HandlesLists(a, i, type) ==
    /\ \A x \in Agents \ {op[i].child} : SameList(x)
    /\ type = "result" /\ TracksChild(i) =>
          /\ op[i].child \in listed'
          /\ known'[op[i].child] = IF op[i].child \in listed THEN known[op[i].child] ELSE op[i].amount
    /\ type = "child_spawned" =>
          op[i].child \in listed' /\ known'[op[i].child] = known[op[i].child]
    /\ Unlists(type) => op[i].child \notin listed' /\ known'[op[i].child] = NA
    /\ Adjusts(a, i, type) =>
          op[i].child \in listed /\ op[i].child \in listed' /\ known'[op[i].child] = op[i].amount
    /\ ~((type = "result" /\ TracksChild(i)) \/ type = "child_spawned" \/ Unlists(type)
         \/ Adjusts(a, i, type)) => SameList(op[i].child)

HandlesBudget(a, i, type) ==
    /\ \A b \in Agents \ {a} : budget'[b] = budget[b]
    /\ budget'[a] =
          CASE type = "result" /\ TracksChild(i) -> CommitAmount(budget[a], op[i].amount)
            [] Adjusts(a, i, type) ->
                 AdjustEscrow(budget[a], Current(op[i].child), op[i].amount)
            [] type = "set_allocated" -> [budget[a] EXCEPT !.allocated = op[i].amount]
            [] type = "release" -> ReleaseCommitted(budget[a], seen[i].allocated)
            [] OTHER -> budget[a]

Handles(a, i, type) ==
    /\ i \in DOMAIN op /\ i \in Ops /\ type \in MessageTypes
    /\ a \in alive /\ mailbox[a] # <<>> /\ Head(mailbox[a]) = Msg(type, i)
    /\ op[i].kind \in About(type) /\ Due(a, Msg(type, i))
    /\ OthersStay(i) /\ MovedByMessage(i, type)
    /\ UNCHANGED <<alive, torn>>
    /\ seen' = IF type = "get_state" THEN [seen EXCEPT ![i] = budget[a]] ELSE seen
    /\ HandlesMail(a, i, type) /\ HandlesLists(a, i, type) /\ HandlesBudget(a, i, type)

\* The lists, when two handlers change them.
LEMMA ListsChanged ==
    ASSUME TypeInv, NEW c \in Agents,
           \/ UNCHANGED <<listed, known>>
           \/ /\ listed' = listed \cup {c}
              /\ known' = IF c \in listed THEN known ELSE [known EXCEPT ![c] = known'[c]]
           \/ /\ listed' = listed \cup {c} /\ known' = known
           \/ Unlist(c)
           \/ listed' = listed /\ known' = [known EXCEPT ![c] = known'[c]]
    PROVE  \A x \in Agents \ {c} : SameList(x)
<1>1. known \in [Agents -> Nat \cup {NA}]
  BY DEF TypeInv, LedgerTypeOK
<1> QED
  BY <1>1 DEF SameList, Unlist

\* Every handler does that.
LEMMA HandlerView ==
    ASSUME TypeInv, InheritInv, TreeInv, FlowInv, NEW a \in Agents, Handlers(a)
    PROVE  \E i \in DOMAIN op, type \in MessageTypes : Handles(a, i, type)
<1>1. PICK i \in DOMAIN op, type \in MessageTypes :
          /\ Receives(a, type) /\ Head(mailbox[a]) = Msg(type, i)
          /\ op[i].kind \in About(type) /\ Due(a, Msg(type, i))
          /\ OthersStay(i) /\ MovedByMessage(i, type)
  BY HandlerMoves DEF FlowInv
<1>2. /\ i \in Ops /\ OpFacts(op[i]) /\ op' = op /\ Head(mailbox[a]).id = i
      /\ a \in alive /\ mailbox[a] # <<>>
  BY <1>1, TakenOps DEF OthersStay, Receives, Msg
<1>3. /\ mailbox \in [Agents -> Seq(Messages)] /\ known \in [Agents -> Nat \cup {NA}]
      /\ budget \in [Agents -> Budgets] /\ seen \in [Ops -> Budgets] /\ alive \subseteq Agents
  BY DEF TypeInv, LedgerTypeOK
<1>4. \A t : Receives(a, t) => t = type
  BY <1>1 DEF Receives
<1> PICK c : c = op[i].child
  OBVIOUS
<1>5. c \in Agents
  BY <1>2 DEF OpFacts
<1>6. ASSUME mailbox' = Handled(a), ~Adjusts(a, i, type) PROVE HandlesMail(a, i, type)
  BY <1>2, <1>3, <1>6 DEF Handled, HandlesMail
<1> SUFFICES /\ UNCHANGED <<alive, torn>>
             /\ seen' = IF type = "get_state" THEN [seen EXCEPT ![i] = budget[a]] ELSE seen
             /\ HandlesMail(a, i, type) /\ HandlesLists(a, i, type) /\ HandlesBudget(a, i, type)
  BY <1>1, <1>2 DEF Handles
<1>7. CASE HandleResult(a)
  <2>1. /\ type = "result" /\ UNCHANGED <<alive, torn, seen>> /\ mailbox' = Handled(a)
        /\ IF TracksChild(i)
           THEN /\ listed' = listed \cup {c}
                /\ known' = IF c \in listed THEN known ELSE [known EXCEPT ![c] = op[i].amount]
                /\ budget' = [budget EXCEPT ![a] = CommitAmount(@, op[i].amount)]
           ELSE UNCHANGED ledgerVars
    BY <1>2, <1>4, <1>7 DEF HandleResult
  <2>2. ~Adjusts(a, i, type) /\ ~Unlists(type)
    BY <2>1 DEF Adjusts, Unlists
  <2>3. HandlesLists(a, i, type)
    BY <1>3, <1>5, <2>1, <2>2, ListsChanged DEF HandlesLists, SameList
  <2>4. HandlesBudget(a, i, type)
    BY <1>3, <2>1, <2>2 DEF HandlesBudget
  <2> QED
    BY <1>6, <2>1, <2>2, <2>3, <2>4
<1>8. CASE HandleAdjust(a)
  <2>1. /\ type = "adjust" /\ UNCHANGED <<alive, torn, seen, listed>>
        /\ IF MayAdjust(a, c, op[i].amount)
           THEN /\ budget' = [budget EXCEPT ![a] = AdjustEscrow(@, Current(c), op[i].amount)]
                /\ known' = [known EXCEPT ![c] = op[i].amount]
                /\ mailbox' = Post(Handled(a), c, Msg("set_allocated", i))
           ELSE mailbox' = Handled(a) /\ UNCHANGED <<budget, known>>
    BY <1>2, <1>4, <1>8 DEF HandleAdjust
  <2>2. ~Unlists(type) /\ (Adjusts(a, i, type) <=> MayAdjust(a, c, op[i].amount))
    BY <2>1 DEF Adjusts, Unlists
  <2>3. HandlesLists(a, i, type)
    BY <1>3, <1>5, <2>1, <2>2, ListsChanged DEF HandlesLists, SameList, MayAdjust
  <2>4. HandlesBudget(a, i, type)
    BY <1>3, <2>1, <2>2 DEF HandlesBudget
  <2>5. c # a
    <3>1. op[i].by = a /\ op[i].kind = "adjust"
      BY <1>1, <2>1 DEF Due, Msg, About
    <3>2. PICK s \in OpsOn("spawn", c) : op[s].by = a
      BY <3>1, OwnSpawn
    <3> QED
      BY <3>2, NotOwnChild
  <2>6. HandlesMail(a, i, type)
    <3>1. CASE MayAdjust(a, c, op[i].amount)
      <4> PICK box : box = Handled(a)
        OBVIOUS
      <4>1. /\ box[a] = Tail(mailbox[a]) /\ \A b \in Agents \ {a} : box[b] = mailbox[b]
            /\ box = [b \in Agents |-> box[b]]
        BY <1>3 DEF Handled
      <4>2. mailbox' = Post(box, c, Msg("set_allocated", i))
        BY <2>1, <3>1
      <4>3. mailbox'[a] = Tail(mailbox[a])
        BY <1>3, <2>5, <4>1, <4>2 DEF Post
      <4>4. ASSUME NEW b \in alive \ {a}
            PROVE  mailbox'[b] = IF b = c THEN Append(mailbox[b], Msg("set_allocated", i))
                                 ELSE mailbox[b]
        BY <1>3, <4>1, <4>2 DEF Post
      <4> QED
        BY <2>2, <3>1, <4>3, <4>4 DEF HandlesMail
    <3>2. CASE ~MayAdjust(a, c, op[i].amount)
      BY <1>6, <2>1, <2>2, <3>2
    <3> QED
      BY <3>1, <3>2
  <2> QED
    BY <2>1, <2>3, <2>4, <2>6
<1>9. CASE HandleChildSpawned(a) \/ HandleSpawnFailed(a) \/ HandleChildDismissed(a)
  <2>1. /\ UNCHANGED <<alive, torn, seen, budget>> /\ mailbox' = Handled(a)
        /\ \/ type = "child_spawned" /\ listed' = listed \cup {c} /\ known' = known
           \/ Unlists(type) /\ Unlist(c)
    BY <1>2, <1>4, <1>9
       DEF HandleChildSpawned, HandleSpawnFailed, HandleChildDismissed, Unlists
  <2>2. /\ ~Adjusts(a, i, type)
        /\ type # "result" /\ type # "get_state" /\ type # "release" /\ type # "set_allocated"
    BY <2>1 DEF Adjusts, Unlists
  <2>3. HandlesLists(a, i, type)
    BY <1>3, <1>5, <2>1, <2>2, ListsChanged DEF HandlesLists, Unlist, Unlists
  <2>4. HandlesBudget(a, i, type)
    BY <1>3, <2>1, <2>2 DEF HandlesBudget
  <2> QED
    BY <1>6, <2>1, <2>2, <2>3, <2>4
<1>10. CASE HandleSetAllocated(a)
  <2>1. /\ type = "set_allocated" /\ UNCHANGED <<alive, torn, seen, listed, known>>
        /\ mailbox' = Handled(a)
        /\ budget' = [budget EXCEPT ![a].allocated = op[i].amount]
    BY <1>2, <1>4, <1>10 DEF HandleSetAllocated
  <2>2. ~Adjusts(a, i, type) /\ ~Unlists(type)
    BY <2>1 DEF Adjusts, Unlists
  <2>3. HandlesLists(a, i, type)
    BY <2>1, <2>2, <1>5 DEF HandlesLists, SameList
  <2>4. budget'[a] = [budget[a] EXCEPT !.allocated = op[i].amount]
    BY <1>3, <2>1
  <2>5. \A b \in Agents \ {a} : budget'[b] = budget[b]
    BY <1>3, <2>1
  <2>6. HandlesBudget(a, i, type)
    BY <2>1, <2>2, <2>4, <2>5 DEF HandlesBudget
  <2> QED
    BY <1>6, <2>1, <2>2, <2>3, <2>6
<1>11. CASE HandleGetState(a) \/ HandleRelease(a)
  <2>1. /\ UNCHANGED <<alive, torn, listed, known>> /\ mailbox' = Handled(a)
        /\ \/ type = "get_state" /\ seen' = [seen EXCEPT ![i] = budget[a]] /\ budget' = budget
           \/ /\ type = "release" /\ seen' = seen
              /\ budget' = [budget EXCEPT ![a] = ReleaseCommitted(@, seen[i].allocated)]
    BY <1>2, <1>4, <1>11 DEF HandleGetState, HandleRelease
  <2>2. /\ ~Adjusts(a, i, type) /\ ~Unlists(type)
        /\ type # "result" /\ type # "child_spawned" /\ type # "set_allocated"
    BY <2>1 DEF Adjusts, Unlists
  <2>3. HandlesLists(a, i, type)
    BY <2>1, <2>2, <1>5 DEF HandlesLists, SameList
  <2>4. HandlesBudget(a, i, type)
    BY <1>3, <2>1, <2>2 DEF HandlesBudget
  <2> QED
    BY <1>6, <2>1, <2>2, <2>3, <2>4
<1> QED
  BY <1>7, <1>8, <1>9, <1>10, <1>11 DEF Handlers

\* What a step that is neither of an action nor of a handler may change
RestStep ==
    /\ UNCHANGED <<op, stage, reply, alive, listed, known, seen>>
    /\ \A b \in Agents \ {Root} : budget'[b] = budget[b] /\ mailbox'[b] = mailbox[b]
    /\ budget'[Root] = budget[Root] \/ (\E e \in edit : budget'[Root] = e)
    /\ budget'[Root].committed = budget[Root].committed \/ torn'
    /\ torn => torn'
    /\ \/ mailbox'[Root] = mailbox[Root]
       \/ /\ mailbox[Root] # <<>> /\ Head(mailbox[Root]).type = "update_budget_data"
          /\ mailbox'[Root] = Tail(mailbox[Root])
       \/ mailbox'[Root] = Append(mailbox[Root], Msg("update_budget_data", 0))

LEMMA RestView ==
    ASSUME TypeInv, EditStep \/ (\E a \in Agents : RecordCost(a)) \/ UNCHANGED vars
    PROVE  RestStep
<1>1. /\ mailbox \in [Agents -> Seq(Messages)] /\ budget \in [Agents -> Budgets]
  BY DEF TypeInv, LedgerTypeOK
<1>2. CASE \E n \in Amounts : BeginEdit(n)
  BY <1>2 DEF BeginEdit, RestStep
<1>3. CASE SendEdit
  <2>1. /\ UNCHANGED <<op, stage, reply, alive, listed, known, seen, budget, torn>>
        /\ mailbox' = Post(mailbox, Root, Msg("update_budget_data", 0))
    BY <1>3 DEF SendEdit
  <2> QED
    BY <1>1, <2>1 DEF RestStep, Post
<1>4. CASE HandleUpdateBudgetData
  <2>1. /\ UNCHANGED <<op, stage, reply, alive, listed, known, seen>>
        /\ mailbox' = Handled(Root) /\ mailbox[Root] # <<>>
        /\ Head(mailbox[Root]).type = "update_budget_data"
    BY <1>4 DEF HandleUpdateBudgetData, Receives
  <2>2. PICK e \in edit : /\ budget' = [budget EXCEPT ![Root] = e]
                          /\ torn' = (torn \/ e.committed # budget[Root].committed)
    BY <1>4 DEF HandleUpdateBudgetData
  <2>3. /\ budget'[Root] = e /\ \A b \in Agents \ {Root} : budget'[b] = budget[b]
        /\ mailbox'[Root] = Tail(mailbox[Root])
        /\ \A b \in Agents \ {Root} : mailbox'[b] = mailbox[b]
    BY <1>1, <2>1, <2>2 DEF Handled
  <2>4. torn' <=> torn \/ e.committed # budget[Root].committed
    BY <2>2
  <2> QED
    BY <2>1, <2>3, <2>4 DEF RestStep
<1>5. CASE \E a \in Agents : RecordCost(a)
  BY <1>5 DEF RecordCost, RestStep
<1>6. CASE UNCHANGED vars
  BY <1>6 DEF vars, RestStep
<1> QED
  BY <1>2, <1>3, <1>4, <1>5, <1>6 DEF EditStep

\* Where the messages in the mailboxes come from.
LEMMA OpContents ==
    ASSUME TypeInv, InheritInv, FlowInv, FlowInv', NEW i \in Ops, OpStep(i), NEW a \in Agents,
           NEW m \in Contents(mailbox'[a])
    PROVE  \/ m \in Contents(mailbox[a])
           \/ \E type \in MessageTypes \ {"set_allocated"} :
                 /\ m = Msg(type, i)
                 /\ type = "spawn_failed" => stage'[i] = "failed" /\ op[i].kind = "spawn"
                 /\ type = "child_dismissed" => stage[i] \in {"released", "releasing"}
<1>1. mailbox[a] \in Seq(Messages)
  BY DEF TypeInv, LedgerTypeOK
<1>2. a \in alive'
  <2>1. mailbox'[a] # <<>>
    BY DEF Contents
  <2> QED
    BY <2>1 DEF FlowInv, MailInv
<1>3. CASE a \in alive
  <2>1. ASSUME NEW n PROVE Contents(Append(mailbox[a], n)) \subseteq Contents(mailbox[a]) \cup {n}
    BY <1>1, AppendElements DEF Contents
  <2>2. CASE mailbox'[a] = mailbox[a]
    BY <2>2
  <2>3. CASE mailbox'[a] # mailbox[a]
    <3>1. PICK type \in MessageTypes \ {"set_allocated"} :
                 /\ mailbox'[a] = Append(mailbox[a], Msg(type, i))
                 /\ type = "spawn_failed" => stage'[i] = "failed" /\ op[i].kind = "spawn"
                 /\ type = "child_dismissed" => stage[i] \in {"released", "releasing"}
      BY <1>2, <1>3, <2>3, OpBoxes
    <3>2. m \in Contents(mailbox[a]) \/ m = Msg(type, i)
      BY <2>1, <3>1
    <3> QED
      BY <3>1, <3>2
  <2> QED
    BY <2>2, <2>3
<1>4. CASE a \notin alive
  <2>1. StartChild(i)
    BY <1>2, <1>4, OpBudgets
  <2> QED
    BY <2>1 DEF StartChild
<1> QED
  BY <1>3, <1>4

LEMMA HandlerContents ==
    ASSUME TypeInv, FlowInv, FlowInv', NEW a \in Agents, NEW i, NEW type, Handles(a, i, type),
           NEW b \in Agents, NEW m \in Contents(mailbox'[b])
    PROVE  m \in Contents(mailbox[b]) \/ m = Msg("set_allocated", i)
<1>1. mailbox[b] \in Seq(Messages) /\ HandlesMail(a, i, type) /\ alive' = alive
      /\ mailbox[a] # <<>>
  BY DEF TypeInv, LedgerTypeOK, Handles
<1>2. b \in alive
  <2>1. mailbox'[b] # <<>>
    BY DEF Contents
  <2> QED
    BY <1>1, <2>1 DEF FlowInv, MailInv
<1>3. CASE b = a
  <2>1. Contents(Tail(mailbox[a])) \subseteq Contents(mailbox[a])
    BY <1>1, <1>3, BoxContents DEF FlowInv, MailInv
  <2> QED
    BY <1>1, <1>3, <2>1 DEF HandlesMail
<1>4. CASE b # a
  <2>1. ASSUME NEW n PROVE Contents(Append(mailbox[b], n)) \subseteq Contents(mailbox[b]) \cup {n}
    BY <1>1, AppendElements DEF Contents
  <2> QED
    BY <1>1, <1>2, <1>4, <2>1 DEF HandlesMail
<1> QED
  BY <1>3, <1>4

LEMMA RestContents ==
    ASSUME TypeInv, FlowInv, RestStep, NEW b \in Agents, NEW m \in Contents(mailbox'[b])
    PROVE  m \in Contents(mailbox[b]) \/ m.type = "update_budget_data"
<1>1. mailbox[b] \in Seq(Messages)
  BY DEF TypeInv, LedgerTypeOK
<1>2. CASE mailbox'[b] = mailbox[b]
  BY <1>2
<1>3. CASE mailbox[b] # <<>> /\ mailbox'[b] = Tail(mailbox[b])
  BY <1>1, <1>3, BoxContents DEF FlowInv, MailInv
<1>4. CASE mailbox'[b] = Append(mailbox[b], Msg("update_budget_data", 0))
  BY <1>1, <1>4, AppendElements DEF Contents, Msg
<1> QED
  BY <1>2, <1>3, <1>4 DEF RestStep

-----------------------------------------------------------------------------
(* What the parent knows of its children stays true *)

\* Taking actions adds to the actions on a child, and not to its messages.
LEMMA TakingOps ==
    ASSUME TypeInv, InheritInv, FlowInv, TypeInv', FlowInv', NEW a \in Agents, Takes(a)
    PROVE  /\ Onwards
           /\ UNCHANGED <<treeVars, ledgerVars, mailbox, reply, workVars, costVars, editVars>>
           /\ \A j \in DOMAIN op : op'[j] = op[j] /\ stage'[j] = stage[j]
           /\ \A j \in NewOps : /\ j \in Ops /\ stage'[j] = "dispatched" /\ reply'[j] = "none"
                                /\ op'[j].by = a /\ (op'[j].kind = "spawn" => op'[j].child # Root)
           /\ \A kind, c : /\ OpsOn(kind, c) \subseteq OpsOn(kind, c)'
                           /\ \A j \in OpsOn(kind, c)' : j \in OpsOn(kind, c) \/ j \in NewOps
           /\ \A c : OpsOn("spawn", c) # {} => OpsOn("spawn", c)' = OpsOn("spawn", c)
           /\ \A c \in alive : OpsOn("spawn", c)' = OpsOn("spawn", c)
           /\ \A b \in Agents : \A m \in Contents(mailbox[b]) :
                 m.type # "update_budget_data" => m.id \in DOMAIN op
<1>1. /\ UNCHANGED <<treeVars, ledgerVars, mailbox, reply, workVars, costVars, editVars>>
      /\ \A j \in DOMAIN op : j \in DOMAIN op' /\ op'[j] = op[j] /\ stage'[j] = stage[j]
  BY DEF Takes
<1>2. Onwards
  BY <1>1 DEF Onwards
<1>3. ASSUME NEW j \in NewOps
      PROVE  /\ j \in Ops /\ stage'[j] = "dispatched" /\ reply'[j] = "none" /\ op'[j].by = a
             /\ op'[j].child # Root /\ (op'[j].kind = "spawn" => ~IsSpawned(op'[j].child))
  <2>1. j \in Ops /\ stage'[j] = "dispatched" /\ op'[j].by = a /\ j \notin DOMAIN op
        /\ (op'[j].kind = "spawn" => ~IsSpawned(op'[j].child))
    BY DEF Takes, NewOps
  <2>2. reply'[j] = "none"
    BY <1>1, <2>1 DEF FlowInv, ReplyInv
  <2>3. j \in DOMAIN op'
    BY DEF NewOps
  <2>4. OpFacts(op[j])'
    BY <2>3 DEF TypeInv, OpsTyped
  <2> QED
    BY <2>1, <2>2, <2>4 DEF OpFacts
<1>4. ASSUME NEW kind, NEW c
      PROVE  /\ OpsOn(kind, c) \subseteq OpsOn(kind, c)'
             /\ \A j \in OpsOn(kind, c)' : j \in OpsOn(kind, c) \/ j \in NewOps
             /\ OpsOn("spawn", c) # {} => OpsOn("spawn", c)' = OpsOn("spawn", c)
  <2>1. OpsOn(kind, c) \subseteq OpsOn(kind, c)' /\ OpsOn("spawn", c) \subseteq OpsOn("spawn", c)'
    BY <1>1 DEF OpsOn
  <2>2. \A k : \A j \in OpsOn(k, c)' : j \in OpsOn(k, c) \/ j \in NewOps
    BY <1>1 DEF OpsOn, NewOps
  <2>3. ASSUME OpsOn("spawn", c) # {}, NEW j \in OpsOn("spawn", c)', j \in NewOps PROVE FALSE
    <3>1. op'[j].kind = "spawn" /\ op'[j].child = c
      BY <2>3 DEF OpsOn
    <3> QED
      BY <1>3, <2>3, <3>1 DEF IsSpawned
  <2> QED
    BY <2>1, <2>2, <2>3
<1>5. ASSUME NEW c \in alive PROVE OpsOn("spawn", c)' = OpsOn("spawn", c)
  <2>1. CASE c = Root
    <3>1. ASSUME NEW j \in OpsOn("spawn", c)', j \notin OpsOn("spawn", c) PROVE FALSE
      <4>1. j \in NewOps /\ op'[j].child = c
        BY <1>4, <3>1 DEF OpsOn
      <4> QED
        BY <1>3, <2>1, <4>1
    <3> QED
      BY <1>4, <3>1
  <2>2. CASE c # Root
    <3>1. Started(c)
      BY DEF InheritInv, StartedFirst
    <3>2. OpsOn("spawn", c) # {}
      BY <2>2, <3>1 DEF Started
    <3> QED
      BY <1>4, <3>2
  <2> QED
    BY <2>1, <2>2
<1>6. ASSUME NEW b \in Agents, NEW m \in Contents(mailbox[b]), m.type # "update_budget_data"
      PROVE  m.id \in DOMAIN op
  <2>1. m \in Messages
    <3>1. mailbox[b] \in Seq(Messages)
      BY DEF TypeInv, LedgerTypeOK
    <3> QED
      BY <3>1, BoxContents DEF FlowInv, MailInv
  <2> QED
    BY <1>6, <2>1 DEF Messages
<1> QED
  BY <1>1, <1>2, <1>3, <1>4, <1>5, <1>6

LEMMA TakingChild ==
    ASSUME TypeInv, InheritInv, FlowInv, ChildInv, TypeInv', FlowInv', NEW a \in Agents, Takes(a)
    PROVE  ChildInv'
<1>1. /\ Onwards
      /\ UNCHANGED <<treeVars, ledgerVars, mailbox, reply, workVars, costVars, editVars>>
      /\ \A j \in DOMAIN op : op'[j] = op[j] /\ stage'[j] = stage[j]
      /\ \A j \in NewOps : stage'[j] = "dispatched" /\ reply'[j] = "none"
  BY TakingOps
<1>2. /\ \A kind, c : /\ OpsOn(kind, c) \subseteq OpsOn(kind, c)'
                      /\ \A j \in OpsOn(kind, c)' : j \in OpsOn(kind, c) \/ j \in NewOps
      /\ \A c : OpsOn("spawn", c) # {} => OpsOn("spawn", c)' = OpsOn("spawn", c)
      /\ \A c \in alive : OpsOn("spawn", c)' = OpsOn("spawn", c)
  BY TakingOps
<1>3. alive' = alive /\ budget' = budget /\ listed' = listed /\ known' = known /\ mailbox' = mailbox
      /\ reply' = reply
  BY <1>1
<1>4. \A kind, c : \A j \in OpsOn(kind, c) : j \in DOMAIN op /\ op[j].kind = kind /\ op[j].child = c
  BY DEF OpsOn
<1>5. \A j \in DOMAIN op' : j \in DOMAIN op \/ j \in NewOps
  BY DEF NewOps
<1>6. \A c : Started(c) => Started(c)'
  BY <1>1, StartedStays
<1>7. \A c : Adjusted(c) => Adjusted(c)'
  BY <1>1, <1>2, <1>4 DEF Adjusted
<1>8. LivingStarted'
  BY <1>1, <1>2, <1>3, <1>4 DEF ChildInv, LivingStarted
<1>9. ListedInv'
  <2>1. ASSUME NEW c \in listed
        PROVE  /\ OpsOn("spawn", c) # {}
               /\ \E s \in OpsOn("spawn", c)' : stage'[s] \notin {"dispatched", "rejected"}
    <3>1. PICK s \in OpsOn("spawn", c) : stage[s] \notin {"dispatched", "rejected"}
      BY DEF ChildInv, ListedInv
    <3> QED
      BY <1>1, <1>2, <1>4, <3>1
  <2>2. ASSUME NEW c \in Agents, NEW s \in OpsOn("spawn", c)', known[c] # NA, ~Adjusted(c)'
        PROVE  known[c] = op'[s].amount /\ reply[s] = "handled"
    <3>1. c \in listed
      BY <2>2 DEF ChildInv, ListedInv
    <3>2. s \in OpsOn("spawn", c)
      BY <1>2, <2>1, <2>2, <3>1
    <3>3. known[c] = op[s].amount /\ reply[s] = "handled"
      BY <1>7, <2>2, <3>2 DEF ChildInv, ListedInv
    <3> QED
      BY <1>1, <1>4, <3>2, <3>3
  <2>3. \A c \in Agents : known[c] # NA => c \in listed
    BY DEF ChildInv, ListedInv
  <2> QED
    BY <1>3, <2>1, <2>2, <2>3 DEF ListedInv
<1>10. FirstAllocation'
  BY <1>1, <1>2, <1>3, <1>4, <1>7 DEF ChildInv, FirstAllocation
<1>11. AdjustsStarted'
  BY <1>1, <1>5, <1>6 DEF ChildInv, AdjustsStarted
<1>12. UnlistedInv'
  <2> SUFFICES ASSUME NEW s \in DOMAIN op', Settled(s)', op'[s].by \in alive, op'[s].child \notin listed,
                      NEW c, c = op'[s].child
               PROVE  \/ stage'[s] \in {"rejected", "failed"}
                      \/ \E j \in OpsOn("dismiss", c)' : stage'[j] = "done"
    BY <1>3 DEF UnlistedInv
  <2>1. s \in DOMAIN op
    BY <1>1, <1>5 DEF Settled
  <2>2. op'[s] = op[s] /\ stage'[s] = stage[s] /\ Settled(s)
    BY <1>1, <1>3, <2>1 DEF Settled
  <2>3. \/ stage[s] \in {"rejected", "failed"}
        \/ \E j \in OpsOn("dismiss", c) : stage[j] = "done"
    BY <2>1, <2>2 DEF ChildInv, UnlistedInv
  <2> QED
    BY <1>1, <1>2, <1>4, <2>2, <2>3
<1>13. GoneInv'
  <2> SUFFICES ASSUME NEW j \in DOMAIN op', op'[j].kind = "dismiss", NEW c, c = op'[j].child
               PROVE  /\ stage'[j] \in {"asked", "known", "selected", "absorbed", "releasing", "released"} =>
                            Started(c)'
                      /\ stage'[j] \in {"releasing", "released"} => c \notin alive'
                      /\ \A b \in Agents : Msg("child_dismissed", j) \in Contents(mailbox'[b]) =>
                            c \notin alive' /\ Started(c)'
    BY DEF GoneInv
  <2>1. CASE j \in DOMAIN op
    <3>1. op'[j] = op[j] /\ stage'[j] = stage[j]
      BY <1>1, <2>1
    <3>2. /\ stage[j] \in {"asked", "known", "selected", "absorbed", "releasing", "released"} =>
                Started(c)
          /\ stage[j] \in {"releasing", "released"} => c \notin alive
          /\ \A b \in Agents : Msg("child_dismissed", j) \in Contents(mailbox[b]) =>
                c \notin alive /\ Started(c)
      BY <2>1, <3>1 DEF ChildInv, GoneInv
    <3>3. Started(c) => Started(c)'
      BY <1>6
    <3> QED
      BY <1>3, <3>1, <3>2, <3>3
  <2>2. CASE j \notin DOMAIN op
    <3>1. stage'[j] = "dispatched"
      BY <1>1, <1>5, <2>2
    <3>2. ASSUME NEW b \in Agents, Msg("child_dismissed", j) \in Contents(mailbox'[b]) PROVE FALSE
      <4>1. Msg("child_dismissed", j).type # "update_budget_data" /\ Msg("child_dismissed", j).id = j
        BY DEF Msg
      <4>2. j \in DOMAIN op
        BY <1>3, <3>2, <4>1, TakingOps
      <4> QED
        BY <2>2, <4>2
    <3> QED
      BY <3>1, <3>2
  <2> QED
    BY <2>1, <2>2
<1> QED
  BY <1>8, <1>9, <1>10, <1>11, <1>12, <1>13 DEF ChildInv

\* What a step of action i does not undo.
LEMMA OpKeeps ==
    ASSUME TypeInv, InheritInv, NEW i \in Ops, OpStep(i)
    PROVE  /\ op' = op /\ i \in DOMAIN op
           /\ \A kind, c : OpsOn(kind, c)' = OpsOn(kind, c)
           /\ \A c : ParentOf(c)' = ParentOf(c) /\ ChildrenOf(c)' = ChildrenOf(c)
           /\ \A c : Misused(c)' = Misused(c)
           /\ \A j \in DOMAIN op : /\ j # i => stage'[j] = stage[j] /\ reply'[j] = reply[j]
                                   /\ reply'[j] = "handled" <=> reply[j] = "handled"
                                   /\ stage[j] \in {"rejected", "failed", "done"} => stage'[j] = stage[j]
                                   /\ stage'[j] = "dispatched" => stage[j] = "dispatched"
                                   /\ stage'[j] = "rejected" => stage[j] \in {"dispatched", "rejected"}
           /\ \A c : Adjusted(c) <=> Adjusted(c)'
           /\ \A c : Started(c) => Started(c)'
           /\ \A c \in alive' \ alive : StartChild(i) /\ c = op[i].child /\ ~Started(c)
           /\ \A j \in DOMAIN op : op[j].by \in alive' => op[j].by \in alive
           /\ \A c \in Agents : SameList(c) \/ (c \notin listed' /\ known'[c] = NA /\ ParentOf(c) \notin alive')
           /\ \A c \in alive' : budget'[c] = IF c \in alive THEN budget[c] ELSE NewChild(op[i].amount)
<1>1. i \in DOMAIN op /\ OthersStay(i) /\ Moved1(i) /\ OpFacts(op[i])
  BY OpMoves, TakenOps
<1>2. op' = op
  BY <1>1 DEF OthersStay
<1>3. /\ \A kind, c : OpsOn(kind, c)' = OpsOn(kind, c)
      /\ \A c : ParentOf(c)' = ParentOf(c) /\ ChildrenOf(c)' = ChildrenOf(c)
      /\ \A c : Misused(c)' = Misused(c)
  BY <1>2, OpsKept
<1>4. \A j \in DOMAIN op : j \in Ops
  BY TakenOps
<1>5. \A j \in DOMAIN op : j # i => stage'[j] = stage[j] /\ reply'[j] = reply[j]
  BY <1>1, <1>4 DEF OthersStay
<1>6. /\ reply'[i] = "handled" <=> reply[i] = "handled"
      /\ stage[i] \in {"rejected", "failed", "done"} => stage'[i] = stage[i]
      /\ stage'[i] = "dispatched" => stage[i] = "dispatched"
      /\ stage'[i] = "rejected" => stage[i] \in {"dispatched", "rejected"}
      /\ op[i].kind = "adjust" /\ stage'[i] = "done" => stage[i] = "done"
  BY <1>1 DEF Moved1, Moves, ReplyStays, ReplyReady, ReplySent
<1>7. ASSUME NEW c PROVE Adjusted(c) <=> Adjusted(c)'
  <2>1. \A j \in OpsOn("adjust", c) : stage[j] = "done" <=> stage'[j] = "done"
    BY <1>5, <1>6 DEF OpsOn
  <2>2. OpsOn("adjust", c)' = OpsOn("adjust", c)
    BY <1>3
  <2> QED
    BY <2>1, <2>2 DEF Adjusted
<1>8. \A c : Started(c) => Started(c)'
  BY <1>1, StagesGoOn
<1>9. ASSUME NEW c \in alive' \ alive PROVE StartChild(i) /\ c = op[i].child /\ ~Started(c)
  <2>1. StartChild(i) /\ c = op[i].child
    BY <1>9, OpBudgets
  <2>2. stage[i] = "starting" /\ i \in OpsOn("spawn", c) /\ c # Root
    BY <1>1, <2>1 DEF StartChild, At, OpsOn, OpFacts
  <2>3. OpsOn("spawn", c) = {i}
    BY <2>2, SpawnIs
  <2> QED
    BY <2>1, <2>2, <2>3 DEF Started, Early
<1>10. ASSUME NEW j \in DOMAIN op, op[j].by \in alive' PROVE op[j].by \in alive
  <2>1. CASE op[j].by \notin alive
    <3>1. ~Started(op[j].by)
      BY <1>9, <1>10, <2>1
    <3> QED
      BY <3>1 DEF InheritInv, StartedFirst
  <2> QED
    BY <2>1
<1>11. ASSUME NEW c \in Agents
       PROVE  SameList(c) \/ (c \notin listed' /\ known'[c] = NA /\ ParentOf(c) \notin alive')
  <2>1. CASE TerminateSubtree(i)
    <3>1. alive' = alive \ LiveSubtree(op[i].child)
      BY <2>1 DEF TerminateSubtree
    <3> QED
      BY <2>1, <3>1, EndedLists DEF SameList
  <2>2. CASE ~TerminateSubtree(i)
    BY <2>2, OpFactsOfStep DEF SameList
  <2> QED
    BY <2>1, <2>2
<1>12. ASSUME NEW c \in alive'
       PROVE  budget'[c] = IF c \in alive THEN budget[c] ELSE NewChild(op[i].amount)
  <2>0. alive \subseteq Agents
    BY DEF TypeInv, LedgerTypeOK
  <2>1. \/ alive' = alive /\ budget' = budget
        \/ /\ op[i].child \in Agents /\ op[i].child \notin alive
           /\ alive' = alive \cup {op[i].child}
           /\ \A b \in Agents : budget'[b] = IF b = op[i].child THEN NewChild(op[i].amount)
                                              ELSE budget[b]
        \/ /\ alive' = alive \ LiveSubtree(op[i].child)
           /\ \A b \in Agents : budget'[b] = IF b \in LiveSubtree(op[i].child) THEN NewChild(NA)
                                              ELSE budget[b]
    BY OpBudgets
  <2> QED
    BY <2>0, <2>1
<1>13. \A j \in DOMAIN op : /\ reply'[j] = "handled" <=> reply[j] = "handled"
                            /\ stage[j] \in {"rejected", "failed", "done"} => stage'[j] = stage[j]
                            /\ stage'[j] = "dispatched" => stage[j] = "dispatched"
                            /\ stage'[j] = "rejected" => stage[j] \in {"dispatched", "rejected"}
  BY <1>5, <1>6
<1> QED
  BY <1>1, <1>2, <1>3, <1>5, <1>7, <1>8, <1>9, <1>10, <1>11, <1>12, <1>13

LEMMA OpChild ==
    ASSUME TypeInv, InheritInv, FlowInv, FlowInv', ChildInv, NEW i \in Ops, OpStep(i)
    PROVE  ChildInv'
<1>1. /\ op' = op /\ i \in DOMAIN op
      /\ \A kind, c : OpsOn(kind, c)' = OpsOn(kind, c)
      /\ \A c : Adjusted(c) <=> Adjusted(c)'
      /\ \A c : Started(c) => Started(c)'
  BY OpKeeps
<1>2. \A j \in DOMAIN op : /\ j # i => stage'[j] = stage[j] /\ reply'[j] = reply[j]
                           /\ reply'[j] = "handled" <=> reply[j] = "handled"
                           /\ stage[j] \in {"rejected", "failed", "done"} => stage'[j] = stage[j]
                           /\ stage'[j] = "dispatched" => stage[j] = "dispatched"
                           /\ stage'[j] = "rejected" => stage[j] \in {"dispatched", "rejected"}
  BY OpKeeps
<1>3. /\ \A c \in alive' \ alive : StartChild(i) /\ c = op[i].child /\ ~Started(c)
      /\ \A c \in alive' : budget'[c] = IF c \in alive THEN budget[c] ELSE NewChild(op[i].amount)
      /\ \A c \in Agents : SameList(c) \/ (c \notin listed' /\ known'[c] = NA /\ ParentOf(c) \notin alive')
      /\ \A j \in DOMAIN op : op[j].by \in alive' => op[j].by \in alive
  BY OpKeeps
<1>4. \A kind, c : \A j \in OpsOn(kind, c) : j \in DOMAIN op /\ op[j].kind = kind /\ op[j].child = c
  BY DEF OpsOn
<1>5. listed' \subseteq Agents /\ listed \subseteq Agents /\ alive \subseteq Agents
  <2>1. listed \subseteq Agents /\ alive \subseteq Agents
    BY DEF TypeInv, LedgerTypeOK
  <2>2. TypeInv'
    BY OpTypes
  <2> QED
    BY <2>1, <2>2 DEF TypeInv, LedgerTypeOK
<1>6. LivingStarted'
  <2> SUFFICES ASSUME NEW c \in alive', NEW s \in OpsOn("spawn", c), stage'[s] = "failed" PROVE FALSE
    BY <1>1 DEF LivingStarted
  <2>1. s \in DOMAIN op /\ op[s].child = c /\ op[s].kind = "spawn"
    BY <1>4
  <2>2. CASE c \in alive
    <3>1. stage[s] # "failed"
      BY <2>2 DEF ChildInv, LivingStarted
    <3>2. s = i
      BY <1>2, <2>1, <3>1
    <3> QED
      BY <2>1, <2>2, <3>1, <3>2, OpFactsOfStep
  <2>3. CASE c \notin alive
    <3>1. StartChild(i) /\ c = op[i].child
      BY <1>3, <2>3
    <3>2. stage' = [stage EXCEPT ![i] = "started"] /\ i \in OpsOn("spawn", c)
      BY <3>1 DEF StartChild, Goes, At, OpsOn
    <3>3. s = i
      BY <3>2, SpawnIs
    <3> QED
      BY <3>2, <3>3 DEF TypeInv, LedgerTypeOK
  <2> QED
    BY <2>2, <2>3
<1>7. ListedInv'
  <2>1. ASSUME NEW c \in listed'
        PROVE  \E s \in OpsOn("spawn", c)' : stage'[s] \notin {"dispatched", "rejected"}
    <3>1. c \in listed
      BY <1>3, <1>5 DEF SameList
    <3>2. PICK s \in OpsOn("spawn", c) : stage[s] \notin {"dispatched", "rejected"}
      BY <3>1 DEF ChildInv, ListedInv
    <3>3. stage'[s] \notin {"dispatched", "rejected"}
      BY <1>2, <1>4, <3>2
    <3> QED
      BY <1>1, <3>3
  <2>2. ASSUME NEW c \in Agents, known'[c] # NA
        PROVE  /\ c \in listed'
               /\ \A s \in OpsOn("spawn", c)' : ~Adjusted(c)' => known'[c] = op'[s].amount /\ reply'[s] = "handled"
    <3>1. SameList(c)
      BY <1>3, <2>2
    <3>2. known[c] # NA
      BY <2>2, <3>1 DEF SameList
    <3>3. /\ c \in listed
          /\ \A s \in OpsOn("spawn", c) : ~Adjusted(c) => known[c] = op[s].amount /\ reply[s] = "handled"
      BY <3>2 DEF ChildInv, ListedInv
    <3>4. known'[c] = known[c] /\ c \in listed'
      BY <3>1, <3>3 DEF SameList
    <3> QED
      BY <1>1, <1>2, <1>4, <3>3, <3>4
  <2> QED
    BY <2>1, <2>2 DEF ListedInv
<1>8. FirstAllocation'
  <2> SUFFICES ASSUME NEW c \in alive', NEW s \in OpsOn("spawn", c), ~Adjusted(c)
               PROVE  budget'[c].allocated = op[s].amount
    BY <1>1 DEF FirstAllocation
  <2>1. CASE c \in alive
    BY <1>3, <2>1 DEF ChildInv, FirstAllocation
  <2>2. CASE c \notin alive
    <3>1. budget'[c] = NewChild(op[i].amount) /\ StartChild(i) /\ c = op[i].child
      BY <1>3, <2>2
    <3>2. i \in OpsOn("spawn", c)
      BY <3>1 DEF StartChild, At, OpsOn
    <3>3. s = i
      BY <3>2, SpawnIs
    <3> QED
      BY <3>1, <3>3 DEF NewChild
  <2> QED
    BY <2>1, <2>2
<1>9. AdjustsStarted'
  <2> SUFFICES ASSUME NEW j \in DOMAIN op, op[j].kind = "adjust", stage'[j] \in {"calling", "done"},
                      NEW c, c = op[j].child
               PROVE  Started(c)'
    BY <1>1 DEF AdjustsStarted
  <2>1. CASE stage[j] \in {"calling", "done"}
    BY <1>1, <2>1 DEF ChildInv, AdjustsStarted
  <2>2. CASE stage[j] \notin {"calling", "done"}
    <3>1. i = j
      BY <1>2, <2>2
    <3>2. i \in OpsOn("adjust", c)
      BY <3>1 DEF OpsOn
    <3>3. stage'[j] = "done" => Adjusted(c)
      BY <1>1, <3>1, <3>2 DEF Adjusted
    <3>4. ASSUME stage'[j] = "done" PROVE FALSE
      <4>1. Moved1(i)
        BY OpMoves
      <4> QED
        BY <2>2, <3>1, <3>4, <4>1 DEF Moved1, Moves
    <3>5. c \in alive
      BY <2>2, <3>1, <3>4, OpFactsOfStep
    <3> QED
      BY <1>1, <3>5 DEF InheritInv, StartedFirst
  <2> QED
    BY <2>1, <2>2
<1>10. UnlistedInv'
  <2> SUFFICES ASSUME NEW s \in DOMAIN op, op[s].kind = "spawn", ~op[s].batched, reply'[s] = "handled",
                      op[s].by \in alive', op[s].child \notin listed'
               PROVE  \/ stage'[s] \in {"rejected", "failed"}
                      \/ \E j \in OpsOn("dismiss", op[s].child) : stage'[j] = "done"
    BY <1>1 DEF UnlistedInv, Settled
  <2>1. Settled(s) /\ op[s].by \in alive /\ op[s].child \in Agents
    <3>1. OpFacts(op[s])
      BY TakenOps
    <3> QED
      BY <1>2, <1>3, <3>1 DEF Settled, OpFacts
  <2>2. ParentOf(op[s].child) = op[s].by
    <3>1. s \in OpsOn("spawn", op[s].child)
      BY DEF OpsOn
    <3> QED
      BY <3>1, SpawnIs
  <2>3. op[s].child \notin listed
    BY <1>3, <2>1, <2>2 DEF SameList
  <2>4. \/ stage[s] \in {"rejected", "failed"}
        \/ \E j \in OpsOn("dismiss", op[s].child) : stage[j] = "done"
    BY <2>1, <2>3 DEF ChildInv, UnlistedInv
  <2> QED
    BY <1>2, <1>4, <2>4
<1>11. GoneInv'
  <2> SUFFICES ASSUME NEW j \in DOMAIN op, op[j].kind = "dismiss", NEW c, c = op[j].child
               PROVE  /\ stage'[j] \in {"asked", "known", "selected", "absorbed", "releasing", "released"} =>
                            Started(c)'
                      /\ stage'[j] \in {"releasing", "released"} => c \notin alive'
                      /\ \A b \in Agents : Msg("child_dismissed", j) \in Contents(mailbox'[b]) =>
                            c \notin alive' /\ Started(c)'
    BY <1>1 DEF GoneInv
  <2>1. /\ stage[j] \in {"asked", "known", "selected", "absorbed", "releasing", "released"} =>
              Started(c)
        /\ stage[j] \in {"releasing", "released"} => c \notin alive
        /\ \A b \in Agents : Msg("child_dismissed", j) \in Contents(mailbox[b]) =>
              c \notin alive /\ Started(c)
    BY DEF ChildInv, GoneInv
  <2>2. Started(c) /\ c \notin alive => Started(c)' /\ c \notin alive'
    BY <1>1, <1>3
  <2>3. ASSUME stage'[j] \in {"asked", "known", "selected", "absorbed", "releasing", "released"}
        PROVE  Started(c)'
    <3>1. CASE stage[j] \in {"asked", "known", "selected", "absorbed", "releasing", "released"}
      BY <1>1, <2>1, <3>1
    <3>2. CASE stage[j] \notin {"asked", "known", "selected", "absorbed", "releasing", "released"}
      <4>1. i = j
        BY <1>2, <2>3, <3>2
      <4>2. stage'[j] = "asked" \/ Moves(i, "releasing", "done")
        <5>1. Moved1(i)
          BY OpMoves
        <5> QED
          BY <2>3, <3>2, <4>1, <5>1 DEF Moved1, Moves
      <4>3. c \in alive
        BY <2>3, <3>2, <4>1, <4>2, OpFactsOfStep DEF Moves
      <4> QED
        BY <1>1, <4>3 DEF InheritInv, StartedFirst
    <3> QED
      BY <3>1, <3>2
  <2>4. ASSUME stage'[j] \in {"releasing", "released"} PROVE c \notin alive'
    <3>1. CASE stage[j] \in {"releasing", "released"}
      BY <2>1, <2>2, <3>1
    <3>2. CASE stage[j] \notin {"releasing", "released"}
      <4>1. i = j
        BY <1>2, <2>4, <3>2
      <4>2. stage[i] = "absorbed"
        <5>1. Moved1(i)
          BY OpMoves
        <5> QED
          BY <2>4, <3>2, <4>1, <5>1 DEF Moved1, Moves
      <4>3. TerminateSubtree(i)
        BY <2>4, <4>1, <4>2, OpFactsOfStep
      <4>4. alive' = alive \ LiveSubtree(c)
        BY <4>1, <4>3 DEF TerminateSubtree
      <4> QED
        BY <4>4 DEF LiveSubtree, Subtree
    <3> QED
      BY <3>1, <3>2
  <2>5. ASSUME NEW b \in Agents, Msg("child_dismissed", j) \in Contents(mailbox'[b])
        PROVE  c \notin alive' /\ Started(c)'
    <3>1. CASE Msg("child_dismissed", j) \in Contents(mailbox[b])
      BY <2>1, <2>2, <3>1
    <3>2. CASE Msg("child_dismissed", j) \notin Contents(mailbox[b])
      <4>1. PICK type \in MessageTypes :
                 /\ Msg("child_dismissed", j) = Msg(type, i)
                 /\ type = "child_dismissed" => stage[i] \in {"released", "releasing"}
        BY <2>5, <3>2, OpContents
      <4>2. type = "child_dismissed" /\ i = j
        BY <4>1 DEF Msg
      <4> QED
        BY <2>1, <2>2, <4>1, <4>2
    <3> QED
      BY <3>1, <3>2
  <2> QED
    BY <2>3, <2>4, <2>5
<1> QED
  BY <1>6, <1>7, <1>8, <1>9, <1>10, <1>11 DEF ChildInv

\* What a handler of a message about action i does not undo.
LEMMA HandlesKeeps ==
    ASSUME TypeInv, InheritInv, FlowInv, NEW a \in Agents, NEW i, NEW type, Handles(a, i, type)
    PROVE  /\ op' = op /\ alive' = alive /\ OpFacts(op[i])
           /\ \A kind, c : OpsOn(kind, c)' = OpsOn(kind, c)
           /\ \A c : ParentOf(c)' = ParentOf(c) /\ ChildrenOf(c)' = ChildrenOf(c)
           /\ \A c : Misused(c)' = Misused(c)
           /\ \A j \in DOMAIN op : /\ j # i => stage'[j] = stage[j] /\ reply'[j] = reply[j]
                                   /\ reply[j] = "handled" => reply'[j] = "handled"
                                   /\ reply'[j] = "handled" => reply[j] = "handled" \/ (j = i /\ type = "result")
                                   /\ \/ stage'[j] = stage[j]
                                      \/ /\ j = i /\ type = "adjust" /\ op[j].kind = "adjust"
                                         /\ stage[j] = "calling" /\ stage'[j] = "done"
                                      \/ /\ j = i /\ type = "get_state" /\ op[j].kind = "dismiss"
                                         /\ stage[j] = "asked" /\ stage'[j] = "known"
                                      \/ /\ j = i /\ type = "release" /\ op[j].kind = "dismiss"
                                         /\ stage[j] = "releasing" /\ stage'[j] = "released"
           /\ \A c : Adjusted(c) => Adjusted(c)'
           /\ \A c : Started(c) => Started(c)'
           /\ \A b \in Agents : /\ budget'[b].mode = budget[b].mode
                                /\ \/ budget'[b].allocated = budget[b].allocated
                                   \/ /\ type = "set_allocated" /\ b = a
                                      /\ budget'[b].allocated = op[i].amount
                                /\ \/ budget'[b].committed = budget[b].committed
                                   \/ b = a /\ (type = "result" \/ type = "release" \/ Adjusts(a, i, type))
<1>1. /\ OthersStay(i) /\ MovedByMessage(i, type) /\ Due(a, Msg(type, i))
      /\ op[i].kind \in About(type) /\ i \in Ops /\ i \in DOMAIN op /\ alive' = alive
      /\ HandlesBudget(a, i, type)
  BY DEF Handles
<1>2. op' = op /\ OpFacts(op[i])
  BY <1>1, TakenOps DEF OthersStay
<1>3. /\ \A kind, c : OpsOn(kind, c)' = OpsOn(kind, c)
      /\ \A c : ParentOf(c)' = ParentOf(c) /\ ChildrenOf(c)' = ChildrenOf(c)
      /\ \A c : Misused(c)' = Misused(c)
  BY <1>2, OpsKept
<1>4. \A j \in DOMAIN op : j # i => stage'[j] = stage[j] /\ reply'[j] = reply[j]
  BY <1>1, TakenOps DEF OthersStay
<1>5. /\ reply[i] = "handled" => reply'[i] = "handled"
      /\ reply'[i] = "handled" => reply[i] = "handled" \/ type = "result"
      /\ \/ stage'[i] = stage[i]
         \/ /\ type = "adjust" /\ op[i].kind = "adjust"
            /\ stage[i] = "calling" /\ stage'[i] = "done"
         \/ /\ type = "get_state" /\ op[i].kind = "dismiss"
            /\ stage[i] = "asked" /\ stage'[i] = "known"
         \/ /\ type = "release" /\ op[i].kind = "dismiss"
            /\ stage[i] = "releasing" /\ stage'[i] = "released"
  BY <1>1 DEF MovedByMessage, ReplyStays, ReplyReady, Due, Msg, About
<1>6. \A c : Adjusted(c) => Adjusted(c)'
  <2>1. \A j \in DOMAIN op : stage[j] = "done" => stage'[j] = "done"
    BY <1>4, <1>5
  <2> QED
    BY <1>3, <2>1 DEF Adjusted, OpsOn
<1>7. \A c : Started(c) => Started(c)'
  BY <1>1, StagesGoOn
<1>8. budget \in [Agents -> Budgets]
  BY DEF TypeInv, LedgerTypeOK
<1>9. /\ op[i].amount \in Amounts \cup {NA} /\ (op[i].kind = "adjust" => op[i].amount \in Amounts)
      /\ op[i].child \in Agents /\ seen[i].allocated \in Nat \cup {NA}
  BY <1>1, <1>2 DEF OpFacts, Budgets, TypeInv, LedgerTypeOK
<1>10. Current(op[i].child) \in Nat
  BY <1>9 DEF Current, TypeInv, LedgerTypeOK
<1>11. /\ budget'[a].mode = budget[a].mode
       /\ \/ budget'[a].allocated = budget[a].allocated
          \/ type = "set_allocated" /\ budget'[a].allocated = op[i].amount
       /\ \/ budget'[a].committed = budget[a].committed
          \/ type = "result" \/ type = "release" \/ Adjusts(a, i, type)
  <2>0. budget[a] \in Budgets
    BY <1>8
  <2>1. CASE type = "result" /\ TracksChild(i)
    <3>1. budget'[a] = CommitAmount(budget[a], op[i].amount)
      BY <1>1, <2>1 DEF HandlesBudget, Adjusts
    <3>2. /\ CommitAmount(budget[a], op[i].amount).mode = budget[a].mode
          /\ CommitAmount(budget[a], op[i].amount).allocated = budget[a].allocated
      BY <1>9, <2>0, EscrowOperations
    <3> QED
      BY <2>1, <3>1, <3>2
  <2>2. CASE Adjusts(a, i, type)
    <3>1. type = "adjust"
      BY <2>2 DEF Adjusts
    <3>2. budget'[a] = AdjustEscrow(budget[a], Current(op[i].child), op[i].amount)
      BY <1>1, <2>2, <3>1 DEF HandlesBudget
    <3>3. op[i].amount \in Nat
      <4>1. op[i].kind = "adjust"
        BY <1>1, <3>1 DEF About
      <4> QED
        BY <1>9, <4>1
    <3>4. \A n \in Nat, m \in Nat : /\ AdjustEscrow(budget[a], n, m).mode = budget[a].mode
                                   /\ AdjustEscrow(budget[a], n, m).allocated = budget[a].allocated
      BY <2>0, EscrowOperations
    <3> QED
      BY <1>10, <2>2, <3>2, <3>3, <3>4
  <2>3. CASE type = "set_allocated"
    <3>1. ~Adjusts(a, i, type) /\ budget'[a] = [budget[a] EXCEPT !.allocated = op[i].amount]
      BY <1>1, <2>3 DEF HandlesBudget, Adjusts
    <3>2. op[i].amount \in Amounts
      BY <1>1, <1>9, <2>3 DEF About
    <3>3. budget'[a].committed = budget[a].committed
      BY <2>0, <3>1 DEF Budgets
    <3> QED
      BY <2>0, <2>3, <3>1, <3>2, <3>3, SetAllocation
  <2>4. CASE type = "release"
    <3>1. budget'[a] = ReleaseCommitted(budget[a], seen[i].allocated)
      BY <1>1, <2>4 DEF HandlesBudget, Adjusts
    <3>2. \A n \in Nat \cup {NA} : /\ ReleaseCommitted(budget[a], n).mode = budget[a].mode
                                   /\ ReleaseCommitted(budget[a], n).allocated = budget[a].allocated
      BY <2>0, BudgetOperations
    <3> QED
      BY <1>9, <2>4, <3>1, <3>2
  <2>5. CASE ~(\/ type = "result" /\ TracksChild(i)
               \/ Adjusts(a, i, type) \/ type = "set_allocated" \/ type = "release")
    BY <1>1, <2>5 DEF HandlesBudget
  <2> QED
    BY <2>1, <2>2, <2>3, <2>4, <2>5
<1>12. \A b \in Agents \ {a} : budget'[b] = budget[b]
  BY <1>1 DEF HandlesBudget
<1> QED
  BY <1>1, <1>2, <1>3, <1>4, <1>5, <1>6, <1>7, <1>11, <1>12

LEMMA HandlerChild ==
    ASSUME TypeInv, InheritInv, TreeInv, FlowInv, TypeInv', FlowInv', ChildInv,
           NEW a \in Agents, NEW i, NEW type, Handles(a, i, type)
    PROVE  ChildInv'
<1>1. /\ op' = op /\ alive' = alive
      /\ \A kind, c : OpsOn(kind, c)' = OpsOn(kind, c)
      /\ \A c : Adjusted(c) => Adjusted(c)'
      /\ \A c : Started(c) => Started(c)'
  BY HandlesKeeps
<1>2. \A j \in DOMAIN op : /\ j # i => stage'[j] = stage[j] /\ reply'[j] = reply[j]
                           /\ reply[j] = "handled" => reply'[j] = "handled"
                           /\ reply'[j] = "handled" => reply[j] = "handled" \/ (j = i /\ type = "result")
                           /\ \/ stage'[j] = stage[j]
                              \/ /\ j = i /\ type = "adjust" /\ op[j].kind = "adjust"
                                 /\ stage[j] = "calling" /\ stage'[j] = "done"
                              \/ /\ j = i /\ type = "get_state" /\ op[j].kind = "dismiss"
                                 /\ stage[j] = "asked" /\ stage'[j] = "known"
                              \/ /\ j = i /\ type = "release" /\ op[j].kind = "dismiss"
                                 /\ stage[j] = "releasing" /\ stage'[j] = "released"
  BY HandlesKeeps
<1>3. /\ i \in DOMAIN op /\ HandlesLists(a, i, type) /\ op[i].kind \in About(type)
      /\ Due(a, Msg(type, i)) /\ type \in MessageTypes /\ MovedByMessage(i, type) /\ OpFacts(op[i])
  BY HandlesKeeps DEF Handles
<1>4. \A kind, c : \A j \in OpsOn(kind, c) : j \in DOMAIN op /\ op[j].kind = kind /\ op[j].child = c
  BY DEF OpsOn
<1> PICK x : x = op[i].child
  OBVIOUS
<1>5. x \in Agents /\ i \in OpsOn(op[i].kind, x)
  BY <1>3 DEF OpFacts, OpsOn
<1>6. listed' \subseteq Agents /\ listed \subseteq Agents /\ alive \subseteq Agents
  <2>1. listed \subseteq Agents /\ alive \subseteq Agents
    BY DEF TypeInv, LedgerTypeOK
  <2>2. listed' \subseteq Agents
    BY DEF TypeInv, LedgerTypeOK
  <2> QED
    BY <2>1, <2>2
<1>7. LivingStarted'
  BY <1>1, <1>2, <1>4 DEF ChildInv, LivingStarted
<1>8. ListedInv'
  <2>1. ASSUME NEW c \in listed'
        PROVE  \E s \in OpsOn("spawn", c)' : stage'[s] \notin {"dispatched", "rejected"}
    <3>1. CASE c \in listed
      <4>1. PICK s \in OpsOn("spawn", c) : stage[s] \notin {"dispatched", "rejected"}
        BY <3>1 DEF ChildInv, ListedInv
      <4>2. stage'[s] \notin {"dispatched", "rejected"}
        BY <1>2, <1>4, <4>1
      <4> QED
        BY <1>1, <4>2
    <3>2. CASE c \notin listed
      <4>1. c = x /\ ((type = "result" /\ TracksChild(i)) \/ type = "child_spawned")
        BY <1>3, <1>6, <3>2 DEF HandlesLists, SameList
      <4>2. op[i].kind = "spawn"
        BY <1>3, <4>1 DEF TracksChild, About
      <4>3. stage[i] \notin {"dispatched", "rejected"}
        <5>1. StageOK(i)
          BY <1>3 DEF FlowInv, ReplyInv
        <5> QED
          BY <1>3, <4>1, <4>2, <5>1 DEF TracksChild, StageOK, Due, Msg
      <4>4. stage'[i] = stage[i]
        BY <1>2, <1>3, <4>2
      <4> QED
        BY <1>1, <1>5, <4>1, <4>2, <4>3, <4>4
    <3> QED
      BY <3>1, <3>2
  <2>2. ASSUME NEW c \in Agents, known'[c] # NA
        PROVE  /\ c \in listed'
               /\ \A s \in OpsOn("spawn", c)' : ~Adjusted(c)' => known'[c] = op'[s].amount /\ reply'[s] = "handled"
    <3>1. CASE SameList(c)
      <4>1. known'[c] = known[c] /\ (c \in listed => c \in listed')
        BY <3>1 DEF SameList
      <4>2. /\ c \in listed
            /\ \A s \in OpsOn("spawn", c) : ~Adjusted(c) => known[c] = op[s].amount /\ reply[s] = "handled"
        BY <2>2, <4>1 DEF ChildInv, ListedInv
      <4> QED
        BY <1>1, <1>2, <1>4, <4>1, <4>2
    <3>2. CASE c = x /\ type = "result" /\ TracksChild(i)
      <4>1. /\ c \in listed' /\ op[i].kind = "spawn" /\ i \in OpsOn("spawn", c)
            /\ known'[c] = IF c \in listed THEN known[c] ELSE op[i].amount
        BY <1>3, <1>5, <3>2 DEF HandlesLists, TracksChild
      <4>2. reply'[i] = "handled"
        BY <1>3, <3>2 DEF MovedByMessage
      <4>3. \A s \in OpsOn("spawn", c) : s = i
        BY <4>1, SpawnIs
      <4>4. CASE c \in listed
        <5>1. known[c] # NA /\ known'[c] = known[c]
          BY <2>2, <4>1, <4>4
        <5>2. \A s \in OpsOn("spawn", c) : ~Adjusted(c) => known[c] = op[s].amount /\ reply[s] = "handled"
          BY <5>1 DEF ChildInv, ListedInv
        <5> QED
          BY <1>1, <1>2, <1>4, <4>1, <5>1, <5>2
      <4>5. CASE c \notin listed
        BY <1>1, <4>1, <4>2, <4>3, <4>5
      <4> QED
        BY <4>4, <4>5
    <3>3. CASE c = x /\ type = "child_spawned"
      <4>1. c \in listed' /\ known'[c] = known[c]
        BY <1>3, <3>3 DEF HandlesLists
      <4>2. \A s \in OpsOn("spawn", c) : ~Adjusted(c) => known[c] = op[s].amount /\ reply[s] = "handled"
        BY <2>2, <4>1 DEF ChildInv, ListedInv
      <4> QED
        BY <1>1, <1>2, <1>4, <4>1, <4>2
    <3>4. CASE c = x /\ Adjusts(a, i, type)
      <4>1. c \in listed' /\ type = "adjust"
        BY <1>3, <3>4 DEF HandlesLists, Adjusts
      <4>2. stage'[i] = "done" /\ op[i].kind = "adjust"
        BY <1>3, <4>1 DEF MovedByMessage, About
      <4>3. Adjusted(c)'
        BY <1>1, <1>5, <3>4, <4>2 DEF Adjusted
      <4> QED
        BY <4>1, <4>3
    <3>5. CASE c = x /\ Unlists(type)
      BY <1>3, <2>2, <3>5 DEF HandlesLists
    <3>6. CASE c # x
      <4>1. SameList(c)
        BY <1>3, <3>6 DEF HandlesLists
      <4> QED
        BY <3>1, <4>1
    <3>7. CASE c = x /\ ~((type = "result" /\ TracksChild(i)) \/ type = "child_spawned" \/ Unlists(type)
         \/ Adjusts(a, i, type))
      <4>1. SameList(c)
        BY <1>3, <3>7 DEF HandlesLists
      <4> QED
        BY <3>1, <4>1
    <3> QED
      BY <3>2, <3>3, <3>4, <3>5, <3>6, <3>7
  <2> QED
    BY <2>1, <2>2 DEF ListedInv
<1>9. FirstAllocation'
  <2> SUFFICES ASSUME NEW c \in alive, NEW s \in OpsOn("spawn", c), ~Adjusted(c)'
               PROVE  budget'[c].allocated = op[s].amount
    BY <1>1 DEF FirstAllocation
  <2>1. ~Adjusted(c) /\ budget[c].allocated = op[s].amount
    BY <1>1 DEF ChildInv, FirstAllocation
  <2>2. CASE type = "set_allocated" /\ c = a
    <3>1. op[i].child = c /\ stage[i] = "done" /\ op[i].kind = "adjust"
      BY <1>3, <2>2 DEF Due, Msg, About
    <3>2. Adjusted(c)
      BY <1>3, <3>1 DEF Adjusted, OpsOn
    <3> QED
      BY <2>1, <3>2
  <2>3. CASE ~(type = "set_allocated" /\ c = a)
    <3>1. budget'[c].allocated = budget[c].allocated
      BY <1>6, <2>3, HandlesKeeps
    <3> QED
      BY <2>1, <3>1
  <2> QED
    BY <2>2, <2>3
<1>10. AdjustsStarted'
  <2> SUFFICES ASSUME NEW j \in DOMAIN op, op[j].kind = "adjust", stage'[j] \in {"calling", "done"},
                      NEW c, c = op[j].child
               PROVE  Started(c)'
    BY <1>1 DEF AdjustsStarted
  <2>1. stage[j] \in {"calling", "done"}
    BY <1>2
  <2> QED
    BY <1>1, <2>1 DEF ChildInv, AdjustsStarted
<1>11. UnlistedInv'
  <2> SUFFICES ASSUME NEW s \in DOMAIN op, op[s].kind = "spawn", ~op[s].batched, reply'[s] = "handled",
                      op[s].by \in alive, op[s].child \notin listed'
               PROVE  \/ stage'[s] \in {"rejected", "failed"}
                      \/ \E j \in OpsOn("dismiss", op[s].child) : stage'[j] = "done"
    BY <1>1 DEF UnlistedInv, Settled
  <2>0. op[s].child \in Agents
    BY TakenOps DEF OpFacts
  <2>1. CASE reply[s] # "handled"
    <3>1. s = i /\ type = "result"
      BY <1>2, <2>1
    <3>2. ~TracksChild(i)
      BY <1>3, <3>1 DEF HandlesLists
    <3> QED
      BY <1>2, <3>1, <3>2 DEF TracksChild
  <2>2. CASE reply[s] = "handled" /\ op[s].child \notin listed
    <3>1. \/ stage[s] \in {"rejected", "failed"}
          \/ \E j \in OpsOn("dismiss", op[s].child) : stage[j] = "done"
      BY <2>2 DEF ChildInv, UnlistedInv, Settled
    <3> QED
      BY <1>2, <1>4, <3>1
  <2>3. CASE op[s].child \in listed
    <3>1. op[s].child = x /\ Unlists(type)
      BY <1>3, <2>0, <2>3 DEF HandlesLists, SameList
    <3>2. CASE type = "spawn_failed"
      <4>1. op[i].kind = "spawn" /\ stage[i] = "failed"
        BY <1>3, <3>2 DEF Due, Msg, About
      <4>2. s = i
        <5>1. i \in OpsOn("spawn", x) /\ s \in OpsOn("spawn", x)
          BY <1>5, <3>1, <4>1 DEF OpsOn
        <5> QED
          BY <5>1, SpawnIs
      <4> QED
        BY <1>2, <4>1, <4>2
    <3>3. CASE type = "child_dismissed"
      <4>1. op[i].kind = "dismiss" /\ stage[i] = "done"
        BY <1>3, <3>3 DEF Due, Msg, About
      <4>2. stage'[i] = "done"
        BY <1>2, <1>3, <4>1
      <4> QED
        BY <1>5, <3>1, <4>1, <4>2
    <3> QED
      BY <3>1, <3>2, <3>3 DEF Unlists
  <2> QED
    BY <2>1, <2>2, <2>3
<1>12. GoneInv'
  <2> SUFFICES ASSUME NEW j \in DOMAIN op, op[j].kind = "dismiss", NEW c, c = op[j].child
               PROVE  /\ stage'[j] \in {"asked", "known", "selected", "absorbed", "releasing", "released"} =>
                            Started(c)'
                      /\ stage'[j] \in {"releasing", "released"} => c \notin alive
                      /\ \A b \in Agents : Msg("child_dismissed", j) \in Contents(mailbox'[b]) =>
                            c \notin alive /\ Started(c)'
    BY <1>1 DEF GoneInv
  <2>1. /\ stage[j] \in {"asked", "known", "selected", "absorbed", "releasing", "released"} =>
              Started(c)
        /\ stage[j] \in {"releasing", "released"} => c \notin alive
        /\ \A b \in Agents : Msg("child_dismissed", j) \in Contents(mailbox[b]) =>
              c \notin alive /\ Started(c)
    BY DEF ChildInv, GoneInv
  <2>2. ASSUME NEW b \in Agents, Msg("child_dismissed", j) \in Contents(mailbox'[b])
        PROVE  Msg("child_dismissed", j) \in Contents(mailbox[b])
    <3>1. Msg("child_dismissed", j) # Msg("set_allocated", i)
      BY DEF Msg
    <3> QED
      BY <2>2, <3>1, HandlerContents
  <2> QED
    BY <1>1, <1>2, <2>1, <2>2
<1> QED
  BY <1>7, <1>8, <1>9, <1>10, <1>11, <1>12 DEF ChildInv

LEMMA RestChild ==
    ASSUME TypeInv, InheritInv, FlowInv, ChildInv, RestStep
    PROVE  ChildInv'
<1>1. UNCHANGED <<op, stage, reply, alive, listed, known>>
  BY DEF RestStep
<1>2. /\ \A kind, c : OpsOn(kind, c)' = OpsOn(kind, c)
      /\ \A c : Adjusted(c)' <=> Adjusted(c)
      /\ \A c : Started(c) => Started(c)'
  <2>1. \A kind, c : OpsOn(kind, c)' = OpsOn(kind, c)
    BY <1>1, OpsKept
  <2> QED
    BY <1>1, <2>1 DEF Adjusted, Started
<1>3. LivingStarted' /\ ListedInv' /\ UnlistedInv'
  BY <1>1, <1>2 DEF ChildInv, LivingStarted, ListedInv, UnlistedInv, Settled
<1>4. FirstAllocation'
  <2>1. ASSUME NEW c \in alive, NEW s \in OpsOn("spawn", c) PROVE budget'[c] = budget[c]
    <3>1. c \in Agents \ {Root}
      BY SpawnIs
    <3> QED
      BY <3>1 DEF RestStep
  <2> QED
    BY <1>1, <1>2, <2>1 DEF ChildInv, FirstAllocation
<1>5. AdjustsStarted'
  <2> SUFFICES ASSUME NEW j \in DOMAIN op, op[j].kind = "adjust", stage[j] \in {"calling", "done"},
                      NEW c, c = op[j].child
               PROVE  Started(c)'
    BY <1>1 DEF AdjustsStarted
  <2> QED
    BY <1>2 DEF ChildInv, AdjustsStarted
<1>6. GoneInv'
  <2> SUFFICES ASSUME NEW j \in DOMAIN op, op[j].kind = "dismiss", NEW c, c = op[j].child
               PROVE  /\ stage[j] \in {"asked", "known", "selected", "absorbed", "releasing", "released"} =>
                            Started(c)'
                      /\ stage[j] \in {"releasing", "released"} => c \notin alive
                      /\ \A b \in Agents : Msg("child_dismissed", j) \in Contents(mailbox'[b]) =>
                            c \notin alive /\ Started(c)'
    BY <1>1 DEF GoneInv
  <2>1. ASSUME NEW b \in Agents, Msg("child_dismissed", j) \in Contents(mailbox'[b])
        PROVE  Msg("child_dismissed", j) \in Contents(mailbox[b])
    <3>1. Msg("child_dismissed", j).type # "update_budget_data"
      BY DEF Msg
    <3> QED
      BY <2>1, <3>1, RestContents
  <2> QED
    BY <1>2, <2>1 DEF ChildInv, GoneInv
<1> QED
  BY <1>3, <1>4, <1>5, <1>6 DEF ChildInv

-----------------------------------------------------------------------------
(* A child is told its share *)

\* The share of a child after a step that leaves it one spawn.
LEMMA ShareNext ==
    ASSUME NEW c, NEW s, OpsOn("spawn", c)' = {s}
    PROVE  Share(c)' = IF known'[c] # NA THEN known'[c]
                       ELSE IF reply'[s] = "handled" /\ op'[s].amount # NA THEN op'[s].amount
                       ELSE 0
<1>1. (CHOOSE i \in OpsOn("spawn", c)' : TRUE) = s
  OBVIOUS
<1> QED
  BY <1>1 DEF Share

\* It changes with what is known and with the reply to the spawn.
LEMMA ShareKept ==
    ASSUME TypeInv, InheritInv, NEW c, NEW s \in OpsOn("spawn", c),
           OpsOn("spawn", c)' = OpsOn("spawn", c), op'[s] = op[s], known'[c] = known[c],
           reply'[s] = "handled" <=> reply[s] = "handled"
    PROVE  Share(c)' = Share(c)
<1>1. OpsOn("spawn", c)' = {s}
  BY SpawnIs
<1>2. Share(c)' = IF known'[c] # NA THEN known'[c]
                  ELSE IF reply'[s] = "handled" /\ op'[s].amount # NA THEN op'[s].amount
                  ELSE 0
  BY <1>1, ShareNext
<1>3. Share(c) = IF known[c] # NA THEN known[c]
                 ELSE IF reply[s] = "handled" /\ op[s].amount # NA THEN op[s].amount
                 ELSE 0
  BY ShareIs
<1> QED
  BY <1>2, <1>3

\* Before it is adjusted the share is what the spawn named.
LEMMA FirstShare ==
    ASSUME TypeInv, InheritInv, ChildInv, NEW c, NEW s \in OpsOn("spawn", c),
           ~Adjusted(c), reply[s] = "handled", op[s].amount # NA
    PROVE  Share(c) = op[s].amount
<1>1. c \in Agents
  BY SpawnIs
<1>2. known[c] # NA => known[c] = op[s].amount
  BY <1>1 DEF ChildInv, ListedInv
<1> QED
  BY <1>2, ShareIs

\* Somebody who was never adjusted is told nothing.
LEMMA NothingToTell ==
    ASSUME TypeInv, FlowInv, NEW c \in Agents, OpsOn("adjust", c) = {}
    PROVE  TellsNothing(mailbox[c])
<1>1. ASSUME NEW k \in DOMAIN mailbox[c], Tells(mailbox[c][k]) PROVE FALSE
  <2> PICK m : m = mailbox[c][k]
    OBVIOUS
  <2>1. m \in Contents(mailbox[c]) /\ m.type = "set_allocated"
    BY <1>1 DEF Contents, Tells
  <2>2. m \in Messages
    <3>1. mailbox[c] \in Seq(Messages)
      BY DEF TypeInv, LedgerTypeOK
    <3> QED
      BY <2>1, <3>1, BoxContents DEF FlowInv, MailInv
  <2>3. m.id \in DOMAIN op /\ op[m.id].kind = "adjust"
    BY <2>1, <2>2 DEF Messages, About
  <2>4. op[m.id].child = c
    BY <2>1 DEF FlowInv, MailInv, Due
  <2> QED
    BY <2>3, <2>4 DEF OpsOn
<1> QED
  BY <1>1 DEF TellsNothing

\* What is told does not depend on actions taken meanwhile.
LEMMA ToldKept ==
    ASSUME TypeInv, FlowInv, NEW c \in Agents, NEW n, ToldIs(c, n),
           \A j \in DOMAIN op : op'[j] = op[j],
           mailbox'[c] = mailbox[c], budget'[c].allocated = budget[c].allocated
    PROVE  ToldIs(c, n)'
<1>1. \A k \in DOMAIN mailbox[c] : Tells(mailbox[c][k]) => mailbox[c][k].id \in DOMAIN op
  <2> SUFFICES ASSUME NEW k \in DOMAIN mailbox[c], Tells(mailbox[c][k])
               PROVE  mailbox[c][k].id \in DOMAIN op
    OBVIOUS
  <2>1. mailbox[c][k] \in Messages
    BY DEF TypeInv, LedgerTypeOK
  <2> QED
    BY <2>1 DEF Messages, Tells
<1>2. \A m : Tells(m)' <=> Tells(m)
  BY DEF Tells
<1>3. TellsLast(mailbox[c], n) => TellsLast(mailbox[c], n)'
  <2> SUFFICES ASSUME TellsLast(mailbox[c], n) PROVE TellsLast(mailbox[c], n)'
    OBVIOUS
  <2>1. PICK k \in DOMAIN mailbox[c] : /\ Tells(mailbox[c][k]) /\ op[mailbox[c][k].id].amount = n
                                        /\ \A l \in DOMAIN mailbox[c] : l > k => ~Tells(mailbox[c][l])
    BY DEF TellsLast
  <2>2. op'[mailbox[c][k].id] = op[mailbox[c][k].id]
    BY <1>1, <2>1
  <2>3. /\ k \in DOMAIN mailbox'[c] /\ Tells(mailbox'[c][k]) /\ op'[mailbox'[c][k].id].amount = n
        /\ \A l \in DOMAIN mailbox'[c] : l > k => ~Tells(mailbox'[c][l])
    BY <2>1, <2>2
  <2> QED
    BY <2>3 DEF TellsLast, Tells
<1>4. TellsNothing(mailbox[c]) => TellsNothing(mailbox[c])'
  BY DEF TellsNothing, Tells
<1> QED
  BY <1>3, <1>4 DEF ToldIs

\* Nor on other messages that arrive.
LEMMA ToldMore ==
    ASSUME TypeInv, NEW c \in Agents, NEW n, NEW m, op' = op,
           (ToldIs(c, n) /\ ~Tells(m)) \/ (Tells(m) /\ op[m.id].amount = n),
           mailbox'[c] = Append(mailbox[c], m), budget'[c].allocated = budget[c].allocated
    PROVE  ToldIs(c, n)'
<1>1. mailbox[c] \in Seq(Messages)
  BY DEF TypeInv, LedgerTypeOK
<1>2. \/ TellsLast(Append(mailbox[c], m), n)
      \/ TellsNothing(Append(mailbox[c], m)) /\ budget[c].allocated = n
  BY <1>1, TellsAppend DEF ToldIs
<1> PICK box : box = mailbox'[c]
  OBVIOUS
<1>3. TellsLast(box, n) \/ (TellsNothing(box) /\ budget[c].allocated = n)
  BY <1>2
<1>4. (TellsLast(box, n) <=> TellsLast(mailbox[c], n)') /\ (TellsNothing(box) <=> TellsNothing(mailbox[c])')
  BY DEF TellsLast, TellsNothing, Tells
<1> QED
  BY <1>3, <1>4 DEF ToldIs

\* When the child takes a message, what it tells becomes its allocation.
LEMMA ToldTaken ==
    ASSUME TypeInv, NEW c \in Agents, NEW n, op' = op, ToldIs(c, n), mailbox[c] # <<>>,
           mailbox'[c] = Tail(mailbox[c]),
           IF Tells(Head(mailbox[c])) THEN budget'[c].allocated = op[Head(mailbox[c]).id].amount
           ELSE budget'[c].allocated = budget[c].allocated
    PROVE  ToldIs(c, n)'
<1>1. mailbox[c] \in Seq(Messages)
  BY DEF TypeInv, LedgerTypeOK
<1>2. \/ TellsLast(Tail(mailbox[c]), n)
      \/ TellsNothing(Tail(mailbox[c])) /\ budget'[c].allocated = n
  BY <1>1, TellsTail DEF ToldIs
<1> PICK box : box = mailbox'[c]
  OBVIOUS
<1>3. TellsLast(box, n) \/ (TellsNothing(box) /\ budget'[c].allocated = n)
  BY <1>2
<1>4. (TellsLast(box, n) <=> TellsLast(mailbox[c], n)') /\ (TellsNothing(box) <=> TellsNothing(mailbox[c])')
  BY DEF TellsLast, TellsNothing, Tells
<1> QED
  BY <1>3, <1>4 DEF ToldIs

LEMMA TakingTold ==
    ASSUME TypeInv, InheritInv, FlowInv, ToldInv, TypeInv', FlowInv', NEW a \in Agents, Takes(a)
    PROVE  ToldInv'
<1>1. /\ UNCHANGED <<treeVars, ledgerVars, mailbox, reply, workVars, costVars, editVars>>
      /\ \A j \in DOMAIN op : op'[j] = op[j] /\ stage'[j] = stage[j]
      /\ \A c \in alive : OpsOn("spawn", c)' = OpsOn("spawn", c)
  BY TakingOps
<1> SUFFICES ASSUME NEW c \in alive, NEW s \in OpsOn("spawn", c), Settled(s)', op'[s].amount # NA,
                    op'[s].by \in alive
             PROVE  ToldIs(c, Share(c))'
  BY <1>1 DEF ToldInv
<1>2. s \in DOMAIN op /\ c \in Agents
  BY SpawnIs
<1>3. Settled(s) /\ op'[s] = op[s]
  BY <1>1, <1>2 DEF Settled
<1>4. Share(c)' = Share(c)
  BY <1>1, <1>3, ShareKept
<1> PICK n : n = Share(c)
  OBVIOUS
<1>5. ToldIs(c, n)
  BY <1>3 DEF ToldInv
<1>6. ToldIs(c, n)'
  BY <1>1, <1>2, <1>5, ToldKept
<1> QED
  BY <1>4, <1>6 DEF ToldIs

LEMMA OpTold ==
    ASSUME TypeInv, InheritInv, FlowInv, ChildInv, ToldInv, TypeInv', FlowInv', NEW i \in Ops, OpStep(i)
    PROVE  ToldInv'
<1>1. /\ op' = op /\ i \in DOMAIN op
      /\ \A kind, c : OpsOn(kind, c)' = OpsOn(kind, c)
      /\ \A j \in DOMAIN op : reply'[j] = "handled" <=> reply[j] = "handled"
      /\ \A c \in alive' \ alive : StartChild(i) /\ c = op[i].child /\ ~Started(c)
      /\ \A j \in DOMAIN op : op[j].by \in alive' => op[j].by \in alive
  BY OpKeeps
<1>2. /\ \A c \in Agents : SameList(c) \/ (c \notin listed' /\ known'[c] = NA /\ ParentOf(c) \notin alive')
      /\ \A c \in alive' : budget'[c] = IF c \in alive THEN budget[c] ELSE NewChild(op[i].amount)
  BY OpKeeps
<1>3. OthersStay(i)
  BY OpMoves
<1> SUFFICES ASSUME NEW c \in alive', NEW s \in OpsOn("spawn", c), reply'[s] = "handled", ~op[s].batched,
                    op[s].amount # NA, op[s].by \in alive'
             PROVE  ToldIs(c, Share(c))'
  BY <1>1 DEF ToldInv, Settled
<1>4. s \in DOMAIN op /\ c \in Agents /\ ParentOf(c) = op[s].by /\ op[s].kind = "spawn"
  BY SpawnIs
<1>5. Settled(s) /\ op[s].by \in alive /\ SameList(c)
  BY <1>1, <1>2, <1>4 DEF Settled
<1>6. Share(c)' = Share(c)
  BY <1>1, <1>4, <1>5, ShareKept DEF SameList
<1> PICK n : n = Share(c)
  OBVIOUS
<1>7. CASE c \in alive
  <2>1. ToldIs(c, n)
    BY <1>5, <1>7 DEF ToldInv
  <2>2. budget'[c] = budget[c]
    BY <1>2, <1>7
  <2>3. ASSUME mailbox'[c] = mailbox[c] PROVE ToldIs(c, n)'
    BY <1>1, <1>4, <2>1, <2>2, <2>3, ToldKept
  <2>4. ASSUME mailbox'[c] # mailbox[c] PROVE ToldIs(c, n)'
    <3>1. PICK type \in MessageTypes \ {"set_allocated"} : mailbox'[c] = Append(mailbox[c], Msg(type, i))
      BY <1>7, <2>4, OpBoxes
    <3>2. ~Tells(Msg(type, i))
      BY <3>1 DEF Tells, Msg
    <3> QED
      BY <1>1, <1>4, <2>1, <2>2, <3>1, <3>2, ToldMore
  <2>5. ToldIs(c, n)'
    BY <2>3, <2>4
  <2> QED
    BY <1>6, <2>5 DEF ToldIs
<1>8. CASE c \notin alive
  <2>1. StartChild(i) /\ c = op[i].child /\ ~Started(c) /\ budget'[c] = NewChild(op[i].amount)
    BY <1>1, <1>2, <1>8
  <2>2. i = s
    <3>1. i \in OpsOn("spawn", c)
      BY <2>1 DEF StartChild, At, OpsOn
    <3> QED
      BY <3>1, SpawnIs
  <2>3. mailbox'[c] = <<>>
    <3>1. mailbox[c] = <<>>
      BY <1>4, <1>8 DEF FlowInv, MailInv
    <3> QED
      BY <2>1, <3>1 DEF StartChild
  <2>4. ~Adjusted(c)
    <3>1. ASSUME NEW j \in OpsOn("adjust", c), stage[j] = "done" PROVE Started(c)
      <4>1. j \in DOMAIN op /\ op[j].kind = "adjust" /\ op[j].child = c
        BY DEF OpsOn
      <4> QED
        BY <3>1, <4>1 DEF ChildInv, AdjustsStarted
    <3> QED
      BY <2>1, <3>1 DEF Adjusted
  <2>5. n = op[s].amount
    BY <1>5, <2>4, FirstShare DEF Settled
  <2>6. TellsNothing(mailbox[c])' /\ budget'[c].allocated = n
    BY <2>1, <2>2, <2>3, <2>5 DEF TellsNothing, NewChild
  <2> QED
    BY <1>6, <2>6 DEF ToldIs
<1> QED
  BY <1>7, <1>8

LEMMA HandlerTold ==
    ASSUME TypeInv, InheritInv, TreeInv, FlowInv, BusyInv, ChildInv, ToldInv, TypeInv', InheritInv',
           FlowInv', ChildInv', NEW a \in Agents, NEW i, NEW type, Handles(a, i, type)
    PROVE  ToldInv'
<1>1. /\ op' = op /\ alive' = alive
      /\ \A kind, c : OpsOn(kind, c)' = OpsOn(kind, c)
      /\ \A j \in DOMAIN op : /\ reply[j] = "handled" => reply'[j] = "handled"
                              /\ reply'[j] = "handled" => reply[j] = "handled" \/ (j = i /\ type = "result")
  BY HandlesKeeps
<1>2. /\ i \in DOMAIN op /\ op[i].kind \in About(type) /\ Due(a, Msg(type, i)) /\ a \in alive
      /\ type \in MessageTypes /\ mailbox[a] # <<>> /\ Head(mailbox[a]) = Msg(type, i)
  BY DEF Handles
<1>3. HandlesLists(a, i, type) /\ HandlesMail(a, i, type) /\ HandlesBudget(a, i, type)
  BY DEF Handles
<1>4. op[i].amount = NA \/ op[i].amount \in Nat
  BY <1>2, TakenOps DEF OpFacts
<1> SUFFICES ASSUME NEW c \in alive, NEW s \in OpsOn("spawn", c), reply'[s] = "handled", ~op[s].batched,
                    op[s].amount # NA, op[s].by \in alive
             PROVE  ToldIs(c, Share(c))'
  BY <1>1 DEF ToldInv, Settled
<1>5. s \in DOMAIN op /\ c \in Agents /\ ParentOf(c) = op[s].by /\ op[s].kind = "spawn" /\ op[s].child = c
  BY SpawnIs
<1>6. op[s].by # c
  BY NotOwnChild
<1>7. CASE reply[s] # "handled"
  <2>1. s = i /\ type = "result"
    BY <1>1, <1>5, <1>7
  <2>2. OpsOn("adjust", c) = {} /\ OpsOn("dismiss", c) = {}
    BY <1>7, Untouched
  <2>3. ~Adjusted(c) /\ ~Adjusted(c)' /\ TellsNothing(mailbox[c])
    BY <1>1, <1>5, <2>2, NothingToTell DEF Adjusted
  <2>4. budget[c].allocated = op[s].amount
    BY <2>3 DEF ChildInv, FirstAllocation
  <2>5. a = op[s].by
    BY <1>2, <2>1 DEF Due, Msg
  <2>6. budget'[c] = budget[c] /\ mailbox'[c] = mailbox[c]
    BY <1>3, <1>5, <1>6, <2>1, <2>5 DEF HandlesBudget, HandlesMail, Adjusts
  <2>7. Share(c)' = op[s].amount
    <3>1. known'[c] # NA => known'[c] = op[s].amount
      BY <1>1, <1>5, <2>3 DEF ChildInv, ListedInv
    <3>2. OpsOn("spawn", c)' = {s}
      BY <1>1, SpawnIs
    <3> QED
      BY <1>1, <3>1, <3>2, ShareNext
  <2>8. TellsNothing(mailbox[c])'
    BY <2>3, <2>6 DEF TellsNothing, Tells
  <2> QED
    BY <2>4, <2>6, <2>7, <2>8 DEF ToldIs
<1>8. CASE reply[s] = "handled" /\ known'[c] = known[c] /\ c # a
           /\ ~(Adjusts(a, i, type) /\ op[i].child = c)
  <2> PICK n : n = Share(c)
    OBVIOUS
  <2>1. ToldIs(c, n)
    BY <1>5, <1>8 DEF ToldInv, Settled
  <2>2. Share(c)' = n
    BY <1>1, <1>5, <1>8, ShareKept
  <2>3. mailbox'[c] = mailbox[c] /\ budget'[c] = budget[c]
    BY <1>3, <1>5, <1>8 DEF HandlesMail, HandlesBudget
  <2>4. ToldIs(c, n)'
    BY <1>1, <1>5, <2>1, <2>3, ToldKept
  <2> QED
    BY <2>2, <2>4 DEF ToldIs
<1>9. CASE reply[s] = "handled" /\ Adjusts(a, i, type) /\ op[i].child = c
  <2>1. type = "adjust" /\ op[i].by = a /\ op[i].kind = "adjust" /\ op[i].amount \in Amounts
    BY <1>2, <1>9, TakenOps DEF Adjusts, Due, Msg, About, OpFacts
  <2>2. c # a
    <3>1. PICK t \in OpsOn("spawn", c) : op[t].by = a
      BY <1>2, <1>9, <2>1, OwnSpawn
    <3> QED
      BY <3>1, NotOwnChild
  <2> PICK n : n = op[i].amount
    OBVIOUS
  <2>3. known'[c] = n /\ n # NA
    BY <1>3, <1>4, <1>9, <2>1, <2>2 DEF HandlesLists, SetAllocation, NA
  <2>4. Share(c)' = n
    <3>1. OpsOn("spawn", c)' = {s}
      BY <1>1, SpawnIs
    <3> QED
      BY <2>3, <3>1, ShareNext
  <2>5. mailbox'[c] = Append(mailbox[c], Msg("set_allocated", i)) /\ budget'[c] = budget[c]
    BY <1>3, <1>5, <1>9, <2>2 DEF HandlesMail, HandlesBudget
  <2>6. Tells(Msg("set_allocated", i)) /\ op[Msg("set_allocated", i).id].amount = n
    BY DEF Tells, Msg
  <2>7. ToldIs(c, n)'
    BY <1>1, <1>5, <2>5, <2>6, ToldMore
  <2> QED
    BY <2>4, <2>7 DEF ToldIs
<1>10. CASE reply[s] = "handled" /\ c = a
  <2> PICK n : n = Share(c)
    OBVIOUS
  <2>1. ToldIs(c, n)
    BY <1>5, <1>10 DEF ToldInv, Settled
  <2>2. c # op[i].child \/ type \in {"get_state", "set_allocated"}
    <3> SUFFICES ASSUME c = op[i].child, type \notin {"get_state", "set_allocated"} PROVE FALSE
      OBVIOUS
    <3>1. op[i].by = a
      BY <1>2 DEF Due, Msg, MessageTypes
    <3>2. \E t \in OpsOn("spawn", c) : op[t].by = a
      <4>1. CASE op[i].kind = "spawn"
        BY <1>2, <3>1, <4>1 DEF OpsOn
      <4>2. CASE op[i].kind # "spawn"
        BY <1>2, <3>1, <4>2, OwnSpawn
      <4> QED
        BY <4>1, <4>2
    <3> QED
      BY <1>10, <3>2, NotOwnChild
  <2>3. known'[c] = known[c] /\ ~(Adjusts(a, i, type) /\ op[i].child = c)
    BY <1>3, <1>5, <2>2 DEF HandlesLists, SameList, Adjusts, Unlists
  <2>4. Share(c)' = n
    BY <1>1, <1>5, <1>10, <2>3, ShareKept
  <2>5. IF Tells(Head(mailbox[c])) THEN budget'[c].allocated = op[Head(mailbox[c]).id].amount
        ELSE budget'[c].allocated = budget[c].allocated
    <3>1. CASE type = "set_allocated"
      <4>1. budget'[c] = [budget[c] EXCEPT !.allocated = op[i].amount] /\ budget[c] \in Budgets
        BY <1>3, <1>5, <1>10, <3>1 DEF HandlesBudget, Adjusts, TypeInv, LedgerTypeOK
      <4>2. Tells(Head(mailbox[c])) /\ Head(mailbox[c]).id = i
        BY <1>2, <1>10, <3>1 DEF Tells, Msg
      <4> QED
        BY <4>1, <4>2 DEF Budgets
    <3>2. CASE type # "set_allocated"
      <4>1. ~Tells(Head(mailbox[c]))
        BY <1>2, <1>10, <3>2 DEF Tells, Msg
      <4>2. budget'[c].allocated = budget[c].allocated
        BY <1>5, <3>2, HandlesKeeps
      <4> QED
        BY <4>1, <4>2
    <3> QED
      BY <3>1, <3>2
  <2>6. mailbox[c] # <<>> /\ mailbox'[c] = Tail(mailbox[c])
    BY <1>2, <1>3, <1>10 DEF HandlesMail
  <2>7. ToldIs(c, n)'
    BY <1>1, <1>5, <2>1, <2>5, <2>6, ToldTaken
  <2> QED
    BY <2>4, <2>7 DEF ToldIs
<1>11. CASE reply[s] = "handled" /\ known'[c] # known[c] /\ c # a
            /\ ~(Adjusts(a, i, type) /\ op[i].child = c)
  <2>1. c = op[i].child /\ ((type = "result" /\ TracksChild(i)) \/ Unlists(type))
    BY <1>3, <1>5, <1>11 DEF HandlesLists, SameList
  <2>2. CASE type = "result" \/ type = "spawn_failed"
    <3>1. op[i].kind = "spawn"
      BY <1>2, <2>1, <2>2 DEF TracksChild, About, Unlists
    <3>2. i = s
      <4>1. i \in OpsOn("spawn", c)
        BY <1>2, <2>1, <3>1 DEF OpsOn
      <4> QED
        BY <4>1, SpawnIs
    <3>3. CASE type = "result"
      BY <1>2, <1>11, <3>2, <3>3 DEF Due, Msg
    <3>4. CASE type = "spawn_failed"
      <4>1. stage[s] = "failed"
        BY <1>2, <3>2, <3>4 DEF Due, Msg
      <4> QED
        BY <4>1 DEF ChildInv, LivingStarted
    <3> QED
      BY <2>2, <3>3, <3>4
  <2>3. CASE type = "child_dismissed"
    <3>1. Msg("child_dismissed", i) \in Contents(mailbox[a])
      <4>1. mailbox[a] \in Seq(Messages)
        BY DEF TypeInv, LedgerTypeOK
      <4>2. 1 \in DOMAIN mailbox[a] /\ mailbox[a][1] = Head(mailbox[a])
        BY <1>2, <4>1
      <4> QED
        BY <1>2, <2>3, <4>2 DEF Contents
    <3>2. op[i].kind = "dismiss"
      BY <1>2, <2>3 DEF About
    <3>3. c \notin alive
      BY <1>2, <2>1, <3>1, <3>2 DEF ChildInv, GoneInv
    <3> QED
      BY <3>3
  <2> QED
    BY <2>1, <2>2, <2>3 DEF Unlists
<1> QED
  BY <1>7, <1>8, <1>9, <1>10, <1>11

LEMMA RestTold ==
    ASSUME TypeInv, InheritInv, FlowInv, ToldInv, RestStep
    PROVE  ToldInv'
<1>1. UNCHANGED <<op, stage, reply, alive, listed, known>>
  BY DEF RestStep
<1>2. \A kind, c : OpsOn(kind, c)' = OpsOn(kind, c)
  BY <1>1, OpsKept
<1> SUFFICES ASSUME NEW c \in alive, NEW s \in OpsOn("spawn", c), Settled(s), op[s].amount # NA,
                    op[s].by \in alive
             PROVE  ToldIs(c, Share(c))'
  BY <1>1, <1>2 DEF ToldInv, Settled
<1>3. c \in Agents \ {Root}
  BY SpawnIs
<1>4. mailbox'[c] = mailbox[c] /\ budget'[c] = budget[c]
  BY <1>3 DEF RestStep
<1>5. Share(c)' = Share(c)
  BY <1>1, <1>2, ShareKept
<1> PICK n : n = Share(c)
  OBVIOUS
<1>6. ToldIs(c, n)
  BY DEF ToldInv
<1>7. ToldIs(c, n)'
  BY <1>1, <1>3, <1>4, <1>6, ToldKept
<1> QED
  BY <1>5, <1>7 DEF ToldIs

-----------------------------------------------------------------------------
(* What a dismissal has read stays true *)

\* A use of the actions that breaks the escrow is not taken back.
LEMMA MisuseStays ==
    ASSUME TypeInv', Onwards, \A kind, c : OpsOn(kind, c) \subseteq OpsOn(kind, c)'
    PROVE  \A c : Misused(c) => Misused(c)'
<1> SUFFICES ASSUME NEW c, Misused(c) PROVE Misused(c)'
  OBVIOUS
<1> PICK D : D = OpsOn("dismiss", c)
  OBVIOUS
<1> PICK E : E = OpsOn("dismiss", c)'
  OBVIOUS
<1>1. D \subseteq E /\ D # {}
  BY DEF Misused
<1>2. \A kind : \A j \in OpsOn(kind, c) : j \in DOMAIN op /\ op'[j] = op[j] /\ j \in OpsOn(kind, c)'
  BY DEF OpsOn, Onwards
<1>3. IsFiniteSet(E)
  <2>1. E \subseteq DOMAIN op'
    BY DEF OpsOn
  <2>2. IsSeq(op') /\ Len(op') <= MaxOps
    BY DEF TypeInv, OpsTyped, LedgerTypeOK
  <2>3. DOMAIN op' \subseteq Ops
    BY <2>2 DEF IsSeq, Ops
  <2>4. IsFiniteSet(Ops)
    BY FS_Interval DEF Ops
  <2> QED
    BY <2>1, <2>3, <2>4, FS_Subset
<1>4. CASE Cardinality(D) > 1
  <2>1. Cardinality(D) <= Cardinality(E) /\ IsFiniteSet(D)
    BY <1>1, <1>3, FS_Subset
  <2>2. Cardinality(D) \in Nat /\ Cardinality(E) \in Nat
    BY <1>3, <2>1, FS_CardinalityType
  <2>3. Cardinality(E) > 1
    BY <1>4, <2>1, <2>2
  <2> QED
    BY <1>1, <2>3 DEF Misused
<1>5. CASE \E i \in OpsOn("spawn", c) : op[i].batched
  <2>1. \E i \in OpsOn("spawn", c)' : op'[i].batched
    BY <1>2, <1>5
  <2> QED
    BY <1>1, <2>1 DEF Misused
<1>6. CASE \E i \in OpsOn("adjust", c), j \in OpsOn("dismiss", c) : op[i].batched \/ j < i
  <2>1. \E i \in OpsOn("adjust", c)', j \in OpsOn("dismiss", c)' : op'[i].batched \/ j < i
    BY <1>2, <1>6
  <2> QED
    BY <1>1, <2>1 DEF Misused
<1> QED
  BY <1>4, <1>5, <1>6 DEF Misused

LEMMA SeenPreserved ==
    ASSUME TypeInv, InheritInv, TreeInv, FlowInv, FlowInv', SeenInv, [Next]_vars
    PROVE  SeenInv'
<1> SUFFICES ASSUME NEW i \in Ops, stage'[i] \in {"none", "dispatched", "rejected", "asked"}
             PROVE  seen'[i] = NewChild(NA)
  BY DEF SeenInv
<1>0. seen \in [Ops -> Budgets]
  BY DEF TypeInv, LedgerTypeOK
<1>1. ASSUME NEW a \in Agents, Takes(a) PROVE seen'[i] = NewChild(NA)
  <2>1. seen' = seen
    BY <1>1 DEF Takes
  <2>2. CASE i \in DOMAIN op
    BY <1>1, <2>1, <2>2 DEF Takes, SeenInv
  <2>3. CASE i \notin DOMAIN op
    BY <2>1, <2>3 DEF FlowInv, ReplyInv, SeenInv
  <2> QED
    BY <2>2, <2>3
<1>2. ASSUME NEW j \in Ops, OpStep(j) PROVE seen'[i] = NewChild(NA)
  <2>1. seen' = seen /\ OthersStay(j) /\ Moved1(j)
    BY <1>2, OpFactsOfStep
  <2>2. stage[i] \in {"none", "dispatched", "rejected", "asked"}
    BY <2>1 DEF OthersStay, Moved1, Moves
  <2> QED
    BY <2>1, <2>2 DEF SeenInv
<1>3. ASSUME NEW a \in Agents, Handlers(a) PROVE seen'[i] = NewChild(NA)
  <2>1. PICK j \in DOMAIN op, type \in MessageTypes : Handles(a, j, type)
    BY <1>3, HandlerView
  <2>2. OthersStay(j) /\ MovedByMessage(j, type)
        /\ seen' = IF type = "get_state" THEN [seen EXCEPT ![j] = budget[a]] ELSE seen
    BY <2>1 DEF Handles
  <2>3. stage[i] \in {"none", "dispatched", "rejected", "asked"} /\ seen'[i] = seen[i]
    BY <1>0, <2>2 DEF OthersStay, MovedByMessage
  <2> QED
    BY <2>3 DEF SeenInv
<1>4. ASSUME RestStep PROVE seen'[i] = NewChild(NA)
  BY <1>4 DEF RestStep, SeenInv
<1>5. \/ \E a \in Agents : Takes(a) \/ Handlers(a)
      \/ \E j \in Ops : OpStep(j)
      \/ RestStep
  BY WhatIsTaken, RestView DEF Next, AgentStep, Handlers
<1> QED
  BY <1>1, <1>2, <1>3, <1>4, <1>5

\* What is said of a dismissal that no step of its own or of its child's disturbs.
LEMMA ProperKept ==
    ASSUME NEW i, NEW p, NEW c, ProperInv(i, p, c), stage'[i] = stage[i], seen'[i] = seen[i],
           c \in alive => c \in alive',
           Share(c)' = Share(c), c \in listed => c \in listed',
           OpsOn("spawn", c)' = OpsOn("spawn", c),
           NoneBehind(mailbox[c], Msg("get_state", i)) =>
               NoneBehind(mailbox'[c], Msg("get_state", i)),
           \A s \in OpsOn("spawn", c) :
               NotBefore(mailbox[p], Msg("spawn_failed", s), Msg("release", i)) =>
               NotBefore(mailbox'[p], Msg("spawn_failed", s), Msg("release", i))
    PROVE  ProperInv(i, p, c)'
<1>1. \A x, m : NoneBehind(x, m)' <=> NoneBehind(x, m)
  BY DEF NoneBehind, Tells
<1> QED
  BY DEF ProperInv, Asking, Knowing, NoneBehind, NotBefore, Tells, Msg

LEMMA TakingDismiss ==
    ASSUME TypeInv, InheritInv, TreeInv, FlowInv, DismissInv, TypeInv', FlowInv',
           NEW a \in Agents, Takes(a)
    PROVE  DismissInv'
<1>1. /\ Onwards
      /\ UNCHANGED <<treeVars, ledgerVars, mailbox, reply, workVars, costVars, editVars>>
      /\ \A j \in DOMAIN op : op'[j] = op[j] /\ stage'[j] = stage[j]
      /\ \A j \in NewOps : j \in Ops /\ stage'[j] = "dispatched" /\ reply'[j] = "none"
      /\ \A kind, c : /\ OpsOn(kind, c) \subseteq OpsOn(kind, c)'
                      /\ \A j \in OpsOn(kind, c)' : j \in OpsOn(kind, c) \/ j \in NewOps
      /\ \A c : OpsOn("spawn", c) # {} => OpsOn("spawn", c)' = OpsOn("spawn", c)
  BY TakingOps
<1> SUFFICES ASSUME NEW p \in Agents, NEW c \in Agents, NEW i \in Ops, Proper(i, p, c)'
             PROVE  ProperInv(i, p, c)'
  BY DEF DismissInv
<1>2. CASE i \in NewOps
  BY <1>1, <1>2 DEF ProperInv, Asking, Knowing
<1>3. CASE i \notin NewOps
  <2>1. i \in OpsOn("dismiss", c)
    BY <1>1, <1>3 DEF Proper
  <2>2. i \in DOMAIN op /\ op[i].kind = "dismiss" /\ op[i].child = c
    BY <2>1 DEF OpsOn
  <2>3. Proper(i, p, c)
    BY <1>1, <2>1, <2>2, MisuseStays DEF Proper, HasLimit
  <2>4. ProperInv(i, p, c)
    BY <2>3 DEF DismissInv
  <2>5. PICK s : s \in OpsOn("spawn", c)
    BY <2>2, OwnSpawn
  <2>6. OpsOn("spawn", c)' = OpsOn("spawn", c) /\ s \in DOMAIN op
    BY <1>1, <2>5, SpawnIs
  <2>7. Share(c)' = Share(c)
    BY <1>1, <2>5, <2>6, ShareKept
  <2> QED
    BY <1>1, <2>2, <2>4, <2>6, <2>7, ProperKept
<1> QED
  BY <1>2, <1>3

\* A child below an agent with a limit ends by its own dismissal.
LEMMA EndedByOwn ==
    ASSUME TypeInv, InheritInv, NEW j \in Ops, OpStep(j), NEW c \in alive, c \notin alive',
           ParentOf(c) \in alive'
    PROVE  TerminateSubtree(j) /\ c = op[j].child
<1>1. CASE TerminateSubtree(j)
  <2>1. c \in LiveSubtree(op[j].child) /\ op[j].child \in Agents
        /\ ParentOf(c) \notin LiveSubtree(op[j].child)
    <3>1. alive' = alive \ LiveSubtree(op[j].child)
      BY <1>1 DEF TerminateSubtree
    <3>2. op[j].child \in Agents
      BY OpFactsOfStep DEF OpFacts
    <3> QED
      BY <3>1, <3>2
  <2> QED
    BY <1>1, <2>1, EndsWithParent
<1>2. CASE StartChild(j)
  BY <1>2 DEF StartChild
<1>3. CASE ~TerminateSubtree(j) /\ ~StartChild(j)
  BY <1>3 DEF OpStep, RejectAction, CastReply, AcknowledgeDismiss, ExecuteSpawn, FailSpawn,
              AnnounceChild, ExecuteAdjust, ExecuteDismiss, GetStateExits, SelectCosts,
              CommitAbsorption, AbsorptionFails, FinishDismissal
<1> QED
  BY <1>1, <1>2, <1>3

\* The release is behind whatever the parent was told before.
LEMMA ReleaseSent ==
    ASSUME TypeInv, NEW i \in Ops, TerminateSubtree(i), Releases(i), op[i].by \in alive'
    PROVE  mailbox'[op[i].by] = Append(mailbox[op[i].by], Msg("release", i))
<1> DEFINE dead == LiveSubtree(op[i].child)
           left == [a \in Agents |-> IF a \in dead THEN <<>> ELSE mailbox[a]]
<1>1. /\ alive' = alive \ dead
      /\ mailbox' = Post(left, op[i].by, Msg("release", i))
  BY DEF TerminateSubtree
<1>2. op[i].by \in Agents /\ op[i].by \in alive
  BY <1>1 DEF TypeInv, LedgerTypeOK
<1>3. left[op[i].by] = mailbox[op[i].by] /\ left \in [Agents -> {left[a] : a \in Agents}]
  BY <1>1, <1>2
<1> HIDE DEF left, dead
<1> QED
  BY <1>1, <1>2, <1>3 DEF Post

LEMMA OpDismiss ==
    ASSUME TypeInv, InheritInv, TreeInv, FlowInv, BusyInv, ChildInv, DismissInv,
           NEW j \in Ops, OpStep(j)
    PROVE  DismissInv'
<1>1. /\ op' = op
      /\ \A kind, c : OpsOn(kind, c)' = OpsOn(kind, c)
      /\ \A c : Misused(c)' = Misused(c)
      /\ \A k \in DOMAIN op : reply'[k] = "handled" <=> reply[k] = "handled"
      /\ \A k \in DOMAIN op : op[k].by \in alive' => op[k].by \in alive
      /\ \A c \in Agents : SameList(c) \/ (c \notin listed' /\ known'[c] = NA /\ ParentOf(c) \notin alive')
      /\ \A c \in alive' : budget'[c] = IF c \in alive THEN budget[c] ELSE NewChild(op[j].amount)
  BY OpKeeps
<1>2. /\ OthersStay(j) /\ Moved1(j) /\ seen' = seen
      /\ stage'[j] = "asked" /\ stage[j] # "asked" =>
            /\ op[j].child \in alive /\ alive' = alive
            /\ mailbox' = Post(mailbox, op[j].child, Msg("get_state", j))
      /\ stage'[j] = "known" /\ stage[j] # "known" => op[j].child \notin alive
      /\ stage[j] = "absorbed" /\ stage'[j] \in {"releasing", "released"} => TerminateSubtree(j)
      /\ TerminateSubtree(j) =>
            /\ stage[j] = "absorbed" /\ op[j].kind = "dismiss"
            /\ stage'[j] = IF Releases(j) THEN "releasing" ELSE "released"
  BY OpFactsOfStep
<1> SUFFICES ASSUME NEW p \in Agents, NEW c \in Agents, NEW i \in Ops, Proper(i, p, c)'
             PROVE  ProperInv(i, p, c)'
  BY DEF DismissInv
<1>3. i \in OpsOn("dismiss", c) /\ op[i].by = p /\ p \in alive' /\ ~Misused(c)
  BY <1>1 DEF Proper, HasLimit
<1>4. i \in DOMAIN op /\ op[i].kind = "dismiss" /\ op[i].child = c
  BY <1>3 DEF OpsOn
<1>5. p \in alive /\ budget'[p] = budget[p]
  BY <1>1, <1>3, <1>4
<1>6. Proper(i, p, c)
  BY <1>1, <1>3, <1>5 DEF Proper, HasLimit
<1>7. ProperInv(i, p, c)
  BY <1>6 DEF DismissInv
<1>8. PICK s \in OpsOn("spawn", c) : Settled(s) /\ op[s].by = p /\ ParentOf(c) = p
  BY <1>6, DismissedSettled
<1>9. s \in DOMAIN op /\ op[s].kind = "spawn" /\ op[s].child = c /\ OpsOn("spawn", c) = {s}
  BY <1>8, SpawnIs
<1>10. SameList(c) /\ Share(c)' = Share(c)
  <2>1. SameList(c)
    BY <1>1, <1>3, <1>8
  <2> QED
    BY <1>1, <1>8, <1>9, <2>1, ShareKept DEF SameList
<1>11. mailbox[c] \in Seq(Messages) /\ mailbox[p] \in Seq(Messages)
  BY DEF TypeInv, LedgerTypeOK
<1>12. ASSUME c \in alive => c \in alive',
              NoneBehind(mailbox[c], Msg("get_state", i))
       PROVE  NoneBehind(mailbox'[c], Msg("get_state", i))
  <2>1. c \in alive
    BY <1>12 DEF FlowInv, MailInv, NoneBehind
  <2>2. CASE mailbox'[c] = mailbox[c]
    BY <1>12, <2>2
  <2>3. CASE mailbox'[c] # mailbox[c]
    <3>1. PICK type \in MessageTypes \ {"set_allocated"} : mailbox'[c] = Append(mailbox[c], Msg(type, j))
      BY <1>12, <2>1, <2>3, OpBoxes
    <3>2. ~Tells(Msg(type, j))
      BY <3>1 DEF Tells, Msg
    <3> QED
      BY <1>11, <1>12, <3>1, <3>2, BehindKept
  <2> QED
    BY <2>2, <2>3
<1>13. ASSUME NEW t, NotBefore(mailbox[p], Msg("spawn_failed", t), Msg("release", i))
       PROVE  NotBefore(mailbox'[p], Msg("spawn_failed", t), Msg("release", i))
  <2>1. mailbox'[p] = mailbox[p] \/ \E m : mailbox'[p] = Append(mailbox[p], m)
    BY <1>3, <1>5, OpBoxes
  <2> QED
    BY <1>11, <1>13, <2>1, BeforeKept
<1>14. ASSUME stage'[i] = stage[i], c \in alive => c \in alive'
       PROVE  ProperInv(i, p, c)'
  BY <1>1, <1>2, <1>7, <1>10, <1>12, <1>13, <1>14, ProperKept DEF SameList
<1>15. CASE i # j
  <2>1. stage'[i] = stage[i]
    BY <1>2, <1>15 DEF OthersStay
  <2>2. c \in alive => c \in alive'
    <3> SUFFICES ASSUME c \in alive, c \notin alive' PROVE FALSE
      OBVIOUS
    <3>1. TerminateSubtree(j) /\ c = op[j].child
      BY <1>3, <1>8, EndedByOwn
    <3>2. j \in OpsOn("dismiss", c)
      BY <3>1 DEF TerminateSubtree, At, OpsOn
    <3> QED
      BY <1>3, <1>15, <3>2, DismissedOnce
  <2> QED
    BY <1>14, <2>1, <2>2
<1>16. CASE i = j
  <2>1. \/ c \in alive => c \in alive'
        \/ TerminateSubtree(i)
    BY <1>3, <1>8, <1>16, EndedByOwn
  <2>2. CASE stage'[i] = stage[i]
    <3>1. ~TerminateSubtree(i)
      BY <1>2, <1>16, <2>2
    <3> QED
      BY <1>14, <2>1, <2>2, <3>1
  <2>3. CASE stage'[i] = "asked" /\ stage[i] # "asked"
    <3>1. /\ c \in alive /\ alive' = alive
          /\ mailbox' = Post(mailbox, c, Msg("get_state", i))
      BY <1>2, <1>4, <1>16, <2>3
    <3>2. mailbox'[c] = Append(mailbox[c], Msg("get_state", i))
      BY <3>1 DEF Post, TypeInv, LedgerTypeOK
    <3>3. NoneBehind(mailbox'[c], Msg("get_state", i))
      BY <1>11, <3>2, BehindKept
    <3> QED
      BY <2>3, <3>1, <3>3 DEF ProperInv, Asking, Knowing, NoneBehind, Tells, Msg
  <2>4. CASE stage'[i] = "known" /\ stage[i] # "known"
    <3>1. c \notin alive /\ stage[i] = "asked"
      BY <1>2, <1>4, <1>16, <2>4 DEF Moved1, Moves
    <3> QED
      BY <1>7, <3>1 DEF ProperInv, Asking
  <2>5. CASE stage'[i] \in {"selected", "absorbed"} /\ stage[i] # stage'[i]
    <3>1. stage[i] \in {"known", "selected"}
      BY <1>2, <1>16, <2>5 DEF Moved1, Moves
    <3>2. c \in alive'
      BY <1>2, <1>7, <1>16, <2>1, <3>1 DEF ProperInv, Asking
    <3> QED
      BY <1>2, <1>7, <1>10, <2>5, <3>1, <3>2 DEF ProperInv, Asking, Knowing
  <2>6. CASE stage'[i] = "releasing" /\ stage[i] # "releasing"
    <3>1. stage[i] = "absorbed"
      BY <1>2, <1>16, <2>6 DEF Moved1, Moves
    <3>2. TerminateSubtree(i) /\ Releases(i)
      BY <1>2, <1>16, <2>6, <3>1
    <3>3. c \in alive /\ seen[i].allocated = Share(c) /\ seen[i].mode = "allocated"
      BY <1>7, <3>1 DEF ProperInv, Asking, Knowing
    <3>4. stage[s] # "failed" /\ stage[s] # "rejected"
      <4>1. stage[s] # "failed"
        BY <1>8, <3>3 DEF ChildInv, LivingStarted
      <4>2. Started(c) /\ c # Root
        BY <1>4, <1>8, <3>1, SpawnIs DEF ChildInv, GoneInv
      <4> QED
        BY <1>9, <4>1, <4>2 DEF Started, Early
    <3>5. c \in listed
      <4>1. ASSUME NEW k \in OpsOn("dismiss", c), stage[k] = "done" PROVE FALSE
        BY <1>3, <3>1, <4>1, DismissedOnce
      <4> QED
        BY <1>5, <1>8, <1>9, <3>4, <4>1 DEF ChildInv, UnlistedInv
    <3>6. mailbox'[p] = Append(mailbox[p], Msg("release", i))
      BY <1>3, <3>2, ReleaseSent
    <3>7. Msg("spawn_failed", s) \notin Contents(mailbox[p])
      BY <3>4 DEF FlowInv, MailInv, Due, Msg
    <3>8. NotBefore(mailbox'[p], Msg("spawn_failed", s), Msg("release", i))
      BY <1>11, <3>6, <3>7, BeforeKept
    <3>9. c \in listed' /\ OpsOn("spawn", c)' = {s}
      BY <1>1, <1>9, <1>10, <3>5 DEF SameList
    <3> QED
      BY <1>2, <1>10, <2>6, <3>3, <3>8, <3>9
         DEF ProperInv, Asking, Knowing, NotBefore, Msg
  <2>7. CASE stage'[i] = "released" /\ stage[i] # "released"
    <3>1. stage[i] = "absorbed"
      BY <1>2, <1>16, <2>7 DEF Moved1, Moves
    <3> QED
      BY <1>2, <1>7, <2>7, <3>1 DEF ProperInv, Asking, Knowing
  <2>8. CASE stage'[i] \notin Asking \cup Knowing \cup {"released"}
    BY <2>8 DEF ProperInv, Asking, Knowing
  <2> QED
    BY <2>2, <2>3, <2>4, <2>5, <2>6, <2>7, <2>8 DEF Asking, Knowing
<1> QED
  BY <1>15, <1>16

\* What a handler does not do to a child that is being dismissed.
LEMMA HandlerSpares ==
    ASSUME TypeInv, InheritInv, TreeInv, FlowInv, BusyInv, ChildInv, DismissInv,
           NEW a \in Agents, NEW j, NEW type, Handles(a, j, type),
           NEW p \in Agents, NEW c \in Agents, NEW i \in Ops, Proper(i, p, c),
           stage[i] \in Asking \cup Knowing
    PROVE  /\ ~(Adjusts(a, j, type) /\ op[j].child = c)
           /\ known'[c] = known[c] /\ (c \in listed => c \in listed')
           /\ j = i => type \in {"result", "get_state", "release"}
<1>1. ProperInv(i, p, c)
  BY DEF DismissInv
<1>2. PICK s \in OpsOn("spawn", c) : Settled(s) /\ op[s].by = p
  BY DismissedSettled
<1>3. /\ j \in DOMAIN op /\ op[j].kind \in About(type) /\ Due(a, Msg(type, j)) /\ a \in alive
      /\ type \in MessageTypes /\ mailbox[a] # <<>> /\ Head(mailbox[a]) = Msg(type, j)
      /\ HandlesLists(a, j, type)
  BY DEF Handles
<1>4. i \in OpsOn("dismiss", c) /\ op[i].by = p /\ p \in alive /\ ~Misused(c)
  BY DEF Proper, HasLimit
<1>5. ASSUME Adjusts(a, j, type), op[j].child = c PROVE FALSE
  <2>1. type = "adjust" /\ op[j].kind = "adjust" /\ stage[j] = "calling" /\ op[j].by = a
    BY <1>3, <1>5 DEF Adjusts, Due, Msg, About
  <2>2. j \in OpsOn("adjust", c)
    BY <1>3, <1>5, <2>1 DEF OpsOn
  <2> QED
    BY <1>3, <1>4, <2>1, <2>2, AdjustedAlone
<1>6. ASSUME type = "child_dismissed", op[j].child = c PROVE FALSE
  <2>1. j \in OpsOn("dismiss", c) /\ stage[j] = "done"
    BY <1>3, <1>6 DEF Due, Msg, About, OpsOn
  <2>2. i = j
    BY <1>4, <2>1, DismissedOnce
  <2> QED
    BY <2>1, <2>2 DEF Asking, Knowing
<1>7. ASSUME type \in {"result", "spawn_failed"}, op[j].kind = "spawn", op[j].child = c PROVE FALSE
  <2>1. j = s
    <3>1. j \in OpsOn("spawn", c)
      BY <1>3, <1>7 DEF OpsOn
    <3> QED
      BY <1>2, <3>1, SpawnIs
  <2>2. CASE type = "result"
    BY <1>2, <1>3, <2>1, <2>2 DEF Due, Msg, Settled
  <2>3. CASE type = "spawn_failed"
    <3>1. stage[s] = "failed" /\ a = p
      BY <1>2, <1>3, <2>1, <2>3 DEF Due, Msg
    <3>2. c \notin alive
      BY <1>2, <3>1 DEF ChildInv, LivingStarted
    <3>3. NotBefore(mailbox[p], Msg("spawn_failed", s), Msg("release", i))
      BY <1>1, <1>2, <3>2 DEF ProperInv, Asking, Knowing
    <3>4. mailbox[p] \in Seq(Messages) /\ Msg("spawn_failed", s) # Msg("release", i)
      BY DEF TypeInv, LedgerTypeOK, Msg
    <3>5. Head(mailbox[p]) # Msg("spawn_failed", s)
      BY <1>3, <3>1, <3>3, <3>4, BeforeKept
    <3> QED
      BY <1>3, <2>1, <2>3, <3>1, <3>5
  <2> QED
    BY <1>7, <2>2, <2>3
<1>8. type = "spawn_failed" => op[j].kind = "spawn"
  BY <1>3 DEF About
<1>9. SameList(c) \/ (type = "child_spawned" /\ c \in listed' /\ known'[c] = known[c])
  BY <1>3, <1>5, <1>6, <1>7, <1>8 DEF HandlesLists, TracksChild, Unlists
<1>10. j = i => op[j].kind = "dismiss" /\ op[j].child = c
  BY <1>4 DEF OpsOn
<1>11. j = i => type \in {"result", "get_state", "release"}
  BY <1>3, <1>6, <1>10 DEF About, MessageTypes
<1> QED
  BY <1>5, <1>9, <1>11 DEF SameList

LEMMA HandlerDismiss ==
    ASSUME TypeInv, InheritInv, TreeInv, FlowInv, BusyInv, ChildInv, ToldInv', DismissInv,
           TypeInv', InheritInv',
           NEW a \in Agents, NEW j, NEW type, Handles(a, j, type)
    PROVE  DismissInv'
<1>1. /\ op' = op /\ alive' = alive
      /\ \A kind, c : OpsOn(kind, c)' = OpsOn(kind, c)
      /\ \A c : Misused(c)' = Misused(c)
      /\ \A k \in DOMAIN op : /\ reply[k] = "handled" => reply'[k] = "handled"
                              /\ k # j => stage'[k] = stage[k]
      /\ \A b \in Agents : budget'[b].mode = budget[b].mode
  BY HandlesKeeps
<1>2. /\ j \in DOMAIN op /\ op[j].kind \in About(type) /\ Due(a, Msg(type, j)) /\ a \in alive
      /\ type \in MessageTypes /\ mailbox[a] # <<>> /\ Head(mailbox[a]) = Msg(type, j)
      /\ HandlesMail(a, j, type) /\ MovedByMessage(j, type)
      /\ seen' = IF type = "get_state" THEN [seen EXCEPT ![j] = budget[a]] ELSE seen
  BY DEF Handles
<1> SUFFICES ASSUME NEW p \in Agents, NEW c \in Agents, NEW i \in Ops, Proper(i, p, c)'
             PROVE  ProperInv(i, p, c)'
  BY DEF DismissInv
<1>3. i \in OpsOn("dismiss", c) /\ op[i].by = p /\ p \in alive /\ ~Misused(c)
  BY <1>1 DEF Proper, HasLimit
<1>4. i \in DOMAIN op /\ op[i].kind = "dismiss" /\ op[i].child = c
  BY <1>3 DEF OpsOn
<1>5. Proper(i, p, c)
  BY <1>1, <1>3 DEF Proper, HasLimit
<1>6. ProperInv(i, p, c)
  BY <1>5 DEF DismissInv
<1>7. PICK s \in OpsOn("spawn", c) :
          /\ Settled(s) /\ op[s].by = p /\ ParentOf(c) = p
          /\ stage[s] \notin {"none", "dispatched", "rejected"} => op[s].amount # NA
  BY <1>5, DismissedSettled
<1>8. s \in DOMAIN op /\ op[s].kind = "spawn" /\ op[s].child = c /\ OpsOn("spawn", c) = {s} /\ c # Root
  BY <1>7, SpawnIs
<1>9. seen \in [Ops -> Budgets] /\ mailbox[c] \in Seq(Messages) /\ mailbox[p] \in Seq(Messages)
  BY DEF TypeInv, LedgerTypeOK
<1>10. CASE stage[i] \notin Asking \cup Knowing
  <2>1. i = j => type \notin {"get_state", "release", "adjust"}
    BY <1>2, <1>4, <1>10 DEF Due, Msg, About, Asking, Knowing
  <2>2. stage'[i] = stage[i] /\ seen'[i] = seen[i]
    BY <1>1, <1>2, <1>4, <1>9, <2>1 DEF MovedByMessage
  <2> QED
    BY <1>6, <1>10, <2>2 DEF ProperInv, Asking, Knowing
<1>11. CASE stage[i] \in Asking \cup Knowing
  <2>1. /\ ~(Adjusts(a, j, type) /\ op[j].child = c)
        /\ known'[c] = known[c] /\ (c \in listed => c \in listed')
        /\ j = i => type \in {"result", "get_state", "release"}
    BY <1>5, <1>11, HandlerSpares
  <2>2. Share(c)' = Share(c)
    <3>1. reply'[s] = "handled" <=> reply[s] = "handled"
      BY <1>1, <1>7, <1>8 DEF Settled
    <3> QED
      BY <1>1, <1>7, <2>1, <3>1, ShareKept
  <2>3. CASE j # i \/ type = "result"
    <3>1. stage'[i] = stage[i] /\ seen'[i] = seen[i]
      BY <1>1, <1>2, <1>4, <1>9, <2>3 DEF MovedByMessage
    <3>2. Msg(type, j) # Msg("get_state", i) /\ Msg(type, j) # Msg("release", i)
      BY <2>3 DEF Msg
    <3>3. ASSUME NoneBehind(mailbox[c], Msg("get_state", i))
          PROVE  NoneBehind(mailbox'[c], Msg("get_state", i))
      <4>1. c \in alive
        BY <3>3 DEF FlowInv, MailInv, NoneBehind
      <4>2. CASE a = c
        BY <1>2, <1>9, <3>2, <3>3, <4>2, BehindKept DEF HandlesMail
      <4>3. CASE a # c
        BY <1>2, <2>1, <3>3, <4>1, <4>3 DEF HandlesMail
      <4> QED
        BY <4>2, <4>3
    <3>4. ASSUME NEW t, NotBefore(mailbox[p], Msg("spawn_failed", t), Msg("release", i))
          PROVE  NotBefore(mailbox'[p], Msg("spawn_failed", t), Msg("release", i))
      <4>1. CASE a = p
        BY <1>2, <1>9, <3>2, <3>4, <4>1, BeforeKept DEF HandlesMail
      <4>2. CASE a # p
        <5>1. mailbox'[p] = mailbox[p] \/ \E m : mailbox'[p] = Append(mailbox[p], m)
          BY <1>2, <1>3, <4>2 DEF HandlesMail
        <5>2. ASSUME NEW m, mailbox'[p] = Append(mailbox[p], m)
              PROVE  NotBefore(mailbox'[p], Msg("spawn_failed", t), Msg("release", i))
          BY <1>9, <3>4, <5>2, BeforeKept
        <5> QED
          BY <3>4, <5>1, <5>2
      <4> QED
        BY <4>1, <4>2
    <3> QED
      BY <1>1, <1>6, <2>1, <2>2, <3>1, <3>3, <3>4, ProperKept
  <2>4. CASE j = i /\ type = "get_state"
    <3>1. a = c /\ stage[i] = "asked" /\ stage'[i] = "known" /\ seen'[i] = budget[c] /\ c \in alive
      BY <1>2, <1>4, <1>9, <2>4 DEF Due, Msg, MovedByMessage
    <3>2. NoneBehind(mailbox[c], Msg("get_state", i))
      BY <1>6, <3>1 DEF ProperInv
    <3>3. TellsNothing(mailbox'[c])
      BY <1>2, <1>9, <2>4, <3>1, <3>2, BehindKept DEF HandlesMail, FlowInv, MailInv
    <3>4. op[s].amount # NA
      <4>1. Started(c)
        BY <1>4, <3>1 DEF ChildInv, GoneInv
      <4> QED
        BY <1>7, <1>8, <4>1 DEF Started, Early
    <3>5. ToldIs(c, Share(c))'
      <4>1. s \in OpsOn("spawn", c)' /\ Settled(s)' /\ op'[s].amount # NA /\ op'[s].by \in alive'
            /\ c \in alive'
        BY <1>1, <1>3, <1>7, <1>8, <3>1, <3>4 DEF Settled
      <4> QED
        BY <4>1 DEF ToldInv
    <3> PICK n : n = Share(c)
      OBVIOUS
    <3>6. budget'[c].allocated = n
      BY <2>2, <3>3, <3>5 DEF ToldIs, TellsLast, TellsNothing, Tells
    <3>7. budget'[c] = budget[c]
      BY <1>2, <2>4, <3>1 DEF Handles, HandlesBudget, Adjusts
    <3>8. budget[c].mode = "allocated"
      <4>1. HasLimit(ParentOf(c))
        BY <1>5, <1>7 DEF Proper
      <4> QED
        BY <1>8, <3>1, <4>1, InheritanceFollows DEF BudgetIsInherited
    <3> QED
      BY <1>1, <2>2, <3>1, <3>6, <3>7, <3>8 DEF ProperInv, Asking, Knowing
  <2>5. CASE j = i /\ type = "release"
    <3>1. stage[i] = "releasing" /\ stage'[i] = "released" /\ seen'[i] = seen[i]
      BY <1>2, <2>5 DEF Due, Msg, MovedByMessage
    <3> QED
      BY <1>6, <3>1 DEF ProperInv, Asking, Knowing
  <2> QED
    BY <2>1, <2>3, <2>4, <2>5
<1> QED
  BY <1>10, <1>11

LEMMA RestDismiss ==
    ASSUME TypeInv, InheritInv, TreeInv, FlowInv, DismissInv, RestStep
    PROVE  DismissInv'
<1>1. UNCHANGED <<op, stage, reply, alive, listed, known, seen>>
  BY DEF RestStep
<1>2. /\ \A kind, c : OpsOn(kind, c)' = OpsOn(kind, c)
      /\ \A c : Misused(c)' = Misused(c)
  BY <1>1, OpsKept
<1> SUFFICES ASSUME NEW p \in Agents, NEW c \in Agents, NEW i \in Ops, Proper(i, p, c)'
             PROVE  ProperInv(i, p, c)'
  BY DEF DismissInv
<1>3. i \in OpsOn("dismiss", c) /\ op[i].by = p /\ p \in alive /\ ~Misused(c)
  BY <1>1, <1>2 DEF Proper, HasLimit
<1>4. i \in DOMAIN op /\ op[i].kind = "dismiss" /\ op[i].child = c
  BY <1>3 DEF OpsOn
<1>5. budget'[p].mode = budget[p].mode
  BY DEF RestStep, InheritInv, EditKeepsMode
<1>6. Proper(i, p, c)
  BY <1>1, <1>2, <1>3, <1>5 DEF Proper, HasLimit
<1>7. ProperInv(i, p, c)
  BY <1>6 DEF DismissInv
<1>8. PICK s : s \in OpsOn("spawn", c)
  BY <1>4, OwnSpawn
<1>9. Share(c)' = Share(c)
  BY <1>1, <1>2, <1>8, ShareKept
<1>10. mailbox[p] \in Seq(Messages) /\ c # Root
  BY <1>8, SpawnIs DEF TypeInv, LedgerTypeOK
<1>11. mailbox'[c] = mailbox[c]
  BY <1>10 DEF RestStep
<1>12. ASSUME NEW t, NotBefore(mailbox[p], Msg("spawn_failed", t), Msg("release", i))
       PROVE  NotBefore(mailbox'[p], Msg("spawn_failed", t), Msg("release", i))
  <2>1. \/ mailbox'[p] = mailbox[p]
        \/ /\ mailbox[p] # <<>> /\ Head(mailbox[p]).type = "update_budget_data"
           /\ mailbox'[p] = Tail(mailbox[p])
        \/ mailbox'[p] = Append(mailbox[p], Msg("update_budget_data", 0))
    BY DEF RestStep
  <2>2. Msg("release", i).type = "release"
    BY DEF Msg
  <2>3. Head(mailbox[p]).type = "update_budget_data" => Head(mailbox[p]) # Msg("release", i)
    BY <2>2
  <2>4. ASSUME NEW m, mailbox'[p] = Append(mailbox[p], m)
        PROVE  NotBefore(mailbox'[p], Msg("spawn_failed", t), Msg("release", i))
    BY <1>10, <1>12, <2>4, BeforeKept
  <2>5. ASSUME mailbox[p] # <<>>, Head(mailbox[p]).type = "update_budget_data",
               mailbox'[p] = Tail(mailbox[p])
        PROVE  NotBefore(mailbox'[p], Msg("spawn_failed", t), Msg("release", i))
    BY <1>10, <1>12, <2>3, <2>5, BeforeKept
  <2> QED
    BY <1>12, <2>1, <2>4, <2>5
<1> QED
  BY <1>1, <1>2, <1>7, <1>9, <1>11, <1>12, ProperKept

-----------------------------------------------------------------------------
(* A child is not lost without its allocation *)

\* Who is gone stays gone.
LEMMA GoneStays ==
    ASSUME \A c : OpsOn("dismiss", c) \subseteq OpsOn("dismiss", c)',
           \A j \in DOMAIN op : stage[j] \in {"releasing", "released", "done"} =>
               stage'[j] \in {"releasing", "released", "done"} /\ seen'[j] = seen[j]
    PROVE  \A c : GoneBy(c) => GoneBy(c)'
<1> SUFFICES ASSUME NEW c, GoneBy(c) PROVE GoneBy(c)'
  OBVIOUS
<1>1. PICK j \in OpsOn("dismiss", c) :
          stage[j] \in {"releasing", "released", "done"} /\ seen[j].mode = "allocated"
  BY DEF GoneBy
<1>2. j \in OpsOn("dismiss", c)' /\ j \in DOMAIN op
  BY DEF OpsOn
<1> QED
  BY <1>1, <1>2 DEF GoneBy

LEMMA TakingDeath ==
    ASSUME TypeInv, InheritInv, TreeInv, FlowInv, DeathInv, TypeInv', FlowInv',
           NEW a \in Agents, Takes(a)
    PROVE  DeathInv'
<1>1. /\ Onwards
      /\ UNCHANGED <<treeVars, ledgerVars, mailbox, reply, workVars, costVars, editVars>>
      /\ \A j \in DOMAIN op : op'[j] = op[j] /\ stage'[j] = stage[j]
      /\ \A j \in NewOps : j \in Ops /\ stage'[j] = "dispatched"
      /\ \A kind, c : /\ OpsOn(kind, c) \subseteq OpsOn(kind, c)'
                      /\ \A j \in OpsOn(kind, c)' : j \in OpsOn(kind, c) \/ j \in NewOps
      /\ \A c : OpsOn("spawn", c) # {} => OpsOn("spawn", c)' = OpsOn("spawn", c)
      /\ \A b \in Agents : \A m \in Contents(mailbox[b]) :
            m.type # "update_budget_data" => m.id \in DOMAIN op
  BY TakingOps
<1> SUFFICES ASSUME NEW p \in Agents, NEW c \in Agents, NEW s \in Ops, Under(s, p, c)'
             PROVE  LostInv(s, p, c)'
  BY DEF DeathInv
<1>2. \A x : GoneBy(x) => GoneBy(x)'
  BY <1>1, GoneStays
<1>3. \A j \in OpsOn("dismiss", c)' : Msg("child_dismissed", j) \in Contents(mailbox[p]) =>
          j \in OpsOn("dismiss", c)
  BY <1>1 DEF Msg, NewOps
<1>4. CASE s \in NewOps
  <2>1. OpsOn("dismiss", c) = {}
    <3>1. OpsOn("spawn", c) = {}
      <4>1. s \in OpsOn("spawn", c)' /\ s \notin OpsOn("spawn", c)
        BY <1>4 DEF Under, NewOps, OpsOn
      <4> QED
        BY <1>1, <4>1
    <3> QED
      BY <3>1, OwnSpawn DEF OpsOn
  <2>2. \A j \in OpsOn("dismiss", c)' : Msg("child_dismissed", j) \notin Contents(mailbox'[p])
    BY <1>1, <1>3, <2>1
  <2> QED
    BY <1>1, <1>4, <2>2 DEF LostInv, Contents, Msg
<1>5. CASE s \notin NewOps
  <2>1. s \in OpsOn("spawn", c)
    BY <1>1, <1>5 DEF Under
  <2>2. s \in DOMAIN op
    BY <2>1 DEF OpsOn
  <2>3. Under(s, p, c)
    BY <1>1, <2>1, <2>2, MisuseStays DEF Under, HasLimit
  <2>4. LostInv(s, p, c)
    BY <2>3 DEF DeathInv
  <2>5. stage'[s] \in {"started", "done"} => c \in alive' \/ GoneBy(c)'
    BY <1>1, <1>2, <2>2, <2>4 DEF LostInv
  <2>6. ASSUME stage'[s] = "failed", NEW i \in OpsOn("adjust", c)', stage'[i] \in {"calling", "done"}
        PROVE  GoneBy(c)'
    <3>1. i \in OpsOn("adjust", c)
      BY <1>1, <2>6
    <3>2. i \in DOMAIN op
      BY <3>1 DEF OpsOn
    <3> QED
      BY <1>1, <1>2, <2>2, <2>4, <2>6, <3>1, <3>2 DEF LostInv
  <2>7. ASSUME NEW j \in OpsOn("dismiss", c)', Msg("child_dismissed", j) \in Contents(mailbox[p])
        PROVE  seen'[j].mode = "allocated"
    BY <1>1, <1>3, <2>4, <2>7 DEF LostInv
  <2>8. Contents(mailbox[p])' = Contents(mailbox[p]) /\ \A j : Msg("child_dismissed", j)' = Msg("child_dismissed", j)
    BY <1>1 DEF Contents, Msg
  <2> QED
    BY <2>5, <2>6, <2>7, <2>8 DEF LostInv
<1> QED
  BY <1>4, <1>5

LEMMA OpDeath ==
    ASSUME TypeInv, InheritInv, TreeInv, FlowInv, BusyInv, ChildInv, DismissInv, DeathInv, FlowInv',
           NEW j \in Ops, OpStep(j)
    PROVE  DeathInv'
<1>1. /\ op' = op /\ j \in DOMAIN op
      /\ \A kind, c : OpsOn(kind, c)' = OpsOn(kind, c)
      /\ \A c : Misused(c)' = Misused(c)
      /\ \A k \in DOMAIN op : op[k].by \in alive' => op[k].by \in alive
      /\ \A c \in alive' : budget'[c] = IF c \in alive THEN budget[c] ELSE NewChild(op[j].amount)
  BY OpKeeps
<1>2. /\ OthersStay(j) /\ Moved1(j) /\ seen' = seen
      /\ op[j].kind = "spawn" /\ stage'[j] = "failed" /\ stage[j] # "failed" => op[j].child \notin alive
      /\ stage'[j] = "calling" /\ stage[j] # "calling" => op[j].child \in alive
      /\ TerminateSubtree(j) =>
            /\ stage[j] = "absorbed" /\ op[j].kind = "dismiss"
            /\ stage'[j] = IF Releases(j) THEN "releasing" ELSE "released"
  BY OpFactsOfStep
<1> SUFFICES ASSUME NEW p \in Agents, NEW c \in Agents, NEW s \in Ops, Under(s, p, c)'
             PROVE  LostInv(s, p, c)'
  BY DEF DeathInv
<1>3. s \in OpsOn("spawn", c) /\ op[s].by = p /\ p \in alive' /\ ~Misused(c)
  BY <1>1 DEF Under, HasLimit
<1>4. s \in DOMAIN op /\ op[s].kind = "spawn" /\ op[s].child = c /\ ParentOf(c) = p
      /\ OpsOn("spawn", c) = {s} /\ c # Root
  BY <1>3, SpawnIs
<1>5. p \in alive /\ budget'[p] = budget[p]
  BY <1>1, <1>3, <1>4
<1>6. HasLimit(p) /\ Under(s, p, c)
  BY <1>1, <1>3, <1>5 DEF Under, HasLimit
<1>7. LostInv(s, p, c)
  BY <1>6 DEF DeathInv
<1>8. \A x : GoneBy(x) => GoneBy(x)'
  <2>1. \A k \in DOMAIN op : stage[k] \in {"releasing", "released", "done"} =>
            stage'[k] \in {"releasing", "released", "done"} /\ seen'[k] = seen[k]
    BY <1>2, TakenOps DEF OthersStay, Moved1, Moves
  <2> QED
    BY <1>1, <2>1, GoneStays
<1>9. ASSUME NEW k \in OpsOn("dismiss", c) PROVE ProperInv(k, p, c)
  <2>1. k \in DOMAIN op /\ op[k].kind = "dismiss" /\ op[k].child = c
    BY DEF OpsOn
  <2>2. k \in Ops /\ op[k].by = p
    <3>1. PICK t \in OpsOn("spawn", c) : op[t].by = op[k].by
      BY <2>1, OwnSpawn
    <3> QED
      BY <1>3, <1>4, <2>1, <3>1, TakenOps
  <2> QED
    BY <1>3, <1>6, <2>2 DEF Proper, DismissInv
<1>10. ASSUME stage'[s] \in {"started", "done"} PROVE c \in alive' \/ GoneBy(c)'
  <2>1. CASE stage[s] \in {"started", "done"}
    <3>1. c \in alive \/ GoneBy(c)
      BY <1>7, <2>1 DEF LostInv
    <3>2. ASSUME c \in alive, c \notin alive' PROVE GoneBy(c)'
      <4>1. TerminateSubtree(j) /\ c = op[j].child
        BY <1>3, <1>4, <3>2, EndedByOwn
      <4>2. j \in OpsOn("dismiss", c) /\ stage[j] = "absorbed" /\ stage'[j] \in {"releasing", "released"}
        BY <1>1, <1>2, <4>1 DEF OpsOn
      <4>3. seen'[j].mode = "allocated"
        BY <1>2, <1>9, <4>2 DEF ProperInv, Knowing
      <4>4. j \in OpsOn("dismiss", c)'
        BY <1>1, <4>2
      <4> QED
        BY <4>2, <4>3, <4>4 DEF GoneBy
    <3> QED
      BY <1>8, <3>1, <3>2
  <2>2. CASE stage[s] \notin {"started", "done"}
    <3>1. s = j /\ stage[j] = "starting" /\ stage'[j] = "started"
      BY <1>2, <1>4, <1>10, <2>2 DEF OthersStay, Moved1, Moves
    <3>2. StartChild(j)
      BY <1>4, <3>1
         DEF OpStep, RejectAction, CastReply, AcknowledgeDismiss, ExecuteSpawn, StartChild, FailSpawn,
             AnnounceChild, ExecuteAdjust, ExecuteDismiss, GetStateExits, SelectCosts,
             CommitAbsorption, AbsorptionFails, TerminateSubtree, FinishDismissal, At, Goes,
             TypeInv, LedgerTypeOK
    <3> QED
      BY <1>4, <3>1, <3>2 DEF StartChild
  <2> QED
    BY <2>1, <2>2
<1>11. ASSUME stage'[s] = "failed", NEW i \in OpsOn("adjust", c), stage'[i] \in {"calling", "done"}
       PROVE  GoneBy(c)'
  <2>1. i \in DOMAIN op /\ op[i].kind = "adjust" /\ op[i].child = c /\ i # s
    BY <1>4 DEF OpsOn
  <2>2. CASE stage[s] = "failed"
    <3>1. stage[i] \in {"calling", "done"} \/ (i = j /\ stage'[i] = "calling" /\ stage[i] # "calling")
      BY <1>2, <1>11, <2>1, TakenOps DEF OthersStay, Moved1, Moves
    <3>2. ~(i = j /\ stage'[i] = "calling" /\ stage[i] # "calling")
      BY <1>2, <1>3, <2>1, <2>2 DEF ChildInv, LivingStarted
    <3> QED
      BY <1>7, <1>8, <2>2, <3>1, <3>2 DEF LostInv
  <2>3. CASE stage[s] # "failed"
    <3>1. s = j /\ c \notin alive /\ stage[s] \in {"starting", "started"}
      BY <1>2, <1>4, <1>11, <2>3, TakenOps DEF OthersStay, Moved1, Moves
    <3>2. stage[i] \in {"calling", "done"}
      BY <1>2, <1>11, <2>1, <3>1, TakenOps DEF OthersStay
    <3>3. Started(c)
      BY <2>1, <3>2 DEF ChildInv, AdjustsStarted
    <3>4. stage[s] = "started"
      BY <1>4, <3>1, <3>3 DEF Started, Early
    <3> QED
      BY <1>7, <1>8, <3>1, <3>4 DEF LostInv
  <2> QED
    BY <2>2, <2>3
<1>12. ASSUME NEW k \in OpsOn("dismiss", c), Msg("child_dismissed", k) \in Contents(mailbox'[p])
       PROVE  seen'[k].mode = "allocated"
  <2>1. CASE Msg("child_dismissed", k) \in Contents(mailbox[p])
    BY <1>2, <1>7, <2>1 DEF LostInv
  <2>2. CASE Msg("child_dismissed", k) \notin Contents(mailbox[p])
    <3>1. PICK type \in MessageTypes :
              /\ Msg("child_dismissed", k) = Msg(type, j)
              /\ type = "child_dismissed" => stage[j] \in {"released", "releasing"}
      BY <1>12, <2>2, OpContents
    <3>2. k = j /\ stage[k] \in {"released", "releasing"}
      BY <3>1 DEF Msg
    <3> QED
      BY <1>2, <1>9, <3>2 DEF ProperInv, Knowing
  <2> QED
    BY <2>1, <2>2
<1>13. \A m : \A k : Contents(mailbox[p])' = Contents(mailbox'[p]) /\ Msg(m, k)' = Msg(m, k)
  BY DEF Contents, Msg
<1> QED
  BY <1>1, <1>10, <1>11, <1>12, <1>13 DEF LostInv

LEMMA HandlerDeath ==
    ASSUME TypeInv, InheritInv, FlowInv, FlowInv', DeathInv,
           NEW a \in Agents, NEW i, NEW type, Handles(a, i, type)
    PROVE  DeathInv'
<1>1. /\ op' = op /\ alive' = alive
      /\ \A kind, c : OpsOn(kind, c)' = OpsOn(kind, c)
      /\ \A c : Misused(c)' = Misused(c)
      /\ \A b \in Agents : budget'[b].mode = budget[b].mode
      /\ \A j \in DOMAIN op :
            \/ stage'[j] = stage[j]
            \/ op[j].kind = "adjust" /\ stage[j] = "calling" /\ stage'[j] = "done"
            \/ op[j].kind = "dismiss" /\ stage[j] = "asked" /\ stage'[j] = "known"
            \/ op[j].kind = "dismiss" /\ stage[j] = "releasing" /\ stage'[j] = "released"
  BY HandlesKeeps
<1>2. (seen' = [seen EXCEPT ![i] = budget[a]] /\ stage[i] = "asked") \/ seen' = seen
  BY DEF Handles, Due, Msg
<1>3. seen \in [Ops -> Budgets]
  BY DEF TypeInv, LedgerTypeOK
<1>4. \A j \in DOMAIN op : stage[j] # "asked" => seen'[j] = seen[j]
  BY <1>2, <1>3, TakenOps
<1> SUFFICES ASSUME NEW p \in Agents, NEW c \in Agents, NEW s \in Ops, Under(s, p, c)'
             PROVE  LostInv(s, p, c)'
  BY DEF DeathInv
<1>5. Under(s, p, c)
  BY <1>1 DEF Under, HasLimit
<1>6. LostInv(s, p, c)
  BY <1>5 DEF DeathInv
<1>7. s \in DOMAIN op /\ op[s].kind = "spawn"
  BY <1>5 DEF Under, OpsOn
<1>8. \A x : GoneBy(x) => GoneBy(x)'
  <2>1. \A k \in DOMAIN op : stage[k] \in {"releasing", "released", "done"} =>
            stage'[k] \in {"releasing", "released", "done"} /\ seen'[k] = seen[k]
    BY <1>1, <1>4
  <2> QED
    BY <1>1, <2>1, GoneStays
<1>9. stage'[s] = stage[s]
  BY <1>1, <1>7
<1>10. \A k \in OpsOn("adjust", c) : stage'[k] \in {"calling", "done"} => stage[k] \in {"calling", "done"}
  BY <1>1 DEF OpsOn
<1>11. ASSUME NEW k \in OpsOn("dismiss", c), Msg("child_dismissed", k) \in Contents(mailbox'[p])
       PROVE  seen'[k].mode = "allocated"
  <2>1. Msg("child_dismissed", k) \in Contents(mailbox[p])
    <3>1. Msg("child_dismissed", k) # Msg("set_allocated", i)
      BY DEF Msg
    <3> QED
      BY <1>11, <3>1, HandlerContents
  <2>2. stage[k] = "done" /\ k \in DOMAIN op
    BY <2>1 DEF FlowInv, MailInv, Due, Msg, OpsOn
  <2> QED
    BY <1>4, <1>6, <2>1, <2>2 DEF LostInv
<1>12. \A m : \A k : Contents(mailbox[p])' = Contents(mailbox'[p]) /\ Msg(m, k)' = Msg(m, k)
  BY DEF Contents, Msg
<1> QED
  BY <1>1, <1>6, <1>8, <1>9, <1>10, <1>11, <1>12 DEF LostInv

LEMMA RestDeath ==
    ASSUME TypeInv, InheritInv, FlowInv, DeathInv, RestStep
    PROVE  DeathInv'
<1>1. UNCHANGED <<op, stage, reply, alive, listed, known, seen>>
  BY DEF RestStep
<1>2. /\ \A kind, c : OpsOn(kind, c)' = OpsOn(kind, c)
      /\ \A c : Misused(c)' = Misused(c)
  BY <1>1, OpsKept
<1> SUFFICES ASSUME NEW p \in Agents, NEW c \in Agents, NEW s \in Ops, Under(s, p, c)'
             PROVE  LostInv(s, p, c)'
  BY DEF DeathInv
<1>3. budget'[p].mode = budget[p].mode
  BY DEF RestStep, InheritInv, EditKeepsMode
<1>4. Under(s, p, c)
  BY <1>1, <1>2, <1>3 DEF Under, HasLimit
<1>5. LostInv(s, p, c)
  BY <1>4 DEF DeathInv
<1>6. \A x : GoneBy(x) => GoneBy(x)'
  BY <1>1, <1>2, GoneStays
<1>7. ASSUME NEW k \in OpsOn("dismiss", c), Msg("child_dismissed", k) \in Contents(mailbox'[p])
      PROVE  seen'[k].mode = "allocated"
  <2>1. Msg("child_dismissed", k) \in Contents(mailbox[p])
    <3>1. Msg("child_dismissed", k).type = "child_dismissed"
      BY DEF Msg
    <3> QED
      BY <1>7, <3>1, RestContents
  <2> QED
    BY <1>1, <1>5, <2>1 DEF LostInv
<1>8. \A m : \A k : Contents(mailbox[p])' = Contents(mailbox'[p]) /\ Msg(m, k)' = Msg(m, k)
  BY DEF Contents, Msg
<1> QED
  BY <1>1, <1>2, <1>5, <1>6, <1>7, <1>8 DEF LostInv

-----------------------------------------------------------------------------
(* What is held and locked for a child *)

\* Shares are natural numbers.
LEMMA SharesAreNatural ==
    ASSUME TypeInv, InheritInv, NEW c \in Agents
    PROVE  Share(c) \in Nat
<1>1. CASE OpsOn("spawn", c) = {}
  <2>1. known[c] \in Nat \cup {NA}
    BY DEF TypeInv, LedgerTypeOK
  <2> QED
    BY <1>1, <2>1 DEF Share
<1>2. CASE OpsOn("spawn", c) # {}
  BY <1>2, ShareType
<1> QED
  BY <1>1, <1>2

\* What is committed twice, with the spawn named.
LEMMA TwiceIs ==
    ASSUME NEW c, NEW s, OpsOn("spawn", c) = {s}
    PROVE  Twice(c) = IF Adjusted(c) /\ (known[c] # NA \/ GivenBack(c)) /\ op[s].amount # NA
                      THEN op[s].amount ELSE 0
<1>1. (CHOOSE i \in OpsOn("spawn", c) : TRUE) = s
  OBVIOUS
<1> QED
  BY <1>1 DEF Twice

LEMMA TwiceNext ==
    ASSUME NEW c, NEW s, OpsOn("spawn", c)' = {s}
    PROVE  Twice(c)' = IF Adjusted(c)' /\ (known'[c] # NA \/ GivenBack(c)') /\ op'[s].amount # NA
                       THEN op'[s].amount ELSE 0
<1>1. (CHOOSE i \in OpsOn("spawn", c)' : TRUE) = s
  OBVIOUS
<1> QED
  BY <1>1 DEF Twice

\* Both are natural numbers.
LEMMA BalanceTypes ==
    ASSUME TypeInv, InheritInv
    PROVE  /\ \A c \in Agents : Held(c) \in Nat /\ Twice(c) \in Nat /\ Locked(c) \in Nat
           /\ HeldBy \in [Agents -> Nat] /\ LockedBy \in [Agents -> Nat]
<1>1. ASSUME NEW c \in Agents PROVE Held(c) \in Nat /\ Twice(c) \in Nat /\ Locked(c) \in Nat
  <2>1. Share(c) \in Nat
    BY SharesAreNatural
  <2>2. Twice(c) \in Nat
    <3>1. CASE OpsOn("spawn", c) = {}
      BY <3>1 DEF Twice
    <3>2. ASSUME NEW s \in OpsOn("spawn", c) PROVE Twice(c) \in Nat
      <4>1. OpsOn("spawn", c) = {s} /\ op[s].amount \in Amounts \cup {NA}
        BY SpawnIs
      <4>2. op[s].amount \in Nat \cup {NA}
        BY <4>1
      <4> QED
        BY <4>1, <4>2, TwiceIs
    <3> QED
      BY <3>1, <3>2
  <2> QED
    BY <2>1, <2>2 DEF Held, Locked
<1> QED
  BY <1>1 DEF HeldBy, LockedBy

LEMMA BalanceTypesNext ==
    (TypeInv /\ InheritInv)' => (HeldBy \in [Agents -> Nat] /\ LockedBy \in [Agents -> Nat])'
<1>1. TypeInv /\ InheritInv => HeldBy \in [Agents -> Nat] /\ LockedBy \in [Agents -> Nat]
  BY BalanceTypes
<1> QED
  BY <1>1, PTL

\* The step adds d to what p has committed, and to what it holds for c
Balanced(p, c, d) ==
    /\ budget'[p].committed = IF budget[p].committed + d < 0 THEN 0 ELSE budget[p].committed + d
    /\ \A x \in ChildrenOf(p) \ {c} : Held(x)' <= Held(x) /\ Locked(x) <= Locked(x)'
    /\ Held(c)' <= Held(c) + d /\ Locked(c) + d <= Locked(c)'

\* It adds nothing to either
Level(p) ==
    /\ budget'[p].committed = budget[p].committed
    /\ \A x \in ChildrenOf(p) : Held(x)' <= Held(x) /\ Locked(x) <= Locked(x)'

LEMMA BalanceNext ==
    ASSUME NEW p
    PROVE  BalanceAt(p)' <=> /\ budget'[p].committed >= Total(HeldBy', ChildrenOf(p)')
                             /\ budget'[p].committed <= Total(LockedBy', ChildrenOf(p)')
  BY DEF BalanceAt, Total, MapThenSumSet, MapThenFoldSet

\* Nobody has more children than there are agents.
LEMMA ChildrenAreAgents == \A p : ChildrenOf(p) \in SUBSET Agents /\ IsFiniteSet(ChildrenOf(p))
<1> TAKE p
<1>1. ChildrenOf(p) \subseteq Agents
  BY DEF ChildrenOf
<1> QED
  BY <1>1, FS_Subset

\* A step that adds the same to both sides keeps the balance.
LEMMA BalanceMoves ==
    ASSUME TypeInv, InheritInv, TypeInv', InheritInv', NEW p \in Agents,
           ChildrenOf(p)' = ChildrenOf(p), BalanceAt(p),
           NEW c \in ChildrenOf(p), NEW d \in Int, Balanced(p, c, d)
    PROVE  BalanceAt(p)'
<1> PICK f : f = HeldBy
  OBVIOUS
<1> PICK h : h = HeldBy'
  OBVIOUS
<1> PICK k : k = LockedBy
  OBVIOUS
<1> PICK l : l = LockedBy'
  OBVIOUS
<1> PICK S : S = ChildrenOf(p)
  OBVIOUS
<1>1. f \in [Agents -> Nat] /\ k \in [Agents -> Nat]
  BY BalanceTypes
<1>2. h \in [Agents -> Nat] /\ l \in [Agents -> Nat]
  BY BalanceTypesNext
<1>3. S \in SUBSET Agents /\ IsFiniteSet(S) /\ c \in S
  BY ChildrenAreAgents
<1>4. f \in [Agents -> Int] /\ k \in [Agents -> Int] /\ h \in [Agents -> Int] /\ l \in [Agents -> Int]
  BY <1>1, <1>2
<1>5. \A x \in Agents : f[x] = Held(x) /\ h[x] = Held(x)' /\ k[x] = Locked(x) /\ l[x] = Locked(x)'
  BY DEF HeldBy, LockedBy
<1>6. /\ Below(h, f, S \ {c}) /\ h[c] <= f[c] + d
      /\ Below(k, l, S \ {c}) /\ k[c] + d <= l[c]
  BY <1>3, <1>5 DEF Balanced, Below
<1>7. Total(h, S) <= Total(f, S) + d
  BY <1>3, <1>4, <1>6, TotalRises
<1>8. Total(k, S) + d <= Total(l, S)
  BY <1>3, <1>4, <1>6, TotalRises
<1>9. Total(l, S) \in Nat /\ Total(f, S) \in Nat /\ Total(h, S) \in Nat /\ Total(k, S) \in Nat
  BY <1>1, <1>2, <1>3, TotalNatural
<1>10. budget[p].committed \in Nat
  BY DEF TypeInv, LedgerTypeOK, Budgets
<1>11. budget[p].committed >= Total(f, S) /\ budget[p].committed <= Total(k, S)
  BY DEF BalanceAt
<1>12. budget'[p].committed = IF budget[p].committed + d < 0 THEN 0 ELSE budget[p].committed + d
  BY DEF Balanced
<1>13. budget'[p].committed >= Total(h, S) /\ budget'[p].committed <= Total(l, S)
  BY <1>7, <1>8, <1>9, <1>10, <1>11, <1>12
<1> QED
  BY <1>13, BalanceNext

\* So does a step that adds to neither, and one that adds children for which
\* nothing is held yet.
LEMMA BalanceRests ==
    ASSUME TypeInv, InheritInv, TypeInv', InheritInv', NEW p \in Agents,
           ChildrenOf(p) \subseteq ChildrenOf(p)', BalanceAt(p), Level(p),
           \A x \in ChildrenOf(p)' \ ChildrenOf(p) : Held(x)' = 0
    PROVE  BalanceAt(p)'
<1> PICK f : f = HeldBy
  OBVIOUS
<1> PICK h : h = HeldBy'
  OBVIOUS
<1> PICK k : k = LockedBy
  OBVIOUS
<1> PICK l : l = LockedBy'
  OBVIOUS
<1> PICK S : S = ChildrenOf(p)
  OBVIOUS
<1> PICK R : R = ChildrenOf(p)'
  OBVIOUS
<1>1. f \in [Agents -> Nat] /\ k \in [Agents -> Nat]
  BY BalanceTypes
<1>2. h \in [Agents -> Nat] /\ l \in [Agents -> Nat]
  BY BalanceTypesNext
<1>3. S \in SUBSET Agents /\ IsFiniteSet(S)
  BY ChildrenAreAgents
<1>4. f \in [Agents -> Int] /\ k \in [Agents -> Int] /\ h \in [Agents -> Int] /\ l \in [Agents -> Int]
  BY <1>1, <1>2
<1>5. \A x \in Agents : f[x] = Held(x) /\ h[x] = Held(x)' /\ k[x] = Locked(x) /\ l[x] = Locked(x)'
  BY DEF HeldBy, LockedBy
<1>6. Below(h, f, S) /\ Below(k, l, S)
  BY <1>3, <1>5 DEF Level, Below
<1>7. Total(h, S) <= Total(f, S) /\ Total(k, S) <= Total(l, S)
  BY <1>3, <1>4, <1>6, TotalGrows
<1>8. R \in SUBSET Agents /\ S \in SUBSET R
  BY DEF ChildrenOf
<1>9. IsFiniteSet(R) /\ IsFiniteSet(R \ S) /\ R \ S \in SUBSET Agents /\ S \cup (R \ S) = R
      /\ S \cap (R \ S) = {}
  BY <1>8, FS_Subset
<1>10. Total(h, R \ S) = 0
  <2>1. Agree(h, [x \in Agents |-> 0], R \ S)
    BY <1>5, <1>9 DEF Agree
  <2> QED
    BY <1>9, <2>1, TotalSame, TotalZero
<1>11. Total(h, R) = Total(h, S) + Total(h, R \ S)
  <2>1. Total(h, S \cup (R \ S)) = Total(h, S) + Total(h, R \ S)
    BY <1>3, <1>4, <1>9, TotalUnion
  <2> QED
    BY <1>9, <2>1
<1>12. Total(l, S) <= Total(l, R)
  BY <1>2, <1>8, <1>9, TotalOfPart
<1>13. Total(l, S) \in Nat /\ Total(f, S) \in Nat /\ Total(h, S) \in Nat /\ Total(k, S) \in Nat
       /\ Total(l, R) \in Nat /\ Total(h, R) \in Nat
  BY <1>1, <1>2, <1>3, <1>8, <1>9, TotalNatural
<1>14. budget[p].committed \in Nat
  BY DEF TypeInv, LedgerTypeOK, Budgets
<1>15. budget[p].committed >= Total(f, S) /\ budget[p].committed <= Total(k, S)
  BY DEF BalanceAt
<1>16. budget'[p].committed = budget[p].committed
  BY DEF Level
<1>17. budget'[p].committed >= Total(h, R) /\ budget'[p].committed <= Total(l, R)
  BY <1>7, <1>10, <1>11, <1>12, <1>13, <1>14, <1>15, <1>16
<1> QED
  BY <1>17, BalanceNext

\* A dismissal has released c
Freed(c) == \E i \in OpsOn("dismiss", c) : stage[i] \in {"released", "done"}

\* What is held and locked for a child whose entry does not change.
LEMMA SameHeld ==
    ASSUME TypeInv, InheritInv, NEW c \in Agents, NEW s \in OpsOn("spawn", c),
           OpsOn("spawn", c)' = OpsOn("spawn", c), op'[s] = op[s], SameList(c),
           reply'[s] = "handled" <=> reply[s] = "handled",
           Adjusted(c) => Adjusted(c)', GivenBack(c)' <=> GivenBack(c), Freed(c) => Freed(c)'
    PROVE  Held(c)' <= Held(c) /\ Locked(c) <= Locked(c)'
<1>1. OpsOn("spawn", c) = {s} /\ op[s].amount \in Amounts \cup {NA}
  BY SpawnIs
<1>2. op[s].amount \in Nat \cup {NA}
  BY <1>1
<1>3. Share(c)' = Share(c) /\ Share(c) \in Nat
  BY ShareKept, SharesAreNatural DEF SameList
<1>4. /\ Held(c) = IF c \in listed /\ ~Freed(c) THEN Share(c) ELSE 0
      /\ Held(c)' = IF c \in listed' /\ ~Freed(c)' THEN Share(c)' ELSE 0
  BY DEF Held, Freed
<1>5. /\ Twice(c) = IF Adjusted(c) /\ (known[c] # NA \/ GivenBack(c)) /\ op[s].amount # NA
                    THEN op[s].amount ELSE 0
      /\ Twice(c)' = IF Adjusted(c)' /\ (known'[c] # NA \/ GivenBack(c)') /\ op'[s].amount # NA
                     THEN op'[s].amount ELSE 0
  BY <1>1, TwiceIs, TwiceNext
<1>6. Twice(c) <= Twice(c)' /\ Twice(c) \in Nat /\ Twice(c)' \in Nat
  BY <1>2, <1>5 DEF SameList
<1>7. /\ Locked(c) = Twice(c) + IF GivenBack(c) THEN 0 ELSE Share(c)
      /\ Locked(c)' = Twice(c)' + IF GivenBack(c)' THEN 0 ELSE Share(c)'
  BY DEF Locked
<1> QED
  BY <1>3, <1>4, <1>6, <1>7 DEF SameList

LEMMA TakingBalance ==
    ASSUME TypeInv, InheritInv, TreeInv, FlowInv, ChildInv, BalanceInv, TypeInv', InheritInv', FlowInv',
           NEW a \in Agents, Takes(a)
    PROVE  BalanceInv'
<1>1. /\ Onwards
      /\ UNCHANGED <<treeVars, ledgerVars, mailbox, reply, workVars, costVars, editVars>>
      /\ \A j \in DOMAIN op : op'[j] = op[j] /\ stage'[j] = stage[j]
      /\ \A j \in NewOps : j \in Ops /\ stage'[j] = "dispatched"
      /\ \A kind, c : /\ OpsOn(kind, c) \subseteq OpsOn(kind, c)'
                      /\ \A j \in OpsOn(kind, c)' : j \in OpsOn(kind, c) \/ j \in NewOps
      /\ \A c : OpsOn("spawn", c) # {} => OpsOn("spawn", c)' = OpsOn("spawn", c)
  BY TakingOps
<1> SUFFICES ASSUME NEW p \in Agents, Good(p)' PROVE BalanceAt(p)'
  BY DEF BalanceInv
<1>2. ASSUME NEW x, NEW s \in OpsOn("spawn", x)
      PROVE  ParentOf(x)' = ParentOf(x) /\ op'[s] = op[s] /\ OpsOn("spawn", x)' = OpsOn("spawn", x)
  <2>1. s \in DOMAIN op /\ OpsOn("spawn", x) = {s} /\ ParentOf(x) = op[s].by
    BY SpawnIs
  <2>2. OpsOn("spawn", x)' = {s} /\ op'[s] = op[s]
    BY <1>1, <2>1
  <2>3. (CHOOSE i \in OpsOn("spawn", x)' : TRUE) = s
    BY <2>2
  <2> QED
    BY <2>1, <2>2, <2>3 DEF ParentOf
<1>3. ChildrenOf(p) \subseteq ChildrenOf(p)'
  BY <1>2 DEF ChildrenOf, IsSpawned
<1>4. Good(p)
  BY <1>1, <1>3, MisuseStays DEF Good, HasLimit
<1>5. BalanceAt(p)
  BY <1>4 DEF BalanceInv
<1>6. ASSUME NEW x \in ChildrenOf(p) PROVE Held(x)' <= Held(x) /\ Locked(x) <= Locked(x)'
  <2>1. PICK s : s \in OpsOn("spawn", x)
    BY DEF ChildrenOf, IsSpawned
  <2>2. \A kind : \A j \in OpsOn(kind, x) : j \in OpsOn(kind, x)' /\ stage'[j] = stage[j]
    BY <1>1 DEF OpsOn
  <2>3. \A kind : \A j \in OpsOn(kind, x)' : stage'[j] # "dispatched" => j \in OpsOn(kind, x)
    BY <1>1
  <2>4. Adjusted(x) => Adjusted(x)'
    BY <2>2 DEF Adjusted
  <2>5. GivenBack(x)' <=> GivenBack(x)
    <3>1. seen' = seen
      BY <1>1
    <3>2. GivenBack(x) => GivenBack(x)'
      BY <2>2, <3>1 DEF GivenBack
    <3>3. GivenBack(x)' => GivenBack(x)
      BY <2>2, <2>3, <3>1 DEF GivenBack
    <3> QED
      BY <3>2, <3>3
  <2>6. Freed(x) => Freed(x)'
    BY <2>2 DEF Freed
  <2>7. SameList(x) /\ reply'[s] = reply[s] /\ x \in Agents
    BY <1>1 DEF SameList, ChildrenOf
  <2>8. op'[s] = op[s] /\ OpsOn("spawn", x)' = OpsOn("spawn", x)
    BY <1>2, <2>1
  <2> QED
    BY <2>1, <2>4, <2>5, <2>6, <2>7, <2>8, SameHeld
<1>7. ASSUME NEW x \in ChildrenOf(p)' \ ChildrenOf(p) PROVE Held(x)' = 0
  <2>1. x \in Agents /\ ParentOf(x)' = p
    BY DEF ChildrenOf
  <2>2. OpsOn("spawn", x) = {}
    BY <1>2, <1>7, <2>1 DEF ChildrenOf, IsSpawned
  <2>3. x \notin listed
    BY <2>2 DEF ChildInv, ListedInv
  <2> QED
    BY <1>1, <2>3 DEF Held
<1>8. Level(p)
  BY <1>1, <1>6 DEF Level
<1> QED
  BY <1>3, <1>5, <1>7, <1>8, BalanceRests

\* Who dismisses or adjusts a child is its parent.
LEMMA OwnParent ==
    ASSUME TypeInv, InheritInv, TreeInv, NEW i \in DOMAIN op, op[i].kind # "spawn",
           NEW s \in OpsOn("spawn", op[i].child)
    PROVE  op[i].by = op[s].by
<1>1. PICK t \in OpsOn("spawn", op[i].child) : op[t].by = op[i].by
  BY OwnSpawn
<1>2. t = s
  BY SpawnIs
<1> QED
  BY <1>1, <1>2

LEMMA OpBalance ==
    ASSUME TypeInv, InheritInv, TreeInv, FlowInv, SeenInv, DismissInv, BalanceInv, TypeInv', InheritInv',
           NEW j \in Ops, OpStep(j)
    PROVE  BalanceInv'
<1>1. /\ op' = op /\ j \in DOMAIN op
      /\ \A kind, c : OpsOn(kind, c)' = OpsOn(kind, c)
      /\ \A c : ParentOf(c)' = ParentOf(c) /\ ChildrenOf(c)' = ChildrenOf(c)
      /\ \A c : Misused(c)' = Misused(c)
      /\ \A k \in DOMAIN op : reply'[k] = "handled" <=> reply[k] = "handled"
      /\ \A c : Adjusted(c) <=> Adjusted(c)'
      /\ \A c \in alive' \ alive : StartChild(j) /\ c = op[j].child /\ ~Started(c)
      /\ \A c \in Agents : SameList(c) \/ (c \notin listed' /\ known'[c] = NA /\ ParentOf(c) \notin alive')
      /\ \A c \in alive' : budget'[c] = IF c \in alive THEN budget[c] ELSE NewChild(op[j].amount)
  BY OpKeeps
<1>2. /\ OthersStay(j) /\ Moved1(j) /\ seen' = seen /\ torn' = torn
      /\ stage[j] = "absorbed" /\ stage'[j] \in {"releasing", "released"} => TerminateSubtree(j)
      /\ TerminateSubtree(j) => stage'[j] = IF Releases(j) THEN "releasing" ELSE "released"
  BY OpFactsOfStep
<1> SUFFICES ASSUME NEW p \in Agents, Good(p)' PROVE BalanceAt(p)'
  BY DEF BalanceInv
<1>3. p \in alive' /\ budget'[p].mode # "na" /\ ~(p = Root /\ torn)
      /\ \A c \in ChildrenOf(p) : ~Misused(c)
  BY <1>1, <1>2 DEF Good, HasLimit
<1>4. CASE p \notin alive
  <2>1. StartChild(j) /\ p = op[j].child /\ budget'[p] = NewChild(op[j].amount)
    BY <1>1, <1>3, <1>4
  <2>2. At(j, "spawn", "starting")
    BY <2>1 DEF StartChild
  <2>3. \A k \in DOMAIN op : op[k].by # p
    BY <1>1, <2>1, <2>2, StartedByNobody
  <2>4. ChildrenOf(p) = {}
    <3> SUFFICES ASSUME NEW c \in ChildrenOf(p) PROVE FALSE
      OBVIOUS
    <3>1. PICK s : s \in OpsOn("spawn", c)
      BY DEF ChildrenOf, IsSpawned
    <3>2. s \in DOMAIN op /\ op[s].by = p
      BY <3>1, SpawnIs DEF ChildrenOf
    <3> QED
      BY <2>3, <3>2
  <2>5. ChildrenOf(p)' = {} /\ budget'[p].committed = 0
    BY <1>1, <2>1, <2>4 DEF NewChild
  <2>6. Total(HeldBy', ChildrenOf(p)') = 0 /\ Total(LockedBy', ChildrenOf(p)') = 0
    BY <2>5, TotalEmpty
  <2>7. /\ budget'[p].committed >= Total(HeldBy', ChildrenOf(p)')
        /\ budget'[p].committed <= Total(LockedBy', ChildrenOf(p)')
    BY <2>5, <2>6
  <2> QED
    BY <2>7, BalanceNext
<1>5. CASE p \in alive
  <2>1. budget'[p] = budget[p] /\ HasLimit(p)
    BY <1>1, <1>3, <1>5 DEF HasLimit
  <2>2. BalanceAt(p)
    BY <1>3, <2>1 DEF BalanceInv, Good
  <2>3. ASSUME NEW x \in ChildrenOf(p) PROVE Held(x)' <= Held(x) /\ Locked(x) <= Locked(x)'
    <3>1. PICK s : s \in OpsOn("spawn", x)
      BY DEF ChildrenOf, IsSpawned
    <3>2. x \in Agents /\ ParentOf(x) = p /\ s \in DOMAIN op /\ op[s].by = p
      BY <3>1, SpawnIs DEF ChildrenOf
    <3>3. SameList(x)
      BY <1>1, <1>3, <3>2
    <3>4. \A i \in DOMAIN op : stage[i] \in {"released", "done"} => stage'[i] \in {"released", "done"}
      BY <1>2, TakenOps DEF OthersStay, Moved1, Moves
    <3>5. Freed(x) => Freed(x)'
      <4> SUFFICES ASSUME NEW i \in OpsOn("dismiss", x), stage[i] \in {"released", "done"}
                   PROVE  stage'[i] \in {"released", "done"} /\ i \in OpsOn("dismiss", x)'
        BY DEF Freed
      <4> QED
        BY <1>1, <3>4 DEF OpsOn
    <3>6. GivenBack(x) => GivenBack(x)'
      <4> SUFFICES ASSUME NEW i \in OpsOn("dismiss", x), stage[i] \in {"released", "done"},
                          seen[i].mode = "allocated"
                   PROVE  GivenBack(x)'
        BY DEF GivenBack
      <4>1. i \in OpsOn("dismiss", x)' /\ stage'[i] \in {"released", "done"}
        BY <1>1, <3>4 DEF OpsOn
      <4> QED
        BY <1>2, <4>1 DEF GivenBack
    <3>7. GivenBack(x)' => GivenBack(x)
      <4> SUFFICES ASSUME NEW i \in OpsOn("dismiss", x), stage'[i] \in {"released", "done"},
                          seen[i].mode = "allocated", stage[i] \notin {"released", "done"}
                   PROVE  FALSE
        BY <1>1, <1>2 DEF GivenBack
      <4>1. i \in DOMAIN op /\ op[i].kind = "dismiss" /\ op[i].child = x
        BY DEF OpsOn
      <4>2. op[i].by = p /\ i \in Ops
        BY <3>1, <3>2, <4>1, OwnParent, TakenOps
      <4>3. i = j /\ (stage[i] = "dispatched" \/ (stage[i] = "absorbed" /\ stage'[i] = "released"))
        BY <1>2, <1>5, <4>1, <4>2 DEF OthersStay, Moved1, Moves
      <4>4. stage[i] # "dispatched"
        BY <4>2 DEF SeenInv, NewChild
      <4>5. ProperInv(i, p, x)
        BY <1>3, <2>1, <3>2, <4>2 DEF Proper, DismissInv
      <4>6. seen[i].allocated = Share(x) /\ stage[i] = "absorbed"
        BY <4>3, <4>4, <4>5 DEF ProperInv, Knowing
      <4>7. Share(x) \in Nat
        BY <3>2, SharesAreNatural
      <4>8. Releases(i)
        BY <1>5, <4>2, <4>6, <4>7 DEF Releases, NA
      <4> QED
        BY <1>2, <4>3, <4>6, <4>8
    <3> QED
      BY <1>1, <3>1, <3>2, <3>3, <3>5, <3>6, <3>7, SameHeld
  <2>4. Level(p)
    BY <2>1, <2>3 DEF Level
  <2> QED
    BY <1>1, <2>2, <2>4, BalanceRests
<1> QED
  BY <1>4, <1>5

\* What is held and locked for a child, with its spawn named, before a step
\* that takes no action and after it.
LEMMA EntryIs ==
    ASSUME TypeInv, InheritInv, TypeInv', NEW c \in Agents, NEW s \in OpsOn("spawn", c),
           op' = op, OpsOn("spawn", c)' = OpsOn("spawn", c)
    PROVE  /\ Share(c) = IF known[c] # NA THEN known[c]
                         ELSE IF reply[s] = "handled" /\ op[s].amount # NA THEN op[s].amount ELSE 0
           /\ Share(c)' = IF known'[c] # NA THEN known'[c]
                          ELSE IF reply'[s] = "handled" /\ op[s].amount # NA THEN op[s].amount ELSE 0
           /\ Twice(c) = IF Adjusted(c) /\ (known[c] # NA \/ GivenBack(c)) /\ op[s].amount # NA
                         THEN op[s].amount ELSE 0
           /\ Twice(c)' = IF Adjusted(c)' /\ (known'[c] # NA \/ GivenBack(c)') /\ op[s].amount # NA
                          THEN op[s].amount ELSE 0
           /\ Held(c) = IF c \in listed /\ ~Freed(c) THEN Share(c) ELSE 0
           /\ Held(c)' = IF c \in listed' /\ ~Freed(c)' THEN Share(c)' ELSE 0
           /\ Locked(c) = Twice(c) + IF GivenBack(c) THEN 0 ELSE Share(c)
           /\ Locked(c)' = Twice(c)' + IF GivenBack(c)' THEN 0 ELSE Share(c)'
           /\ Share(c) \in Nat /\ Share(c)' \in Nat /\ Twice(c) \in Nat /\ Twice(c)' \in Nat
<1>1. OpsOn("spawn", c) = {s} /\ op[s].amount \in Amounts \cup {NA}
  BY SpawnIs
<1>2. op[s].amount \in Nat \cup {NA} /\ known'[c] \in Nat \cup {NA}
  BY <1>1 DEF TypeInv, LedgerTypeOK
<1>3. Share(c) = IF known[c] # NA THEN known[c]
                 ELSE IF reply[s] = "handled" /\ op[s].amount # NA THEN op[s].amount ELSE 0
  BY ShareIs
<1>4. Share(c)' = IF known'[c] # NA THEN known'[c]
                  ELSE IF reply'[s] = "handled" /\ op[s].amount # NA THEN op[s].amount ELSE 0
  BY <1>1, ShareNext
<1>5. /\ Twice(c) = IF Adjusted(c) /\ (known[c] # NA \/ GivenBack(c)) /\ op[s].amount # NA
                    THEN op[s].amount ELSE 0
      /\ Twice(c)' = IF Adjusted(c)' /\ (known'[c] # NA \/ GivenBack(c)') /\ op[s].amount # NA
                     THEN op[s].amount ELSE 0
  BY <1>1, TwiceIs, TwiceNext
<1>6. /\ Held(c) = IF c \in listed /\ ~Freed(c) THEN Share(c) ELSE 0
      /\ Held(c)' = IF c \in listed' /\ ~Freed(c)' THEN Share(c)' ELSE 0
  BY DEF Held, Freed
<1>7. /\ Locked(c) = Twice(c) + IF GivenBack(c) THEN 0 ELSE Share(c)
      /\ Locked(c)' = Twice(c)' + IF GivenBack(c)' THEN 0 ELSE Share(c)'
  BY DEF Locked
<1>8. Share(c) \in Nat
  BY SharesAreNatural
<1>9. Share(c)' \in Nat
  BY <1>2, <1>4
<1>10. Twice(c) \in Nat /\ Twice(c)' \in Nat
  BY <1>2, <1>5
<1> QED
  BY <1>3, <1>4, <1>5, <1>6, <1>7, <1>8, <1>9, <1>10

\* Only the handler of a release gives back.
LEMMA HandlerFrees ==
    ASSUME TypeInv, InheritInv, FlowInv, NEW a \in Agents, NEW i, NEW type, Handles(a, i, type)
    PROVE  \A x : /\ Adjusted(x) => Adjusted(x)'
                  /\ Freed(x) => Freed(x)'
                  /\ GivenBack(x) => GivenBack(x)'
                  /\ ~(type = "release" /\ op[i].child = x) =>
                        (Freed(x)' => Freed(x)) /\ (GivenBack(x)' => GivenBack(x))
                  /\ ~(type = "adjust" /\ op[i].child = x) => (Adjusted(x)' => Adjusted(x))
<1>1. /\ op' = op
      /\ \A kind, x : OpsOn(kind, x)' = OpsOn(kind, x)
      /\ \A j \in DOMAIN op : \/ stage'[j] = stage[j]
                              \/ /\ j = i /\ type = "adjust" /\ op[j].kind = "adjust"
                                 /\ stage[j] = "calling" /\ stage'[j] = "done"
                              \/ /\ j = i /\ type = "get_state" /\ op[j].kind = "dismiss"
                                 /\ stage[j] = "asked" /\ stage'[j] = "known"
                              \/ /\ j = i /\ type = "release" /\ op[j].kind = "dismiss"
                                 /\ stage[j] = "releasing" /\ stage'[j] = "released"
      /\ \A x : Adjusted(x) => Adjusted(x)'
  BY HandlesKeeps
<1>2. (seen' = [seen EXCEPT ![i] = budget[a]] /\ stage[i] = "asked") \/ seen' = seen
  BY DEF Handles, Due, Msg
<1>3. seen \in [Ops -> Budgets] /\ \A j \in DOMAIN op : j \in Ops
  BY TakenOps DEF TypeInv, LedgerTypeOK
<1>4. (seen' = [seen EXCEPT ![i] = budget[a]] /\ type = "get_state") \/ seen' = seen
  BY DEF Handles
<1>5. \A j \in DOMAIN op : stage[j] # "asked" => seen'[j] = seen[j]
  BY <1>2, <1>3
<1>6. ASSUME NEW x, NEW k \in OpsOn("dismiss", x), stage[k] \in {"released", "done"}
      PROVE  stage'[k] = stage[k] /\ seen'[k] = seen[k] /\ k \in OpsOn("dismiss", x)'
  BY <1>1, <1>5, <1>6 DEF OpsOn
<1>7. ASSUME NEW x, NEW k \in OpsOn("dismiss", x), stage'[k] \in {"released", "done"},
             ~(type = "release" /\ op[i].child = x)
      PROVE  stage[k] \in {"released", "done"} /\ seen'[k] = seen[k]
  <2>1. k \in DOMAIN op /\ op[k].kind = "dismiss" /\ op[k].child = x
    BY DEF OpsOn
  <2>2. stage'[k] = stage[k]
    BY <1>1, <1>7, <2>1
  <2> QED
    BY <1>5, <1>7, <2>1, <2>2
<1>8. ASSUME NEW x, NEW k \in OpsOn("adjust", x), stage'[k] = "done", ~(type = "adjust" /\ op[i].child = x)
      PROVE  stage[k] = "done"
  <2>1. k \in DOMAIN op /\ op[k].kind = "adjust" /\ op[k].child = x
    BY DEF OpsOn
  <2> QED
    BY <1>1, <1>8, <2>1
<1> TAKE x
<1>9. OpsOn("dismiss", x)' = OpsOn("dismiss", x) /\ OpsOn("adjust", x)' = OpsOn("adjust", x)
  BY <1>1
<1>10. (Freed(x) => Freed(x)') /\ (GivenBack(x) => GivenBack(x)')
  BY <1>6 DEF Freed, GivenBack
<1>11. ~(type = "release" /\ op[i].child = x) =>
          (Freed(x)' => Freed(x)) /\ (GivenBack(x)' => GivenBack(x))
  BY <1>7, <1>9 DEF Freed, GivenBack
<1>12. ~(type = "adjust" /\ op[i].child = x) => (Adjusted(x)' => Adjusted(x))
  BY <1>8, <1>9 DEF Adjusted
<1> QED
  BY <1>1, <1>10, <1>11, <1>12

\* A child whose entry a handler leaves alone.
LEMMA OtherEntries ==
    ASSUME TypeInv, InheritInv, FlowInv, NEW a \in Agents, NEW i, NEW type, Handles(a, i, type),
           NEW x \in Agents, NEW s \in OpsOn("spawn", x), SameList(x),
           ~(type = "result" /\ s = i), ~(type = "release" /\ op[i].child = x)
    PROVE  Held(x)' <= Held(x) /\ Locked(x) <= Locked(x)'
<1>1. /\ op' = op /\ OpsOn("spawn", x)' = OpsOn("spawn", x)
      /\ \A j \in DOMAIN op : /\ reply[j] = "handled" => reply'[j] = "handled"
                              /\ reply'[j] = "handled" => reply[j] = "handled" \/ (j = i /\ type = "result")
  BY HandlesKeeps
<1>2. s \in DOMAIN op
  BY SpawnIs
<1>3. /\ Adjusted(x) => Adjusted(x)'
      /\ GivenBack(x)' <=> GivenBack(x)
      /\ Freed(x) => Freed(x)'
  BY HandlerFrees
<1>4. reply'[s] = "handled" <=> reply[s] = "handled"
  BY <1>1, <1>2
<1> QED
  BY <1>1, <1>3, <1>4, SameHeld

\* The agent a with a limit handles a message about its child c, which s spawned
Tends(a, i, type, c, s) ==
    /\ Handles(a, i, type) /\ op[i].child = c /\ op[i].by = a
    /\ s \in OpsOn("spawn", c) /\ op[s].by = a
    /\ HasLimit(a) /\ ~Misused(c)

CommitsBy(a, d) ==
    budget'[a].committed = IF budget[a].committed + d < 0 THEN 0 ELSE budget[a].committed + d

\* What the message does to what is held and locked for c
Shifts(c, d) == Held(c)' <= Held(c) + d /\ Locked(c) + d <= Locked(c)'
Settles(c) == Held(c)' <= Held(c) /\ Locked(c) <= Locked(c)'

\* What every case starts from.
LEMMA TendsFacts ==
    ASSUME TypeInv, InheritInv, TypeInv', FlowInv, NEW a \in Agents, NEW i, NEW type, NEW c, NEW s,
           Tends(a, i, type, c, s)
    PROVE  /\ i \in DOMAIN op /\ i \in Ops /\ op[i].kind \in About(type) /\ Due(a, Msg(type, i))
           /\ type \in MessageTypes /\ a \in alive /\ c \in Agents /\ s \in DOMAIN op /\ s \in Ops
           /\ OpsOn("spawn", c) = {s} /\ op[s].kind = "spawn" /\ op[s].child = c
           /\ op[s].amount \in Nat \cup {NA} /\ (op[i].kind = "spawn" => s = i)
           /\ op' = op /\ OpsOn("spawn", c)' = OpsOn("spawn", c)
           /\ HandlesLists(a, i, type) /\ HandlesBudget(a, i, type)
           /\ OthersStay(i) /\ MovedByMessage(i, type)
           /\ budget[a] \in Budgets /\ known[c] \in Nat \cup {NA} /\ known'[c] \in Nat \cup {NA}
<1>1. /\ i \in DOMAIN op /\ i \in Ops /\ op[i].kind \in About(type) /\ Due(a, Msg(type, i))
      /\ type \in MessageTypes /\ a \in alive /\ s \in OpsOn("spawn", c)
      /\ HandlesLists(a, i, type) /\ HandlesBudget(a, i, type)
      /\ OthersStay(i) /\ MovedByMessage(i, type) /\ op[i].child = c /\ Handles(a, i, type)
  BY DEF Tends, Handles
<1>2. /\ s \in DOMAIN op /\ s \in Ops /\ op[s].kind = "spawn" /\ op[s].child = c /\ c \in Agents
      /\ OpsOn("spawn", c) = {s} /\ op[s].amount \in Amounts \cup {NA}
  BY <1>1, SpawnIs
<1>3. op[s].amount \in Nat \cup {NA}
  BY <1>2
<1>4. op[i].kind = "spawn" => s = i
  BY <1>1, <1>2 DEF OpsOn
<1>5. op' = op /\ OpsOn("spawn", c)' = OpsOn("spawn", c)
  BY <1>1, HandlesKeeps
<1>6. budget[a] \in Budgets /\ known[c] \in Nat \cup {NA} /\ known'[c] \in Nat \cup {NA}
  BY <1>2 DEF TypeInv, LedgerTypeOK
<1> QED
  BY <1>1, <1>2, <1>3, <1>4, <1>5, <1>6

\* The result of a spawn: what it commits is the child's share.
LEMMA ResultShifts ==
    ASSUME TypeInv, InheritInv, TreeInv, FlowInv, BusyInv, ChildInv, TypeInv',
           NEW a \in Agents, NEW i, NEW c, NEW s, Tends(a, i, "result", c, s), TracksChild(i)
    PROVE  \E d \in Int : CommitsBy(a, d) /\ Shifts(c, d)
<1>1. /\ i \in DOMAIN op /\ i = s /\ a \in alive /\ c \in Agents /\ op[i].child = c
      /\ OpsOn("spawn", c) = {s} /\ op[s].amount \in Nat \cup {NA}
      /\ op' = op /\ OpsOn("spawn", c)' = OpsOn("spawn", c)
      /\ HandlesLists(a, i, "result") /\ HandlesBudget(a, i, "result")
      /\ budget[a] \in Budgets /\ known[c] \in Nat \cup {NA} /\ op[i].by = a
      /\ Handles(a, i, "result")
  <2>1. /\ i \in DOMAIN op /\ a \in alive /\ c \in Agents /\ (op[i].kind = "spawn" => s = i)
        /\ OpsOn("spawn", c) = {s} /\ op[s].amount \in Nat \cup {NA}
        /\ op' = op /\ OpsOn("spawn", c)' = OpsOn("spawn", c)
        /\ HandlesLists(a, i, "result") /\ HandlesBudget(a, i, "result")
        /\ budget[a] \in Budgets /\ known[c] \in Nat \cup {NA}
    BY TendsFacts
  <2> QED
    BY <2>1 DEF Tends, TracksChild
<1>2. reply[i] = "sent" /\ ~op[i].batched /\ reply'[i] = "handled" /\ op[i].kind = "spawn"
  BY <1>1 DEF Handles, Due, Msg, MovedByMessage, TracksChild
<1>3. OpsOn("adjust", c) = {} /\ OpsOn("dismiss", c) = {}
  BY <1>1, <1>2, Untouched
<1>4. /\ ~Adjusted(c) /\ ~Freed(c) /\ ~GivenBack(c)
      /\ ~Adjusted(c)' /\ ~Freed(c)' /\ ~GivenBack(c)'
  <2>1. OpsOn("adjust", c)' = {} /\ OpsOn("dismiss", c)' = {}
    BY <1>1, <1>3, HandlesKeeps
  <2> QED
    BY <1>3, <2>1 DEF Adjusted, Freed, GivenBack
<1>5. known[c] = NA
  BY <1>1, <1>2, <1>4 DEF ChildInv, ListedInv
<1>6. c \in listed' /\ known'[c] = IF c \in listed THEN NA ELSE op[i].amount
  BY <1>1, <1>5 DEF HandlesLists
<1> PICK d : d = IF op[i].amount = NA THEN 0 ELSE op[i].amount
  OBVIOUS
<1>7. d \in Nat
  BY <1>1
<1>8. CommitsBy(a, d)
  <2>1. budget'[a] = CommitAmount(budget[a], op[i].amount)
    BY <1>1 DEF HandlesBudget, Adjusts
  <2>2. op[i].amount \in Amounts \cup {NA}
    BY <1>1, TakenOps DEF OpFacts
  <2>3. budget'[a].committed = budget[a].committed + d
    <3>1. CommitAmount(budget[a], op[i].amount).committed =
              budget[a].committed + (IF op[i].amount = NA THEN 0 ELSE op[i].amount)
      BY <1>1, <2>2, CommittedAfter
    <3> QED
      BY <2>1, <3>1
  <2>4. budget[a].committed \in Nat
    BY <1>1 DEF Budgets
  <2> QED
    BY <1>7, <2>3, <2>4 DEF CommitsBy
<1>9. /\ Share(c) = 0 /\ Share(c)' = d /\ Twice(c) = 0 /\ Twice(c)' = 0
      /\ Held(c) = 0 /\ Held(c)' = d /\ Locked(c) = 0 /\ Locked(c)' = d
  <2>1. s \in OpsOn("spawn", c)
    BY <1>1
  <2>2. Share(c) = 0 /\ Share(c)' = d
    BY <1>1, <1>2, <1>5, <1>6, <2>1, EntryIs
  <2>3. Twice(c) = 0 /\ Twice(c)' = 0
    BY <1>1, <1>4, <2>1, EntryIs
  <2>4. Held(c) = 0 /\ Held(c)' = d
    BY <1>1, <1>4, <1>6, <2>1, <2>2, EntryIs
  <2>5. Locked(c) = 0 /\ Locked(c)' = d
    BY <1>1, <1>4, <1>7, <2>1, <2>2, <2>3, EntryIs
  <2> QED
    BY <2>2, <2>3, <2>4, <2>5
<1>10. Shifts(c, d)
  BY <1>7, <1>9 DEF Shifts
<1> QED
  BY <1>7, <1>8, <1>10

\* The result of a spawn that was rejected.
LEMMA RejectionSettles ==
    ASSUME TypeInv, InheritInv, TreeInv, FlowInv, BusyInv, ChildInv, TypeInv',
           NEW a \in Agents, NEW i, NEW c, NEW s, Tends(a, i, "result", c, s), ~TracksChild(i)
    PROVE  Settles(c)
<1>1. /\ i \in DOMAIN op /\ a \in alive /\ c \in Agents /\ op[i].child = c /\ op[i].by = a
      /\ OpsOn("spawn", c) = {s} /\ op[s].amount \in Nat \cup {NA} /\ s \in OpsOn("spawn", c)
      /\ op' = op /\ OpsOn("spawn", c)' = OpsOn("spawn", c) /\ (op[i].kind = "spawn" => s = i)
      /\ HandlesLists(a, i, "result") /\ Handles(a, i, "result") /\ known[c] \in Nat \cup {NA}
  BY TendsFacts DEF Tends
<1>2. SameList(c)
  BY <1>1 DEF HandlesLists, Unlists, Adjusts
<1>3. CASE op[i].kind # "spawn"
  <2>1. s # i
    BY <1>1, <1>3 DEF OpsOn
  <2> QED
    BY <1>1, <1>2, <2>1, OtherEntries DEF Settles
<1>4. CASE op[i].kind = "spawn"
  <2>1. stage[s] = "rejected" /\ s = i /\ reply[s] = "sent" /\ ~op[s].batched
    BY <1>1, <1>4 DEF TracksChild, Handles, Due, Msg
  <2>2. c \notin listed /\ known[c] = NA
    BY <1>1, <2>1 DEF ChildInv, ListedInv
  <2>3. OpsOn("adjust", c) = {} /\ OpsOn("dismiss", c) = {}
    BY <1>1, <2>1, Untouched
  <2>4. ~Adjusted(c) /\ ~GivenBack(c)
    BY <2>3 DEF Adjusted, GivenBack
  <2>5. ~GivenBack(c)'
    BY <1>1, <2>4, HandlerFrees
  <2>6. Share(c) = 0 /\ Share(c)' \in Nat /\ Twice(c) = 0 /\ Twice(c)' \in Nat
    BY <1>1, <2>1, <2>2, <2>4, EntryIs
  <2>7. Held(c) = 0 /\ Held(c)' = 0
    BY <1>1, <1>2, <2>2, EntryIs DEF SameList
  <2>8. Locked(c) = 0 /\ Locked(c)' = Twice(c)' + Share(c)'
    BY <1>1, <2>4, <2>5, <2>6, EntryIs
  <2> QED
    BY <2>6, <2>7, <2>8 DEF Settles
<1> QED
  BY <1>3, <1>4

\* The child has reported.
LEMMA SpawnedSettles ==
    ASSUME TypeInv, InheritInv, FlowInv, ChildInv, TypeInv',
           NEW a \in Agents, NEW i, NEW c, NEW s, Tends(a, i, "child_spawned", c, s)
    PROVE  Settles(c)
<1>1. /\ i \in DOMAIN op /\ a \in alive /\ c \in Agents /\ op[i].child = c /\ op[i].by = a
      /\ op[i].kind = "spawn" /\ s = i /\ s \in OpsOn("spawn", c)
      /\ OpsOn("spawn", c) = {s} /\ op[s].amount \in Nat \cup {NA}
      /\ op' = op /\ OpsOn("spawn", c)' = OpsOn("spawn", c)
      /\ HandlesLists(a, i, "child_spawned") /\ Handles(a, i, "child_spawned")
      /\ known[c] \in Nat \cup {NA} /\ stage[s] = "done"
  <2>1. /\ i \in DOMAIN op /\ a \in alive /\ c \in Agents /\ (op[i].kind = "spawn" => s = i)
        /\ OpsOn("spawn", c) = {s} /\ op[s].amount \in Nat \cup {NA}
        /\ op' = op /\ OpsOn("spawn", c)' = OpsOn("spawn", c)
        /\ HandlesLists(a, i, "child_spawned") /\ known[c] \in Nat \cup {NA}
        /\ op[i].kind \in About("child_spawned") /\ Due(a, Msg("child_spawned", i))
    BY TendsFacts
  <2> QED
    BY <2>1 DEF Tends, About, Due, Msg
<1>2. /\ c \in listed' /\ known'[c] = known[c]
      /\ (GivenBack(c)' <=> GivenBack(c)) /\ (Adjusted(c)' <=> Adjusted(c))
      /\ (Freed(c)' <=> Freed(c)) /\ reply'[s] = reply[s]
  <2>1. c \in listed' /\ known'[c] = known[c]
    BY <1>1 DEF HandlesLists
  <2>2. (GivenBack(c)' <=> GivenBack(c)) /\ (Adjusted(c)' <=> Adjusted(c)) /\ (Freed(c)' <=> Freed(c))
    BY <1>1, HandlerFrees
  <2>3. reply'[s] = reply[s]
    BY <1>1 DEF Handles, MovedByMessage, ReplyStays
  <2> QED
    BY <2>1, <2>2, <2>3
<1>3. Share(c)' = Share(c) /\ Share(c) \in Nat
  BY <1>1, <1>2, EntryIs
<1>4. Twice(c)' = Twice(c) /\ Twice(c) \in Nat
  BY <1>1, <1>2, EntryIs
<1>5. Locked(c) = Locked(c)' /\ Locked(c) \in Nat
  BY <1>1, <1>2, <1>3, <1>4, EntryIs
<1>6. c \notin listed /\ Share(c) # 0 => Freed(c)
  <2> SUFFICES ASSUME c \notin listed, Share(c) # 0 PROVE Freed(c)
    OBVIOUS
  <2>1. known[c] = NA
    BY <1>1 DEF ChildInv, ListedInv
  <2>2. reply[s] = "handled"
    BY <1>1, <2>1, EntryIs
  <2>3. ~op[s].batched
    BY <1>1, <2>2 DEF FlowInv, ReplyInv, StageOK
  <2>4. Settled(s) /\ op[s].by \in alive /\ op[s].child = c
    BY <1>1, <2>2, <2>3 DEF Settled
  <2>5. \E j \in OpsOn("dismiss", c) : stage[j] = "done"
    BY <1>1, <2>4 DEF ChildInv, UnlistedInv
  <2> QED
    BY <2>5 DEF Freed
<1>7. /\ Held(c) = IF c \in listed /\ ~Freed(c) THEN Share(c) ELSE 0
      /\ Held(c)' = IF c \in listed' /\ ~Freed(c)' THEN Share(c)' ELSE 0
  BY <1>1, EntryIs
<1>8. Held(c)' <= Held(c)
  BY <1>2, <1>3, <1>6, <1>7
<1> QED
  BY <1>5, <1>8 DEF Settles

\* The start of the child failed: it leaves the list, and its share stays owed.
LEMMA FailedSettles ==
    ASSUME TypeInv, InheritInv, TreeInv, FlowInv, ChildInv, DismissInv, DeathInv, TypeInv',
           NEW a \in Agents, NEW i, NEW c, NEW s, Tends(a, i, "spawn_failed", c, s)
    PROVE  Settles(c)
<1>1. /\ i \in DOMAIN op /\ i \in Ops /\ a \in alive /\ c \in Agents /\ op[i].child = c /\ op[i].by = a
      /\ op[i].kind = "spawn" /\ s = i /\ s \in OpsOn("spawn", c)
      /\ OpsOn("spawn", c) = {s} /\ op[s].amount \in Nat \cup {NA}
      /\ op' = op /\ OpsOn("spawn", c)' = OpsOn("spawn", c)
      /\ HandlesLists(a, i, "spawn_failed") /\ Handles(a, i, "spawn_failed")
      /\ known[c] \in Nat \cup {NA} /\ stage[s] = "failed"
      /\ HasLimit(a) /\ ~Misused(c)
  <2>1. /\ i \in DOMAIN op /\ i \in Ops /\ a \in alive /\ c \in Agents /\ (op[i].kind = "spawn" => s = i)
        /\ OpsOn("spawn", c) = {s} /\ op[s].amount \in Nat \cup {NA}
        /\ op' = op /\ OpsOn("spawn", c)' = OpsOn("spawn", c)
        /\ HandlesLists(a, i, "spawn_failed") /\ known[c] \in Nat \cup {NA}
        /\ op[i].kind \in About("spawn_failed") /\ Due(a, Msg("spawn_failed", i))
    BY TendsFacts
  <2> QED
    BY <2>1 DEF Tends, About, Due, Msg
<1>2. /\ c \notin listed' /\ known'[c] = NA
      /\ (GivenBack(c)' <=> GivenBack(c)) /\ (Adjusted(c)' <=> Adjusted(c))
      /\ reply'[s] = reply[s]
  <2>1. c \notin listed' /\ known'[c] = NA
    BY <1>1 DEF HandlesLists, Unlists
  <2>2. (GivenBack(c)' <=> GivenBack(c)) /\ (Adjusted(c)' <=> Adjusted(c))
    BY <1>1, HandlerFrees
  <2>3. reply'[s] = reply[s]
    BY <1>1 DEF Handles, MovedByMessage, ReplyStays
  <2> QED
    BY <2>1, <2>2, <2>3
<1>3. Adjusted(c) => GivenBack(c)
  <2> SUFFICES ASSUME Adjusted(c) PROVE GivenBack(c)
    OBVIOUS
  <2>1. LostInv(s, a, c)
    BY <1>1 DEF DeathInv, Under
  <2>2. GoneBy(c)
    BY <1>1, <2>1 DEF LostInv, Adjusted
  <2>3. PICK j \in OpsOn("dismiss", c) :
            stage[j] \in {"releasing", "released", "done"} /\ seen[j].mode = "allocated"
    BY <2>2 DEF GoneBy
  <2>4. stage[j] # "releasing"
    <3> SUFFICES ASSUME stage[j] = "releasing" PROVE FALSE
      OBVIOUS
    <3>1. j \in DOMAIN op /\ op[j].kind = "dismiss" /\ op[j].child = c
      BY DEF OpsOn
    <3>2. op[j].by = a /\ j \in Ops
      BY <1>1, <3>1, OwnParent, TakenOps
    <3>3. ProperInv(j, a, c)
      BY <1>1, <3>2 DEF DismissInv, Proper
    <3>4. NotBefore(mailbox[a], Msg("spawn_failed", s), Msg("release", j))
      BY <1>1, <3>3 DEF ProperInv
    <3>5. mailbox[a] \in Seq(Messages) /\ Msg("spawn_failed", s) # Msg("release", j)
      BY DEF TypeInv, LedgerTypeOK, Msg
    <3>6. mailbox[a] # <<>> /\ Head(mailbox[a]) = Msg("spawn_failed", s)
      BY <1>1 DEF Handles
    <3> QED
      BY <3>4, <3>5, <3>6, BeforeKept
  <2> QED
    BY <2>3, <2>4 DEF GivenBack
<1>4. Held(c)' = 0 /\ Held(c) \in Nat
  BY <1>1, <1>2, EntryIs
<1>5. Twice(c)' = Twice(c) /\ Twice(c) \in Nat
  BY <1>1, <1>2, <1>3, EntryIs
<1>6. GivenBack(c) \/ Share(c)' = Share(c)
  <2>1. ~Adjusted(c) /\ known[c] # NA => known[c] = op[s].amount /\ reply[s] = "handled"
    BY <1>1 DEF ChildInv, ListedInv
  <2> QED
    BY <1>1, <1>2, <1>3, <2>1, EntryIs
<1>7. Locked(c)' = Locked(c) /\ Locked(c) \in Nat
  <2>1. /\ Locked(c) = Twice(c) + IF GivenBack(c) THEN 0 ELSE Share(c)
        /\ Locked(c)' = Twice(c)' + IF GivenBack(c)' THEN 0 ELSE Share(c)'
        /\ Share(c) \in Nat
    BY <1>1, EntryIs
  <2> QED
    BY <1>2, <1>5, <1>6, <2>1
<1> QED
  BY <1>4, <1>7 DEF Settles

\* The child was dismissed: it leaves the list, and its share was given back.
LEMMA DismissalSettles ==
    ASSUME TypeInv, InheritInv, FlowInv, DeathInv, TypeInv',
           NEW a \in Agents, NEW i, NEW c, NEW s, Tends(a, i, "child_dismissed", c, s)
    PROVE  Settles(c)
<1>1. /\ i \in DOMAIN op /\ a \in alive /\ c \in Agents /\ op[i].child = c /\ op[i].by = a
      /\ op[i].kind = "dismiss" /\ s \in OpsOn("spawn", c) /\ op[s].by = a /\ s \in Ops
      /\ OpsOn("spawn", c) = {s} /\ op[s].amount \in Nat \cup {NA}
      /\ op' = op /\ OpsOn("spawn", c)' = OpsOn("spawn", c)
      /\ HandlesLists(a, i, "child_dismissed") /\ Handles(a, i, "child_dismissed")
      /\ stage[i] = "done" /\ HasLimit(a) /\ ~Misused(c)
  <2>1. /\ i \in DOMAIN op /\ a \in alive /\ c \in Agents /\ s \in Ops
        /\ OpsOn("spawn", c) = {s} /\ op[s].amount \in Nat \cup {NA}
        /\ op' = op /\ OpsOn("spawn", c)' = OpsOn("spawn", c)
        /\ HandlesLists(a, i, "child_dismissed")
        /\ op[i].kind \in About("child_dismissed") /\ Due(a, Msg("child_dismissed", i))
    BY TendsFacts
  <2> QED
    BY <2>1 DEF Tends, About, Due, Msg
<1>2. GivenBack(c)
  <2>1. i \in OpsOn("dismiss", c)
    BY <1>1 DEF OpsOn
  <2>2. Msg("child_dismissed", i) \in Contents(mailbox[a])
    <3>1. mailbox[a] \in Seq(Messages) /\ mailbox[a] # <<>>
          /\ Head(mailbox[a]) = Msg("child_dismissed", i)
      BY <1>1 DEF TypeInv, LedgerTypeOK, Handles
    <3>2. 1 \in DOMAIN mailbox[a] /\ mailbox[a][1] = Msg("child_dismissed", i)
      BY <3>1
    <3> QED
      BY <3>2 DEF Contents
  <2>3. LostInv(s, a, c)
    BY <1>1 DEF DeathInv, Under
  <2>4. seen[i].mode = "allocated"
    BY <2>1, <2>2, <2>3 DEF LostInv
  <2> QED
    BY <1>1, <2>1, <2>4 DEF GivenBack
<1>3. /\ c \notin listed' /\ known'[c] = NA
      /\ GivenBack(c)' /\ (Adjusted(c)' <=> Adjusted(c))
  <2>1. c \notin listed' /\ known'[c] = NA
    BY <1>1 DEF HandlesLists, Unlists
  <2>2. GivenBack(c)' /\ (Adjusted(c)' <=> Adjusted(c))
    BY <1>1, <1>2, HandlerFrees
  <2> QED
    BY <2>1, <2>2
<1>4. Held(c)' = 0 /\ Held(c) \in Nat
  BY <1>1, <1>3, EntryIs
<1>5. Twice(c)' = Twice(c) /\ Twice(c) \in Nat
  BY <1>1, <1>2, <1>3, EntryIs
<1>6. Locked(c)' = Twice(c) /\ Locked(c) = Twice(c)
  BY <1>1, <1>2, <1>3, <1>5, EntryIs
<1> QED
  BY <1>4, <1>5, <1>6 DEF Settles

\* An adjustment: the escrow moves by the difference to what was known.
LEMMA AdjustShifts ==
    ASSUME TypeInv, InheritInv, TreeInv, FlowInv, BusyInv, LimitInv, TypeInv',
           NEW a \in Agents, NEW i, NEW c, NEW s, Tends(a, i, "adjust", c, s),
           Adjusts(a, i, "adjust")
    PROVE  \E d \in Int : CommitsBy(a, d) /\ Shifts(c, d)
<1>1. /\ i \in DOMAIN op /\ i \in Ops /\ a \in alive /\ c \in Agents /\ op[i].child = c /\ op[i].by = a
      /\ op[i].kind = "adjust" /\ s \in OpsOn("spawn", c)
      /\ OpsOn("spawn", c) = {s} /\ op[s].amount \in Nat \cup {NA}
      /\ op' = op /\ OpsOn("spawn", c)' = OpsOn("spawn", c)
      /\ HandlesLists(a, i, "adjust") /\ HandlesBudget(a, i, "adjust") /\ Handles(a, i, "adjust")
      /\ budget[a] \in Budgets /\ known[c] \in Nat \cup {NA}
      /\ stage[i] = "calling" /\ stage'[i] = "done" /\ HasLimit(a) /\ ~Misused(c) /\ s # i
  <2>1. /\ i \in DOMAIN op /\ i \in Ops /\ a \in alive /\ c \in Agents
        /\ OpsOn("spawn", c) = {s} /\ op[s].amount \in Nat \cup {NA} /\ op[s].kind = "spawn"
        /\ op' = op /\ OpsOn("spawn", c)' = OpsOn("spawn", c)
        /\ HandlesLists(a, i, "adjust") /\ HandlesBudget(a, i, "adjust")
        /\ budget[a] \in Budgets /\ known[c] \in Nat \cup {NA}
        /\ op[i].kind \in About("adjust") /\ Due(a, Msg("adjust", i)) /\ MovedByMessage(i, "adjust")
    BY TendsFacts
  <2> QED
    BY <2>1 DEF Tends, About, Due, Msg, MovedByMessage
<1>2. i \in OpsOn("adjust", c)
  BY <1>1 DEF OpsOn
<1>3. OpsOn("dismiss", c) = {}
  BY <1>1, <1>2, AdjustedAlone
<1>4. /\ ~Freed(c) /\ ~GivenBack(c) /\ ~Freed(c)' /\ ~GivenBack(c)' /\ Adjusted(c)'
  <2>1. OpsOn("dismiss", c)' = {} /\ i \in OpsOn("adjust", c)'
    BY <1>1, <1>2, <1>3, HandlesKeeps
  <2> QED
    BY <1>1, <1>3, <2>1 DEF Adjusted, Freed, GivenBack
<1> PICK new : new = op[i].amount
  OBVIOUS
<1> PICK cur : cur = Current(c)
  OBVIOUS
<1>5. new \in Nat /\ new # NA
  <2>1. op[i].amount \in Amounts
    BY <1>1, TakenOps DEF OpFacts
  <2>2. new \in Nat
    BY <2>1
  <2> QED
    BY <2>2 DEF NA
<1>6. cur \in Nat /\ cur = IF known[c] = NA THEN 0 ELSE known[c]
  BY <1>1 DEF Current
<1>7. c \in listed /\ c \in listed' /\ known'[c] = new
  BY <1>1 DEF HandlesLists
<1> PICK d : d = new - cur
  OBVIOUS
<1>8. d \in Int
  BY <1>5, <1>6
<1>9. CommitsBy(a, d)
  <2>1. budget'[a] = AdjustEscrow(budget[a], cur, new)
    BY <1>1 DEF HandlesBudget, Adjusts
  <2>2. budget[a].allocated # NA
    BY <1>1 DEF LimitInv, HasLimit
  <2>3. AdjustEscrow(budget[a], cur, new).committed =
            IF new >= cur THEN budget[a].committed + (new - cur)
            ELSE IF budget[a].committed < cur - new THEN 0
            ELSE budget[a].committed - (cur - new)
    BY <1>1, <1>5, <1>6, <2>2, CommittedAfter
  <2>4. budget[a].committed \in Nat
    BY <1>1 DEF Budgets
  <2> QED
    BY <1>5, <1>6, <2>1, <2>3, <2>4 DEF CommitsBy
<1>10. /\ Share(c)' = new /\ Share(c) \in Nat /\ Share(c) >= cur
       /\ (known[c] # NA => Share(c) = cur)
       /\ (known[c] = NA => Share(c) = 0 \/ (op[s].amount # NA /\ Share(c) = op[s].amount))
  BY <1>1, <1>5, <1>6, <1>7, EntryIs
<1>11. Held(c) = Share(c) /\ Held(c)' = new
  BY <1>1, <1>4, <1>7, <1>10, EntryIs
<1>12. /\ Twice(c) \in Nat
       /\ Twice(c)' = IF op[s].amount # NA THEN op[s].amount ELSE 0
       /\ (known[c] = NA => Twice(c) = 0) /\ Twice(c) <= Twice(c)'
  <2>1. /\ Twice(c) = IF Adjusted(c) /\ (known[c] # NA \/ GivenBack(c)) /\ op[s].amount # NA
                      THEN op[s].amount ELSE 0
        /\ Twice(c)' = IF Adjusted(c)' /\ (known'[c] # NA \/ GivenBack(c)') /\ op[s].amount # NA
                       THEN op[s].amount ELSE 0
    BY <1>1, EntryIs
  <2> QED
    BY <1>1, <1>4, <1>5, <1>7, <2>1
<1>13. Locked(c) = Twice(c) + Share(c) /\ Locked(c)' = Twice(c)' + new
  <2>1. /\ Locked(c) = Twice(c) + IF GivenBack(c) THEN 0 ELSE Share(c)
        /\ Locked(c)' = Twice(c)' + IF GivenBack(c)' THEN 0 ELSE Share(c)'
    BY <1>1, EntryIs
  <2> QED
    BY <1>4, <1>10, <2>1
<1>14. Twice(c) + Share(c) - cur <= Twice(c)' /\ Twice(c)' \in Nat
  BY <1>1, <1>6, <1>10, <1>12
<1>15. Shifts(c, d)
  BY <1>5, <1>6, <1>10, <1>11, <1>12, <1>13, <1>14 DEF Shifts
<1> QED
  BY <1>8, <1>9, <1>15

\* The release: what the dismissal read is the child's share.
LEMMA ReleaseShifts ==
    ASSUME TypeInv, InheritInv, FlowInv, DismissInv, TypeInv',
           NEW a \in Agents, NEW i, NEW c, NEW s, Tends(a, i, "release", c, s)
    PROVE  \E d \in Int : CommitsBy(a, d) /\ Shifts(c, d)
<1>1. /\ i \in DOMAIN op /\ i \in Ops /\ a \in alive /\ c \in Agents /\ op[i].child = c /\ op[i].by = a
      /\ op[i].kind = "dismiss" /\ s \in OpsOn("spawn", c)
      /\ OpsOn("spawn", c) = {s} /\ op[s].amount \in Nat \cup {NA}
      /\ op' = op /\ OpsOn("spawn", c)' = OpsOn("spawn", c)
      /\ HandlesLists(a, i, "release") /\ HandlesBudget(a, i, "release") /\ Handles(a, i, "release")
      /\ budget[a] \in Budgets
      /\ stage[i] = "releasing" /\ stage'[i] = "released" /\ HasLimit(a) /\ ~Misused(c)
  <2>1. /\ i \in DOMAIN op /\ i \in Ops /\ a \in alive /\ c \in Agents
        /\ OpsOn("spawn", c) = {s} /\ op[s].amount \in Nat \cup {NA}
        /\ op' = op /\ OpsOn("spawn", c)' = OpsOn("spawn", c)
        /\ HandlesLists(a, i, "release") /\ HandlesBudget(a, i, "release")
        /\ budget[a] \in Budgets
        /\ op[i].kind \in About("release") /\ Due(a, Msg("release", i)) /\ MovedByMessage(i, "release")
    BY TendsFacts
  <2> QED
    BY <2>1 DEF Tends, About, Due, Msg, MovedByMessage
<1>2. i \in OpsOn("dismiss", c) /\ i \in OpsOn("dismiss", c)'
  <2>1. i \in OpsOn("dismiss", c)
    BY <1>1 DEF OpsOn
  <2> QED
    BY <1>1, <2>1, HandlesKeeps
<1>3. ProperInv(i, a, c)
  BY <1>1, <1>2 DEF DismissInv, Proper
<1>4. seen[i].allocated = Share(c) /\ seen[i].mode = "allocated" /\ c \in listed
  BY <1>1, <1>3 DEF ProperInv, Knowing
<1>5. ~Freed(c) /\ ~GivenBack(c)
  <2>1. \A k \in OpsOn("dismiss", c) : stage[k] = "releasing"
    BY <1>1, <1>2, DismissedOnce
  <2> QED
    BY <2>1 DEF Freed, GivenBack
<1>6. Freed(c)' /\ GivenBack(c)' /\ (Adjusted(c)' <=> Adjusted(c))
  <2>1. seen' = seen
    BY <1>1 DEF Handles
  <2>2. Adjusted(c)' <=> Adjusted(c)
    BY <1>1, HandlerFrees
  <2> QED
    BY <1>1, <1>2, <1>4, <2>1, <2>2 DEF Freed, GivenBack
<1>7. SameList(c)
  BY <1>1 DEF HandlesLists, Unlists, Adjusts
<1> PICK n : n = Share(c)
  OBVIOUS
<1>8. n \in Nat
  BY <1>1, SharesAreNatural
<1> PICK d : d = 0 - n
  OBVIOUS
<1>9. d \in Int
  BY <1>8
<1>10. CommitsBy(a, d)
  <2>1. budget'[a] = ReleaseCommitted(budget[a], n)
    BY <1>1, <1>4 DEF HandlesBudget, Adjusts
  <2>2. ReleaseCommitted(budget[a], n).committed =
            IF budget[a].committed < n THEN 0 ELSE budget[a].committed - n
    BY <1>1, <1>8, CommittedAfter
  <2>3. budget[a].committed \in Nat
    BY <1>1 DEF Budgets
  <2> QED
    BY <1>8, <2>1, <2>2, <2>3 DEF CommitsBy
<1>11. Held(c) = n /\ Held(c)' = 0
  BY <1>1, <1>4, <1>5, <1>6, EntryIs
<1>12. Twice(c) <= Twice(c)' /\ Twice(c) \in Nat /\ Twice(c)' \in Nat
  <2>1. /\ Twice(c) = IF Adjusted(c) /\ (known[c] # NA \/ GivenBack(c)) /\ op[s].amount # NA
                      THEN op[s].amount ELSE 0
        /\ Twice(c)' = IF Adjusted(c)' /\ (known'[c] # NA \/ GivenBack(c)') /\ op[s].amount # NA
                       THEN op[s].amount ELSE 0
    BY <1>1, EntryIs
  <2> QED
    BY <1>1, <1>6, <2>1
<1>13. Locked(c) = Twice(c) + n /\ Locked(c)' = Twice(c)' + 0
  <2>1. /\ Locked(c) = Twice(c) + IF GivenBack(c) THEN 0 ELSE Share(c)
        /\ Locked(c)' = Twice(c)' + IF GivenBack(c)' THEN 0 ELSE Share(c)'
    BY <1>1, EntryIs
  <2> QED
    BY <1>5, <1>6, <2>1
<1>14. Shifts(c, d)
  BY <1>8, <1>11, <1>12, <1>13 DEF Shifts
<1> QED
  BY <1>9, <1>10, <1>14

\* The agent the message is about is the child of who handles it, except for
\* what a child is asked or told.
LEMMA TendsChild ==
    ASSUME TypeInv, InheritInv, TreeInv, FlowInv, NEW a \in Agents, NEW i, NEW type, Handles(a, i, type),
           type \notin {"get_state", "set_allocated"}
    PROVE  /\ op[i].by = a /\ ParentOf(op[i].child) = a /\ op[i].child \in ChildrenOf(a)
           /\ \E s \in OpsOn("spawn", op[i].child) : op[s].by = a
<1>1. /\ i \in DOMAIN op /\ type \in MessageTypes /\ op[i].kind \in About(type) /\ Due(a, Msg(type, i))
  BY DEF Handles
<1>2. op[i].by = a
  BY <1>1 DEF Due, Msg, MessageTypes
<1>3. PICK s \in OpsOn("spawn", op[i].child) : op[s].by = a
  <2>1. CASE op[i].kind = "spawn"
    BY <1>1, <1>2, <2>1 DEF OpsOn
  <2>2. CASE op[i].kind # "spawn"
    BY <1>1, <1>2, <2>2, OwnSpawn
  <2> QED
    BY <2>1, <2>2
<1>4. ParentOf(op[i].child) = a /\ op[i].child \in Agents
  BY <1>3, SpawnIs
<1> QED
  BY <1>2, <1>3, <1>4 DEF ChildrenOf, IsSpawned

LEMMA HandlerBalance ==
    ASSUME TypeInv, InheritInv, TreeInv, FlowInv, BusyInv, LimitInv, ChildInv, DismissInv, DeathInv,
           BalanceInv, TypeInv', InheritInv',
           NEW a \in Agents, NEW i, NEW type, Handles(a, i, type)
    PROVE  BalanceInv'
<1>1. /\ op' = op /\ alive' = alive
      /\ \A c : ChildrenOf(c)' = ChildrenOf(c)
      /\ \A c : Misused(c)' = Misused(c)
      /\ \A b \in Agents : /\ budget'[b].mode = budget[b].mode
                           /\ \/ budget'[b].committed = budget[b].committed
                              \/ b = a /\ (type = "result" \/ type = "release" \/ Adjusts(a, i, type))
  BY HandlesKeeps
<1>2. /\ torn' = torn /\ i \in DOMAIN op /\ type \in MessageTypes
      /\ HandlesLists(a, i, type) /\ HandlesBudget(a, i, type)
  BY DEF Handles
<1> SUFFICES ASSUME NEW p \in Agents, Good(p)' PROVE BalanceAt(p)'
  BY DEF BalanceInv
<1>3. Good(p)
  BY <1>1, <1>2 DEF Good, HasLimit
<1>4. BalanceAt(p)
  BY <1>3 DEF BalanceInv
<1>5. ASSUME NEW x \in ChildrenOf(p),
             x = op[i].child => type \notin {"result", "release"} /\ SameList(x)
      PROVE  Settles(x)
  <2>1. PICK s : s \in OpsOn("spawn", x)
    BY DEF ChildrenOf, IsSpawned
  <2>2. x \in Agents /\ op[s].child = x
    BY <2>1, SpawnIs DEF ChildrenOf
  <2>3. SameList(x)
    BY <1>2, <1>5, <2>2 DEF HandlesLists
  <2>4. ~(type = "result" /\ s = i) /\ ~(type = "release" /\ op[i].child = x)
    BY <1>5, <2>2
  <2> QED
    BY <2>1, <2>2, <2>3, <2>4, OtherEntries DEF Settles
<1>6. ASSUME budget'[p].committed = budget[p].committed, \A x \in ChildrenOf(p) : Settles(x)
      PROVE  BalanceAt(p)'
  <2>1. Level(p)
    BY <1>6 DEF Level, Settles
  <2> QED
    BY <1>1, <1>4, <2>1, BalanceRests
<1>7. CASE type \in {"get_state", "set_allocated"}
  <2>1. budget'[p].committed = budget[p].committed
    BY <1>1, <1>7 DEF Adjusts
  <2>2. SameList(op[i].child)
    BY <1>2, <1>7 DEF HandlesLists, Unlists, Adjusts
  <2> QED
    BY <1>5, <1>6, <1>7, <2>1, <2>2
<1>8. CASE type \notin {"get_state", "set_allocated"} /\ p # a
  <2>1. budget'[p].committed = budget[p].committed
    BY <1>1, <1>8
  <2>2. op[i].child \notin ChildrenOf(p)
    BY <1>8, TendsChild DEF ChildrenOf
  <2> QED
    BY <1>5, <1>6, <2>1, <2>2
<1>9. CASE type \notin {"get_state", "set_allocated"} /\ p = a
  <2> PICK c : c = op[i].child
    OBVIOUS
  <2>1. PICK s \in OpsOn("spawn", c) : op[s].by = a
    BY <1>9, TendsChild
  <2>2. c \in ChildrenOf(p) /\ op[i].by = a
    BY <1>9, TendsChild
  <2>3. Tends(a, i, type, c, s)
    BY <1>3, <1>9, <2>1, <2>2 DEF Tends, Good
  <2>4. ASSUME NEW d \in Int, CommitsBy(a, d), Shifts(c, d)
        PROVE  BalanceAt(p)'
    <3>1. Balanced(p, c, d)
      BY <1>5, <1>9, <2>4 DEF Balanced, CommitsBy, Shifts, Settles
    <3> QED
      BY <1>1, <1>4, <2>2, <3>1, BalanceMoves
  <2>5. ASSUME budget'[p].committed = budget[p].committed, Settles(c)
        PROVE  BalanceAt(p)'
    BY <1>5, <1>6, <2>5
  <2>6. CASE type = "result" /\ TracksChild(i)
    BY <2>3, <2>4, <2>6, ResultShifts
  <2>7. CASE type = "result" /\ ~TracksChild(i)
    <3>1. budget'[p] = budget[p]
      BY <1>2, <1>9, <2>7 DEF HandlesBudget, Adjusts
    <3>2. Settles(c)
      BY <2>3, <2>7, RejectionSettles
    <3> QED
      BY <2>5, <3>1, <3>2
  <2>8. CASE type \in {"child_spawned", "spawn_failed", "child_dismissed"}
    <3>1. budget'[p].committed = budget[p].committed
      BY <1>1, <2>8 DEF Adjusts
    <3>2. Settles(c)
      BY <2>3, <2>8, SpawnedSettles, FailedSettles, DismissalSettles
    <3> QED
      BY <2>5, <3>1, <3>2
  <2>9. CASE type = "adjust" /\ Adjusts(a, i, type)
    BY <2>3, <2>4, <2>9, AdjustShifts
  <2>10. CASE type = "adjust" /\ ~Adjusts(a, i, type)
    <3>1. budget'[p].committed = budget[p].committed
      BY <1>1, <2>10
    <3>2. SameList(c)
      BY <1>2, <2>10 DEF HandlesLists, Unlists
    <3>3. Settles(c)
      BY <1>5, <2>2, <2>10, <3>2
    <3> QED
      BY <2>5, <3>1, <3>3
  <2>11. CASE type = "release"
    BY <2>3, <2>4, <2>11, ReleaseShifts
  <2> QED
    BY <1>2, <1>9, <2>6, <2>7, <2>8, <2>9, <2>10, <2>11 DEF MessageTypes
<1> QED
  BY <1>7, <1>8, <1>9

LEMMA RestBalance ==
    ASSUME TypeInv, InheritInv, BalanceInv, TypeInv', InheritInv', RestStep
    PROVE  BalanceInv'
<1>1. /\ UNCHANGED <<op, stage, reply, alive, listed, known, seen>>
      /\ \A b \in Agents \ {Root} : budget'[b] = budget[b]
      /\ budget'[Root].committed = budget[Root].committed \/ torn'
      /\ torn => torn'
      /\ budget'[Root] = budget[Root] \/ (\E e \in edit : budget'[Root] = e)
  BY DEF RestStep
<1>2. /\ \A kind, c : OpsOn(kind, c)' = OpsOn(kind, c)
      /\ \A c : ParentOf(c)' = ParentOf(c) /\ ChildrenOf(c)' = ChildrenOf(c)
      /\ \A c : Misused(c)' = Misused(c)
  BY <1>1, OpsKept
<1>3. budget'[Root].mode = budget[Root].mode
  BY <1>1 DEF InheritInv, EditKeepsMode
<1> SUFFICES ASSUME NEW p \in Agents, Good(p)' PROVE BalanceAt(p)'
  BY DEF BalanceInv
<1>4. Good(p) /\ budget'[p].committed = budget[p].committed
  BY <1>1, <1>2, <1>3 DEF Good, HasLimit
<1>5. BalanceAt(p)
  BY <1>4 DEF BalanceInv
<1>6. ASSUME NEW x \in ChildrenOf(p) PROVE Held(x)' <= Held(x) /\ Locked(x) <= Locked(x)'
  <2>1. PICK s : s \in OpsOn("spawn", x)
    BY DEF ChildrenOf, IsSpawned
  <2>2. x \in Agents /\ SameList(x)
    BY <1>1 DEF ChildrenOf, SameList
  <2>3. Adjusted(x) => Adjusted(x)'
    BY <1>1, <1>2 DEF Adjusted
  <2>4. GivenBack(x)' <=> GivenBack(x)
    BY <1>1, <1>2 DEF GivenBack
  <2>5. Freed(x) => Freed(x)'
    BY <1>1, <1>2 DEF Freed
  <2> QED
    BY <1>1, <1>2, <2>1, <2>2, <2>3, <2>4, <2>5, SameHeld
<1>7. Level(p)
  BY <1>4, <1>6 DEF Level
<1> QED
  BY <1>2, <1>5, <1>7, BalanceRests

-----------------------------------------------------------------------------
(* Every step keeps all of this *)

EscrowInv == ChildInv /\ ToldInv /\ SeenInv /\ DismissInv /\ DeathInv /\ BalanceInv

LEMMA EscrowPreserved ==
    ASSUME TypeInv, InheritInv, TreeInv, FlowInv, BusyInv, LimitInv,
           TypeInv', InheritInv', FlowInv', EscrowInv, [Next]_vars
    PROVE  EscrowInv'
<1>1. ChildInv /\ ToldInv /\ SeenInv /\ DismissInv /\ DeathInv /\ BalanceInv
  BY DEF EscrowInv
<1>2. SeenInv'
  BY <1>1, SeenPreserved
<1>3. ASSUME NEW a \in Agents, Takes(a) PROVE EscrowInv'
  <2>1. ChildInv' /\ ToldInv'
    BY <1>1, <1>3, TakingChild, TakingTold
  <2>2. DismissInv' /\ DeathInv'
    BY <1>1, <1>3, TakingDismiss, TakingDeath
  <2>3. BalanceInv'
    BY <1>1, <1>3, TakingBalance
  <2> QED
    BY <1>2, <2>1, <2>2, <2>3 DEF EscrowInv
<1>4. ASSUME NEW j \in Ops, OpStep(j) PROVE EscrowInv'
  <2>1. ChildInv' /\ ToldInv'
    BY <1>1, <1>4, OpChild, OpTold
  <2>2. DismissInv' /\ DeathInv'
    BY <1>1, <1>4, OpDismiss, OpDeath
  <2>3. BalanceInv'
    BY <1>1, <1>4, OpBalance
  <2> QED
    BY <1>2, <2>1, <2>2, <2>3 DEF EscrowInv
<1>5. ASSUME NEW a \in Agents, Handlers(a) PROVE EscrowInv'
  <2>1. PICK i \in DOMAIN op, type \in MessageTypes : Handles(a, i, type)
    BY <1>5, HandlerView
  <2>2. ChildInv'
    BY <1>1, <2>1, HandlerChild
  <2>3. ToldInv'
    BY <1>1, <2>1, <2>2, HandlerTold
  <2>4. DismissInv'
    BY <1>1, <2>1, <2>3, HandlerDismiss
  <2>5. DeathInv'
    BY <1>1, <2>1, HandlerDeath
  <2>6. BalanceInv'
    BY <1>1, <2>1, HandlerBalance
  <2> QED
    BY <1>2, <2>2, <2>3, <2>4, <2>5, <2>6 DEF EscrowInv
<1>6. ASSUME RestStep PROVE EscrowInv'
  BY <1>1, <1>2, <1>6, RestChild, RestTold, RestDismiss, RestDeath, RestBalance DEF EscrowInv
<1>7. \/ \E a \in Agents : Takes(a) \/ Handlers(a)
      \/ \E j \in Ops : OpStep(j)
      \/ RestStep
  BY WhatIsTaken, RestView DEF Next, AgentStep, Handlers
<1> QED
  BY <1>3, <1>4, <1>5, <1>6, <1>7

LEMMA InitEscrow == Init => EscrowInv
<1> SUFFICES ASSUME Init PROVE EscrowInv
  OBVIOUS
<1>1. op = <<>> /\ DOMAIN op = {} /\ \A kind, c : OpsOn(kind, c) = {}
  BY DEF Init, OpsOn
<1>2. \A p : ChildrenOf(p) = {}
  BY <1>1 DEF ChildrenOf, IsSpawned
<1>3. ChildInv
  <2>1. LivingStarted /\ FirstAllocation /\ AdjustsStarted /\ UnlistedInv /\ GoneInv
    BY <1>1 DEF LivingStarted, FirstAllocation, AdjustsStarted, UnlistedInv, GoneInv
  <2>2. ListedInv
    BY DEF Init, ListedInv
  <2> QED
    BY <2>1, <2>2 DEF ChildInv
<1>4. ToldInv /\ DismissInv /\ DeathInv
  BY <1>1 DEF ToldInv, DismissInv, DeathInv, Proper, Under
<1>5. SeenInv
  BY DEF Init, SeenInv
<1>6. BalanceInv
  <2> SUFFICES ASSUME NEW p \in Agents PROVE BalanceAt(p)
    BY DEF BalanceInv
  <2>1. budget[p].committed = 0
    BY DEF Init, NewRoot, NewChild
  <2>2. Total(HeldBy, ChildrenOf(p)) = 0 /\ Total(LockedBy, ChildrenOf(p)) = 0
    BY <1>2, TotalEmpty
  <2> QED
    BY <2>1, <2>2 DEF BalanceAt
<1> QED
  BY <1>3, <1>4, <1>5, <1>6 DEF EscrowInv

-----------------------------------------------------------------------------
(* The sums of the properties *)

LEMMA ShareSum ==
    ASSUME NEW S \in SUBSET Agents
    PROVE  MapThenSumSet(Share, S) = Total([c \in Agents |-> Share(c)], S)
<1> DEFINE f == [c \in Agents |-> Share(c)]
           it == CHOOSE g : g = [s \in SUBSET S |->
                   IF s = {} THEN 0
                   ELSE Share(CHOOSE x \in s : TRUE) + g[s \ {CHOOSE x \in s : TRUE}]]
<1>0. IsFiniteSet(S)
  BY FS_Subset
<1>1. MapThenSumSet(Share, S) = it[S]
  BY DEF MapThenSumSet, MapThenFoldSet
<1>2. \A s \in SUBSET S : s # {} => f[CHOOSE x \in s : TRUE] = Share(CHOOSE x \in s : TRUE)
  OBVIOUS
<1>3. ASSUME NEW g
      PROVE  Adds(f, S, g) <=> g = [s \in SUBSET S |->
                   IF s = {} THEN 0
                   ELSE Share(CHOOSE x \in s : TRUE) + g[s \ {CHOOSE x \in s : TRUE}]]
  <2> HIDE DEF f
  <2> QED
    BY <1>2 DEF Adds, Step, Some
<1>4. Adds(f, S, it)
  <2>1. \E g : Adds(f, S, g)
    BY <1>0, Solvable
  <2> QED
    BY <1>3, <2>1
<1> HIDE DEF it, f
<1>5. Total(f, S) = it[S]
  BY <1>0, <1>4, TotalIs
<1> QED
  BY <1>1, <1>5 DEF f

LEMMA OwedSum ==
    ASSUME NEW S \in SUBSET Agents
    PROVE  MapThenSumSet(Owed, S) = Total([c \in Agents |-> Owed(c)], S)
<1> DEFINE f == [c \in Agents |-> Owed(c)]
           it == CHOOSE g : g = [s \in SUBSET S |->
                   IF s = {} THEN 0
                   ELSE Owed(CHOOSE x \in s : TRUE) + g[s \ {CHOOSE x \in s : TRUE}]]
<1>0. IsFiniteSet(S)
  BY FS_Subset
<1>1. MapThenSumSet(Owed, S) = it[S]
  BY DEF MapThenSumSet, MapThenFoldSet
<1>2. \A s \in SUBSET S : s # {} => f[CHOOSE x \in s : TRUE] = Owed(CHOOSE x \in s : TRUE)
  OBVIOUS
<1>3. ASSUME NEW g
      PROVE  Adds(f, S, g) <=> g = [s \in SUBSET S |->
                   IF s = {} THEN 0
                   ELSE Owed(CHOOSE x \in s : TRUE) + g[s \ {CHOOSE x \in s : TRUE}]]
  <2> HIDE DEF f
  <2> QED
    BY <1>2 DEF Adds, Step, Some
<1>4. Adds(f, S, it)
  <2>1. \E g : Adds(f, S, g)
    BY <1>0, Solvable
  <2> QED
    BY <1>3, <2>1
<1> HIDE DEF it, f
<1>5. Total(f, S) = it[S]
  BY <1>0, <1>4, TotalIs
<1> QED
  BY <1>1, <1>5 DEF f

\* The amount a child was spawned with, as the sum over its one spawn.
LEMMA SpawnSum ==
    ASSUME NEW s \in Ops
    PROVE  MapThenSumSet(LAMBDA i : IF op[i].amount = NA THEN 0 ELSE op[i].amount, {s})
              = (IF op[s].amount = NA THEN 0 ELSE op[s].amount) + 0
<1> DEFINE S == {s}
           f == [i \in Ops |-> IF op[i].amount = NA THEN 0 ELSE op[i].amount]
           it == CHOOSE g : g = [t \in SUBSET S |->
                   IF t = {} THEN 0
                   ELSE (IF op[CHOOSE x \in t : TRUE].amount = NA THEN 0 ELSE op[CHOOSE x \in t : TRUE].amount)
                        + g[t \ {CHOOSE x \in t : TRUE}]]
<1>0. IsFiniteSet(S)
  BY FS_Singleton
<1>1. MapThenSumSet(LAMBDA i : IF op[i].amount = NA THEN 0 ELSE op[i].amount, S) = it[S]
  BY DEF MapThenSumSet, MapThenFoldSet
<1>2. \A t \in SUBSET S : t # {} => f[CHOOSE x \in t : TRUE] =
          IF op[CHOOSE x \in t : TRUE].amount = NA THEN 0 ELSE op[CHOOSE x \in t : TRUE].amount
  OBVIOUS
<1>3. ASSUME NEW g
      PROVE  Adds(f, S, g) <=> g = [t \in SUBSET S |->
                   IF t = {} THEN 0
                   ELSE (IF op[CHOOSE x \in t : TRUE].amount = NA THEN 0 ELSE op[CHOOSE x \in t : TRUE].amount)
                        + g[t \ {CHOOSE x \in t : TRUE}]]
  <2> HIDE DEF f, S
  <2> QED
    BY <1>2 DEF Adds, Step, Some
<1>4. Adds(f, S, it)
  <2>1. \E g : Adds(f, S, g)
    BY <1>0, Solvable
  <2> QED
    BY <1>3, <2>1
<1>5. (CHOOSE x \in {s} : TRUE) = s /\ {s} \ {s} = {}
  OBVIOUS
<1>6. f[s] = IF op[s].amount = NA THEN 0 ELSE op[s].amount
  OBVIOUS
<1> HIDE DEF it, f
<1>7. it[{}] = 0 /\ it[{s}] = f[s] + it[{}]
  BY <1>4, <1>5 DEF Adds, Step, Some
<1> QED
  BY <1>1, <1>6, <1>7

\* What is locked for a child is no more than what is owed for it.
LEMMA LockedIsOwed ==
    ASSUME TypeInv, InheritInv, TreeInv, NEW c \in Agents
    PROVE  Owed(c) \in Nat /\ Locked(c) <= Owed(c)
<1>1. Share(c) \in Nat
  BY SharesAreNatural
<1>2. Locked(c) = Twice(c) + IF GivenBack(c) THEN 0 ELSE Share(c)
  BY DEF Locked
<1>3. CASE OpsOn("spawn", c) = {}
  <2>1. OpsOn("adjust", c) = {}
    <3> SUFFICES ASSUME NEW j \in OpsOn("adjust", c) PROVE FALSE
      OBVIOUS
    <3>1. j \in DOMAIN op /\ op[j].kind # "spawn" /\ op[j].child = c
      BY DEF OpsOn
    <3> QED
      BY <1>3, <3>1, OwnSpawn
  <2>2. Owed(c) = 0 + IF GivenBack(c) THEN 0 ELSE Share(c)
    BY <2>1 DEF Owed
  <2>3. Twice(c) = 0
    BY <1>3 DEF Twice
  <2> QED
    BY <1>1, <1>2, <2>2, <2>3
<1>4. ASSUME NEW s \in OpsOn("spawn", c) PROVE Owed(c) \in Nat /\ Locked(c) <= Owed(c)
  <2>1. OpsOn("spawn", c) = {s} /\ op[s].amount \in Amounts \cup {NA} /\ s \in Ops
    BY SpawnIs
  <2>2. op[s].amount \in Nat \cup {NA}
    BY <2>1
  <2> PICK amount : amount = IF op[s].amount = NA THEN 0 ELSE op[s].amount
    OBVIOUS
  <2>3. amount \in Nat
    BY <2>2
  <2>4. MapThenSumSet(LAMBDA i : IF op[i].amount = NA THEN 0 ELSE op[i].amount, {s}) = amount + 0
    BY <2>1, SpawnSum
  <2>5. Owed(c) = (IF OpsOn("adjust", c) = {} THEN 0 ELSE amount + 0)
                  + IF GivenBack(c) THEN 0 ELSE Share(c)
    BY <2>1, <2>4 DEF Owed
  <2>6. Twice(c) = IF Adjusted(c) /\ (known[c] # NA \/ GivenBack(c)) /\ op[s].amount # NA
                   THEN op[s].amount ELSE 0
    BY <2>1, TwiceIs
  <2>7. Adjusted(c) => OpsOn("adjust", c) # {}
    BY DEF Adjusted
  <2>8. CASE OpsOn("adjust", c) = {}
    <3>1. Twice(c) = 0
      BY <2>6, <2>7, <2>8
    <3> QED
      BY <1>1, <1>2, <2>5, <2>8, <3>1
  <2>9. CASE OpsOn("adjust", c) # {}
    <3>1. Twice(c) \in Nat /\ Twice(c) <= amount
      BY <2>2, <2>6
    <3> QED
      BY <1>1, <1>2, <2>3, <2>5, <2>9, <3>1
  <2> QED
    BY <2>8, <2>9
<1> QED
  BY <1>3, <1>4

LEMMA BalanceCovers ==
    ASSUME TypeInv, InheritInv, EscrowInv
    PROVE  EscrowCoversChildren
<1> SUFFICES ASSUME NEW p \in Agents, Good(p)
             PROVE  budget[p].committed >= MapThenSumSet(Share, Holding(p))
  BY DEF EscrowCoversChildren, Good
<1> DEFINE f == [c \in Agents |-> Share(c)]
<1>1. budget[p].committed >= Total(HeldBy, ChildrenOf(p)) /\ budget[p].committed \in Nat
  BY DEF EscrowInv, BalanceInv, BalanceAt, TypeInv, LedgerTypeOK, Budgets
<1>2. Holding(p) \in SUBSET ChildrenOf(p) /\ ChildrenOf(p) \in SUBSET Agents
      /\ IsFiniteSet(ChildrenOf(p)) /\ IsFiniteSet(Holding(p))
  <2>1. Holding(p) \subseteq ChildrenOf(p)
    BY DEF Holding
  <2> QED
    BY <2>1, ChildrenAreAgents, FS_Subset
<1>3. Agree(f, HeldBy, Holding(p))
  BY <1>2 DEF Agree, HeldBy, Held, Holding
<1>4. HeldBy \in [Agents -> Nat]
  BY BalanceTypes
<1> HIDE DEF f
<1>5. Total(f, Holding(p)) = Total(HeldBy, Holding(p))
  BY <1>2, <1>3, TotalSame
<1>6. Total(HeldBy, Holding(p)) <= Total(HeldBy, ChildrenOf(p))
  BY <1>2, <1>4, TotalOfPart
<1>7. Total(HeldBy, Holding(p)) \in Nat /\ Total(HeldBy, ChildrenOf(p)) \in Nat
  <2>1. Holding(p) \in SUBSET Agents
    BY <1>2
  <2> QED
    BY <1>2, <1>4, <2>1, TotalNatural
<1>8. MapThenSumSet(Share, Holding(p)) = Total(f, Holding(p))
  <2>1. Holding(p) \in SUBSET Agents
    BY <1>2
  <2> QED
    BY <2>1, ShareSum DEF f
<1> QED
  BY <1>1, <1>5, <1>6, <1>7, <1>8

LEMMA BalanceIsOwed ==
    ASSUME TypeInv, InheritInv, TreeInv, EscrowInv
    PROVE  EscrowIsOwed
<1> SUFFICES ASSUME NEW p \in Agents, Good(p)
             PROVE  budget[p].committed <= MapThenSumSet(Owed, ChildrenOf(p))
  BY DEF EscrowIsOwed, Good
<1> DEFINE f == [c \in Agents |-> Owed(c)]
<1>1. budget[p].committed <= Total(LockedBy, ChildrenOf(p)) /\ budget[p].committed \in Nat
  BY DEF EscrowInv, BalanceInv, BalanceAt, TypeInv, LedgerTypeOK, Budgets
<1>2. ChildrenOf(p) \in SUBSET Agents /\ IsFiniteSet(ChildrenOf(p))
  BY ChildrenAreAgents
<1>3. f \in [Agents -> Nat] /\ LockedBy \in [Agents -> Nat]
  BY LockedIsOwed, BalanceTypes
<1>4. Below(LockedBy, f, ChildrenOf(p))
  BY <1>2, LockedIsOwed DEF Below, LockedBy
<1> HIDE DEF f
<1>5. f \in [Agents -> Int] /\ LockedBy \in [Agents -> Int]
  BY <1>3
<1>6. Total(LockedBy, ChildrenOf(p)) <= Total(f, ChildrenOf(p))
  BY <1>2, <1>4, <1>5, TotalGrows
<1>7. Total(LockedBy, ChildrenOf(p)) \in Nat /\ Total(f, ChildrenOf(p)) \in Nat
  BY <1>2, <1>3, TotalNatural
<1>8. MapThenSumSet(Owed, ChildrenOf(p)) = Total(f, ChildrenOf(p))
  BY <1>2, OwedSum DEF f
<1> QED
  BY <1>1, <1>6, <1>7, <1>8

\* The facts about the tree, the messages and the escrow that every step keeps.
WholeInv == TypeInv /\ CostTypeOK /\ InheritInv /\ TreeInv /\ FlowInv /\ BusyInv /\ LimitInv /\ EscrowInv

LEMMA WholeInvariant == Spec => []WholeInv
<1>1. Init => WholeInv
  <2>1. Init => TreeInv
    BY DEF Init, TreeInv, SpawnOrder, OwnChild
  <2> QED
    BY <2>1, InitTypes, InitCostTypes, InitInherits, InitFlow, InitLimit, InitEscrow DEF WholeInv
<1>2. WholeInv /\ [Next]_vars => WholeInv'
  <2> SUFFICES ASSUME WholeInv, [Next]_vars PROVE WholeInv'
    OBVIOUS
  <2>1. TypeInv' /\ CostTypeOK' /\ InheritInv' /\ TreeInv' /\ FlowInv' /\ BusyInv' /\ LimitInv'
    BY TypesPreserved, CostTypesPreserved, InheritancePreserved, TreePreserved, FlowPreserved,
       BusyPreserved, LimitPreserved DEF WholeInv
  <2>2. EscrowInv'
    BY <2>1, EscrowPreserved DEF WholeInv
  <2> QED
    BY <2>1, <2>2 DEF WholeInv
<1> QED
  BY <1>1, <1>2, PTL DEF Spec

\* The committed amount of an agent with a limit covers what the children it still
\* holds are allocated, whatever order spawns, adjustments, dismissals and their
\* background tasks run in (action_result_handler.ex:220, budget_handler.ex:31,
\* dismiss_child.ex:270).
THEOREM CommittedCoversChildren == Spec => []EscrowCoversChildren
<1>1. WholeInv => EscrowCoversChildren
  BY BalanceCovers DEF WholeInv
<1> QED
  BY <1>1, WholeInvariant, PTL

\* It is never more than what its children were given and have not given back: a
\* dismissal releases an allocation, and releases it once (dismiss_child.ex:270).
THEOREM CommittedIsOwed == Spec => []EscrowIsOwed
<1>1. WholeInv => EscrowIsOwed
  BY BalanceIsOwed DEF WholeInv
<1> QED
  BY <1>1, WholeInvariant, PTL
=============================================================================
