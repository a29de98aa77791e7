--------------------------- MODULE ConsensusProofs ---------------------------
(***************************************************************************)
(* Theorems about Consensus, for every pool, every number of cycles,       *)
(* rounds, condensations, restarts and pool switches: its types, the order *)
(* of what is condensed, that every entry is kept or was reflected on, not *)
(* both, that a round which was answered can be decided, and that it       *)
(* implements MajorityRule.                                                *)
(***************************************************************************)
EXTENDS Consensus, SequenceTheorems, FiniteSetTheorems, TLAPS

-----------------------------------------------------------------------------
(* The inductive invariants *)

Keys == Models \cup {Default}

\* What a model has under a key: entries in order, reflections only of older ones
SoundAt(ace, k, c) ==
    LET h == HistoryOf(ace, k)
    IN  /\ h \in Seq(1 .. c)
        /\ ReflectedOn(ace, k) \subseteq 1 .. c
        /\ \A i, j \in DOMAIN h : i < j => h[i] < h[j]
        /\ \A e \in ReflectedOn(ace, k), i \in DOMAIN h : e < h[i]

Sound(ace, c) ==
    /\ ace = Ace(ace)
    /\ DOMAIN ace.histories \subseteq Keys /\ DOMAIN ace.reflected \subseteq Keys
    /\ \A k \in Keys : SoundAt(ace, k, c)

\* field is base but for the key m, which it has if base has it
OwnKeyOnly(field, base, m) ==
    /\ DOMAIN base \subseteq DOMAIN field
    /\ \A k \in DOMAIN field \ {m} : k \in DOMAIN base /\ field[k] = base[k]

\* A task's state is the callback's but for the task's own model
CopyOf(ace, base, m) ==
    /\ OwnKeyOnly(ace.histories, base.histories, m)
    /\ OwnKeyOnly(ace.reflected, base.reflected, m)

MemoryInv ==
    /\ memory = [pool |-> memory.pool, histories |-> memory.histories,
                 reflected |-> memory.reflected]
    /\ memory.pool \in Pools
    /\ Sound(Ace(memory), clock) /\ Sound(stored, clock)
    /\ Sound(working, clock) /\ Sound(settled, clock)

TaskInv(m) ==
    tasks[m] = Running \/ /\ tasks[m] = [answer |-> tasks[m].answer, ace |-> tasks[m].ace]
                          /\ tasks[m].answer \in Answers
                          /\ Sound(tasks[m].ace, clock)
                          /\ CopyOf(tasks[m].ace, working, m)

Idle == /\ working = NoAce /\ settled = NoAce /\ event = 0
        /\ tasks = Empty /\ ballot = Rule!NoVotes /\ round = 0

\* An open question is put to the pool, and its first round starts from what the
\* process returns if it fails
QuestionInv ==
    /\ verdict \in {None, Open, Failed} \cup [kind : {"consensus", "forced"}, choice : Proposals]
    /\ verdict # Open => Idle
    /\ verdict = Open => /\ DOMAIN tasks = memory.pool
                         /\ round = 0 => /\ settled = working
                                         /\ working.reflected = memory.reflected
                                         /\ ballot = Rule!NoVotes
                         /\ round # 0 => DOMAIN ballot # {}
    /\ tasks = [m \in DOMAIN tasks |-> tasks[m]]
    /\ DOMAIN tasks \subseteq Models
    /\ \A m \in DOMAIN tasks : TaskInv(m)
    /\ DOMAIN ballot \subseteq DOMAIN tasks
    /\ \A m \in DOMAIN ballot : ballot[m] \in Proposals
    /\ round \in Nat /\ (round <= MaxRounds \/ round = 1)

\* Each cycle numbers at most two entries, the second when it ends
CounterInv ==
    /\ clock \in Nat /\ cycles \in 0 .. MaxCycles
    /\ clock <= 2 * cycles /\ (verdict = Open => clock < 2 * cycles)
    /\ event \in 0 .. clock
    /\ disturbances \in 0 .. MaxDisturbances
    /\ heard \subseteq 1 .. clock /\ safe \subseteq 1 .. clock
    /\ decided \subseteq heard /\ decided \subseteq safe /\ gone \subseteq heard
    /\ astray \in BOOLEAN

TypeInv == MemoryInv /\ QuestionInv /\ CounterInv

AccountsFor(ace, known) == \A m \in DOMAIN ace.histories : known \subseteq AccountedFor(ace, m)

\* The state of a callback covers its pool and accounts for what the process will
\* have recorded
AccountsForAll(ace) == /\ memory.pool \subseteq DOMAIN ace.histories
                     /\ AccountsFor(ace, Recorded \ gone)

\* What the process and its row account for; an unwritten row covers nothing
AccountInv ==
    \/ astray
    \/ /\ memory.pool \subseteq DOMAIN memory.histories
       /\ AccountsFor(Ace(memory), heard \ gone)
       /\ AccountsFor(stored, safe \ gone)
       /\ DOMAIN stored.histories = {} => safe = {}
       /\ verdict = Open => /\ AccountsForAll(working) /\ AccountsForAll(settled)
                            /\ \A m \in DOMAIN tasks :
                                  tasks[m] # Running => AccountsForAll(tasks[m].ace)

-----------------------------------------------------------------------------
(* Operators on histories *)

\* Condensing a model's history cuts its oldest entries and reflects on them: the
\* model accounts for the same entries, and no other model's memory changes.
LEMMA CondenseProperties ==
    ASSUME NEW ace, NEW c \in Nat, Sound(ace, c), NEW m \in Keys,
           NEW n \in 0 .. Len(HistoryOf(ace, m))
    PROVE  /\ Sound(Condense(ace, m, n), c)
           /\ CopyOf(Condense(ace, m, n), ace, m)
           /\ AccountedFor(Condense(ace, m, n), m) = AccountedFor(ace, m)
           /\ DOMAIN Condense(ace, m, n).histories = DOMAIN ace.histories \cup {m}
           /\ Len(HistoryOf(Condense(ace, m, n), m)) = Len(HistoryOf(ace, m)) - n
<1> DEFINE old == HistoryOf(ace, m)
           rest == SubSeq(old, n + 1, Len(old))
           cut == {old[i] : i \in 1 .. n}
           new == Condense(ace, m, n)
<1> HIDE DEF old, rest, cut, new
<1>1. SoundAt(ace, m, c)
  BY DEF Sound, Keys
<1>2. /\ old \in Seq(1 .. c) /\ Len(old) \in Nat /\ DOMAIN old = 1 .. Len(old)
      /\ \A i \in 1 .. Len(old) : old[i] \in 1 .. c
      /\ ReflectedOn(ace, m) \subseteq 1 .. c
      /\ \A i, j \in 1 .. Len(old) : i < j => old[i] < old[j]
      /\ \A e \in ReflectedOn(ace, m), i \in 1 .. Len(old) : e < old[i]
  <2>1. old \in Seq(1 .. c)
    BY <1>1 DEF SoundAt, old
  <2>2. Len(old) \in Nat /\ DOMAIN old = 1 .. Len(old) /\ \A i \in 1 .. Len(old) : old[i] \in 1 .. c
    BY <2>1, ElementOfSeq, LenProperties
  <2> QED
    BY <1>1, <2>1, <2>2 DEF SoundAt, old
<1>3. n \in 0 .. Len(old) /\ n \in Nat /\ n <= Len(old)
  <2>1. n \in 0 .. Len(old)
    BY DEF old
  <2> QED
    BY <2>1, <1>2
<1>4. /\ rest \in Seq(1 .. c) /\ Len(rest) = Len(old) - n /\ DOMAIN rest = 1 .. Len(rest)
      /\ \A i \in 1 .. Len(rest) : n + i \in n + 1 .. Len(old) /\ rest[i] = old[n + i]
  <2>1. \A i \in n + 1 .. Len(old) : old[i] \in 1 .. c
    BY <1>2, <1>3
  <2>2. /\ rest \in Seq(1 .. c)
        /\ Len(rest) = IF n + 1 <= Len(old) THEN Len(old) - (n + 1) + 1 ELSE 0
        /\ \A i \in 1 .. Len(old) - (n + 1) + 1 : rest[i] = old[n + 1 + i - 1]
    BY <2>1, <1>2, <1>3, SubSeqProperties DEF rest
  <2>3. Len(rest) = Len(old) - n
    <3>1. CASE n + 1 <= Len(old)
      BY <3>1, <2>2, <1>2, <1>3
    <3>2. CASE ~ (n + 1 <= Len(old))
      <4>3. \A a, b \in Nat : ~ (a + 1 <= b) /\ a <= b => a = b
        OBVIOUS
      <4>1. n = Len(old)
        BY <4>3, <3>2, <1>2, <1>3
      <4>2. Len(rest) = 0
        BY <3>2, <2>2
      <4> QED
        BY <4>1, <4>2, <1>2
    <3> QED
      BY <3>1, <3>2
  <2>4. \A i \in 1 .. Len(rest) :
            /\ i \in 1 .. Len(old) - (n + 1) + 1
            /\ n + 1 + i - 1 = n + i /\ n + i \in n + 1 .. Len(old)
    BY <2>3, <1>2, <1>3
  <2>5. DOMAIN rest = 1 .. Len(rest)
    BY <2>2, LenProperties
  <2> QED
    BY <2>2, <2>3, <2>4, <2>5
<1>5. cut \subseteq 1 .. c
  BY <1>2, <1>3 DEF cut
<1>6. ace = [histories |-> ace.histories, reflected |-> ace.reflected]
  BY DEF Sound, Ace
<1>7. /\ new = [histories |-> new.histories, reflected |-> new.reflected]
      /\ new.histories = Put(ace.histories, m, rest)
      /\ new.reflected = IF n = 0 THEN ace.reflected
                       ELSE Put(ace.reflected, m, ReflectedOn(ace, m) \cup cut)
  BY <1>6 DEF Condense, new, old, rest, cut
<1>8. /\ m \in DOMAIN new.histories /\ new.histories[m] = rest
      /\ DOMAIN new.histories = DOMAIN ace.histories \cup {m}
      /\ OwnKeyOnly(new.histories, ace.histories, m)
  BY <1>7 DEF Put, OwnKeyOnly
<1>9. /\ ReflectedOn(new, m) = ReflectedOn(ace, m) \cup cut
      /\ DOMAIN new.reflected \subseteq DOMAIN ace.reflected \cup {m}
      /\ OwnKeyOnly(new.reflected, ace.reflected, m)
  <2>1. CASE n = 0
    <3>1. cut = {} /\ new.reflected = ace.reflected
      BY <2>1, <1>7 DEF cut
    <3> QED
      BY <3>1 DEF ReflectedOn, OwnKeyOnly
  <2>2. CASE n # 0
    <3>1. new.reflected = Put(ace.reflected, m, ReflectedOn(ace, m) \cup cut)
      BY <2>2, <1>7
    <3>2. /\ DOMAIN new.reflected = DOMAIN ace.reflected \cup {m}
          /\ new.reflected[m] = ReflectedOn(ace, m) \cup cut
          /\ \A x \in DOMAIN ace.reflected \ {m} : new.reflected[x] = ace.reflected[x]
      BY <3>1 DEF Put
    <3> QED
      BY <3>2 DEF ReflectedOn, OwnKeyOnly
  <2> QED
    BY <2>1, <2>2
<1>10. HistoryOf(new, m) = rest
  BY <1>8 DEF HistoryOf
<1>11. \A k \in Keys \ {m} : /\ HistoryOf(new, k) = HistoryOf(ace, k)
                             /\ ReflectedOn(new, k) = ReflectedOn(ace, k)
  BY <1>8, <1>9 DEF OwnKeyOnly, HistoryOf, ReflectedOn
<1>12. SoundAt(new, m, c)
  <2>1. \A i, j \in 1 .. Len(rest) : i < j => rest[i] < rest[j]
    BY <1>2, <1>3, <1>4
  <2>2. ASSUME NEW e \in ReflectedOn(ace, m) \cup cut, NEW i \in 1 .. Len(rest)
        PROVE  e < rest[i]
    <3>1. rest[i] = old[n + i] /\ n + i \in 1 .. Len(old) /\ n + i \in Nat
      BY <1>2, <1>3, <1>4
    <3>2. CASE e \in ReflectedOn(ace, m)
      BY <3>1, <3>2, <1>2
    <3>3. CASE e \in cut
      <4>1. PICK j \in 1 .. n : e = old[j]
        BY <3>3 DEF cut
      <4> QED
        BY <4>1, <3>1, <1>2, <1>3, <1>4
    <3> QED
      BY <3>2, <3>3
  <2> QED
    BY <1>2, <1>4, <1>5, <1>9, <1>10, <2>1, <2>2 DEF SoundAt
<1>13. Sound(new, c)
  <2>1. \A k \in Keys \ {m} : SoundAt(new, k, c)
    BY <1>11 DEF SoundAt, Sound
  <2>2. DOMAIN new.histories \subseteq Keys /\ DOMAIN new.reflected \subseteq Keys
    BY <1>8, <1>9 DEF Sound, Keys
  <2> QED
    BY <1>7, <1>12, <2>1, <2>2 DEF Sound, Ace
<1>14. AccountedFor(new, m) = AccountedFor(ace, m)
  <2>1. InHistory(ace, m) = {old[i] : i \in 1 .. Len(old)}
    BY <1>2 DEF InHistory, old
  <2>2. InHistory(new, m) = {rest[i] : i \in 1 .. Len(rest)}
    BY <1>4, <1>10 DEF InHistory
  <2>3. \A i \in n + 1 .. Len(old) : i - n \in 1 .. Len(rest) /\ rest[i - n] = old[i]
    BY <1>2, <1>3, <1>4
  <2>4. {old[i] : i \in 1 .. Len(old)} = cut \cup {rest[i] : i \in 1 .. Len(rest)}
    <3>1. ASSUME NEW i \in 1 .. Len(old)
          PROVE  old[i] \in cut \cup {rest[j] : j \in 1 .. Len(rest)}
      <4>1. i \in 1 .. n \/ i \in n + 1 .. Len(old)
        BY <1>2, <1>3
      <4> QED
        BY <4>1, <2>3 DEF cut
    <3>2. ASSUME NEW i \in 1 .. Len(rest)
          PROVE  rest[i] \in {old[j] : j \in 1 .. Len(old)}
      <4>1. n + i \in 1 .. Len(old) /\ rest[i] = old[n + i]
        BY <1>2, <1>3, <1>4
      <4> QED
        BY <4>1
    <3>3. cut \subseteq {old[j] : j \in 1 .. Len(old)}
      BY <1>2, <1>3 DEF cut
    <3> QED
      BY <3>1, <3>2, <3>3
  <2> QED
    BY <2>1, <2>2, <2>4, <1>9 DEF AccountedFor
<1> QED
  BY <1>4, <1>8, <1>9, <1>10, <1>13, <1>14 DEF CopyOf, new, old

\* What is sound with the entries up to c is sound with more of them.
LEMMA SoundMonotone ==
    ASSUME NEW ace, NEW c \in Nat, NEW d \in Nat, c <= d, Sound(ace, c)
    PROVE  Sound(ace, d)
<1>1. 1 .. c \subseteq 1 .. d
  OBVIOUS
<1>2. ASSUME NEW k \in Keys
      PROVE  SoundAt(ace, k, d)
  <2>1. SoundAt(ace, k, c)
    BY DEF Sound
  <2>2. HistoryOf(ace, k) \in Seq(1 .. d)
    BY <1>1, <2>1, SeqMonotonic DEF SoundAt
  <2> QED
    BY <1>1, <2>1, <2>2 DEF SoundAt
<1> QED
  BY <1>2 DEF Sound

\* A younger entry at the end of every history keeps them in order, and stands in
\* each of them.
LEMMA AddEntryProperties ==
    ASSUME NEW ace, NEW c \in Nat, Sound(ace, c), Default \notin Models
    PROVE  /\ Sound(AddEntry(ace, c + 1), c + 1)
           /\ AddEntry(ace, c + 1).reflected = ace.reflected
           /\ DOMAIN ace.histories # {} =>
                 DOMAIN AddEntry(ace, c + 1).histories = DOMAIN ace.histories
           /\ DOMAIN AddEntry(ace, c + 1).histories # {}
           /\ \A k \in DOMAIN ace.histories :
                 AccountedFor(AddEntry(ace, c + 1), k) = AccountedFor(ace, k) \cup {c + 1}
<1> DEFINE new == AddEntry(ace, c + 1)
<1> HIDE DEF new
<1>1. ace = [histories |-> ace.histories, reflected |-> ace.reflected]
  BY DEF Sound, Ace
<1>2. /\ new = [histories |-> new.histories, reflected |-> new.reflected]
      /\ new.reflected = ace.reflected
      /\ new.histories = IF DOMAIN ace.histories = {} THEN Put(ace.histories, Default, <<c + 1>>)
                         ELSE [m \in DOMAIN ace.histories |-> Append(ace.histories[m], c + 1)]
  BY <1>1 DEF AddEntry, new
<1>3. c \in Nat /\ c + 1 \in Nat /\ 1 .. c \subseteq 1 .. c + 1 /\ c + 1 \in 1 .. c + 1
  OBVIOUS
<1>4. ASSUME NEW h \in Seq(1 .. c)
      PROVE  /\ Append(h, c + 1) \in Seq(1 .. c + 1)
             /\ Len(Append(h, c + 1)) = Len(h) + 1 /\ Len(h) \in Nat
             /\ DOMAIN Append(h, c + 1) = 1 .. Len(h) + 1 /\ DOMAIN h = 1 .. Len(h)
             /\ \A i \in 1 .. Len(h) : Append(h, c + 1)[i] = h[i] /\ h[i] \in 1 .. c
             /\ Append(h, c + 1)[Len(h) + 1] = c + 1
  <2>1. h \in Seq(1 .. c + 1)
    BY <1>3, SeqMonotonic
  <2>2. /\ Append(h, c + 1) \in Seq(1 .. c + 1)
        /\ Len(Append(h, c + 1)) = Len(h) + 1
        /\ \A i \in 1 .. Len(h) : Append(h, c + 1)[i] = h[i]
        /\ Append(h, c + 1)[Len(h) + 1] = c + 1
    BY <1>3, <2>1, AppendProperties
  <2>3. Len(h) \in Nat /\ DOMAIN h = 1 .. Len(h) /\ \A i \in 1 .. Len(h) : h[i] \in 1 .. c
    BY LenProperties, ElementOfSeq
  <2>4. DOMAIN Append(h, c + 1) = 1 .. Len(Append(h, c + 1))
    BY <2>2, LenProperties
  <2> QED
    BY <2>2, <2>3, <2>4
<1>5. /\ DOMAIN new.histories = IF DOMAIN ace.histories = {} THEN {Default}
                                ELSE DOMAIN ace.histories
      /\ \A k \in DOMAIN ace.histories : /\ HistoryOf(ace, k) = ace.histories[k]
                                         /\ HistoryOf(new, k) = Append(HistoryOf(ace, k), c + 1)
      /\ \A k \in Keys : ReflectedOn(new, k) = ReflectedOn(ace, k)
  <2>1. CASE DOMAIN ace.histories = {}
    BY <2>1, <1>2 DEF Put, HistoryOf, ReflectedOn
  <2>2. CASE DOMAIN ace.histories # {}
    BY <2>2, <1>2 DEF HistoryOf, ReflectedOn
  <2> QED
    BY <2>1, <2>2
<1>6. ASSUME NEW k \in DOMAIN ace.histories
      PROVE  SoundAt(new, k, c + 1) /\ AccountedFor(new, k) = AccountedFor(ace, k) \cup {c + 1}
  <2> DEFINE h == HistoryOf(ace, k)
  <2>1. SoundAt(ace, k, c)
    BY DEF Sound
  <2>2. /\ h \in Seq(1 .. c) /\ ReflectedOn(ace, k) \subseteq 1 .. c
        /\ \A i, j \in DOMAIN h : i < j => h[i] < h[j]
        /\ \A e \in ReflectedOn(ace, k), i \in DOMAIN h : e < h[i]
    BY <2>1 DEF SoundAt
  <2>3. HistoryOf(new, k) = Append(h, c + 1) /\ ReflectedOn(new, k) = ReflectedOn(ace, k)
    BY <1>5 DEF Sound
  <2> HIDE DEF h
  <2>4. /\ Append(h, c + 1) \in Seq(1 .. c + 1) /\ Len(h) \in Nat
        /\ DOMAIN Append(h, c + 1) = 1 .. Len(h) + 1 /\ DOMAIN h = 1 .. Len(h)
        /\ \A i \in 1 .. Len(h) : Append(h, c + 1)[i] = h[i] /\ h[i] \in 1 .. c
        /\ Append(h, c + 1)[Len(h) + 1] = c + 1
    BY <1>4, <2>2
  <2>5. \A i \in 1 .. Len(h) + 1 : i \in 1 .. Len(h) \/ i = Len(h) + 1
    BY <2>4
  <2>6. ASSUME NEW i \in 1 .. Len(h) + 1, NEW j \in 1 .. Len(h) + 1, i < j
        PROVE  Append(h, c + 1)[i] < Append(h, c + 1)[j]
    <3>1. i \in 1 .. Len(h)
      BY <2>4, <2>6
    <3>2. CASE j \in 1 .. Len(h)
      BY <3>1, <3>2, <2>2, <2>4, <2>6
    <3>3. CASE j = Len(h) + 1
      <4>1. Append(h, c + 1)[j] = c + 1 /\ Append(h, c + 1)[i] \in 1 .. c
        BY <3>1, <3>3, <2>4
      <4> QED
        BY <4>1
    <3> QED
      BY <3>2, <3>3, <2>5
  <2>7. ASSUME NEW e \in ReflectedOn(ace, k), NEW i \in 1 .. Len(h) + 1
        PROVE  e < Append(h, c + 1)[i]
    <3>1. e \in 1 .. c
      BY <2>2, <2>7
    <3>2. CASE i \in 1 .. Len(h)
      <4>1. Append(h, c + 1)[i] = h[i] /\ i \in DOMAIN h
        BY <2>4, <3>2
      <4>2. e < h[i]
        BY <2>2, <2>7, <4>1
      <4> QED
        BY <4>1, <4>2
    <3>3. CASE i = Len(h) + 1
      <4>1. Append(h, c + 1)[i] = c + 1
        BY <2>4, <3>3
      <4> QED
        BY <3>1, <4>1
    <3> QED
      BY <2>5, <2>7, <3>2, <3>3
  <2>8. SoundAt(new, k, c + 1)
    BY <1>3, <2>2, <2>3, <2>4, <2>6, <2>7 DEF SoundAt
  <2>9. InHistory(new, k) = InHistory(ace, k) \cup {c + 1}
    <3>1. InHistory(ace, k) = {h[i] : i \in 1 .. Len(h)}
      BY <2>4 DEF InHistory, h
    <3>2. InHistory(new, k) = {Append(h, c + 1)[i] : i \in 1 .. Len(h) + 1}
      BY <2>3, <2>4 DEF InHistory
    <3>3. Len(h) + 1 \in 1 .. Len(h) + 1 /\ \A i \in 1 .. Len(h) : i \in 1 .. Len(h) + 1
      BY <2>4
    <3> QED
      BY <3>1, <3>2, <3>3, <2>4, <2>5
  <2> QED
    BY <2>3, <2>8, <2>9 DEF AccountedFor
<1>7. ASSUME NEW k \in Keys, k \notin DOMAIN ace.histories
      PROVE  SoundAt(new, k, c + 1)
  <2>1. SoundAt(ace, k, c) /\ HistoryOf(ace, k) = <<>>
    BY <1>7 DEF Sound, HistoryOf
  <2>2. ReflectedOn(new, k) \subseteq 1 .. c /\ ReflectedOn(new, k) \subseteq 1 .. c + 1
    BY <2>1, <1>3, <1>5 DEF SoundAt
  <2>3. CASE k \in DOMAIN new.histories
    <3>1. HistoryOf(new, k) = <<c + 1>>
      BY <2>3, <1>2, <1>5, <1>7 DEF HistoryOf, Put
    <3>2. <<c + 1>> \in Seq(1 .. c + 1) /\ DOMAIN <<c + 1>> = {1} /\ <<c + 1>>[1] = c + 1
      BY <1>3
    <3> QED
      BY <3>1, <3>2, <2>2 DEF SoundAt
  <2>4. CASE k \notin DOMAIN new.histories
    <3>1. HistoryOf(new, k) = <<>> /\ <<>> \in Seq(1 .. c + 1) /\ DOMAIN <<>> = {}
      BY <2>4 DEF HistoryOf
    <3> QED
      BY <3>1, <2>2 DEF SoundAt
  <2> QED
    BY <2>3, <2>4
<1>8. new = Ace(new) /\ DOMAIN new.histories \subseteq Keys /\ DOMAIN new.reflected \subseteq Keys
  BY <1>2, <1>5 DEF Sound, Ace, Keys
<1>9. Sound(new, c + 1)
  BY <1>6, <1>7, <1>8 DEF Sound
<1> QED
  BY <1>2, <1>5, <1>6, <1>9 DEF new

\* Merging copies that each changed only the key of its own task takes every
\* such key from its task and the rest from the callback.
LEMMA MergeFieldProperties ==
    ASSUME NEW old, NEW new, \A m \in DOMAIN new : OwnKeyOnly(new[m], old, m)
    PROVE  /\ DOMAIN MergeField(old, new) =
                 DOMAIN old \cup {m \in DOMAIN new : m \in DOMAIN new[m]}
           /\ \A k \in DOMAIN MergeField(old, new) :
                 MergeField(old, new)[k] = IF k \in DOMAIN new THEN new[k][k] ELSE old[k]
<1> DEFINE all == DOMAIN old \cup UNION {DOMAIN new[m] : m \in DOMAIN new}
           changed(k) == {m \in DOMAIN new : /\ k \in DOMAIN new[m]
                                             /\ k \in DOMAIN old => new[m][k] # old[k]}
           merged == MergeField(old, new)
<1>1. /\ DOMAIN merged = all
      /\ \A k \in all : merged[k] = IF changed(k) = {} THEN old[k]
                                    ELSE new[CHOOSE m \in changed(k) : TRUE][k]
  BY DEF MergeField
<1>2. all = DOMAIN old \cup {m \in DOMAIN new : m \in DOMAIN new[m]}
  BY DEF OwnKeyOnly
<1>3. \A k : changed(k) \subseteq {k}
  BY DEF OwnKeyOnly
<1>4. ASSUME NEW k \in all
      PROVE  merged[k] = IF k \in DOMAIN new THEN new[k][k] ELSE old[k]
  <2>1. CASE changed(k) = {}
    <3>1. merged[k] = old[k]
      BY <2>1, <1>1
    <3>2. k \in DOMAIN new => k \in DOMAIN old /\ k \in DOMAIN new[k] /\ new[k][k] = old[k]
      <4>1. SUFFICES ASSUME k \in DOMAIN new
                     PROVE  k \in DOMAIN old /\ k \in DOMAIN new[k] /\ new[k][k] = old[k]
        OBVIOUS
      <4>2. OwnKeyOnly(new[k], old, k)
        BY <4>1
      <4>3. k \in DOMAIN new[k]
        BY <4>1, <4>2, <1>2 DEF OwnKeyOnly
      <4>4. k \notin changed(k)
        BY <2>1
      <4> QED
        BY <4>1, <4>3, <4>4
    <3> QED
      BY <3>1, <3>2
  <2>2. CASE changed(k) # {}
    <3>1. changed(k) = {k} /\ k \in DOMAIN new
      BY <2>2, <1>3
    <3>2. (CHOOSE m \in {k} : TRUE) = k
      OBVIOUS
    <3>3. merged[k] = new[CHOOSE m \in {k} : TRUE][k]
      BY <3>1, <1>1
    <3> QED
      BY <3>1, <3>2, <3>3
  <2> QED
    BY <2>1, <2>2
<1> QED
  BY <1>1, <1>2, <1>4

\* The tasks' states merged: every model that was asked has its memory from its
\* own task, every other key is the callback's.
LEMMA MergedProperties ==
    ASSUME TypeInv, AllAnswered
    PROVE  /\ Sound(Merged, clock)
           /\ DOMAIN working.histories \subseteq DOMAIN Merged.histories
           /\ DOMAIN Merged.histories \subseteq DOMAIN working.histories \cup DOMAIN tasks
           /\ \A k \in DOMAIN tasks :
                 /\ k \in DOMAIN Merged.histories => k \in DOMAIN tasks[k].ace.histories
                 /\ HistoryOf(Merged, k) = HistoryOf(tasks[k].ace, k)
                 /\ ReflectedOn(Merged, k) = ReflectedOn(tasks[k].ace, k)
           /\ \A k \in Keys \ DOMAIN tasks :
                 /\ k \in DOMAIN Merged.histories => k \in DOMAIN working.histories
                 /\ HistoryOf(Merged, k) = HistoryOf(working, k)
                 /\ ReflectedOn(Merged, k) = ReflectedOn(working, k)
<1> DEFINE hists == [m \in DOMAIN tasks |-> tasks[m].ace.histories]
           reflns == [m \in DOMAIN tasks |-> tasks[m].ace.reflected]
           merged == Merged
<1>1. \A m \in DOMAIN tasks : /\ Sound(tasks[m].ace, clock)
                              /\ OwnKeyOnly(tasks[m].ace.histories, working.histories, m)
                              /\ OwnKeyOnly(tasks[m].ace.reflected, working.reflected, m)
  BY DEF TypeInv, QuestionInv, TaskInv, AllAnswered, CopyOf
<1>2. DOMAIN tasks \subseteq Models /\ Sound(working, clock)
  BY DEF TypeInv, QuestionInv, MemoryInv
<1>3. /\ merged = [histories |-> merged.histories, reflected |-> merged.reflected]
      /\ merged.histories = MergeField(working.histories, hists)
      /\ merged.reflected = MergeField(working.reflected, reflns)
  BY DEF Merged
<1>4. /\ DOMAIN hists = DOMAIN tasks /\ DOMAIN reflns = DOMAIN tasks
      /\ \A m \in DOMAIN tasks : /\ hists[m] = tasks[m].ace.histories
                                 /\ reflns[m] = tasks[m].ace.reflected
  OBVIOUS
<1> HIDE DEF hists, reflns, merged
<1>5. /\ DOMAIN merged.histories = DOMAIN working.histories
                                   \cup {m \in DOMAIN tasks : m \in DOMAIN tasks[m].ace.histories}
      /\ \A k \in DOMAIN merged.histories :
            merged.histories[k] = IF k \in DOMAIN tasks THEN tasks[k].ace.histories[k]
                                  ELSE working.histories[k]
  <2>1. \A m \in DOMAIN hists : OwnKeyOnly(hists[m], working.histories, m)
    BY <1>1, <1>4
  <2>2. /\ DOMAIN MergeField(working.histories, hists) =
               DOMAIN working.histories \cup {m \in DOMAIN hists : m \in DOMAIN hists[m]}
        /\ \A k \in DOMAIN MergeField(working.histories, hists) :
              MergeField(working.histories, hists)[k] =
                 IF k \in DOMAIN hists THEN hists[k][k] ELSE working.histories[k]
    BY <2>1, MergeFieldProperties
  <2> QED
    BY <2>2, <1>3, <1>4
<1>6. /\ DOMAIN merged.reflected = DOMAIN working.reflected
                                 \cup {m \in DOMAIN tasks : m \in DOMAIN tasks[m].ace.reflected}
      /\ \A k \in DOMAIN merged.reflected :
            merged.reflected[k] = IF k \in DOMAIN tasks THEN tasks[k].ace.reflected[k]
                                ELSE working.reflected[k]
  <2>1. \A m \in DOMAIN reflns : OwnKeyOnly(reflns[m], working.reflected, m)
    BY <1>1, <1>4
  <2>2. /\ DOMAIN MergeField(working.reflected, reflns) =
               DOMAIN working.reflected \cup {m \in DOMAIN reflns : m \in DOMAIN reflns[m]}
        /\ \A k \in DOMAIN MergeField(working.reflected, reflns) :
              MergeField(working.reflected, reflns)[k] =
                 IF k \in DOMAIN reflns THEN reflns[k][k] ELSE working.reflected[k]
    BY <2>1, MergeFieldProperties
  <2> QED
    BY <2>2, <1>3, <1>4
<1>7. ASSUME NEW k \in DOMAIN tasks
      PROVE  /\ k \in DOMAIN merged.histories <=> k \in DOMAIN tasks[k].ace.histories
             /\ HistoryOf(merged, k) = HistoryOf(tasks[k].ace, k)
             /\ ReflectedOn(merged, k) = ReflectedOn(tasks[k].ace, k)
  <2>1. /\ k \in DOMAIN working.histories => k \in DOMAIN tasks[k].ace.histories
        /\ k \in DOMAIN working.reflected => k \in DOMAIN tasks[k].ace.reflected
    BY <1>1 DEF OwnKeyOnly
  <2> QED
    BY <1>5, <1>6, <2>1 DEF HistoryOf, ReflectedOn
<1>8. ASSUME NEW k \in Keys, k \notin DOMAIN tasks
      PROVE  /\ k \in DOMAIN merged.histories <=> k \in DOMAIN working.histories
             /\ HistoryOf(merged, k) = HistoryOf(working, k)
             /\ ReflectedOn(merged, k) = ReflectedOn(working, k)
  BY <1>5, <1>6, <1>8 DEF HistoryOf, ReflectedOn
<1>9. \A k \in Keys : SoundAt(merged, k, clock)
  <2>1. \A k \in DOMAIN tasks : SoundAt(merged, k, clock)
    BY <1>1, <1>2, <1>7 DEF Sound, SoundAt, Keys
  <2>2. \A k \in Keys \ DOMAIN tasks : SoundAt(merged, k, clock)
    BY <1>2, <1>8 DEF Sound, SoundAt
  <2> QED
    BY <2>1, <2>2
<1>10. Sound(merged, clock)
  <2>1. DOMAIN merged.histories \subseteq Keys /\ DOMAIN merged.reflected \subseteq Keys
    BY <1>2, <1>5, <1>6 DEF Sound, Keys
  <2> QED
    BY <1>3, <1>9, <2>1 DEF Sound, Ace
<1> QED
  BY <1>5, <1>7, <1>8, <1>10 DEF merged

\* What all tasks and the callback account for, their merged state accounts for.
LEMMA MergedAccountsFor ==
    ASSUME TypeInv, AllAnswered, NEW known, AccountsFor(working, known),
           \A m \in DOMAIN tasks : AccountsFor(tasks[m].ace, known)
    PROVE  AccountsFor(Merged, known)
<1>1. \A k \in DOMAIN Merged.histories : k \in Keys
  BY MergedProperties DEF Sound
<1>2. ASSUME NEW k \in DOMAIN Merged.histories, k \in DOMAIN tasks
      PROVE  known \subseteq AccountedFor(Merged, k)
  <2>1. /\ k \in DOMAIN tasks[k].ace.histories
        /\ HistoryOf(Merged, k) = HistoryOf(tasks[k].ace, k)
        /\ ReflectedOn(Merged, k) = ReflectedOn(tasks[k].ace, k)
    BY <1>2, MergedProperties
  <2> QED
    BY <1>2, <2>1 DEF AccountsFor, AccountedFor, InHistory
<1>3. ASSUME NEW k \in DOMAIN Merged.histories, k \notin DOMAIN tasks
      PROVE  known \subseteq AccountedFor(Merged, k)
  <2>1. /\ k \in DOMAIN working.histories
        /\ HistoryOf(Merged, k) = HistoryOf(working, k)
        /\ ReflectedOn(Merged, k) = ReflectedOn(working, k)
    BY <1>1, <1>3, MergedProperties
  <2> QED
    BY <1>3, <2>1 DEF AccountsFor, AccountedFor, InHistory
<1> QED
  BY <1>2, <1>3 DEF AccountsFor

\* A copy of a copy is a copy.
LEMMA CopyOfCopy ==
    ASSUME NEW a, NEW b, NEW c, NEW m, CopyOf(b, a, m), CopyOf(c, b, m)
    PROVE  CopyOf(c, a, m)
  BY DEF CopyOf, OwnKeyOnly

\* What a task may make of a state before and after its query.
LEMMA ShortenedProperties ==
    ASSUME NEW ace, NEW c \in Nat, Sound(ace, c), NEW m \in Keys,
           NEW new \in {ace} \cup Shortened(ace, m) \cup ShortenedOnRequest(ace, m)
    PROVE  /\ Sound(new, c)
           /\ CopyOf(new, ace, m)
           /\ AccountedFor(new, m) = AccountedFor(ace, m)
           /\ DOMAIN new.histories \subseteq DOMAIN ace.histories \cup {m}
           /\ new \in Shortened(ace, m) => m \in DOMAIN new.histories
<1>1. Len(HistoryOf(ace, m)) \in Nat
  <2>1. SoundAt(ace, m, c)
    BY DEF Sound, Keys
  <2> QED
    BY <2>1, LenProperties DEF SoundAt
<1>2. CASE new = ace /\ new \notin Shortened(ace, m)
  BY <1>2 DEF CopyOf, OwnKeyOnly
<1>3. ASSUME NEW n \in 0 .. Len(HistoryOf(ace, m)), new = Condense(ace, m, n)
      PROVE  /\ Sound(new, c)
             /\ CopyOf(new, ace, m)
             /\ AccountedFor(new, m) = AccountedFor(ace, m)
             /\ DOMAIN new.histories = DOMAIN ace.histories \cup {m}
  BY <1>3, CondenseProperties
<1>4. ASSUME new \in Shortened(ace, m) \cup ShortenedOnRequest(ace, m)
      PROVE  \E n \in 0 .. Len(HistoryOf(ace, m)) : new = Condense(ace, m, n)
  <2>1. CASE new \in Shortened(ace, m)
    <3>1. PICK n \in IF HistoryOf(ace, m) = <<>> THEN {0} ELSE 1 .. Len(HistoryOf(ace, m)) :
              new = Condense(ace, m, n)
      BY <2>1 DEF Shortened
    <3>2. n \in 0 .. Len(HistoryOf(ace, m))
      BY <1>1, <3>1
    <3> QED
      BY <3>1, <3>2
  <2>2. CASE new \in ShortenedOnRequest(ace, m)
    <3>1. PICK n \in 1 .. Len(HistoryOf(ace, m)) - 2 : new = Condense(ace, m, n)
      BY <2>2 DEF ShortenedOnRequest
    <3>2. n \in 0 .. Len(HistoryOf(ace, m))
      BY <1>1, <3>1
    <3> QED
      BY <3>1, <3>2
  <2> QED
    BY <1>4, <2>1, <2>2
<1> QED
  BY <1>2, <1>3, <1>4

-----------------------------------------------------------------------------
(* The initial state and the types *)

\* States without an entry.
LEMMA BlankSound ==
    ASSUME NEW ace, NEW c \in Nat, ace = Ace(ace),
           DOMAIN ace.histories \subseteq Keys, DOMAIN ace.reflected \subseteq Keys,
           \A k \in DOMAIN ace.histories : ace.histories[k] = <<>>,
           \A k \in DOMAIN ace.reflected : ace.reflected[k] \subseteq 1 .. c
    PROVE  Sound(ace, c)
<1>1. <<>> \in Seq(1 .. c) /\ DOMAIN <<>> = {}
  OBVIOUS
<1>2. \A k \in Keys : HistoryOf(ace, k) = <<>> /\ ReflectedOn(ace, k) \subseteq 1 .. c
  BY DEF HistoryOf, ReflectedOn
<1> QED
  BY <1>1, <1>2 DEF Sound, SoundAt

LEMMA InitInv ==
    ASSUME Init PROVE TypeInv /\ AccountInv
<1> USE ConsensusAssumption DEF ConsensusAssumption
<1>1. InitialPool \subseteq Models /\ InitialPool # {}
  OBVIOUS
<1>2. DOMAIN Empty = {} /\ DOMAIN NoAce.histories = {} /\ DOMAIN NoAce.reflected = {}
      /\ NoAce = Ace(NoAce)
  BY DEF Empty, NoAce, Ace
<1>3. Sound(NoAce, 0)
  BY <1>2, BlankSound
<1>4. Sound(Ace(memory), 0)
  <2>1. Ace(memory) = [histories |-> [m \in InitialPool |-> <<>>], reflected |-> Empty]
    BY DEF Init, Ace
  <2>2. Ace(memory) = Ace(Ace(memory))
    BY DEF Ace
  <2> QED
    BY <1>1, <1>2, <2>1, <2>2, BlankSound DEF Keys
<1>5. MemoryInv
  BY <1>3, <1>4 DEF Init, MemoryInv
<1>6. QuestionInv
  BY <1>2 DEF Init, QuestionInv, Idle, Empty, None, Open, Rule!None, Rule!Open, Rule!NoVotes
<1>7. verdict # Open
  BY DEF Init, None, Open, Rule!None, Rule!Open
<1>8. CounterInv
  <2>1. MaxCycles \in Nat /\ MaxDisturbances \in Nat
    OBVIOUS
  <2>2. astray \in BOOLEAN
    BY Zenon DEF Init
  <2>3. 0 \in 0 .. MaxCycles /\ 0 \in 0 .. MaxDisturbances
    BY <2>1
  <2>4. clock = 0 /\ cycles = 0 /\ event = 0 /\ disturbances = 0
        /\ heard = {} /\ decided = {} /\ safe = {} /\ gone = {}
    BY DEF Init
  <2> QED
    BY <1>7, <2>2, <2>3, <2>4 DEF CounterInv
<1>9. AccountInv
  BY <1>2, <1>7 DEF Init, AccountInv, AccountsFor
<1> QED
  BY <1>5, <1>6, <1>8, <1>9 DEF TypeInv

\* A callback that starts has the event in its own state only.
LEMMA BeginTyped ==
    ASSUME TypeInv, NEW withEvent \in BOOLEAN, Begin(withEvent)
    PROVE  /\ TypeInv'
           /\ Sound(Ace(memory), clock)
           /\ working' = IF withEvent THEN AddEntry(Ace(memory), clock + 1) ELSE Ace(memory)
<1> USE ConsensusAssumption DEF ConsensusAssumption
<1>1. /\ memory' = memory /\ stored' = stored /\ ballot' = ballot /\ round' = round
      /\ disturbances' = disturbances /\ verdict' = Open /\ verdict # Open
      /\ heard' = heard /\ decided' = decided /\ safe' = safe /\ gone' = gone
      /\ astray' = astray
      /\ clock' = (IF withEvent THEN clock + 1 ELSE clock)
      /\ event' = (IF withEvent THEN clock + 1 ELSE 0)
      /\ working' = (IF withEvent THEN AddEntry(Ace(memory), clock + 1) ELSE Ace(memory))
      /\ settled' = working'
      /\ tasks' = [m \in memory.pool |-> Running]
      /\ cycles < MaxCycles /\ cycles' = cycles + 1
  BY DEF Begin, AskAll, records
<1>2. clock \in Nat /\ clock' \in Nat /\ clock <= clock' /\ event' \in 0 .. clock'
  BY <1>1 DEF TypeInv, CounterInv
<1>3. Sound(Ace(memory), clock) /\ Sound(stored, clock)
  BY DEF TypeInv, MemoryInv
<1>4. Sound(working', clock') /\ working'.reflected = memory.reflected
  <2>1. Ace(memory).reflected = memory.reflected
    BY DEF Ace
  <2>2. CASE withEvent
    BY <2>1, <2>2, <1>1, <1>2, <1>3, AddEntryProperties
  <2>3. CASE ~ withEvent
    BY <2>1, <2>3, <1>1, <1>3
  <2> QED
    BY <2>2, <2>3
<1>5. MemoryInv'
  <2>1. Sound(Ace(memory), clock') /\ Sound(stored, clock')
    BY <1>2, <1>3, SoundMonotone
  <2>2. Ace(memory)' = Ace(memory)
    BY <1>1 DEF Ace
  <2> QED
    BY <1>1, <1>4, <2>1, <2>2 DEF MemoryInv, TypeInv
<1>6. QuestionInv'
  <2>1. round = 0 /\ ballot = Rule!NoVotes
    BY <1>1 DEF TypeInv, QuestionInv, Idle
  <2>2. memory.pool \subseteq Models /\ DOMAIN tasks' = memory.pool
        /\ \A m \in DOMAIN tasks' : tasks'[m] = Running
    BY <1>1 DEF TypeInv, MemoryInv
  <2>3. DOMAIN Rule!NoVotes = {} /\ Rule!NoVotes' = Rule!NoVotes
    BY DEF Rule!NoVotes
  <2> QED
    BY <1>1, <1>4, <2>1, <2>2, <2>3 DEF QuestionInv, TaskInv
<1>7. CounterInv'
  BY <1>1, <1>2 DEF TypeInv, CounterInv
<1> QED
  BY <1>3, <1>1, <1>5, <1>6, <1>7 DEF TypeInv

\* An answering task changes its own model's memory in its own copy.
LEMMA AnswerTyped ==
    ASSUME TypeInv, NEW m \in Models, NEW answer \in Answers, Answer(m, answer)
    PROVE  /\ TypeInv'
           /\ m \in DOMAIN tasks /\ verdict = Open
           /\ tasks' = [tasks EXCEPT ![m] = [answer |-> answer, ace |-> tasks'[m].ace]]
           /\ AccountedFor(tasks'[m].ace, m) = AccountedFor(working, m)
           /\ DOMAIN tasks'[m].ace.histories \subseteq DOMAIN working.histories \cup {m}
<1>1. PICK before \in {working} \cup Shortened(working, m) :
         \E after \in {before} \cup ShortenedOnRequest(before, m) :
             /\ disturbances' = disturbances + (IF before # working THEN 1 ELSE 0)
                                             + (IF after # before THEN 1 ELSE 0)
             /\ disturbances' <= MaxDisturbances
             /\ tasks' = [tasks EXCEPT ![m] = [answer |-> answer, ace |-> after]]
  BY DEF Answer
<1>2. PICK after \in {before} \cup ShortenedOnRequest(before, m) :
             /\ disturbances' = disturbances + (IF before # working THEN 1 ELSE 0)
                                             + (IF after # before THEN 1 ELSE 0)
             /\ disturbances' <= MaxDisturbances
             /\ tasks' = [tasks EXCEPT ![m] = [answer |-> answer, ace |-> after]]
  BY <1>1
<1>3. /\ verdict = Open /\ m \in DOMAIN tasks /\ tasks[m] = Running
      /\ memory' = memory /\ stored' = stored /\ working' = working /\ settled' = settled
      /\ event' = event /\ ballot' = ballot /\ round' = round /\ verdict' = verdict
      /\ clock' = clock /\ cycles' = cycles /\ heard' = heard /\ decided' = decided
      /\ safe' = safe /\ gone' = gone /\ astray' = astray
  BY DEF Answer, callback, records
<1>4. clock \in Nat /\ Sound(working, clock)
  BY DEF TypeInv, CounterInv, MemoryInv
<1>5. /\ Sound(before, clock) /\ CopyOf(before, working, m)
      /\ AccountedFor(before, m) = AccountedFor(working, m)
      /\ DOMAIN before.histories \subseteq DOMAIN working.histories \cup {m}
  BY <1>4, ShortenedProperties DEF Keys
<1>6. /\ Sound(after, clock) /\ CopyOf(after, before, m)
      /\ AccountedFor(after, m) = AccountedFor(before, m)
      /\ DOMAIN after.histories \subseteq DOMAIN before.histories \cup {m}
  BY <1>4, <1>5, ShortenedProperties DEF Keys
<1>7. CopyOf(after, working, m)
  BY <1>5, <1>6, CopyOfCopy
<1>8. /\ DOMAIN tasks' = DOMAIN tasks
      /\ tasks'[m] = [answer |-> answer, ace |-> after]
      /\ \A x \in DOMAIN tasks \ {m} : tasks'[x] = tasks[x]
      /\ tasks' = [x \in DOMAIN tasks' |-> tasks'[x]]
  BY <1>2, <1>3
<1>9. MemoryInv'
  BY <1>3 DEF TypeInv, MemoryInv, Ace
<1>10. \A x \in DOMAIN tasks' : TaskInv(x)'
  <2>1. TaskInv(m)'
    BY <1>3, <1>6, <1>7, <1>8 DEF TaskInv
  <2>2. \A x \in DOMAIN tasks \ {m} : TaskInv(x)'
    BY <1>3, <1>8 DEF TypeInv, QuestionInv, TaskInv
  <2> QED
    BY <1>8, <2>1, <2>2
<1>11. QuestionInv'
  BY <1>3, <1>8, <1>10 DEF TypeInv, QuestionInv, Rule!NoVotes
<1>12. CounterInv'
  <2>1. disturbances' \in 0 .. MaxDisturbances
    BY <1>2 DEF TypeInv, CounterInv
  <2> QED
    BY <1>3, <2>1 DEF TypeInv, CounterInv
<1> QED
  BY <1>2, <1>3, <1>5, <1>6, <1>8, <1>9, <1>11, <1>12 DEF TypeInv

\* The end of a callback.  CallbackEnds leaves nothing of the question.
LEMMA EndedTyped ==
    ASSUME TypeInv, CallbackEnds, verdict' # Open,
           verdict' \in {None, Open, Failed}
                        \cup [kind : {"consensus", "forced"}, choice : Proposals]
    PROVE  /\ QuestionInv'
           /\ working' = NoAce /\ settled' = NoAce /\ event' = 0
           /\ \A c \in Nat : Sound(NoAce, c)
<1>1. DOMAIN Empty = {} /\ Empty = [m \in DOMAIN Empty |-> Empty[m]]
  BY DEF Empty
<1>2. DOMAIN Rule!NoVotes = {} /\ Rule!NoVotes' = Rule!NoVotes
  BY DEF Rule!NoVotes
<1>3. /\ Idle' /\ verdict' # Open
  BY DEF CallbackEnds, Idle
<1>4. QuestionInv'
  <2>1. tasks' = Empty /\ ballot' = Rule!NoVotes /\ round' = 0
    BY DEF CallbackEnds
  <2>2. MaxRounds \in Nat
    BY ConsensusAssumption DEF ConsensusAssumption
  <2> QED
    BY <1>1, <1>2, <1>3, <2>1, <2>2 DEF QuestionInv
<1>5. ASSUME NEW c \in Nat PROVE Sound(NoAce, c)
  BY BlankSound DEF NoAce, Ace, Empty
<1> QED
  BY <1>4, <1>5 DEF CallbackEnds

\* A decision appends its entry to the state it is made in and stores it.
LEMMA DecideTyped ==
    ASSUME TypeInv, verdict = Open, NEW first, Sound(first, clock),
           NEW choice \in [kind : {"consensus", "forced"}, choice : Proposals],
           Decide(choice, first)
    PROVE  TypeInv'
<1> DEFINE next == AddEntry(first, clock + 1)
<1>1. /\ verdict' = choice /\ clock' = clock + 1
      /\ memory' = [memory EXCEPT !.histories = next.histories, !.reflected = next.reflected]
      /\ stored' = next
      /\ heard' = Recorded \cup {clock + 1} /\ decided' = heard' /\ safe' = heard'
      /\ cycles' = cycles /\ disturbances' = disturbances /\ gone' = gone /\ astray' = astray
      /\ CallbackEnds
  BY DEF Decide
<1>2. clock \in Nat /\ clock + 1 \in Nat /\ clock + 1 \in 1 .. clock + 1
      /\ 1 .. clock \subseteq 1 .. clock + 1
  BY DEF TypeInv, CounterInv
<1>3. Sound(next, clock + 1)
  BY <1>2, ConsensusAssumption, AddEntryProperties DEF ConsensusAssumption
<1> HIDE DEF next
<1>4. verdict' # Open
  <2>1. choice.kind # Open.kind
    BY DEF Open, Rule!Open
  <2> QED
    BY <1>1, <2>1
<1>5. /\ QuestionInv' /\ working' = NoAce /\ settled' = NoAce /\ event' = 0
      /\ Sound(NoAce, clock + 1)
  BY <1>1, <1>2, <1>4, EndedTyped
<1>6. MemoryInv'
  <2>1. next = [histories |-> next.histories, reflected |-> next.reflected]
    BY <1>3 DEF Sound, Ace
  <2>2. memory = [pool |-> memory.pool, histories |-> memory.histories,
                  reflected |-> memory.reflected] /\ memory.pool \in Pools
    BY DEF TypeInv, MemoryInv
  <2>3. memory' = [pool |-> memory.pool, histories |-> next.histories,
                   reflected |-> next.reflected]
    BY <1>1, <2>2
  <2>4. Ace(memory)' = next
    BY <2>1, <2>3 DEF Ace
  <2> QED
    BY <1>1, <1>3, <1>5, <2>2, <2>3, <2>4 DEF MemoryInv
<1>7. CounterInv'
  <2>1. heard' \subseteq 1 .. clock + 1 /\ gone \subseteq heard'
    BY <1>1, <1>2 DEF TypeInv, CounterInv, Recorded
  <2>2. clock + 1 <= 2 * cycles
    BY <1>2 DEF TypeInv, CounterInv
  <2> QED
    BY <1>1, <1>2, <1>4, <1>5, <2>1, <2>2 DEF TypeInv, CounterInv
<1> QED
  BY <1>5, <1>6, <1>7 DEF TypeInv

\* The verdicts of a ballot name a proposal of it.
LEMMA VerdictType ==
    ASSUME NEW b, NEW total, NEW v \in Rule!Verdicts(b, total),
           \A m \in DOMAIN b : b[m] \in Proposals
    PROVE  v \in [kind : {"consensus", "forced"}, choice : Proposals]
<1>1. Rule!Named(b) \subseteq Proposals
  BY DEF Rule!Named
<1> QED
  BY <1>1 DEF Rule!Verdicts, Rule!MostVoted

\* The state a decision is made in.
LEMMA FirstRoundSound ==
    ASSUME TypeInv, AllAnswered PROVE Sound(FirstRound, clock) /\ Sound(settled, clock)
  BY MergedProperties DEF FirstRound, TypeInv, MemoryInv

\* The votes of a round are proposals of models that were asked.
LEMMA BallotType ==
    ASSUME TypeInv
    PROVE  /\ DOMAIN NewBallot = Usable /\ Usable \subseteq DOMAIN tasks
           /\ \A m \in Usable : NewBallot[m] \in Proposals
  BY DEF NewBallot, Usable

LEMMA GatherDecisionTyped ==
    ASSUME TypeInv, GatherDecision PROVE TypeInv'
<1>1. /\ AllAnswered /\ verdict = Open
      /\ \E choice \in Rule!Verdicts(NewBallot, Cardinality(DOMAIN tasks)) :
             Decide(choice, FirstRound)
  BY DEF GatherDecision, AllAnswered
<1>2. PICK choice \in Rule!Verdicts(NewBallot, Cardinality(DOMAIN tasks)) :
         Decide(choice, FirstRound)
  BY <1>1
<1>3. choice \in [kind : {"consensus", "forced"}, choice : Proposals]
  BY BallotType, VerdictType
<1> QED
  BY <1>1, <1>2, <1>3, FirstRoundSound, DecideTyped

LEMMA GatherFallbackTyped ==
    ASSUME TypeInv, GatherFallback PROVE TypeInv'
<1>1. /\ AllAnswered /\ verdict = Open
      /\ \E choice \in Rule!Verdicts(ballot, Cardinality(DOMAIN ballot)) :
             Decide(choice, settled)
  BY DEF GatherFallback, AllAnswered
<1>2. PICK choice \in Rule!Verdicts(ballot, Cardinality(DOMAIN ballot)) :
         Decide(choice, settled)
  BY <1>1
<1>3. choice \in [kind : {"consensus", "forced"}, choice : Proposals]
  BY VerdictType DEF TypeInv, QuestionInv
<1> QED
  BY <1>1, <1>2, <1>3, FirstRoundSound, DecideTyped

\* The write in the middle of a callback.
LEMMA PersistTyped ==
    ASSUME TypeInv, PersistMerged PROVE TypeInv'
<1>1. /\ AllAnswered /\ stored' = Merged /\ safe' = Recorded
      /\ memory' = memory /\ working' = working /\ settled' = settled /\ event' = event
      /\ tasks' = tasks /\ ballot' = ballot /\ round' = round /\ verdict' = verdict
      /\ clock' = clock /\ cycles' = cycles /\ disturbances' = disturbances
      /\ heard' = heard /\ decided' = decided /\ gone' = gone /\ astray' = astray
  BY DEF PersistMerged, callback, questions, counters
<1>2. Recorded \subseteq 1 .. clock /\ decided \subseteq Recorded
  BY DEF TypeInv, CounterInv, Recorded
<1>3. MemoryInv'
  <2>1. Ace(memory)' = Ace(memory)
    BY <1>1 DEF Ace
  <2> QED
    BY <1>1, <2>1, MergedProperties DEF TypeInv, MemoryInv
<1>4. QuestionInv'
  <2>1. Rule!NoVotes' = Rule!NoVotes
    BY DEF Rule!NoVotes
  <2> QED
    BY <1>1, <2>1 DEF TypeInv, QuestionInv, Idle, TaskInv
<1>5. CounterInv'
  BY <1>1, <1>2 DEF TypeInv, CounterInv
<1> QED
  BY <1>3, <1>4, <1>5 DEF TypeInv

\* A round that does not settle the question is followed by at most MaxRounds,
\* or by the reflection of a single model.
LEMMA GatherRefinementTyped ==
    ASSUME TypeInv, GatherRefinement PROVE TypeInv'
<1>1. /\ AllAnswered /\ verdict = Open /\ stored' = stored /\ safe' = safe
      /\ Usable # {} /\ ~ Rule!Settled(NewBallot, DOMAIN tasks, round + 1)
      /\ working' = Merged /\ settled' = FirstRound
      /\ ballot' = NewBallot /\ round' = round + 1
      /\ tasks' = [m \in DOMAIN tasks |-> Running]
      /\ memory' = memory /\ event' = event /\ verdict' = verdict /\ clock' = clock
      /\ cycles' = cycles /\ disturbances' = disturbances /\ heard' = heard
      /\ decided' = decided /\ gone' = gone /\ astray' = astray
  BY DEF GatherRefinement, AllAnswered, AskAll, counters, records
<1>2. MemoryInv'
  <2>1. Ace(memory)' = Ace(memory)
    BY <1>1 DEF Ace
  <2> QED
    BY <1>1, <2>1, FirstRoundSound, MergedProperties DEF TypeInv, MemoryInv
<1>3. round \in Nat /\ round' # 0 /\ round' \in Nat /\ (round' <= MaxRounds \/ round' = 1)
  <2>1. round \in Nat /\ MaxRounds \in Nat
    BY ConsensusAssumption DEF TypeInv, QuestionInv, ConsensusAssumption
  <2>2. round + 1 <= MaxRounds \/ round + 1 = 1
    BY <1>1, <2>1 DEF Rule!Settled, Rule!MustReflect
  <2> QED
    BY <1>1, <2>1, <2>2
<1>4. QuestionInv'
  <2>1. /\ DOMAIN tasks' = DOMAIN tasks /\ tasks' = [m \in DOMAIN tasks' |-> tasks'[m]]
        /\ \A m \in DOMAIN tasks' : tasks'[m] = Running
    BY <1>1
  <2>2. DOMAIN ballot' # {} /\ DOMAIN ballot' \subseteq DOMAIN tasks'
        /\ \A m \in DOMAIN ballot' : ballot'[m] \in Proposals
    BY <1>1, <2>1, BallotType
  <2>3. DOMAIN tasks = memory.pool /\ DOMAIN tasks \subseteq Models
        /\ verdict \in {None, Open, Failed}
                       \cup [kind : {"consensus", "forced"}, choice : Proposals]
    BY <1>1 DEF TypeInv, QuestionInv
  <2> QED
    BY <1>1, <1>3, <2>1, <2>2, <2>3 DEF QuestionInv, TaskInv
<1>5. CounterInv'
  BY <1>1 DEF TypeInv, CounterInv
<1> QED
  BY <1>2, <1>4, <1>5 DEF TypeInv

\* A failed cycle returns the histories of before its first round, which are those
\* of the process with the event, over the process's own lessons.
LEMMA GatherFailureTyped ==
    ASSUME TypeInv, GatherFailure
    PROVE  /\ TypeInv'
           /\ settled = working
           /\ Ace(memory)' = working
<1>1. /\ AllAnswered /\ verdict = Open /\ round = 0
      /\ stored' = stored /\ safe' = safe
      /\ verdict' = Failed /\ memory' = [memory EXCEPT !.histories = settled.histories]
      /\ heard' = Recorded /\ clock' = clock /\ cycles' = cycles
      /\ disturbances' = disturbances /\ decided' = decided /\ gone' = gone
      /\ astray' = astray /\ CallbackEnds
  BY DEF GatherFailure, AllAnswered, counters
<1>2. settled = working /\ working.reflected = memory.reflected /\ Sound(working, clock)
  BY <1>1 DEF TypeInv, QuestionInv, MemoryInv
<1>3. verdict' # Open
  BY <1>1 DEF Failed, Open, Rule!Failed, Rule!Open
<1>4. clock \in Nat
  BY DEF TypeInv, CounterInv
<1>5. /\ QuestionInv' /\ working' = NoAce /\ settled' = NoAce /\ event' = 0
      /\ Sound(NoAce, clock)
  BY <1>1, <1>3, <1>4, EndedTyped
<1>6. memory' = [pool |-> memory.pool, histories |-> working.histories,
                 reflected |-> working.reflected]
  BY <1>1, <1>2 DEF TypeInv, MemoryInv
<1>7. Ace(memory)' = working
  BY <1>2, <1>6 DEF Ace, Sound
<1>8. MemoryInv'
  <2>1. memory.pool \in Pools
    BY DEF TypeInv, MemoryInv
  <2> QED
    BY <1>1, <1>2, <1>5, <1>6, <1>7, <2>1 DEF TypeInv, MemoryInv
<1>9. CounterInv'
  <2>1. heard' \subseteq 1 .. clock /\ decided \subseteq heard' /\ gone \subseteq heard'
    BY <1>1 DEF TypeInv, CounterInv, Recorded
  <2> QED
    BY <1>1, <1>3, <1>4, <1>5, <2>1 DEF TypeInv, CounterInv
<1> QED
  BY <1>1, <1>2, <1>5, <1>7, <1>8, <1>9 DEF TypeInv

\* A restart takes what the row holds.
LEMMA RestartTyped ==
    ASSUME TypeInv, NEW killed \in BOOLEAN, NEW restored \in BOOLEAN, Restart(killed, restored)
    PROVE  /\ TypeInv'
           /\ Ace(memory)' = IF restored /\ stored' = NoAce
                             THEN [histories |-> [m \in InitialPool |-> <<>>], reflected |-> Empty]
                             ELSE stored'
<1>1. /\ disturbances < MaxDisturbances /\ disturbances' = disturbances + 1
      /\ stored' = (IF killed THEN stored ELSE Ace(memory))
      /\ memory' = [pool |-> InitialPool,
                    histories |-> IF restored /\ stored' = NoAce
                                  THEN [m \in InitialPool |-> <<>>] ELSE stored'.histories,
                    reflected |-> stored'.reflected]
      /\ verdict' = (IF verdict = Open THEN None ELSE verdict)
      /\ CallbackEnds
      /\ safe' = (IF killed THEN safe ELSE heard)
      /\ gone' = (IF killed THEN gone \cup (heard \ safe) ELSE gone)
      /\ clock' = clock /\ cycles' = cycles /\ heard' = heard /\ decided' = decided
  BY DEF Restart
<1>2. astray' \in BOOLEAN
  <2>1. astray' = (astray \/ ~ (InitialPool \subseteq DOMAIN memory'.histories))
    BY DEF Restart
  <2> QED
    BY <2>1, Zenon
<1>3. /\ verdict' # Open
      /\ verdict' \in {None, Open, Failed}
                      \cup [kind : {"consensus", "forced"}, choice : Proposals]
  BY <1>1 DEF TypeInv, QuestionInv, None, Open, Rule!None, Rule!Open
<1>4. clock \in Nat
  BY DEF TypeInv, CounterInv
<1>5. /\ QuestionInv' /\ working' = NoAce /\ settled' = NoAce /\ event' = 0
      /\ Sound(NoAce, clock)
  BY <1>1, <1>3, <1>4, EndedTyped
<1>6. Sound(stored', clock)
  BY <1>1 DEF TypeInv, MemoryInv
<1>7. ASSUME restored /\ stored' = NoAce
      PROVE  /\ Ace(memory)' = [histories |-> [m \in InitialPool |-> <<>>], reflected |-> Empty]
             /\ Sound(Ace(memory)', clock)
  <2> DEFINE blank == [histories |-> [m \in InitialPool |-> <<>>], reflected |-> Empty]
  <2>1. stored'.reflected = Empty
    BY <1>7 DEF NoAce
  <2>2. Ace(memory)' = blank
    BY <1>1, <1>7, <2>1 DEF Ace
  <2>3. InitialPool \subseteq Keys
    BY ConsensusAssumption DEF ConsensusAssumption, Keys
  <2>4. /\ blank = Ace(blank)
        /\ DOMAIN blank.histories = InitialPool /\ DOMAIN blank.reflected = {}
        /\ \A k \in DOMAIN blank.histories : blank.histories[k] = <<>>
    BY DEF Ace, Empty
  <2> HIDE DEF blank
  <2>5. Sound(blank, clock)
    BY <1>4, <2>3, <2>4, BlankSound
  <2> QED
    BY <2>2, <2>5 DEF blank
<1>8. ASSUME ~ (restored /\ stored' = NoAce)
      PROVE  Ace(memory)' = stored' /\ Sound(Ace(memory)', clock)
  <2>1. stored' = [histories |-> stored'.histories, reflected |-> stored'.reflected]
    BY <1>6 DEF Sound, Ace
  <2>2. Ace(memory)' = stored'
    BY <1>1, <1>8, <2>1 DEF Ace
  <2> QED
    BY <1>6, <2>2
<1>9. MemoryInv'
  <2>1. Sound(Ace(memory)', clock)
    BY <1>7, <1>8
  <2>2. InitialPool \in Pools
    BY ConsensusAssumption DEF ConsensusAssumption
  <2>3. /\ memory' = [pool |-> memory'.pool, histories |-> memory'.histories,
                      reflected |-> memory'.reflected]
        /\ memory'.pool = InitialPool
    BY <1>1
  <2> QED
    BY <1>1, <1>5, <1>6, <2>1, <2>2, <2>3 DEF MemoryInv
<1>10. CounterInv'
  <2>1. disturbances' \in 0 .. MaxDisturbances
    BY <1>1, ConsensusAssumption DEF TypeInv, CounterInv, ConsensusAssumption
  <2>2. /\ safe' \subseteq 1 .. clock /\ decided \subseteq safe' /\ gone' \subseteq heard
    BY <1>1 DEF TypeInv, CounterInv
  <2> QED
    BY <1>1, <1>2, <1>3, <1>4, <1>5, <2>1, <2>2 DEF TypeInv, CounterInv
<1> QED
  BY <1>5, <1>7, <1>8, <1>9, <1>10 DEF TypeInv

\* What a new pool inherits from one model.
LEMMA InheritSound ==
    ASSUME NEW ace, NEW c \in Nat, Sound(ace, c), NEW m \in Keys, NEW pool \in SUBSET Models,
           NEW new, new = [histories |-> [x \in pool |-> HistoryOf(ace, m)],
                           reflected |-> [x \in pool |-> ReflectedOn(ace, m)]]
    PROVE  /\ Sound(new, c)
           /\ DOMAIN new.histories = pool
           /\ \A x \in pool : AccountedFor(new, x) = AccountedFor(ace, m)
<1>1. /\ new = Ace(new) /\ DOMAIN new.histories = pool /\ DOMAIN new.reflected = pool
      /\ pool \subseteq Keys
  BY DEF Ace, Keys
<1>2. \A x \in pool : HistoryOf(new, x) = HistoryOf(ace, m) /\ ReflectedOn(new, x) = ReflectedOn(ace, m)
  BY DEF HistoryOf, ReflectedOn
<1>3. \A x \in pool : SoundAt(new, x, c)
  <2>1. SoundAt(ace, m, c)
    BY DEF Sound
  <2> QED
    BY <1>2, <2>1 DEF SoundAt
<1>4. ASSUME NEW x \in Keys, x \notin pool PROVE SoundAt(new, x, c)
  <2>1. HistoryOf(new, x) = <<>> /\ ReflectedOn(new, x) = {}
    BY <1>1, <1>4 DEF HistoryOf, ReflectedOn
  <2>2. <<>> \in Seq(1 .. c) /\ DOMAIN <<>> = {}
    OBVIOUS
  <2> QED
    BY <2>1, <2>2 DEF SoundAt
<1> QED
  BY <1>1, <1>2, <1>3, <1>4 DEF Sound, AccountedFor, InHistory

\* A pool switch gives each model of the new pool one old model's memory.
LEMMA SwitchPoolTyped ==
    ASSUME TypeInv, NEW pool \in Pools, NEW limit \in Nat, SwitchPool(pool, limit)
    PROVE  /\ TypeInv'
           /\ memory'.pool = pool /\ DOMAIN memory'.histories = pool
           /\ \/ DOMAIN memory.histories = {}
              \/ \E m \in DOMAIN memory.histories :
                    \A x \in pool : AccountedFor(Ace(memory)', x) = AccountedFor(Ace(memory), m)
<1> DEFINE Inherited(ace, m) ==
             [pool |-> pool,
              histories |-> [x \in pool |-> HistoryOf(ace, m)],
              reflected |-> [x \in pool |-> ReflectedOn(ace, m)]]
<1>1. /\ verdict # Open
      /\ stored' = stored /\ working' = working /\ settled' = settled /\ event' = event
      /\ tasks' = tasks /\ ballot' = ballot /\ round' = round /\ verdict' = verdict
      /\ clock' = clock /\ cycles' = cycles /\ heard' = heard /\ decided' = decided
      /\ safe' = safe /\ gone' = gone /\ astray' = astray
  BY DEF SwitchPool, callback, questions, records
<1>2. /\ disturbances < MaxDisturbances
      /\ disturbances' = disturbances + 1 \/ disturbances' = disturbances + 2
      /\ disturbances' <= MaxDisturbances \/ disturbances' = disturbances + 1
  BY DEF SwitchPool
<1>3. \/ /\ DOMAIN memory.histories = {}
         /\ memory' = [pool |-> pool, histories |-> [x \in pool |-> <<>>],
                       reflected |-> [x \in pool |-> {}]]
      \/ \E m \in DOMAIN memory.histories : memory' = Inherited(Ace(memory), m)
      \/ \E m \in DOMAIN memory.histories :
            \E ace \in Shortened(Ace(memory), m) : memory' = Inherited(ace, m)
  BY DEF SwitchPool
<1>4. clock \in Nat /\ Sound(Ace(memory), clock) /\ pool \subseteq Models
      /\ Ace(memory).histories = memory.histories
  BY ConsensusAssumption DEF TypeInv, CounterInv, MemoryInv, ConsensusAssumption, Ace
<1>5. DOMAIN memory.histories \subseteq Keys
  BY <1>4 DEF Sound
<1> HIDE DEF Inherited
<1>6. ASSUME NEW ace, Sound(ace, clock), NEW m \in Keys, memory' = Inherited(ace, m)
      PROVE  /\ Sound(Ace(memory)', clock)
             /\ memory' = [pool |-> pool, histories |-> memory'.histories,
                           reflected |-> memory'.reflected]
             /\ DOMAIN memory'.histories = pool
             /\ \A x \in pool : AccountedFor(Ace(memory)', x) = AccountedFor(ace, m)
  <2> DEFINE new == [histories |-> [x \in pool |-> HistoryOf(ace, m)],
                     reflected |-> [x \in pool |-> ReflectedOn(ace, m)]]
  <2>1. Ace(memory)' = new /\ memory'.histories = new.histories
    BY <1>6 DEF Inherited, Ace
  <2>2. /\ Sound(new, clock)
        /\ DOMAIN new.histories = pool
        /\ \A x \in pool : AccountedFor(new, x) = AccountedFor(ace, m)
    BY <1>4, <1>6, InheritSound
  <2>3. memory' = [pool |-> pool, histories |-> memory'.histories,
                   reflected |-> memory'.reflected]
    BY <1>6 DEF Inherited
  <2> HIDE DEF new
  <2> QED
    BY <2>1, <2>2, <2>3
<1>7. /\ Sound(Ace(memory)', clock)
      /\ memory' = [pool |-> pool, histories |-> memory'.histories,
                    reflected |-> memory'.reflected]
      /\ DOMAIN memory'.histories = pool
      /\ \/ DOMAIN memory.histories = {}
         \/ \E m \in DOMAIN memory.histories :
               \A x \in pool : AccountedFor(Ace(memory)', x) = AccountedFor(Ace(memory), m)
  <2>1. CASE /\ DOMAIN memory.histories = {}
             /\ memory' = [pool |-> pool, histories |-> [x \in pool |-> <<>>],
                           reflected |-> [x \in pool |-> {}]]
    <3> DEFINE new == [histories |-> [x \in pool |-> <<>>], reflected |-> [x \in pool |-> {}]]
    <3>1. Ace(memory)' = new
      BY <2>1 DEF Ace
    <3>2. /\ new = Ace(new) /\ DOMAIN new.histories = pool /\ DOMAIN new.reflected = pool
          /\ pool \subseteq Keys
          /\ \A k \in pool : new.histories[k] = <<>> /\ new.reflected[k] = {}
      BY <1>4 DEF Ace, Keys
    <3> HIDE DEF new
    <3>3. Sound(new, clock)
      BY <1>4, <3>2, BlankSound
    <3> QED
      BY <2>1, <3>1, <3>3
  <2>2. CASE \E m \in DOMAIN memory.histories : memory' = Inherited(Ace(memory), m)
    BY <1>4, <1>5, <1>6, <2>2
  <2>3. CASE \E m \in DOMAIN memory.histories :
                \E ace \in Shortened(Ace(memory), m) : memory' = Inherited(ace, m)
    <3>1. PICK m \in DOMAIN memory.histories :
             \E ace \in Shortened(Ace(memory), m) : memory' = Inherited(ace, m)
      BY <2>3
    <3>2. PICK ace \in Shortened(Ace(memory), m) : memory' = Inherited(ace, m)
      BY <3>1
    <3>3. Sound(ace, clock) /\ AccountedFor(ace, m) = AccountedFor(Ace(memory), m)
      BY <1>4, <1>5, ShortenedProperties
    <3> QED
      BY <1>5, <1>6, <3>2, <3>3
  <2> QED
    BY <1>3, <2>1, <2>2, <2>3
<1>8. MemoryInv'
  <2>1. memory'.pool = pool
    BY <1>7
  <2> QED
    BY <1>1, <1>7, <2>1 DEF TypeInv, MemoryInv
<1>9. QuestionInv'
  <2>1. Rule!NoVotes' = Rule!NoVotes
    BY DEF Rule!NoVotes
  <2> QED
    BY <1>1, <2>1 DEF TypeInv, QuestionInv, Idle, TaskInv
<1>10. CounterInv'
  <2>1. disturbances' \in 0 .. MaxDisturbances
    BY <1>2, ConsensusAssumption DEF TypeInv, CounterInv, ConsensusAssumption
  <2> QED
    BY <1>1, <2>1 DEF TypeInv, CounterInv
<1> QED
  BY <1>7, <1>8, <1>9, <1>10 DEF TypeInv

LEMMA StutterInv ==
    ASSUME UNCHANGED vars
    PROVE  (TypeInv => TypeInv') /\ (AccountInv => AccountInv')
<1> USE DEF vars, callback, questions, counters, records
<1>1. MemoryInv => MemoryInv'
  BY DEF MemoryInv, Ace
<1>2. QuestionInv => QuestionInv'
  BY DEF QuestionInv, Idle, TaskInv, Rule!NoVotes
<1>3. CounterInv => CounterInv'
  BY DEF CounterInv
<1>4. AccountInv => AccountInv'
  BY DEF AccountInv, AccountsForAll, Recorded, Ace
<1> QED
  BY <1>1, <1>2, <1>3, <1>4 DEF TypeInv

LEMMA TypeStep ==
    ASSUME TypeInv, [Next]_vars PROVE TypeInv'
<1>1. CASE UNCHANGED vars
  BY <1>1, StutterInv
<1>2. ASSUME NEW withEvent \in BOOLEAN, Begin(withEvent) PROVE TypeInv'
  BY <1>2, BeginTyped
<1>3. ASSUME NEW m \in Models, ModelAnswers(m) PROVE TypeInv'
  BY <1>3, AnswerTyped DEF ModelAnswers
<1>4. CASE Gather
  BY <1>4, PersistTyped, GatherDecisionTyped, GatherRefinementTyped, GatherFallbackTyped,
     GatherFailureTyped DEF Gather
<1>5. ASSUME NEW killed \in BOOLEAN, NEW restored \in BOOLEAN, Restart(killed, restored)
      PROVE  TypeInv'
  BY <1>5, RestartTyped
<1>6. ASSUME NEW pool \in Pools, NEW limit \in 0 .. 2 * MaxCycles, SwitchPool(pool, limit)
      PROVE  TypeInv'
  <2>1. limit \in Nat
    BY ConsensusAssumption DEF ConsensusAssumption
  <2> QED
    BY <1>6, <2>1, SwitchPoolTyped
<1> QED
  BY <1>1, <1>2, <1>3, <1>4, <1>5, <1>6 DEF Next

\* A sound state is a typed one, while the entries are.
LEMMA SoundIsAce ==
    ASSUME NEW ace, NEW c \in Nat, Sound(ace, c), c <= 2 * MaxCycles
    PROVE  IsAce(ace)
<1>1. 1 .. c \subseteq Entries
  BY ConsensusAssumption DEF Entries, ConsensusAssumption
<1>2. ASSUME NEW m \in DOMAIN ace.histories PROVE ace.histories[m] \in Seq(Entries)
  <2>1. ace.histories[m] \in Seq(1 .. c)
    BY DEF Sound, SoundAt, HistoryOf
  <2> QED
    BY <1>1, <2>1, SeqMonotonic
<1>3. ASSUME NEW m \in DOMAIN ace.reflected PROVE ace.reflected[m] \subseteq Entries
  BY <1>1 DEF Sound, SoundAt, ReflectedOn
<1> QED
  BY <1>2, <1>3 DEF IsAce, Sound, Keys

LEMMA TypeInvIsTypeOK ==
    ASSUME TypeInv PROVE TypeOK
<1>1. /\ clock \in Nat /\ clock <= 2 * MaxCycles /\ 1 .. clock \subseteq Entries
      /\ MaxRounds \in Nat /\ MaxCycles \in Nat
  BY ConsensusAssumption DEF TypeInv, CounterInv, Entries, ConsensusAssumption
<1>2. IsAce(Ace(memory)) /\ IsAce(stored) /\ IsAce(working) /\ IsAce(settled)
  BY <1>1, SoundIsAce DEF TypeInv, MemoryInv
<1>3. \A m \in DOMAIN tasks :
          tasks[m] = Running \/ (tasks[m].answer \in Answers /\ IsAce(tasks[m].ace))
  BY <1>1, SoundIsAce DEF TypeInv, QuestionInv, TaskInv
<1>4. /\ event \in 0 .. 2 * MaxCycles /\ clock \in 0 .. 2 * MaxCycles
      /\ cycles \in 0 .. MaxCycles /\ disturbances \in 0 .. MaxDisturbances
      /\ heard \subseteq Entries /\ decided \subseteq heard
      /\ safe \subseteq Entries /\ gone \subseteq heard
  BY <1>1 DEF TypeInv, CounterInv
<1>5. round \in 0 .. MaxRounds + 2
  BY <1>1 DEF TypeInv, QuestionInv
<1> QED
  BY <1>2, <1>3, <1>4, <1>5 DEF TypeInv, MemoryInv, QuestionInv, CounterInv, TypeOK, Idle

\* Every reachable state is typed, for any pool, profile and length of run; in
\* particular a question has at most MaxRounds refinement rounds, or the one
\* reflection of a single model (aggregator.ex).
THEOREM TypeCorrect == Spec => []TypeOK
<1>1. Init => TypeInv
  BY InitInv
<1>2. TypeInv /\ [Next]_vars => TypeInv'
  BY TypeStep
<1>3. TypeInv => TypeOK
  BY TypeInvIsTypeOK
<1> QED
  BY <1>1, <1>2, <1>3, PTL DEF Spec

\* Condensation eats a history from its oldest end, whatever condensations run in
\* parallel and however their results are merged (condensation.ex, aggregator.ex).
THEOREM CondensedInOrder == Spec => []OldestCondensedFirst
<1>1. ASSUME TypeInv PROVE OldestCondensedFirst
  <2>1. ASSUME NEW ace, Sound(ace, clock), NEW m \in DOMAIN ace.histories
        PROVE  LET h == ace.histories[m]
               IN  /\ \A i, j \in DOMAIN h : i < j => h[i] < h[j]
                   /\ \A e \in ReflectedOn(ace, m), i \in DOMAIN h : e < h[i]
    <3>1. SoundAt(ace, m, clock) /\ HistoryOf(ace, m) = ace.histories[m]
      BY <2>1 DEF Sound, HistoryOf
    <3> QED
      BY <3>1 DEF SoundAt
  <2>2. Sound(Ace(memory), clock) /\ Sound(stored, clock) /\ Sound(working, clock)
    BY <1>1 DEF TypeInv, MemoryInv
  <2> QED
    BY <2>1, <2>2 DEF OldestCondensedFirst
<1>2. Init => TypeInv
  BY InitInv
<1>3. TypeInv /\ [Next]_vars => TypeInv'
  BY TypeStep
<1> QED
  BY <1>1, <1>2, <1>3, PTL DEF Spec

-----------------------------------------------------------------------------
(* What the agent accounts for *)

\* The event is in every history of the callback that starts with it.
LEMMA BeginAccounts ==
    ASSUME TypeInv, AccountInv, NEW withEvent \in BOOLEAN, Begin(withEvent)
    PROVE  AccountInv'
<1>1. /\ memory' = memory /\ stored' = stored /\ verdict' = Open
      /\ heard' = heard /\ safe' = safe /\ gone' = gone /\ astray' = astray
      /\ event' = (IF withEvent THEN clock + 1 ELSE 0)
      /\ settled' = working' /\ verdict # Open
      /\ tasks' = [m \in memory.pool |-> Running]
  BY DEF Begin, AskAll, records
<1>2. clock \in Nat /\ Sound(Ace(memory), clock) /\ gone \subseteq heard /\ heard \subseteq 1 .. clock
      /\ memory.pool # {} /\ Ace(memory).histories = memory.histories
  BY ConsensusAssumption DEF TypeInv, MemoryInv, CounterInv, ConsensusAssumption, Ace
<1>3. ASSUME /\ memory.pool \subseteq DOMAIN memory.histories
             /\ AccountsFor(Ace(memory), heard \ gone)
      PROVE  AccountsForAll(working)'
  <2>1. CASE withEvent
    <3>1. working' = AddEntry(Ace(memory), clock + 1)
      BY <2>1, BeginTyped
    <3>2. /\ DOMAIN working'.histories = DOMAIN memory.histories
          /\ \A k \in DOMAIN memory.histories :
                AccountedFor(working', k) = AccountedFor(Ace(memory), k) \cup {clock + 1}
      BY <1>2, <1>3, <3>1, ConsensusAssumption, AddEntryProperties DEF ConsensusAssumption
    <3>3. Recorded' \ gone' \subseteq (heard \ gone) \cup {clock + 1}
      BY <1>1, <2>1 DEF Recorded
    <3> QED
      BY <1>1, <1>2, <1>3, <3>2, <3>3 DEF AccountsForAll, AccountsFor
  <2>2. CASE ~ withEvent
    <3>1. working' = Ace(memory)
      BY <2>2, BeginTyped
    <3>2. Recorded' \ gone' = heard \ gone
      BY <1>1, <2>2 DEF Recorded
    <3> QED
      BY <1>1, <1>2, <1>3, <3>1, <3>2 DEF AccountsForAll
  <2> QED
    BY <2>1, <2>2
<1>4. AccountsForAll(working)' => AccountsForAll(settled)'
  BY <1>1 DEF AccountsForAll
<1>5. \A m \in DOMAIN tasks' : tasks'[m] = Running
  BY <1>1
<1>6. Ace(memory)' = Ace(memory)
  BY <1>1 DEF Ace
<1> QED
  BY <1>1, <1>3, <1>4, <1>5, <1>6 DEF AccountInv

\* Condensing its own copy, a task reflects on what it cuts.
LEMMA AnswerAccounts ==
    ASSUME TypeInv, AccountInv, NEW m \in Models, NEW answer \in Answers, Answer(m, answer)
    PROVE  AccountInv'
<1>1. /\ verdict = Open /\ verdict' = verdict
      /\ memory' = memory /\ stored' = stored /\ working' = working /\ settled' = settled
      /\ event' = event /\ heard' = heard /\ safe' = safe /\ gone' = gone /\ astray' = astray
  BY DEF Answer, callback, records
<1>2. /\ DOMAIN tasks' = DOMAIN tasks /\ m \in DOMAIN tasks
      /\ \A x \in DOMAIN tasks \ {m} : tasks'[x] = tasks[x]
      /\ TaskInv(m)' /\ tasks'[m] # Running
      /\ AccountedFor(tasks'[m].ace, m) = AccountedFor(working, m)
      /\ DOMAIN tasks'[m].ace.histories \subseteq DOMAIN working.histories \cup {m}
  <2>1. /\ TypeInv'
        /\ m \in DOMAIN tasks
        /\ tasks' = [tasks EXCEPT ![m] = [answer |-> answer, ace |-> tasks'[m].ace]]
        /\ AccountedFor(tasks'[m].ace, m) = AccountedFor(working, m)
        /\ DOMAIN tasks'[m].ace.histories \subseteq DOMAIN working.histories \cup {m}
    BY AnswerTyped
  <2>2. DOMAIN tasks' = DOMAIN tasks /\ \A x \in DOMAIN tasks \ {m} : tasks'[x] = tasks[x]
    BY <2>1
  <2>3. TaskInv(m)'
    BY <2>1, <2>2 DEF TypeInv, QuestionInv
  <2>4. tasks'[m] # Running
    <3>1. tasks'[m].answer = answer
      BY <2>1
    <3>2. answer # "running" /\ Running.answer = "running"
      BY ConsensusAssumption DEF Answers, ConsensusAssumption, Running
    <3> QED
      BY <3>1, <3>2
  <2> QED
    BY <2>1, <2>2, <2>3, <2>4
<1>3. CopyOf(tasks'[m].ace, working, m)
  BY <1>1, <1>2 DEF TaskInv
<1>4. ASSUME AccountsForAll(working), m \in DOMAIN working.histories
      PROVE  AccountsForAll(tasks[m].ace)'
  <2> DEFINE ace == tasks'[m].ace
  <2>1. DOMAIN ace.histories = DOMAIN working.histories
    BY <1>2, <1>3, <1>4 DEF CopyOf, OwnKeyOnly
  <2>2. ASSUME NEW x \in DOMAIN ace.histories, x # m
        PROVE  AccountedFor(working, x) \subseteq AccountedFor(ace, x)
    <3>1. /\ ace.histories[x] = working.histories[x]
          /\ ReflectedOn(working, x) \subseteq ReflectedOn(ace, x)
      BY <1>3, <2>2 DEF CopyOf, OwnKeyOnly, ReflectedOn
    <3> QED
      BY <2>1, <3>1 DEF AccountedFor, InHistory, HistoryOf
  <2>3. AccountedFor(ace, m) = AccountedFor(working, m)
    BY <1>2
  <2> HIDE DEF ace
  <2>4. memory.pool \subseteq DOMAIN ace.histories /\ AccountsFor(ace, Recorded \ gone)
    BY <1>4, <2>1, <2>2, <2>3 DEF AccountsForAll, AccountsFor
  <2> QED
    BY <1>1, <2>4 DEF ace, AccountsForAll, Recorded
<1>5. ASSUME NEW x \in DOMAIN tasks \ {m}, AccountsForAll(tasks[x].ace)
      PROVE  AccountsForAll(tasks[x].ace)'
  BY <1>1, <1>2, <1>5 DEF AccountsForAll, Recorded
<1>6. AccountsForAll(working) => AccountsForAll(working)'
  BY <1>1 DEF AccountsForAll, Recorded
<1>7. AccountsForAll(settled) => AccountsForAll(settled)'
  BY <1>1 DEF AccountsForAll, Recorded
<1>8. DOMAIN tasks = memory.pool
  BY <1>1 DEF TypeInv, QuestionInv
<1>9. CASE astray
  BY <1>1, <1>9 DEF AccountInv
<1>10. CASE ~ astray
  <2>1. /\ memory.pool \subseteq DOMAIN memory.histories
        /\ AccountsFor(Ace(memory), heard \ gone)
        /\ AccountsFor(stored, safe \ gone)
        /\ DOMAIN stored.histories = {} => safe = {}
        /\ AccountsForAll(working) /\ AccountsForAll(settled)
        /\ \A x \in DOMAIN tasks : tasks[x] # Running => AccountsForAll(tasks[x].ace)
    BY <1>1, <1>10 DEF AccountInv
  <2>2. m \in DOMAIN working.histories
    BY <1>2, <1>8, <2>1 DEF AccountsForAll
  <2>3. \A x \in DOMAIN tasks' : tasks'[x] # Running => AccountsForAll(tasks[x].ace)'
    BY <1>2, <1>4, <1>5, <2>1, <2>2
  <2>4. Ace(memory)' = Ace(memory)
    BY <1>1 DEF Ace
  <2> QED
    BY <1>1, <1>6, <1>7, <2>1, <2>3, <2>4 DEF AccountInv
<1> QED
  BY <1>9, <1>10

\* The merged state and the one a decision is made in account for what the tasks'
\* states do.
LEMMA MergedAccounts ==
    ASSUME TypeInv, AccountInv, AllAnswered, ~ astray
    PROVE  /\ AccountsForAll(Merged) /\ AccountsForAll(FirstRound)
           /\ AccountsForAll(working) /\ AccountsForAll(settled)
           /\ memory.pool # {}
<1>1. /\ AccountsForAll(working) /\ AccountsForAll(settled)
      /\ \A m \in DOMAIN tasks : AccountsForAll(tasks[m].ace)
  BY DEF AccountInv, AllAnswered
<1>2. AccountsFor(Merged, Recorded \ gone)
  BY <1>1, MergedAccountsFor DEF AccountsForAll
<1>3. memory.pool \subseteq DOMAIN Merged.histories
  BY <1>1, MergedProperties DEF AccountsForAll
<1>4. memory.pool # {}
  BY ConsensusAssumption DEF TypeInv, MemoryInv, ConsensusAssumption
<1> QED
  BY <1>1, <1>2, <1>3, <1>4 DEF AccountsForAll, FirstRound

\* A decision adds its entry to what every history accounts for.
LEMMA DecideAccounts ==
    ASSUME TypeInv, NEW first, Sound(first, clock), AccountsForAll(first), memory.pool # {},
           NEW choice \in [kind : {"consensus", "forced"}, choice : Proposals],
           Decide(choice, first)
    PROVE  AccountInv'
<1> DEFINE next == AddEntry(first, clock + 1)
<1>1. /\ verdict' = choice
      /\ memory' = [memory EXCEPT !.histories = next.histories, !.reflected = next.reflected]
      /\ stored' = next
      /\ heard' = Recorded \cup {clock + 1} /\ safe' = heard' /\ gone' = gone
  BY DEF Decide
<1>2. clock \in Nat
  BY DEF TypeInv, CounterInv
<1>3. /\ Sound(next, clock + 1)
      /\ DOMAIN first.histories # {} => DOMAIN next.histories = DOMAIN first.histories
      /\ \A k \in DOMAIN first.histories : AccountedFor(next, k) = AccountedFor(first, k) \cup {clock + 1}
  BY <1>2, ConsensusAssumption, AddEntryProperties DEF ConsensusAssumption
<1> HIDE DEF next
<1>4. /\ memory'.pool = memory.pool /\ memory'.histories = next.histories
      /\ Ace(memory)' = next
  <2>1. next = [histories |-> next.histories, reflected |-> next.reflected]
    BY <1>3 DEF Sound, Ace
  <2>2. memory' = [pool |-> memory.pool, histories |-> next.histories,
                   reflected |-> next.reflected]
    BY <1>1 DEF TypeInv, MemoryInv
  <2> QED
    BY <2>1, <2>2 DEF Ace
<1>5. DOMAIN next.histories = DOMAIN first.histories /\ DOMAIN next.histories # {}
      /\ memory.pool \subseteq DOMAIN next.histories
  BY <1>3 DEF AccountsForAll
<1>6. heard' \ gone' \subseteq (Recorded \ gone) \cup {clock + 1}
  BY <1>1
<1>7. AccountsFor(next, heard' \ gone')
  BY <1>3, <1>5, <1>6 DEF AccountsForAll, AccountsFor
<1>8. verdict' # Open
  <2>1. choice.kind # Open.kind
    BY DEF Open, Rule!Open
  <2> QED
    BY <1>1, <2>1
<1> QED
  BY <1>1, <1>4, <1>5, <1>7, <1>8 DEF AccountInv

\* The write in the middle of a callback covers the event, in every history.
LEMMA PersistAccounts ==
    ASSUME TypeInv, AccountInv, ~ astray, PersistMerged
    PROVE  AccountInv'
<1>1. /\ AllAnswered /\ stored' = Merged /\ safe' = Recorded
      /\ memory' = memory /\ working' = working /\ settled' = settled /\ event' = event
      /\ tasks' = tasks /\ verdict' = verdict
      /\ heard' = heard /\ gone' = gone /\ astray' = astray
  BY DEF PersistMerged, callback, questions
<1>2. AccountsFor(Merged, Recorded \ gone) /\ DOMAIN Merged.histories # {}
  BY <1>1, MergedAccounts DEF AccountsForAll
<1>3. Ace(memory)' = Ace(memory)
  BY <1>1 DEF Ace
<1>4. /\ AccountsFor(stored, safe \ gone)'
      /\ (DOMAIN stored.histories = {} => safe = {})'
  BY <1>1, <1>2 DEF AccountsFor
<1> QED
  BY <1>1, <1>3, <1>4 DEF AccountInv, AccountsForAll, Recorded

LEMMA GatherAccounts ==
    ASSUME TypeInv, AccountInv, Gather
    PROVE  AccountInv'
<1>1. AllAnswered /\ verdict = Open
  BY DEF Gather, PersistMerged, GatherDecision, GatherRefinement, GatherFallback,
         GatherFailure, AllAnswered
<1>2. CASE astray
  <2>1. astray' = astray
    BY DEF Gather, PersistMerged, GatherDecision, GatherRefinement, GatherFallback,
           GatherFailure, Decide, records
  <2> QED
    BY <1>2, <2>1 DEF AccountInv
<1>3. CASE ~ astray
  <2>1. /\ AccountsForAll(Merged) /\ AccountsForAll(FirstRound)
        /\ AccountsForAll(working) /\ AccountsForAll(settled)
        /\ memory.pool # {}
    BY <1>1, <1>3, MergedAccounts
  <2>2. Sound(FirstRound, clock) /\ Sound(settled, clock)
    BY <1>1, FirstRoundSound
  <2>3. CASE GatherDecision
    <3>1. PICK choice \in Rule!Verdicts(NewBallot, Cardinality(DOMAIN tasks)) :
             Decide(choice, FirstRound)
      BY <2>3 DEF GatherDecision
    <3>2. choice \in [kind : {"consensus", "forced"}, choice : Proposals]
      BY BallotType, VerdictType
    <3> QED
      BY <2>1, <2>2, <3>1, <3>2, DecideAccounts
  <2>4. CASE GatherFallback
    <3>1. PICK choice \in Rule!Verdicts(ballot, Cardinality(DOMAIN ballot)) :
             Decide(choice, settled)
      BY <2>4 DEF GatherFallback
    <3>2. choice \in [kind : {"consensus", "forced"}, choice : Proposals]
      BY VerdictType DEF TypeInv, QuestionInv
    <3> QED
      BY <2>1, <2>2, <3>1, <3>2, DecideAccounts
  <2>5. CASE GatherRefinement
    <3>1. /\ stored' = stored /\ safe' = safe /\ working' = Merged /\ settled' = FirstRound
          /\ tasks' = [m \in DOMAIN tasks |-> Running]
          /\ memory' = memory /\ event' = event /\ verdict' = verdict
          /\ heard' = heard /\ gone' = gone /\ astray' = astray
      BY <2>5 DEF GatherRefinement, AskAll, records
    <3>2. AccountsForAll(working)' /\ AccountsForAll(settled)'
      BY <2>1, <3>1 DEF AccountsForAll, Recorded
    <3>3. \A m \in DOMAIN tasks' : tasks'[m] = Running
      BY <3>1
    <3>4. /\ AccountsFor(stored', safe' \ gone')
          /\ DOMAIN stored'.histories = {} => safe' = {}
      BY <1>3, <3>1 DEF AccountInv
    <3>5. Ace(memory)' = Ace(memory)
      BY <3>1 DEF Ace
    <3>6. /\ memory.pool \subseteq DOMAIN memory.histories
          /\ AccountsFor(Ace(memory), heard \ gone)
      BY <1>3 DEF AccountInv
    <3> QED
      BY <3>1, <3>2, <3>3, <3>4, <3>5, <3>6 DEF AccountInv
  <2>6. CASE GatherFailure
    <3>1. /\ verdict' = Failed /\ memory' = [memory EXCEPT !.histories = settled.histories]
          /\ heard' = Recorded /\ gone' = gone /\ stored' = stored /\ safe' = safe
      BY <2>6 DEF GatherFailure
    <3>2. settled = working /\ Ace(memory)' = working
      BY <2>6, GatherFailureTyped
    <3>3. memory'.pool = memory.pool /\ memory'.histories = working.histories
      BY <3>1, <3>2 DEF TypeInv, MemoryInv
    <3>4. /\ AccountsFor(stored', safe' \ gone')
          /\ DOMAIN stored'.histories = {} => safe' = {}
      BY <1>3, <3>1 DEF AccountInv
    <3>5. verdict' # Open
      BY <3>1 DEF Failed, Open, Rule!Failed, Rule!Open
    <3> QED
      BY <2>1, <3>1, <3>2, <3>3, <3>4, <3>5 DEF AccountInv, AccountsForAll
  <2>7. CASE PersistMerged
    BY <1>3, <2>7, PersistAccounts
  <2> QED
    BY <2>3, <2>4, <2>5, <2>6, <2>7 DEF Gather
<1> QED
  BY <1>2, <1>3

\* A kill loses what the row does not cover, and counts it as gone; an ordinary
\* stop stores the process's own state.
LEMMA RestartAccounts ==
    ASSUME TypeInv, AccountInv, NEW killed \in BOOLEAN, NEW restored \in BOOLEAN,
           Restart(killed, restored)
    PROVE  AccountInv'
<1>1. /\ stored' = (IF killed THEN stored ELSE Ace(memory))
      /\ memory'.pool = InitialPool
      /\ verdict' = (IF verdict = Open THEN None ELSE verdict)
      /\ safe' = (IF killed THEN safe ELSE heard)
      /\ gone' = (IF killed THEN gone \cup (heard \ safe) ELSE gone)
      /\ heard' = heard
  BY DEF Restart
<1>2. astray' = (astray \/ ~ (InitialPool \subseteq DOMAIN memory'.histories))
  BY DEF Restart
<1>3. Ace(memory)' = IF restored /\ stored' = NoAce
                     THEN [histories |-> [m \in InitialPool |-> <<>>], reflected |-> Empty]
                     ELSE stored'
  BY RestartTyped
<1>4. verdict' # Open
  BY <1>1 DEF None, Open, Rule!None, Rule!Open
<1>5. CASE astray'
  BY <1>5 DEF AccountInv
<1>6. CASE ~ astray'
  <2>1. ~ astray /\ InitialPool \subseteq DOMAIN memory'.histories
    BY <1>2, <1>6
  <2>2. /\ memory.pool \subseteq DOMAIN memory.histories /\ memory.pool # {}
        /\ AccountsFor(Ace(memory), heard \ gone)
        /\ AccountsFor(stored, safe \ gone)
        /\ DOMAIN stored.histories = {} => safe = {}
        /\ Ace(memory).histories = memory.histories
    BY <2>1, ConsensusAssumption
       DEF AccountInv, TypeInv, MemoryInv, ConsensusAssumption, Ace
  <2>3. /\ AccountsFor(stored', safe' \ gone')
        /\ DOMAIN stored'.histories = {} => safe' = {}
    <3>1. CASE killed
      BY <1>1, <2>2, <3>1 DEF AccountsFor
    <3>2. CASE ~ killed
      BY <1>1, <2>2, <3>2
    <3> QED
      BY <3>1, <3>2
  <2>4. heard' \ gone' \subseteq safe' \ gone'
    BY <1>1
  <2>5. AccountsFor(Ace(memory)', heard' \ gone')
    <3>1. CASE restored /\ stored' = NoAce
      <4>1. DOMAIN stored'.histories = {}
        BY <3>1 DEF NoAce, Empty
      <4>2. heard' \ gone' = {}
        BY <2>3, <2>4, <4>1
      <4> QED
        BY <4>2 DEF AccountsFor
    <3>2. CASE ~ (restored /\ stored' = NoAce)
      <4>1. Ace(memory)' = stored'
        BY <1>3, <3>2
      <4> QED
        BY <2>3, <2>4, <4>1 DEF AccountsFor
    <3> QED
      BY <3>1, <3>2
  <2> QED
    BY <1>1, <1>4, <2>1, <2>3, <2>5 DEF AccountInv
<1> QED
  BY <1>5, <1>6

\* What every old model accounted for, every new one accounts for.
LEMMA SwitchPoolAccounts ==
    ASSUME TypeInv, AccountInv, NEW pool \in Pools, NEW limit \in Nat,
           SwitchPool(pool, limit)
    PROVE  AccountInv'
<1>1. /\ verdict # Open /\ verdict' = verdict /\ stored' = stored
      /\ heard' = heard /\ safe' = safe /\ gone' = gone /\ astray' = astray
  BY DEF SwitchPool, questions, records
<1>2. CASE astray
  BY <1>1, <1>2 DEF AccountInv
<1>3. CASE ~ astray
  <2>1. /\ memory.pool \subseteq DOMAIN memory.histories /\ memory.pool # {}
        /\ AccountsFor(Ace(memory), heard \ gone)
        /\ Ace(memory).histories = memory.histories
        /\ AccountsFor(stored, safe \ gone)
        /\ DOMAIN stored.histories = {} => safe = {}
    BY <1>3, ConsensusAssumption
       DEF AccountInv, TypeInv, MemoryInv, ConsensusAssumption, Ace
  <2>2. /\ memory'.pool = pool /\ DOMAIN memory'.histories = pool
        /\ \/ DOMAIN memory.histories = {}
           \/ \E m \in DOMAIN memory.histories :
                 \A x \in pool : AccountedFor(Ace(memory)', x) = AccountedFor(Ace(memory), m)
    BY SwitchPoolTyped
  <2>3. Ace(memory)'.histories = memory'.histories
    BY DEF Ace
  <2>4. AccountsFor(Ace(memory)', heard \ gone)
    <3>1. PICK m \in DOMAIN memory.histories :
             \A x \in pool : AccountedFor(Ace(memory)', x) = AccountedFor(Ace(memory), m)
      BY <2>1, <2>2
    <3>2. heard \ gone \subseteq AccountedFor(Ace(memory), m)
      BY <2>1 DEF AccountsFor
    <3> QED
      BY <2>2, <2>3, <3>1, <3>2 DEF AccountsFor
  <2> QED
    BY <1>1, <2>1, <2>2, <2>4 DEF AccountInv
<1> QED
  BY <1>2, <1>3

LEMMA AccountStep ==
    ASSUME TypeInv, AccountInv, [Next]_vars PROVE AccountInv'
<1>1. CASE UNCHANGED vars
  BY <1>1, StutterInv
<1>2. ASSUME NEW withEvent \in BOOLEAN, Begin(withEvent) PROVE AccountInv'
  BY <1>2, BeginAccounts
<1>3. ASSUME NEW m \in Models, ModelAnswers(m) PROVE AccountInv'
  BY <1>3, AnswerAccounts DEF ModelAnswers
<1>4. CASE Gather
  BY <1>4, GatherAccounts
<1>5. ASSUME NEW killed \in BOOLEAN, NEW restored \in BOOLEAN, Restart(killed, restored)
      PROVE  AccountInv'
  BY <1>5, RestartAccounts
<1>6. ASSUME NEW pool \in Pools, NEW limit \in 0 .. 2 * MaxCycles, SwitchPool(pool, limit)
      PROVE  AccountInv'
  <2>1. limit \in Nat
    BY ConsensusAssumption DEF ConsensusAssumption
  <2> QED
    BY <1>6, <2>1, SwitchPoolAccounts
<1> QED
  BY <1>1, <1>2, <1>3, <1>4, <1>5, <1>6 DEF Next

\* No entry stands in a sound history that was reflected on under the same key.
LEMMA SoundKeepsApart ==
    ASSUME NEW ace, NEW c \in Nat, Sound(ace, c), NEW m \in DOMAIN ace.histories
    PROVE  InHistory(ace, m) \cap ReflectedOn(ace, m) = {}
<1>1. SoundAt(ace, m, c)
  BY DEF Sound
<1>2. /\ \A e \in ReflectedOn(ace, m), i \in DOMAIN HistoryOf(ace, m) : e < HistoryOf(ace, m)[i]
      /\ ReflectedOn(ace, m) \subseteq 1 .. c
  BY <1>1 DEF SoundAt
<1>3. SUFFICES ASSUME NEW i \in DOMAIN HistoryOf(ace, m),
                      HistoryOf(ace, m)[i] \in ReflectedOn(ace, m)
               PROVE  FALSE
  BY DEF InHistory
<1> QED
  BY <1>2, <1>3

\* For every model that will be asked, what the agent heard or decided stands in
\* its history or was reflected on for it, and never both, but for what a kill took
\* before it was stored (condensation.ex, state_merge.ex, history_transfer.ex).
THEOREM AccountedOnce == Spec => []KeptOrReflectedOnce
<1>1. Init => TypeInv /\ AccountInv
  BY InitInv
<1>2. TypeInv /\ AccountInv /\ [Next]_vars => TypeInv' /\ AccountInv'
  BY TypeStep, AccountStep
<1>3. ASSUME TypeInv, AccountInv PROVE KeptOrReflectedOnce
  <2>1. clock \in Nat /\ Sound(Ace(memory), clock) /\ Ace(memory).histories = memory.histories
    BY <1>3 DEF TypeInv, MemoryInv, CounterInv, Ace
  <2>2. \A m \in DOMAIN memory.histories :
            InHistory(Ace(memory), m) \cap ReflectedOn(Ace(memory), m) = {}
    BY <2>1, SoundKeepsApart
  <2> QED
    BY <1>3, <2>1, <2>2 DEF AccountInv, KeptOrReflectedOnce, AccountsFor
<1> QED
  BY <1>1, <1>2, <1>3, PTL DEF Spec

\* The row accounts for everything up to the last decision, whatever was written
\* to it in the middle of a callback (per_model_query.ex) or at a stop (core.ex).
THEOREM DecisionsAccounted == Spec => []RowAccountsForDecisions
<1>1. Init => TypeInv /\ AccountInv
  BY InitInv
<1>2. TypeInv /\ AccountInv /\ [Next]_vars => TypeInv' /\ AccountInv'
  BY TypeStep, AccountStep
<1>3. ASSUME TypeInv, AccountInv PROVE RowAccountsForDecisions
  <2>1. clock \in Nat /\ Sound(stored, clock) /\ decided \subseteq safe
    BY <1>3 DEF TypeInv, MemoryInv, CounterInv
  <2>2. \A m \in DOMAIN stored.histories : InHistory(stored, m) \cap ReflectedOn(stored, m) = {}
    BY <2>1, SoundKeepsApart
  <2> QED
    BY <1>3, <2>1, <2>2 DEF AccountInv, RowAccountsForDecisions, AccountsFor
<1> QED
  BY <1>1, <1>2, <1>3, PTL DEF Spec

-----------------------------------------------------------------------------
(* The voting rule *)

\* A task is at work exactly while its reply is awaited.
LEMMA RepliesProperties ==
    ASSUME TypeInv
    PROVE  /\ \A m \in DOMAIN tasks : tasks[m] = Running <=> tasks[m].answer = Rule!Waiting
           /\ Rule!asked = DOMAIN tasks /\ Rule!voters = Usable /\ Rule!votes = NewBallot
           /\ AllAnswered <=> Rule!Complete
<1>1. "running" \notin Proposals /\ "running" # "nothing"
  BY ConsensusAssumption DEF ConsensusAssumption
<1>2. \A m \in DOMAIN tasks : tasks[m] = Running <=> tasks[m].answer = Rule!Waiting
  BY <1>1 DEF TypeInv, QuestionInv, TaskInv, Running, Rule!Waiting, Answers
<1>3. Rule!asked = DOMAIN tasks /\ Rule!voters = Usable /\ Rule!votes = NewBallot
  BY DEF Rule!asked, Rule!voters, Rule!votes, Usable, NewBallot
<1>4. AllAnswered <=> Rule!Complete
  BY <1>2, <1>3 DEF AllAnswered, Rule!Complete, Open
<1> QED
  BY <1>2, <1>3, <1>4

\* The rule counts as FiniteSets does.
LEMMA RuleCardinality ==
    \A S : Rule!Cardinality(S) = Cardinality(S)
  BY DEF Rule!Cardinality, Cardinality

\* A decision closes the question with its verdict.
LEMMA EndCloses ==
    ASSUME NEW result, CallbackEnds, verdict' = result PROVE Rule!Close(result)
<1>1. tasks' = Empty /\ ballot' = Rule!NoVotes /\ round' = 0
  BY DEF CallbackEnds
<1>2. [m \in DOMAIN tasks' |-> tasks'[m].answer] = Rule!NoVotes
  BY <1>1 DEF Empty, Rule!NoVotes
<1> QED
  BY <1>1, <1>2 DEF Rule!Close

\* Each step is one of the voting rule, or none.
LEMMA RuleStep ==
    ASSUME TypeInv, [Next]_vars PROVE [Rule!Next]_(Rule!vars)
<1>1. CASE UNCHANGED vars
  BY <1>1 DEF vars, questions, Rule!vars
<1>2. ASSUME NEW withEvent \in BOOLEAN, Begin(withEvent) PROVE Rule!Next
  <2>1. /\ verdict # Open /\ verdict' = Open /\ ballot' = ballot /\ round' = round
        /\ tasks' = [m \in memory.pool |-> Running]
    BY <1>2 DEF Begin, AskAll
  <2>2. memory.pool \in (SUBSET Models) \ {{}}
    BY ConsensusAssumption DEF TypeInv, MemoryInv, ConsensusAssumption
  <2>3. PICK pool \in (SUBSET Models) \ {{}} : pool = memory.pool
    BY <2>2
  <2>4. [m \in DOMAIN tasks' |-> tasks'[m].answer] = [m \in pool |-> Rule!Waiting]
    BY <2>1, <2>3 DEF Running, Rule!Waiting
  <2>5. Rule!Pose(pool)
    BY <2>1, <2>4 DEF Rule!Pose, Rule!Ask, Open
  <2> QED
    BY <2>5 DEF Rule!Next
<1>3. ASSUME NEW m \in Models, NEW answer \in Answers, Answer(m, answer) PROVE Rule!Next
  <2>1. /\ tasks[m] = Running /\ m \in DOMAIN tasks
        /\ ballot' = ballot /\ round' = round /\ verdict' = verdict
    BY <1>3 DEF Answer
  <2>2. tasks' = [tasks EXCEPT ![m] = [answer |-> answer, ace |-> tasks'[m].ace]]
    BY <1>3, AnswerTyped
  <2>3. [x \in DOMAIN tasks' |-> tasks'[x].answer]
            = [[x \in DOMAIN tasks |-> tasks[x].answer] EXCEPT ![m] = answer]
    <3>1. /\ DOMAIN tasks' = DOMAIN tasks /\ tasks'[m].answer = answer
          /\ \A x \in DOMAIN tasks \ {m} : tasks'[x].answer = tasks[x].answer
      BY <2>1, <2>2
    <3> QED
      BY <2>1, <3>1
  <2>4. Rule!Reply(m, answer)
    BY <2>1, <2>3 DEF Rule!Reply, Running, Rule!Waiting
  <2>5. answer \in Proposals \cup {Rule!Nothing} /\ m \in Rule!asked
    BY <2>1 DEF Answers, Rule!Nothing, Rule!asked
  <2> QED
    BY <2>4, <2>5 DEF Rule!Next
<1>4. ASSUME GatherDecision PROVE Rule!Next
  <2>1. PICK choice \in Rule!Verdicts(NewBallot, Cardinality(DOMAIN tasks)) :
           Decide(choice, FirstRound)
    BY <1>4 DEF GatherDecision
  <2>2. Rule!Close(choice)
    BY <2>1, EndCloses DEF Decide
  <2>3. /\ AllAnswered /\ Usable # {}
        /\ Rule!Settled(NewBallot, DOMAIN tasks, round + 1)
    BY <1>4 DEF GatherDecision
  <2>4. /\ Rule!Complete /\ Rule!voters # {}
        /\ Rule!Settled(Rule!votes, Rule!asked, round + 1)
        /\ choice \in Rule!Verdicts(Rule!votes, Cardinality(Rule!asked))
    BY <2>1, <2>3, RepliesProperties
  <2>5. Rule!LastRound
    BY <2>2, <2>4, RuleCardinality DEF Rule!LastRound
  <2> QED
    BY <2>5 DEF Rule!Next
<1>5. ASSUME GatherRefinement PROVE Rule!Next
  <2>1. /\ AllAnswered /\ Usable # {}
        /\ ~ Rule!Settled(NewBallot, DOMAIN tasks, round + 1)
        /\ ballot' = NewBallot /\ round' = round + 1 /\ verdict' = verdict
        /\ tasks' = [m \in DOMAIN tasks |-> Running]
    BY <1>5 DEF GatherRefinement, AskAll
  <2>2. [m \in DOMAIN tasks' |-> tasks'[m].answer] = [m \in DOMAIN tasks |-> Rule!Waiting]
    BY <2>1 DEF Running, Rule!Waiting
  <2> QED
    BY <2>1, <2>2, RepliesProperties DEF Rule!Next, Rule!NextRound, Rule!Ask
<1>6. ASSUME GatherFallback PROVE Rule!Next
  <2>1. PICK choice \in Rule!Verdicts(ballot, Cardinality(DOMAIN ballot)) :
           Decide(choice, settled)
    BY <1>6 DEF GatherFallback
  <2>2. Rule!Close(choice)
    BY <2>1, EndCloses DEF Decide
  <2>3. AllAnswered /\ Usable = {} /\ round # 0
    BY <1>6 DEF GatherFallback, TypeInv, QuestionInv
  <2>4. Rule!Complete /\ Rule!voters = {}
    BY <2>3, RepliesProperties
  <2>5. Rule!EmptyRound
    BY <2>1, <2>2, <2>3, <2>4, RuleCardinality DEF Rule!EmptyRound
  <2> QED
    BY <2>5 DEF Rule!Next
<1>7. ASSUME GatherFailure PROVE Rule!Next
  <2>1. AllAnswered /\ Usable = {} /\ round = 0 /\ verdict' = Failed /\ CallbackEnds
    BY <1>7 DEF GatherFailure
  <2>2. Rule!Close(Rule!Failed)
    BY <2>1, EndCloses DEF Failed
  <2> QED
    BY <2>1, <2>2, RepliesProperties DEF Rule!Next, Rule!EmptyRound
<1>10. ASSUME PersistMerged PROVE UNCHANGED Rule!vars
  BY <1>10 DEF PersistMerged, questions, Rule!vars
<1>8. ASSUME NEW killed \in BOOLEAN, NEW restored \in BOOLEAN, Restart(killed, restored)
      PROVE  [Rule!Next]_(Rule!vars)
  <2>1. CallbackEnds /\ verdict' = (IF verdict = Open THEN None ELSE verdict)
    BY <1>8 DEF Restart
  <2>2. CASE verdict = Open
    <3>1. Rule!Close(None)
      BY <2>1, <2>2, EndCloses
    <3> QED
      BY <2>2, <3>1 DEF Rule!Next, Rule!Abandon, Open, None
  <2>3. CASE verdict # Open
    <3>1. tasks = Empty /\ ballot = Rule!NoVotes /\ round = 0
      BY <2>3 DEF TypeInv, QuestionInv, Idle
    <3>2. tasks' = tasks /\ ballot' = ballot /\ round' = round /\ verdict' = verdict
      BY <2>1, <2>3, <3>1 DEF CallbackEnds
    <3> QED
      BY <3>2 DEF Rule!vars
  <2> QED
    BY <2>2, <2>3
<1>9. ASSUME NEW pool \in Pools, NEW limit \in 0 .. 2 * MaxCycles, SwitchPool(pool, limit)
      PROVE  UNCHANGED Rule!vars
  BY <1>9 DEF SwitchPool, questions, Rule!vars
<1> QED
  BY <1>1, <1>2, <1>3, <1>4, <1>5, <1>6, <1>7, <1>8, <1>9, <1>10
     DEF Next, Gather, ModelAnswers

\* The pipeline, with its histories, tasks, condensations, restarts and pool
\* switches, implements the voting rule: every question is decided by the majority
\* the rule names, in the round it names, or dies with the process.
THEOREM RuleImplemented == Spec => ImplementsMajorityRule
<1>1. Init => TypeInv /\ AccountInv
  BY InitInv
<1>2. TypeInv /\ [Next]_vars => TypeInv'
  BY TypeStep
<1>3. Init => Rule!Init
  <2>1. SUFFICES ASSUME Init PROVE Rule!Init
    OBVIOUS
  <2>2. [m \in DOMAIN tasks |-> tasks[m].answer] = Rule!NoVotes
    BY <2>1 DEF Init, Empty, Rule!NoVotes
  <2> QED
    BY <2>1, <2>2 DEF Init, Rule!Init, None
<1>4. TypeInv /\ [Next]_vars => [Rule!Next]_(Rule!vars)
  BY RuleStep
<1> QED
  BY <1>1, <1>2, <1>3, <1>4, PTL DEF Spec, ImplementsMajorityRule, Rule!Spec

RuleProofs == INSTANCE MajorityRuleProofs
                  WITH replies <- [m \in DOMAIN tasks |-> tasks[m].answer]

\* Whatever was answered, there is a verdict to decide with
VotesDecide ==
    /\ Usable # {} => Rule!Verdicts(NewBallot, Cardinality(DOMAIN tasks)) # {}
    /\ round # 0 => Rule!Verdicts(ballot, Cardinality(DOMAIN ballot)) # {}

\* No round that was answered leaves the callback without a way to go on: with a
\* usable answer, or a ballot before, the votes give a verdict (result.ex), and
\* without either the cycle fails.
THEOREM RoundsAreDecidable == Spec => [](AllAnswered => VotesDecide)
<1>1. ASSUME NEW b, DOMAIN b \subseteq Models, DOMAIN b # {}, NEW total,
             \A m \in DOMAIN b : b[m] \in Proposals
      PROVE  Rule!Verdicts(b, total) # {}
  <2>1. IsFiniteSet(DOMAIN b) /\ Priority \in [Proposals -> Nat]
    BY <1>1, ConsensusAssumption, FS_Subset DEF ConsensusAssumption
  <2>2. RuleProofs!IsFiniteSet(DOMAIN b)
    BY <2>1 DEF RuleProofs!IsFiniteSet, IsFiniteSet
  <2>3. RuleProofs!Verdicts(b, total) # {}
    BY <1>1, <2>1, <2>2, RuleProofs!VerdictExists
  <2>4. RuleProofs!Verdicts(b, total) = Rule!Verdicts(b, total)
    BY DEF RuleProofs!Verdicts, RuleProofs!Named, RuleProofs!MostVoted, RuleProofs!Votes,
           Rule!Verdicts, Rule!Named, Rule!MostVoted, Rule!Votes,
           RuleProofs!Cardinality, Rule!Cardinality
  <2> QED
    BY <2>3, <2>4
<1>2. ASSUME TypeInv, AllAnswered PROVE VotesDecide
  <2>1. Usable # {} => Rule!Verdicts(NewBallot, Cardinality(DOMAIN tasks)) # {}
    BY <1>1, <1>2, BallotType DEF TypeInv, QuestionInv
  <2>2. round # 0 => Rule!Verdicts(ballot, Cardinality(DOMAIN ballot)) # {}
    BY <1>1, <1>2 DEF TypeInv, QuestionInv, AllAnswered
  <2> QED
    BY <2>1, <2>2 DEF VotesDecide
<1>3. Init => TypeInv
  BY InitInv
<1>4. TypeInv /\ [Next]_vars => TypeInv'
  BY TypeStep
<1> QED
  BY <1>2, <1>3, <1>4, PTL DEF Spec
=============================================================================
