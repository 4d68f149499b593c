------------------------- MODULE StateCommandsProofs -------------------------
(* What the commands of the state API promise for any number of transactions and *)
(* requests at once, crashes and expiries, from any consistent tables: records    *)
(* and locks first, then the tables that commands read and write, then the answers. *)
EXTENDS StateCommands, SequenceTheorems, FiniteSetTheorems, TLAPS

-----------------------------------------------------------------------------
(* Sequences and finite sets of numbers.                                     *)

Elements(q) == {q[i] : i \in DOMAIN q}

\* What a transaction takes of the locks it needs, the others it still needs.
LEMMA FirstAndOthers ==
  ASSUME NEW q, q \in Seq(Elements(q)), q # <<>>
  PROVE  /\ Elements(q) = {Head(q)} \union Elements(Tail(q))
         /\ Tail(q) \in Seq(Elements(Tail(q)))
<1> DEFINE E == Elements(q)
<1>1. DOMAIN q = 1..Len(q) /\ Len(q) \in Nat \ {0}
  BY EmptySeq, LenProperties
<1>2. /\ Tail(q) \in Seq(E) /\ Head(q) = q[1]
      /\ Len(Tail(q)) = Len(q) - 1 /\ DOMAIN Tail(q) = 1..(Len(q) - 1)
      /\ \A i \in 1..(Len(q) - 1) : Tail(q)[i] = q[i + 1]
  <2> HIDE DEF E
  <2>1. q \in Seq(E)
    BY DEF E
  <2>2. Tail(q) \in Seq(E) /\ Len(Tail(q)) = Len(q) - 1 /\ \A i \in 1..Len(Tail(q)) : Tail(q)[i] = q[i + 1]
    BY <2>1, HeadTailProperties
  <2> QED
    BY <2>1, <2>2, <1>1, LenProperties
<1>3. Elements(q) = {Head(q)} \union Elements(Tail(q))
  <2>1. \A i \in DOMAIN q : q[i] = Head(q) \/ \E j \in DOMAIN Tail(q) : q[i] = Tail(q)[j]
    <3> TAKE i \in DOMAIN q
    <3>1. CASE i = 1
      BY <3>1, <1>2
    <3>2. CASE i # 1
      <4>1. i - 1 \in 1..(Len(q) - 1) /\ Tail(q)[i - 1] = q[i]
        BY <3>2, <1>1, <1>2
      <4> QED
        BY <4>1, <1>2
    <3> QED
      BY <3>1, <3>2
  <2>2. Head(q) \in Elements(q)
    BY <1>1, <1>2 DEF Elements
  <2>3. \A j \in DOMAIN Tail(q) : Tail(q)[j] \in Elements(q)
    BY <1>1, <1>2 DEF Elements
  <2> QED
    BY <2>1, <2>2, <2>3 DEF Elements
<1>4. Tail(q) \in Seq(Elements(Tail(q)))
  <2>1. Tail(q) = [i \in 1..Len(Tail(q)) |-> Tail(q)[i]] /\ Len(Tail(q)) \in Nat
    BY <1>2, LenProperties
  <2>2. \A i \in 1..Len(Tail(q)) : Tail(q)[i] \in Elements(Tail(q))
    BY <1>1, <1>2 DEF Elements
  <2>3. Tail(q) \in [1..Len(Tail(q)) -> Elements(Tail(q))]
    BY <2>1, <2>2
  <2> HIDE DEF Elements
  <2> QED
    BY <2>1, <2>3, SeqDef
<1> QED
  BY <1>3, <1>4

LEMMA Single ==
  ASSUME NEW a
  PROVE  <<a>> \in Seq(Elements(<<a>>)) /\ Elements(<<a>>) = {a}
BY DEF Elements

LEMMA Pair ==
  ASSUME NEW a, NEW b
  PROVE  <<a, b>> \in Seq(Elements(<<a, b>>)) /\ Elements(<<a, b>>) = {a, b}
BY DEF Elements

LEMMA NoLocks ==
  <<>> \in Seq(Elements(<<>>)) /\ Elements(<<>>) = {}
BY DEF Elements

\* A finite set of numbers has a largest: the number above which the fewest lie.
LEMMA LargestIsMax ==
  ASSUME NEW T, T \subseteq Int, IsFiniteSet(T), T # {}
  PROVE  Max(T) \in T /\ \A y \in T : y <= Max(T)
<1> DEFINE above(x) == {y \in T : y > x}
           family == {above(x) : x \in T}
           order == StrictSubsetOrdering(T)
<1> HIDE DEF family, order
<1>1. IsWellFoundedOn(order, FiniteSubsetsOf(T))
  BY FS_StrictSubsetOrderingWellFounded DEF order
<1>2. \A x \in T : above(x) \in SUBSET T
  OBVIOUS
<1>3. family \subseteq FiniteSubsetsOf(T) /\ family # {}
  <2>1. FiniteSubsetsOf(T) = SUBSET T
    BY FS_FiniteSubsetsOfFinite
  <2> HIDE DEF above
  <2>2. PICK x \in T : TRUE
    OBVIOUS
  <2>3. above(x) \in family
    BY DEF family
  <2> QED
    BY <1>2, <2>1, <2>3 DEF family
<1>4. PICK least \in family : \A a \in family : ~(<<a, least>> \in order)
  BY <1>1, <1>3, WFMin
<1>5. PICK x \in T : least = above(x)
  BY <1>4 DEF family
<1>6. \A y \in T : x >= y
  <2>1. SUFFICES ASSUME NEW y \in T, x < y
                 PROVE  FALSE
    OBVIOUS
  <2>2. x \in Int /\ y \in Int /\ \A z \in T : z \in Int /\ (z > y => z > x)
    BY <2>1
  <2>3. y > x /\ ~(y > y)
    BY <2>1, <2>2
  <2>4. above(y) \subseteq above(x) /\ y \in above(x) /\ y \notin above(y)
    <3> HIDE DEF above
    <3> QED
      BY <2>2, <2>3, Zenon DEF above
  <2>5. <<above(y), least>> \in order
    BY <2>4, <1>2, <1>5 DEF order, StrictSubsetOrdering
  <2> QED
    BY <2>5, <1>4 DEF family
<1> QED
  BY <1>6 DEF Max

-----------------------------------------------------------------------------
(* Transactions and their locks.                                             *)

KeyLock(c) == <<"key", c.key>>

\* The locks that a transaction has or will have before it goes on.
Claims(q) == q.held \union Elements(q.need)

SlotOK(q, cs, rs) ==
  /\ DOMAIN q = {"stage", "command", "held", "need", "seen"}
  /\ q.stage \in {"idle", "check", "read", "write"}
  /\ q.need \in Seq(Elements(q.need))
  /\ q.stage = "idle" => q = Idle
  /\ q.stage # "idle" => q.command \in cs
  /\ q.stage = "check" => KeyLock(q.command) \in Claims(q)
  /\ q.stage \in {"read", "write"} =>
       KeyLock(q.command) \in q.held /\ rs[q.command.key].state # "kept"

Apart == \A s, t \in Slots : s # t => slots[s].held \intersect slots[t].held = {}

TransactionInvariant ==
  /\ slots = [s \in Slots |-> slots[s]]
  /\ \A s \in Slots : SlotOK(slots[s], commands, records)
  /\ Apart

\* A record: kept with the event of its life, or none.
RecordOK(k) ==
  LET r == records[k]
  IN  /\ r = [state |-> r.state, fingerprint |-> r.fingerprint, event |-> r.event, life |-> r.life]
      /\ r.state \in {"none", "kept"} /\ r.life \in Nat /\ r.event \in 0..Len(events)
      /\ r.state = "kept" =>
           r.event \in DOMAIN events /\ events[r.event] = [key |-> k, life |-> r.life]

\* An event of the present life of its key is the one that is on record.
EventOK(i) ==
  LET r == records[events[i].key]
  IN  /\ events[i].key \in Keys /\ events[i].life \in Nat /\ events[i].life <= r.life
      /\ events[i].life = r.life => r.state = "kept" /\ r.event = i

\* Who was told that it is done has its event, and in its life the record.
AnswerOK(a, ks, rs, es) ==
  /\ a = [key |-> a.key, life |-> a.life, fingerprint |-> a.fingerprint, status |-> a.status, event |-> a.event]
  /\ a.key \in ks /\ a.life \in Nat /\ a.life <= rs[a.key].life
  /\ a.status = "done" =>
       /\ a.event \in DOMAIN es /\ es[a.event] = [key |-> a.key, life |-> a.life]
       /\ a.life = rs[a.key].life => rs[a.key].fingerprint = a.fingerprint

RecordInvariant ==
  /\ records = [k \in Keys |-> records[k]]
  /\ events \in Seq(Elements(events)) /\ answers \in Seq(Elements(answers))
  /\ \A k \in Keys : RecordOK(k)
  /\ \A i \in DOMAIN events : EventOK(i)
  /\ \A i \in DOMAIN answers : AnswerOK(answers[i], Keys, records, events)

KeyInvariant == TransactionInvariant /\ RecordInvariant /\ OneEffectOneAnswer

LEMMA Appended ==
  ASSUME NEW q, q \in Seq(Elements(q)), NEW x
  PROVE  /\ Append(q, x) \in Seq(Elements(Append(q, x)))
         /\ Len(q) \in Nat /\ DOMAIN q = 1..Len(q)
         /\ Len(Append(q, x)) = Len(q) + 1 /\ DOMAIN Append(q, x) = 1..(Len(q) + 1)
         /\ \A i \in DOMAIN q : Append(q, x)[i] = q[i]
         /\ Append(q, x)[Len(q) + 1] = x
<1> DEFINE E == Elements(q) \union {x}
<1>1. q \in Seq(E)
  BY SeqMonotonic
<1>2. Len(q) \in Nat /\ DOMAIN q = 1..Len(q)
  BY LenProperties
<1> HIDE DEF E
<1>3. Append(q, x) \in Seq(E) /\ Len(Append(q, x)) = Len(q) + 1
      /\ (\A i \in 1..Len(q) : Append(q, x)[i] = q[i]) /\ Append(q, x)[Len(q) + 1] = x
  <2>1. x \in E
    BY DEF E
  <2> QED
    BY <2>1, <1>1, AppendProperties
<1>4. DOMAIN Append(q, x) = 1..(Len(q) + 1)
  BY <1>3, LenProperties
<1>5. Append(q, x) \in [1..(Len(q) + 1) -> Elements(Append(q, x))]
  <2>1. Append(q, x) \in [1..(Len(q) + 1) -> E]
    BY <1>3, LenProperties
  <2> QED
    BY <2>1, <1>4 DEF Elements
<1>6. Append(q, x) \in Seq(Elements(Append(q, x)))
  <2>1. Len(q) + 1 \in Nat
    BY <1>2
  <2> HIDE DEF Elements
  <2> QED
    BY <2>1, <1>5, SeqDef
<1> QED
  BY <1>2, <1>3, <1>4, <1>6

LEMMA KeyInvariantHoldsAtFirst ==
  Init => KeyInvariant
<1> SUFFICES ASSUME Init PROVE KeyInvariant
  OBVIOUS
<1>1. TransactionInvariant
  BY NoLocks DEF Init, TransactionInvariant, SlotOK, Apart, Idle
<1>2. RecordInvariant
  BY NoLocks DEF Init, RecordInvariant, RecordOK, NoRecord
<1>3. OneEffectOneAnswer
  BY DEF Init, OneEffectOneAnswer
<1> QED
  BY <1>1, <1>2, <1>3 DEF KeyInvariant

-----------------------------------------------------------------------------
(* What a transaction has read, and the tables as they are now.              *)

\* The thesis whose conditions a command changes.
OfThesis(c, tables, t) ==
  IF c.kind = "condition.delete"
  THEN \E d \in tables.conditions : d.id = c.condition /\ d.thesis = t.id
  ELSE t.id = c.thesis

\* The locks of the rows that a command reads are among these.
Covers(locks, c, tables) ==
  /\ c.kind \in {"thesis.create", "conditions.create"} => <<"symbol", c.symbol>> \in locks
  /\ c.kind \in {"conditions.copy", "condition.delete"} =>
       \E t \in tables.theses : OfThesis(c, tables, t) /\ <<"symbol", t.symbol>> \in locks
  /\ c.kind \in {"group.create", "group.move"} => <<"groups">> \in locks
  /\ c.kind \in WatchlistKinds \ {"group.create", "group.move"} => <<"group", c.group>> \in locks
  /\ c.kind \in {"screen.rename", "screen.remove"} => <<"screen", c.screen>> \in locks
  /\ IsUniverse(c) => <<"universe">> \in locks

\* What was read with these locks and decides the change is still so: each part is of
\* one kind of command.
LatestIsRead(c, seen, tables) ==
  c.kind = "thesis.create" =>
    \A t \in tables.theses : t.symbol = c.symbol => t \in seen.theses
ThesisIsNewest(locks, c, tables) ==
  c.kind \in ThesisKinds \ {"thesis.create"} =>
    \E t \in tables.theses :
      /\ OfThesis(c, tables, t) /\ <<"symbol", t.symbol>> \in locks
      /\ \A u \in tables.theses : u.symbol = t.symbol => u.version <= t.version
PlacesAreRead(c, seen, tables) ==
  c.kind \in {"group.create", "group.move"} =>
    \A g \in DOMAIN tables.groups : ~tables.groups[g].removed =>
      g \in Live(seen.groups) /\ seen.groups[g].order = tables.groups[g].order
GroupIsRead(c, seen, tables) ==
  c.kind \in WatchlistKinds \ {"group.create", "group.move"} =>
    /\ c.group \in DOMAIN tables.groups /\ c.group \in DOMAIN seen.groups
    /\ tables.groups[c.group] = seen.groups[c.group]
    /\ c.kind = "group.rename" => tables.groups[c.group].version = c.version
VersionIsRead(c, tables) ==
  /\ c.kind \in {"screen.rename", "screen.remove"} =>
       c.screen \in DOMAIN tables.screens /\ tables.screens[c.screen].version = c.version
  /\ IsUniverse(c) => tables.universe.version = c.version

StillSo(locks, c, seen, tables) ==
  /\ LatestIsRead(c, seen, tables) /\ ThesisIsNewest(locks, c, tables)
  /\ PlacesAreRead(c, seen, tables) /\ GroupIsRead(c, seen, tables) /\ VersionIsRead(c, tables)

\* A transaction and the tables.
ReadOK(q, tables) ==
  /\ q.stage = "read" => Covers(Claims(q), q.command, tables)
  /\ q.stage = "write" =>
       /\ Consistent(q.seen)
       /\ Covers(q.held, q.command, tables) /\ StillSo(q.held, q.command, q.seen, tables)
       /\ q.command.kind = "group.move" =>
            Elements(RowsToWrite(q.command, q.seen)) \subseteq Claims(q)

\* Ids that the server makes are new, and those of the clients come with their commands.
IdsOK(tables, es, cs) ==
  /\ \A t \in tables.theses : t.id < 10 + Len(es)
  /\ \A d \in tables.conditions :
       Len(d.id) = 1 \/ (Len(d.id) = 2 /\ d.id[1] \in 10..(9 + Len(es)))
  /\ \A d \in tables.conditions, c \in cs :
       (c.kind = "conditions.create" /\ d.id \in c.conditions) => \E i \in DOMAIN es : es[i].key = c.key

\* The version that a command was based on is not the present one any more.
VersionIsPast(f, tables) ==
  "version" \in DOMAIN f =>
    /\ f.version \in Nat
    /\ "group" \in DOMAIN f =>
         f.group \in DOMAIN tables.groups /\ f.version < tables.groups[f.group].version
    /\ "screen" \in DOMAIN f =>
         f.screen \in DOMAIN tables.screens /\ f.version < tables.screens[f.screen].version
    /\ "group" \notin DOMAIN f /\ "screen" \notin DOMAIN f => f.version < tables.universe.version

\* The commands are what the clients may send, and their conditions are their own.
CommandsOK ==
  \A c \in commands :
    /\ WellFormed(c)
    /\ c.kind = "conditions.create" =>
         \A e \in commands :
           (e.kind = "conditions.create" /\ e.key # c.key) => c.conditions \intersect e.conditions = {}

DataInvariant ==
  /\ Consistent(db) /\ PlacesAreDistinct(db.groups) /\ IdsOK(db, events, commands)
  /\ \A s \in Slots : ReadOK(slots[s], db)

\* What is on record was told to somebody.
WasTold(k) ==
  records[k].state = "kept" =>
    \E i \in DOMAIN answers :
      /\ answers[i].status = "done" /\ answers[i].event = records[k].event
      /\ answers[i].fingerprint = records[k].fingerprint

AnswerInvariant ==
  /\ RefusalsAreOrderly /\ NoLostUpdate
  /\ \A k \in Keys : records[k].life >= 1 /\ WasTold(k)
  /\ \A i \in DOMAIN events : events[i].life >= 1
  /\ \A i \in DOMAIN answers : answers[i].status = "done" => VersionIsPast(answers[i].fingerprint, db)

\* Every request that is not under way was answered, or lost in a crash.
Busy == {s \in Slots : slots[s].stage # "idle"}
CountsOK ==
  /\ sent \in 0..MaxRequests /\ crashes \in 0..MaxCrashes /\ expiries \in 0..MaxExpiries
  /\ IsFiniteSet(Busy) /\ Len(answers) + Cardinality(Busy) <= sent

CommandInvariant == KeyInvariant /\ CommandsOK /\ DataInvariant /\ AnswerInvariant /\ CountsOK

\* A transaction that moves keeps the others apart from it.
LEMMA OneMoves ==
  ASSUME TransactionInvariant, NEW s \in Slots, NEW q, slots' = [slots EXCEPT ![s] = q],
         UNCHANGED commands, SlotOK(q, commands, records'),
         \A t \in Slots \ {s} : SlotOK(slots[t], commands, records'),
         \A t \in Slots \ {s} : q.held \intersect slots[t].held = {}
  PROVE  TransactionInvariant'
<1>1. slots' = [t \in Slots |-> IF t = s THEN q ELSE slots[t]]
  BY DEF TransactionInvariant
<1>2. \A t \in Slots : SlotOK(slots'[t], commands', records')
  BY <1>1
<1>3. Apart'
  BY <1>1 DEF Apart, TransactionInvariant
<1> QED
  BY <1>1, <1>2, <1>3 DEF TransactionInvariant

LEMMA IdleIsOK ==
  ASSUME NEW cs, NEW rs
  PROVE  SlotOK(Idle, cs, rs) /\ Idle.held = {}
BY NoLocks DEF Idle, SlotOK

\* With the lock of the key no other transaction has got past it.
LEMMA KeyIsAlone ==
  ASSUME TransactionInvariant, NEW s \in Slots, NEW t \in Slots \ {s},
         slots[s].stage # "idle", KeyLock(slots[s].command) \in slots[s].held,
         slots[t].stage \in {"read", "write"}
  PROVE  slots[t].command.key # slots[s].command.key
BY DEF TransactionInvariant, SlotOK, Apart, KeyLock

LEMMA ReadyHoldsKey ==
  ASSUME TransactionInvariant, NEW s \in Slots, NEW stage \in {"check", "read", "write"}, Ready(s, stage)
  PROVE  /\ slots[s].command \in commands /\ slots[s].command.key \in Keys
         /\ KeyLock(slots[s].command) \in slots[s].held
         /\ stage # "check" => records[slots[s].command.key].state # "kept"
BY NoLocks DEF TransactionInvariant, SlotOK, Ready, Claims, Keys

\* Who is done is idle.
LEMMA OneEnds ==
  ASSUME TransactionInvariant, NEW s \in Slots, slots' = [slots EXCEPT ![s] = Idle],
         UNCHANGED <<commands, records>>
  PROVE  TransactionInvariant'
<1>1. \A t \in Slots \ {s} : SlotOK(slots[t], commands, records')
  BY DEF TransactionInvariant
<1> QED
  BY <1>1, OneMoves, IdleIsOK

LEMMA ReceiveKeepsLocks ==
  ASSUME TransactionInvariant, NEW s \in Slots, NEW c \in commands, Receive(s, c)
  PROVE  TransactionInvariant'
<1> DEFINE q == [Idle EXCEPT !.stage = "check", !.command = c, !.need = <<KeyLock(c)>>]
<1>1. slots' = [slots EXCEPT ![s] = q] /\ UNCHANGED <<commands, records>>
  BY DEF Receive, KeyLock
<1>2. /\ DOMAIN q = {"stage", "command", "held", "need", "seen"}
      /\ q.stage = "check" /\ q.command = c /\ q.held = {} /\ q.need = <<KeyLock(c)>>
  BY DEF Idle
<1>3. SlotOK(q, commands, records')
  <2> HIDE DEF q
  <2>1. Claims(q) = {KeyLock(c)} /\ q.need \in Seq(Elements(q.need))
    BY <1>2, Single DEF Claims
  <2> QED
    BY <1>2, <2>1 DEF SlotOK
<1>4. \A t \in Slots \ {s} : SlotOK(slots[t], commands, records')
  BY <1>1 DEF TransactionInvariant
<1>5. q.held = {}
  BY <1>2
<1> HIDE DEF q
<1> QED
  BY <1>1, <1>3, <1>4, <1>5, OneMoves

LEMMA TakeLockKeepsLocks ==
  ASSUME TransactionInvariant, NEW s \in Slots, TakeLock(s)
  PROVE  TransactionInvariant'
<1> DEFINE p == slots[s]
           q == [p EXCEPT !.held = @ \union {Head(p.need)}, !.need = Tail(@)]
<1>1. slots' = [slots EXCEPT ![s] = q] /\ UNCHANGED <<commands, records>>
  BY DEF TakeLock, TransactionInvariant
<1>2. SlotOK(p, commands, records) /\ p.need # <<>>
  BY DEF TransactionInvariant, TakeLock
<1>3. /\ DOMAIN q = {"stage", "command", "held", "need", "seen"}
      /\ q.stage = p.stage /\ q.command = p.command /\ q.held = p.held \union {Head(p.need)}
      /\ q.need = Tail(p.need) /\ q.seen = p.seen
  BY <1>2 DEF SlotOK
<1> HIDE DEF q
<1>4. Claims(q) = Claims(p) /\ q.need \in Seq(Elements(q.need))
  BY <1>2, <1>3, FirstAndOthers DEF Claims, SlotOK
<1>5. SlotOK(q, commands, records')
  <2>1. p.stage # "idle"
    BY <1>2 DEF SlotOK, Idle
  <2> QED
    BY <1>1, <1>2, <1>3, <1>4, <2>1 DEF SlotOK
<1>6. \A t \in Slots \ {s} : SlotOK(slots[t], commands, records')
  BY <1>1 DEF TransactionInvariant
<1>7. \A t \in Slots \ {s} : q.held \intersect slots[t].held = {}
  BY <1>3 DEF TakeLock, IsFree, TransactionInvariant, Apart
<1> QED
  BY <1>1, <1>5, <1>6, <1>7, OneMoves

LEMMA LocksAreSequences ==
  ASSUME NEW c, NEW tables
  PROVE  /\ ThesisLocks(c, tables) \in Seq(Elements(ThesisLocks(c, tables)))
         /\ WatchlistLocks(c, tables) \in Seq(Elements(WatchlistLocks(c, tables)))
         /\ DiscoveryLocks(c, tables) \in Seq(Elements(DiscoveryLocks(c, tables)))
BY Single, Pair, NoLocks DEF ThesisLocks, WatchlistLocks, DiscoveryLocks

LEMMA BeginKeepsLocks ==
  ASSUME TransactionInvariant, NEW s \in Slots, Begin(s)
  PROVE  TransactionInvariant'
<1> DEFINE p == slots[s]
           n == Locks(p.command)
           q == [p EXCEPT !.stage = "read", !.need = n]
<1>1. slots' = [slots EXCEPT ![s] = q] /\ UNCHANGED <<commands, records>>
  BY DEF Begin, TransactionInvariant
<1>2. SlotOK(p, commands, records) /\ p.stage = "check"
  BY DEF TransactionInvariant, Begin, Ready
<1>3. /\ DOMAIN q = {"stage", "command", "held", "need", "seen"}
      /\ q.stage = "read" /\ q.command = p.command /\ q.held = p.held /\ q.need = n
  BY <1>2 DEF SlotOK
<1>4. n \in Seq(Elements(n))
  BY LocksAreSequences DEF Locks
<1> HIDE DEF q, n
<1>5. KeyLock(p.command) \in p.held /\ records[p.command.key].state # "kept"
  BY ReadyHoldsKey DEF Begin
<1>6. SlotOK(q, commands, records')
  BY <1>1, <1>2, <1>3, <1>4, <1>5 DEF SlotOK
<1>7. \A t \in Slots \ {s} : SlotOK(slots[t], commands, records')
  BY <1>1 DEF TransactionInvariant
<1>8. \A t \in Slots \ {s} : q.held \intersect slots[t].held = {}
  BY <1>3 DEF TransactionInvariant, Apart
<1> QED
  BY <1>1, <1>6, <1>7, <1>8, OneMoves

-----------------------------------------------------------------------------
(* The order of the groups.                                                  *)

\* Every group has a place in the order, which is the number of those before it.
LEMMA OrderHasAll ==
  ASSUME NEW groups, NEW among, IsFiniteSet(among), among \subseteq DOMAIN groups, among \subseteq Nat,
         \A g \in among : groups[g].order \in Nat
  PROVE  LET ordered == InOrder(groups, among)
         IN  /\ ordered \in Seq(Elements(ordered)) /\ Len(ordered) = Cardinality(among)
             /\ \A g \in among : g \in Elements(ordered)
<1> DEFINE below(g) == {h \in among : Before(groups, h, g)}
           rank(g) == Cardinality(below(g))
           n == Cardinality(among)
           ordered == InOrder(groups, among)
<1>1. n \in Nat
  BY FS_CardinalityType
<1>2. \A g, h \in among : g # h => Before(groups, g, h) \/ Before(groups, h, g)
  BY DEF Before
<1>3. \A g, h \in among : Before(groups, g, h) =>
        ~Before(groups, h, g) /\ \A f \in among : Before(groups, f, g) => Before(groups, f, h)
  BY DEF Before
<1>4. \A g \in among : ~Before(groups, g, g)
  BY DEF Before
<1>5. \A g \in among : rank(g) \in Nat /\ rank(g) < n /\ IsFiniteSet(below(g))
  <2> TAKE g \in among
  <2>1. below(g) \subseteq among /\ below(g) # among
    BY <1>4
  <2> HIDE DEF below
  <2> QED
    BY <2>1, FS_Subset, FS_CardinalityType
<1>6. \A g, h \in among : Before(groups, g, h) => rank(g) < rank(h)
  <2> TAKE g, h \in among
  <2>1. HAVE Before(groups, g, h)
  <2>2. below(g) \subseteq below(h) /\ g \in below(h) /\ g \notin below(g)
    BY <2>1, <1>3, <1>4
  <2> HIDE DEF below
  <2> QED
    BY <2>2, <1>5, FS_Subset
<1> DEFINE place == [g \in among |-> rank(g)]
<1>7. ordered = [i \in 1..n |-> CHOOSE g \in among : rank(g) = i - 1]
  BY DEF InOrder
<1>8. /\ \A g \in among : place[g] \in Nat /\ place[g] < n
      /\ \A g, h \in among : place[g] = place[h] => g = h
  <2>1. \A g \in among : place[g] = rank(g)
    OBVIOUS
  <2>2. \A g, h \in among : Before(groups, g, h) => place[g] < place[h]
    BY <1>6, <2>1
  <2>3. \A g \in among : place[g] \in Nat /\ place[g] < n
    BY <1>5, <2>1
  <2> HIDE DEF place
  <2> QED
    BY <1>2, <2>2, <2>3
<1> HIDE DEF place, n, ordered
<1>9. \A g \in among : place[g] + 1 \in 1..n /\ ordered[place[g] + 1] = g
  <2> TAKE g \in among
  <2>1. place[g] + 1 \in 1..n /\ (place[g] + 1) - 1 = place[g]
    BY <1>1, <1>8
  <2>2. \A h \in among : place[h] = rank(h)
    BY DEF place
  <2>3. ordered[place[g] + 1] = CHOOSE h \in among : rank(h) = place[g]
    BY <2>1, <1>7
  <2> HIDE DEF rank
  <2> DEFINE x == CHOOSE h \in among : rank(h) = place[g]
  <2>4. x \in among /\ rank(x) = place[g]
    BY <2>2
  <2>5. x = g
    BY <2>2, <2>4, <1>8
  <2> QED
    BY <2>1, <2>3, <2>5
<1>10. DOMAIN ordered = 1..n /\ ordered \in [1..n -> Elements(ordered)]
  BY <1>7 DEF Elements
<1>11. ordered \in Seq(Elements(ordered)) /\ Len(ordered) = n
  BY <1>1, <1>10, SeqDef, LenProperties
<1>12. \A g \in among : g \in Elements(ordered)
  BY <1>9, <1>10 DEF Elements
<1> QED
  BY <1>11, <1>12 DEF n, ordered

LEMMA InsertKeepsAll ==
  ASSUME NEW q, q \in Seq(Elements(q)), NEW k \in 1..(Len(q) + 1), NEW e
  PROVE  /\ InsertAt(q, k, e) \in Seq(Elements(InsertAt(q, k, e)))
         /\ Elements(q) \union {e} \subseteq Elements(InsertAt(q, k, e))
<1> DEFINE E == Elements(q) \union {e}
           before == SubSeq(q, 1, k - 1)
           after == SubSeq(q, k, Len(q))
           new == InsertAt(q, k, e)
<1>1. q \in Seq(E) /\ Len(q) \in Nat /\ DOMAIN q = 1..Len(q) /\ \A i \in 1..Len(q) : q[i] \in E
  <2>1. q \in Seq(E)
    BY SeqMonotonic
  <2> HIDE DEF E
  <2> QED
    BY <2>1, LenProperties, ElementOfSeq
<1>2. e \in E
  OBVIOUS
<1> HIDE DEF E
<1>3. before \in Seq(E) /\ Len(before) = k - 1 /\ \A i \in 1..(k - 1) : before[i] = q[i]
  BY <1>1
<1>4. after \in Seq(E) /\ Len(after) = Len(q) - k + 1 /\ \A i \in 1..(Len(q) - k + 1) : after[i] = q[k + i - 1]
  BY <1>1
<1>5. new = (before \o <<e>>) \o after
  BY DEF InsertAt
<1> HIDE DEF before, after, new
<1>6. <<e>> \in Seq(E) /\ Len(<<e>>) = 1 /\ <<e>>[1] = e
  BY <1>2
<1> DEFINE first == before \o <<e>>
<1>7. /\ first \in Seq(E) /\ Len(first) = k /\ first[k] = e
      /\ \A i \in 1..(k - 1) : first[i] = q[i]
  BY <1>1, <1>3, <1>6, ConcatProperties
<1> HIDE DEF first
<1>8. /\ new \in Seq(E) /\ Len(new) = Len(q) + 1 /\ DOMAIN new = 1..(Len(q) + 1)
      /\ \A i \in 1..k : new[i] = first[i]
      /\ \A i \in k..Len(q) : new[i + 1] = after[i + 1 - k]
  <2>1. new = first \o after
    BY <1>5 DEF first
  <2>2. /\ new \in Seq(E) /\ Len(new) = Len(first) + Len(after)
        /\ \A i \in 1..(Len(first) + Len(after)) :
             new[i] = IF i <= Len(first) THEN first[i] ELSE after[i - Len(first)]
    BY <2>1, <1>4, <1>7, ConcatProperties
  <2>3. Len(first) + Len(after) = Len(q) + 1 /\ Len(first) = k
    BY <1>1, <1>4, <1>7
  <2>4. DOMAIN new = 1..(Len(q) + 1)
    BY <2>2, <2>3, LenProperties
  <2> QED
    BY <2>2, <2>3, <2>4, <1>1
<1>9. E \subseteq Elements(new)
  <2>1. \A i \in 1..Len(q) : q[i] \in Elements(new)
    <3> TAKE i \in 1..Len(q)
    <3>1. CASE i < k
      <4>1. i \in 1..(k - 1) /\ i \in 1..k /\ i \in 1..(Len(q) + 1)
        BY <3>1, <1>1
      <4>2. new[i] = q[i] /\ i \in DOMAIN new
        BY <4>1, <1>7, <1>8
      <4> QED
        BY <4>2 DEF Elements
    <3>2. CASE i >= k
      <4>1. new[i + 1] = q[i] /\ i + 1 \in 1..(Len(q) + 1)
        BY <3>2, <1>1, <1>4, <1>8
      <4> QED
        BY <4>1, <1>8 DEF Elements
    <3> QED
      BY <3>1, <3>2, <1>1
  <2>2. new[k] = e /\ k \in 1..(Len(q) + 1)
    BY <1>7, <1>8, <1>1
  <2> QED
    BY <1>1, <2>1, <2>2, <1>8 DEF E, Elements
<1>10. new \in Seq(Elements(new))
  <2>1. new \in [1..(Len(q) + 1) -> Elements(new)] /\ Len(q) + 1 \in Nat
    BY <1>1, <1>8, LenProperties DEF Elements
  <2> HIDE DEF Elements
  <2> QED
    BY <2>1, SeqDef
<1> QED
  BY <1>9, <1>10 DEF E, new

LEMMA MovedHasAll ==
  ASSUME NEW c, NEW seen, Consistent(seen), c.target \in Nat
  PROVE  /\ Moved(c, seen) \in Seq(Elements(Moved(c, seen)))
         /\ Live(seen.groups) \subseteq Elements(Moved(c, seen))
<1> DEFINE among == Live(seen.groups) \ {c.group}
           others == InOrder(seen.groups, among)
           n == Len(others)
           place == Min({c.target, n})
<1>1. /\ IsFiniteSet(among) /\ among \subseteq DOMAIN seen.groups /\ among \subseteq Nat
      /\ \A g \in among : seen.groups[g].order \in Nat
  <2>1. IsFiniteSet(DOMAIN seen.groups) /\ DOMAIN seen.groups \subseteq Nat
        /\ \A g \in DOMAIN seen.groups : seen.groups[g].order \in Nat
    BY DEF Consistent, GroupIsWhole
  <2>2. among \subseteq DOMAIN seen.groups
    BY DEF Live
  <2> HIDE DEF among
  <2> QED
    BY <2>1, <2>2, FS_Subset
<1>2. others \in Seq(Elements(others)) /\ among \subseteq Elements(others)
  <2> HIDE DEF among
  <2> QED
    BY <1>1, OrderHasAll
<1> HIDE DEF among, others
<1>3. n \in Nat
  BY <1>2, LenProperties
<1> HIDE DEF n
<1>4. place \in {c.target, n} /\ place <= n
  <2>1. \E x \in {c.target, n} : \A y \in {c.target, n} : x <= y
    <3>1. CASE c.target <= n
      BY <3>1, <1>3
    <3>2. CASE n <= c.target
      BY <3>2, <1>3
    <3> QED
      BY <3>1, <3>2, <1>3
  <2> QED
    BY <2>1 DEF Min
<1> HIDE DEF place
<1>5. place + 1 \in 1..(n + 1)
  BY <1>3, <1>4
<1>6. Moved(c, seen) = InsertAt(others, place + 1, c.group)
  BY DEF Moved, others, place, n, among
<1>7. InsertAt(others, place + 1, c.group) \in Seq(Elements(InsertAt(others, place + 1, c.group)))
      /\ Elements(others) \union {c.group} \subseteq Elements(InsertAt(others, place + 1, c.group))
  <2>1. place + 1 \in 1..(Len(others) + 1)
    BY <1>5 DEF n
  <2> QED
    BY <2>1, <1>2, InsertKeepsAll
<1>8. Live(seen.groups) \subseteq Elements(others) \union {c.group}
  BY <1>2 DEF among
<1> QED
  BY <1>6, <1>7, <1>8

\* The locks of the rows that a move writes.
LEMMA RowsAreSequences ==
  ASSUME NEW c, NEW seen, Consistent(seen), WellFormed(c)
  PROVE  /\ RowsToWrite(c, seen) \in Seq(Elements(RowsToWrite(c, seen)))
         /\ c.kind = "group.move" =>
              \A g \in Elements(Moved(c, seen)) : <<"group", g>> \in Elements(RowsToWrite(c, seen))
<1>1. CASE c.kind # "group.move"
  BY <1>1, NoLocks DEF RowsToWrite
<1>2. CASE c.kind = "group.move"
  <2> DEFINE m == Moved(c, seen)
             rows == RowsToWrite(c, seen)
  <2>1. c.target \in Nat
    BY <1>2 DEF WellFormed, Fields
  <2>2. m \in Seq(Elements(m))
    BY <2>1, MovedHasAll
  <2>3. rows = [i \in DOMAIN m |-> <<"group", m[i]>>]
    BY <1>2 DEF RowsToWrite
  <2> HIDE DEF m, rows
  <2>4. DOMAIN m = 1..Len(m) /\ Len(m) \in Nat
    BY <2>2, LenProperties
  <2>5. rows \in [1..Len(m) -> Elements(rows)]
    BY <2>3, <2>4 DEF Elements
  <2>6. rows \in Seq(Elements(rows))
    BY <2>4, <2>5, SeqDef
  <2>7. \A g \in Elements(m) : <<"group", g>> \in Elements(rows)
    BY <2>3 DEF Elements
  <2> QED
    BY <2>6, <2>7 DEF m, rows
<1> QED
  BY <1>1, <1>2

LEMMA ReadKeepsLocks ==
  ASSUME TransactionInvariant, Consistent(db), \A c \in commands : WellFormed(c),
         NEW s \in Slots, Read(s)
  PROVE  TransactionInvariant'
<1> DEFINE p == slots[s]
           n == IF p.command.kind \in WatchlistKinds THEN RowsToWrite(p.command, db) ELSE <<>>
           q == [p EXCEPT !.stage = "write", !.seen = db, !.need = n]
<1>1. slots' = [slots EXCEPT ![s] = q] /\ UNCHANGED <<commands, records>>
  BY DEF Read, TransactionInvariant
<1>2. SlotOK(p, commands, records) /\ p.stage = "read"
  BY DEF TransactionInvariant, Read, Ready
<1>3. /\ DOMAIN q = {"stage", "command", "held", "need", "seen"}
      /\ q.stage = "write" /\ q.command = p.command /\ q.held = p.held /\ q.need = n
  BY <1>2 DEF SlotOK
<1>4. n \in Seq(Elements(n))
  <2>1. WellFormed(p.command)
    BY <1>2 DEF SlotOK
  <2> QED
    BY <2>1, RowsAreSequences, NoLocks
<1> HIDE DEF q, n
<1>5. KeyLock(p.command) \in p.held /\ records[p.command.key].state # "kept"
  BY ReadyHoldsKey DEF Read
<1>6. SlotOK(q, commands, records')
  BY <1>1, <1>2, <1>3, <1>4, <1>5 DEF SlotOK
<1>7. \A t \in Slots \ {s} : SlotOK(slots[t], commands, records')
  BY <1>1 DEF TransactionInvariant
<1>8. \A t \in Slots \ {s} : q.held \intersect slots[t].held = {}
  BY <1>3 DEF TransactionInvariant, Apart
<1> QED
  BY <1>1, <1>6, <1>7, <1>8, OneMoves

\* A commit writes the record of a key that no other transaction is past.
LEMMA CommitKeepsLocks ==
  ASSUME TransactionInvariant, RecordInvariant, NEW s \in Slots, Commit(s)
  PROVE  TransactionInvariant'
<1> DEFINE k == slots[s].command.key
<1>1. slots' = [slots EXCEPT ![s] = Idle] /\ UNCHANGED commands /\ records' = Record(s)
  BY DEF Commit
<1>2. KeyLock(slots[s].command) \in slots[s].held /\ slots[s].stage = "write" /\ k \in Keys
  BY ReadyHoldsKey DEF Commit, Ready
<1>3. \A j \in Keys \ {k} : records'[j] = records[j]
  BY <1>1 DEF Record, RecordInvariant
<1>4. \A t \in Slots \ {s} : SlotOK(slots[t], commands, records')
  <2> TAKE t \in Slots \ {s}
  <2>1. SlotOK(slots[t], commands, records)
    BY DEF TransactionInvariant
  <2>2. CASE slots[t].stage \in {"read", "write"}
    <3>1. slots[t].command.key # k
      BY <1>2, <2>2, KeyIsAlone
    <3>2. slots[t].command.key \in Keys \ {k}
      BY <2>1, <2>2, <3>1 DEF SlotOK, Keys
    <3> HIDE DEF k
    <3>3. records'[slots[t].command.key] = records[slots[t].command.key]
      BY <3>2, <1>3
    <3> QED
      BY <2>1, <3>3 DEF SlotOK
  <2>3. CASE slots[t].stage \notin {"read", "write"}
    BY <2>1, <2>3 DEF SlotOK
  <2> QED
    BY <2>2, <2>3
<1> QED
  BY <1>1, <1>4, OneMoves, IdleIsOK

LEMMA CrashKeepsLocks ==
  ASSUME TransactionInvariant, Crash
  PROVE  TransactionInvariant'
<1>1. slots' = [t \in Slots |-> Idle] /\ UNCHANGED <<commands, records>>
  BY DEF Crash
<1>2. \A t \in Slots : SlotOK(slots'[t], commands', records') /\ slots'[t].held = {}
  BY <1>1, IdleIsOK
<1> QED
  BY <1>1, <1>2 DEF TransactionInvariant, Apart

\* A record that expires stays away from the transactions: they need it not to be kept.
LEMMA ExpireKeepsLocks ==
  ASSUME TransactionInvariant, RecordInvariant, NEW k \in Keys, Expire(k)
  PROVE  TransactionInvariant'
<1>1. UNCHANGED <<slots, commands>> /\ records' = [records EXCEPT ![k] = [NoRecord EXCEPT !.life = records[k].life + 1]]
  BY DEF Expire
<1>2. records'[k].state # "kept" /\ \A j \in Keys \ {k} : records'[j] = records[j]
  BY <1>1 DEF RecordInvariant, NoRecord
<1>3. \A t \in Slots : SlotOK(slots[t], commands, records')
  <2> TAKE t \in Slots
  <2>1. SlotOK(slots[t], commands, records)
    BY DEF TransactionInvariant
  <2>2. CASE slots[t].stage \in {"read", "write"}
    <3>1. slots[t].command.key \in Keys
      BY <2>1, <2>2 DEF SlotOK, Keys
    <3>2. records'[slots[t].command.key].state # "kept"
      BY <2>1, <2>2, <3>1, <1>2 DEF SlotOK
    <3> QED
      BY <2>1, <3>2 DEF SlotOK
  <2>3. CASE slots[t].stage \notin {"read", "write"}
    BY <2>1, <2>3 DEF SlotOK
  <2> QED
    BY <2>2, <2>3
<1> QED
  BY <1>1, <1>3 DEF TransactionInvariant, Apart

-----------------------------------------------------------------------------
(* Records, events and answers.                                              *)

\* Before it is on record nothing in the life of a key was done.
LEMMA NotDoneYet ==
  ASSUME RecordInvariant, NEW k \in Keys, records[k].state # "kept"
  PROVE  /\ \A i \in DOMAIN events : ~(events[i].key = k /\ events[i].life = records[k].life)
         /\ \A i \in DOMAIN answers :
              answers[i].status = "done" => ~(answers[i].key = k /\ answers[i].life = records[k].life)
<1>1. \A i \in DOMAIN events : ~(events[i].key = k /\ events[i].life = records[k].life)
  BY DEF RecordInvariant, EventOK
<1>2. \A i \in DOMAIN answers :
        answers[i].status = "done" => ~(answers[i].key = k /\ answers[i].life = records[k].life)
  <2> SUFFICES ASSUME NEW i \in DOMAIN answers, answers[i].status = "done",
                      answers[i].key = k, answers[i].life = records[k].life
               PROVE  FALSE
    OBVIOUS
  <2> DEFINE e == answers[i].event
  <2>1. e \in DOMAIN events /\ events[e] = [key |-> k, life |-> records[k].life]
    BY DEF RecordInvariant, AnswerOK
  <2> QED
    BY <2>1, <1>1
<1> QED
  BY <1>1, <1>2

\* One more answer.
LEMMA AnswersGrow ==
  ASSUME RecordInvariant, OneEffectOneAnswer, UNCHANGED <<commands, records, events>>,
         NEW a, answers' = Append(answers, a), AnswerOK(a, Keys, records, events),
         \A i \in DOMAIN answers :
           (/\ answers[i].status = "done" /\ answers[i].key = a.key /\ answers[i].life = a.life
            /\ answers[i].fingerprint = a.fingerprint) => a = answers[i]
  PROVE  RecordInvariant' /\ OneEffectOneAnswer'
<1> DEFINE n == Len(answers)
<1>1. /\ answers' \in Seq(Elements(answers')) /\ n \in Nat
      /\ DOMAIN answers = 1..n /\ DOMAIN answers' = 1..(n + 1)
      /\ (\A i \in 1..n : answers'[i] = answers[i]) /\ answers'[n + 1] = a
  <2>1. answers \in Seq(Elements(answers))
    BY DEF RecordInvariant
  <2> HIDE DEF n
  <2> QED
    BY <2>1, Appended DEF n
<1> HIDE DEF n
<1>2. Keys' = Keys
  BY DEF Keys
<1>3. \A k \in Keys : RecordOK(k)'
  BY DEF RecordInvariant, RecordOK
<1>4. \A i \in DOMAIN events : EventOK(i)'
  BY <1>2 DEF RecordInvariant, EventOK
<1>5. \A i \in DOMAIN answers' : AnswerOK(answers'[i], Keys', records', events')
  BY <1>1, <1>2 DEF RecordInvariant
<1>6. RecordInvariant'
  BY <1>1, <1>2, <1>3, <1>4, <1>5 DEF RecordInvariant
<1>7. OneEffectOneAnswer'
  <2>1. \A i, j \in DOMAIN answers' :
          (/\ i < j /\ answers'[i].status = "done"
           /\ answers'[i].key = answers'[j].key /\ answers'[i].life = answers'[j].life
           /\ answers'[i].fingerprint = answers'[j].fingerprint)
          => answers'[j] = answers'[i]
    <3> SUFFICES ASSUME NEW i \in 1..(n + 1), NEW j \in 1..(n + 1), i < j, answers'[i].status = "done",
                        answers'[i].key = answers'[j].key, answers'[i].life = answers'[j].life,
                        answers'[i].fingerprint = answers'[j].fingerprint
                 PROVE  answers'[j] = answers'[i]
      BY <1>1
    <3>1. i \in 1..n
      BY <1>1
    <3>2. CASE j = n + 1
      <4>1. answers'[j] = a /\ answers'[i] = answers[i]
        BY <3>1, <3>2, <1>1
      <4> QED
        BY <4>1, <3>1, <1>1
    <3>3. CASE j \in 1..n
      <4>1. answers'[j] = answers[j] /\ answers'[i] = answers[i]
        BY <3>1, <3>3, <1>1
      <4> QED
        BY <4>1, <3>1, <3>3, <1>1 DEF OneEffectOneAnswer
    <3> QED
      BY <3>2, <3>3, <1>1
  <2>2. \A i, j \in DOMAIN events' : events'[i] = events'[j] => i = j
    BY DEF OneEffectOneAnswer
  <2> QED
    BY <2>1, <2>2 DEF OneEffectOneAnswer
<1> QED
  BY <1>6, <1>7

\* What is answered to a request: the key and the life are those of its record.
LEMMA WhatIsAnswered ==
  ASSUME TransactionInvariant, RecordInvariant, NEW s \in Slots, NEW status, NEW event,
         slots[s].command \in commands,
         status = "done" =>
           /\ event \in DOMAIN events
           /\ events[event] = [key |-> slots[s].command.key, life |-> records[slots[s].command.key].life]
           /\ records[slots[s].command.key].fingerprint = Fingerprint(slots[s].command)
  PROVE  \E a : /\ Answered(s, status, event) = Append(answers, a) /\ AnswerOK(a, Keys, records, events)
                /\ a = [key |-> slots[s].command.key, life |-> records[slots[s].command.key].life,
                        fingerprint |-> Fingerprint(slots[s].command), status |-> status, event |-> event]
<1> DEFINE c == slots[s].command
           a == [key |-> c.key, life |-> records[c.key].life,
                 fingerprint |-> Fingerprint(c), status |-> status, event |-> event]
<1>1. c.key \in Keys
  BY DEF Keys
<1>2. records[c.key].life \in Nat
  BY <1>1 DEF RecordInvariant, RecordOK
<1>3. AnswerOK(a, Keys, records, events)
  BY <1>1, <1>2 DEF AnswerOK
<1> QED
  BY <1>3 DEF Answered

LEMMA ReplayKeepsRecords ==
  ASSUME TransactionInvariant, RecordInvariant, OneEffectOneAnswer, NEW s \in Slots, Replay(s)
  PROVE  RecordInvariant' /\ OneEffectOneAnswer'
<1> DEFINE c == slots[s].command
           k == c.key
           r == records[k]
           same == r.fingerprint = Fingerprint(c)
<1>1. c \in commands /\ k \in Keys
  BY ReadyHoldsKey DEF Replay
<1>2. /\ r.state = "kept" /\ UNCHANGED <<commands, records, events>>
      /\ answers' = IF same THEN Answered(s, "done", r.event) ELSE Answered(s, "conflict", 0)
  BY DEF Replay
<1>3. r.event \in DOMAIN events /\ events[r.event] = [key |-> k, life |-> r.life]
  BY <1>1, <1>2 DEF RecordInvariant, RecordOK
<1>4. PICK status, event :
        /\ status \in {"done", "conflict"}
        /\ answers' = Answered(s, status, event)
        /\ status = "done" => same /\ event = r.event
        /\ same => status = "done"
  BY <1>2
<1>5. PICK a : /\ answers' = Append(answers, a) /\ AnswerOK(a, Keys, records, events)
               /\ a = [key |-> k, life |-> r.life, fingerprint |-> Fingerprint(c), status |-> status, event |-> event]
  BY <1>1, <1>3, <1>4, WhatIsAnswered
<1>6. ASSUME NEW i \in DOMAIN answers, answers[i].status = "done", answers[i].key = a.key,
             answers[i].life = a.life, answers[i].fingerprint = a.fingerprint
      PROVE  a = answers[i]
  <2>1. AnswerOK(answers[i], Keys, records, events)
    BY DEF RecordInvariant
  <2>2. answers[i].key = k /\ answers[i].life = r.life /\ answers[i].fingerprint = Fingerprint(c)
    BY <1>5, <1>6
  <2> HIDE DEF k, c, r
  <2>3. same
    BY <1>6, <2>1, <2>2 DEF AnswerOK, r
  <2>4. answers[i].event \in DOMAIN events /\ events[answers[i].event] = [key |-> k, life |-> r.life]
    BY <1>6, <2>1, <2>2 DEF AnswerOK
  <2>5. r.event = answers[i].event
    <3>1. EventOK(answers[i].event)
      BY <2>4 DEF RecordInvariant
    <3> QED
      BY <2>4, <3>1 DEF EventOK, r
  <2>6. status = "done" /\ event = answers[i].event
    BY <1>4, <2>3, <2>5
  <2> QED
    BY <1>5, <1>6, <2>1, <2>2, <2>6 DEF AnswerOK
<1> QED
  BY <1>2, <1>5, <1>6, AnswersGrow

\* A refusal or a clash: nothing was done for the key in this life.
LEMMA FailureKeepsRecords ==
  ASSUME TransactionInvariant, RecordInvariant, OneEffectOneAnswer, NEW s \in Slots,
         slots[s].command \in commands, records[slots[s].command.key].state # "kept",
         NEW status, status # "done",
         answers' = Answered(s, status, 0), UNCHANGED <<commands, records, events>>
  PROVE  RecordInvariant' /\ OneEffectOneAnswer'
<1> DEFINE k == slots[s].command.key
<1>1. k \in Keys
  BY DEF Keys
<1>2. PICK a : /\ answers' = Append(answers, a) /\ AnswerOK(a, Keys, records, events)
               /\ a = [key |-> k, life |-> records[k].life, fingerprint |-> Fingerprint(slots[s].command),
                       status |-> status, event |-> 0]
  BY WhatIsAnswered
<1>3. \A i \in DOMAIN answers :
        (answers[i].status = "done" /\ answers[i].key = a.key /\ answers[i].life = a.life) => FALSE
  BY <1>1, <1>2, NotDoneYet
<1> QED
  BY <1>2, <1>3, AnswersGrow

LEMMA RefuseKeepsRecords ==
  ASSUME TransactionInvariant, RecordInvariant, OneEffectOneAnswer, NEW s \in Slots, Refuse(s)
  PROVE  RecordInvariant' /\ OneEffectOneAnswer'
<1>1. slots[s].command \in commands /\ records[slots[s].command.key].state # "kept"
  BY ReadyHoldsKey DEF Refuse
<1>2. answers' = Answered(s, "refused", 0) /\ UNCHANGED <<commands, records, events>>
  BY DEF Refuse
<1> QED
  BY <1>1, <1>2, FailureKeepsRecords

LEMMA BreakKeepsRecords ==
  ASSUME TransactionInvariant, RecordInvariant, OneEffectOneAnswer, NEW s \in Slots, Break(s)
  PROVE  RecordInvariant' /\ OneEffectOneAnswer'
<1>1. slots[s].command \in commands /\ records[slots[s].command.key].state # "kept"
  BY ReadyHoldsKey DEF Break
<1>2. answers' = Answered(s, "error", 0) /\ UNCHANGED <<commands, records, events>>
  BY DEF Break
<1> QED
  BY <1>1, <1>2, FailureKeepsRecords

LEMMA CommitKeepsRecords ==
  ASSUME TransactionInvariant, RecordInvariant, OneEffectOneAnswer, NEW s \in Slots, Commit(s)
  PROVE  RecordInvariant' /\ OneEffectOneAnswer'
<1> DEFINE c == slots[s].command
           k == c.key
           life == records[k].life
           m == Len(events) + 1
           n == Len(answers) + 1
           event == [key |-> k, life |-> life]
           answer == [key |-> k, life |-> life, fingerprint |-> Fingerprint(c), status |-> "done", event |-> m]
           record == [state |-> "kept", fingerprint |-> Fingerprint(c), event |-> m, life |-> life]
<1>1. c \in commands /\ k \in Keys /\ records[k].state # "kept"
  BY ReadyHoldsKey DEF Commit
<1>2. /\ records' = [j \in Keys |-> IF j = k THEN record ELSE records[j]]
      /\ events' = Append(events, event) /\ answers' = Append(answers, answer)
      /\ UNCHANGED commands /\ Keys' = Keys
  BY <1>1 DEF Commit, Record, Answered, RecordInvariant, Keys
<1>3. /\ \A i \in DOMAIN events : ~(events[i].key = k /\ events[i].life = life)
      /\ \A i \in DOMAIN answers :
           answers[i].status = "done" => ~(answers[i].key = k /\ answers[i].life = life)
  BY <1>1, NotDoneYet
<1>4. life \in Nat
  BY <1>1 DEF RecordInvariant, RecordOK
<1>5. event.key = k /\ event.life = life /\ event = [key |-> k, life |-> life]
  OBVIOUS
<1>6. /\ answer.key = k /\ answer.life = life /\ answer.fingerprint = Fingerprint(c)
      /\ answer.status = "done" /\ answer.event = m
      /\ answer = [key |-> answer.key, life |-> answer.life, fingerprint |-> answer.fingerprint,
                   status |-> answer.status, event |-> answer.event]
  OBVIOUS
<1>7. /\ record.state = "kept" /\ record.fingerprint = Fingerprint(c) /\ record.event = m /\ record.life = life
      /\ record = [state |-> record.state, fingerprint |-> record.fingerprint,
                   event |-> record.event, life |-> record.life]
  OBVIOUS
<1> HIDE DEF event, answer, record
<1>8. /\ m \in Nat /\ n \in Nat /\ m >= 1 /\ n >= 1
      /\ events' \in Seq(Elements(events')) /\ answers' \in Seq(Elements(answers'))
      /\ DOMAIN events = 1..(m - 1) /\ DOMAIN events' = 1..m /\ Len(events) = m - 1 /\ Len(events') = m
      /\ DOMAIN answers = 1..(n - 1) /\ DOMAIN answers' = 1..n
      /\ (\A i \in DOMAIN events : events'[i] = events[i]) /\ events'[m] = event
      /\ (\A i \in DOMAIN answers : answers'[i] = answers[i]) /\ answers'[n] = answer
  <2>1. events \in Seq(Elements(events)) /\ answers \in Seq(Elements(answers))
    BY DEF RecordInvariant
  <2>2. /\ events' \in Seq(Elements(events')) /\ Len(events) \in Nat
        /\ DOMAIN events = 1..Len(events) /\ DOMAIN events' = 1..(Len(events) + 1)
        /\ Len(events') = Len(events) + 1
        /\ (\A i \in DOMAIN events : events'[i] = events[i]) /\ events'[Len(events) + 1] = event
    BY <2>1, <1>2, Appended
  <2>3. /\ answers' \in Seq(Elements(answers')) /\ Len(answers) \in Nat
        /\ DOMAIN answers = 1..Len(answers) /\ DOMAIN answers' = 1..(Len(answers) + 1)
        /\ (\A i \in DOMAIN answers : answers'[i] = answers[i]) /\ answers'[Len(answers) + 1] = answer
    BY <2>1, <1>2, Appended
  <2> QED
    BY <2>2, <2>3
<1> HIDE DEF m, n
<1>9. \A j \in Keys : RecordOK(j)'
  <2> TAKE j \in Keys
  <2>1. CASE j = k
    <3>1. records'[j] = record
      BY <2>1, <1>2
    <3> QED
      BY <3>1, <2>1, <1>4, <1>5, <1>7, <1>8 DEF RecordOK
  <2>2. CASE j # k
    <3>1. records'[j] = records[j] /\ RecordOK(j)
      BY <2>2, <1>2 DEF RecordInvariant
    <3> HIDE DEF k
    <3> QED
      BY <3>1, <2>2, <1>8 DEF RecordOK
  <2> QED
    BY <2>1, <2>2
<1>10. \A i \in DOMAIN events' : EventOK(i)'
  <2> TAKE i \in DOMAIN events'
  <2>1. CASE i = m
    <3>1. events'[i] = event /\ records'[k] = record
      BY <2>1, <1>1, <1>2, <1>8
    <3> HIDE DEF k, life
    <3> QED
      BY <3>1, <2>1, <1>1, <1>2, <1>4, <1>5, <1>7 DEF EventOK
  <2>2. CASE i # m
    <3>1. i \in DOMAIN events /\ events'[i] = events[i] /\ EventOK(i)
      BY <2>2, <1>8 DEF RecordInvariant
    <3> DEFINE j == events[i].key
    <3>2. j \in Keys
      BY <3>1 DEF EventOK
    <3>3. CASE j = k
      <4>1. records'[j] = record
        BY <3>2, <3>3, <1>2
      <4>2. events[i].life # life /\ events[i].life <= life /\ events[i].life \in Nat
        BY <3>1, <3>3, <1>3 DEF EventOK
      <4> QED
        BY <4>1, <4>2, <3>1, <3>2, <1>2, <1>7 DEF EventOK
    <3>4. CASE j # k
      <4>1. records'[j] = records[j]
        BY <3>2, <3>4, <1>2
      <4> QED
        BY <4>1, <3>1, <1>2 DEF EventOK
    <3> QED
      BY <3>3, <3>4
  <2> QED
    BY <2>1, <2>2
<1>11. \A i \in DOMAIN answers' : AnswerOK(answers'[i], Keys', records', events')
  <2> TAKE i \in DOMAIN answers'
  <2>1. CASE i = n
    <3>1. answers'[i] = answer /\ records'[k] = record
      BY <2>1, <1>1, <1>2, <1>8
    <3>2. m \in DOMAIN events' /\ events'[m] = event
      BY <1>8
    <3> HIDE DEF k, life
    <3> QED
      BY <3>1, <3>2, <1>1, <1>2, <1>4, <1>5, <1>6, <1>7 DEF AnswerOK
  <2>2. CASE i # n
    <3> DEFINE b == answers[i]
               j == b.key
    <3>1. i \in DOMAIN answers /\ answers'[i] = b /\ AnswerOK(b, Keys, records, events)
      BY <2>2, <1>8 DEF RecordInvariant
    <3>2. j \in Keys /\ b.life \in Nat /\ b.life <= records[j].life
      BY <3>1 DEF AnswerOK
    <3>3. b.status = "done" =>
            b.event \in DOMAIN events' /\ events'[b.event] = [key |-> b.key, life |-> b.life]
      BY <3>1, <1>8 DEF AnswerOK
    <3>4. CASE j = k
      <4>1. records'[j] = record
        BY <3>2, <3>4, <1>2
      <4>2. b.status = "done" => b.life # life
        BY <3>1, <3>4, <1>3
      <4>3. b.life <= life
        BY <3>2, <3>4
      <4> HIDE DEF k, life
      <4> QED
        BY <4>1, <4>2, <4>3, <3>1, <3>2, <3>3, <3>4, <1>2, <1>7 DEF AnswerOK
    <3>5. CASE j # k
      <4>1. records'[j] = records[j]
        BY <3>2, <3>5, <1>2
      <4> QED
        BY <4>1, <3>1, <3>2, <3>3, <1>2 DEF AnswerOK
    <3> QED
      BY <3>4, <3>5
  <2> QED
    BY <2>1, <2>2
<1>12. RecordInvariant'
  BY <1>2, <1>8, <1>9, <1>10, <1>11 DEF RecordInvariant
<1>13. \A i, j \in DOMAIN events' : events'[i] = events'[j] => i = j
  <2> SUFFICES ASSUME NEW i \in DOMAIN events', NEW j \in DOMAIN events', events'[i] = events'[j], i < j
               PROVE  FALSE
    BY <1>8
  <2>1. i \in DOMAIN events /\ events'[i] = events[i]
    BY <1>8
  <2>2. CASE j = m
    <3>1. events[i] = event
      BY <2>1, <2>2, <1>8
    <3> QED
      BY <3>1, <2>1, <1>3, <1>5
  <2>3. CASE j # m
    <3>1. j \in DOMAIN events /\ events'[j] = events[j]
      BY <2>3, <1>8
    <3>2. events[i] = events[j]
      BY <2>1, <3>1
    <3>3. i = j
      BY <2>1, <3>1, <3>2 DEF OneEffectOneAnswer
    <3> QED
      BY <3>3, <1>8
  <2> QED
    BY <2>2, <2>3
<1>14. \A i, j \in DOMAIN answers' :
         (/\ i < j /\ answers'[i].status = "done"
          /\ answers'[i].key = answers'[j].key /\ answers'[i].life = answers'[j].life
          /\ answers'[i].fingerprint = answers'[j].fingerprint)
         => answers'[j] = answers'[i]
  <2> SUFFICES ASSUME NEW i \in DOMAIN answers', NEW j \in DOMAIN answers', i < j, answers'[i].status = "done",
                      answers'[i].key = answers'[j].key, answers'[i].life = answers'[j].life,
                      answers'[i].fingerprint = answers'[j].fingerprint
               PROVE  answers'[j] = answers'[i]
    OBVIOUS
  <2>1. i \in DOMAIN answers /\ answers'[i] = answers[i]
    BY <1>8
  <2>2. CASE j = n
    <3>1. answers[i].key = k /\ answers[i].life = life
      BY <2>1, <2>2, <1>6, <1>8
    <3> QED
      BY <3>1, <2>1, <1>3
  <2>3. CASE j # n
    <3>1. j \in DOMAIN answers /\ answers'[j] = answers[j]
      BY <2>3, <1>8
    <3> QED
      BY <2>1, <3>1 DEF OneEffectOneAnswer
  <2> QED
    BY <2>2, <2>3
<1> QED
  BY <1>12, <1>13, <1>14 DEF OneEffectOneAnswer

LEMMA ExpireKeepsRecords ==
  ASSUME RecordInvariant, OneEffectOneAnswer, NEW k \in Keys, Expire(k)
  PROVE  RecordInvariant' /\ OneEffectOneAnswer'
<1> DEFINE record == [state |-> "none", fingerprint |-> <<>>, event |-> 0, life |-> records[k].life + 1]
<1>1. /\ records' = [j \in Keys |-> IF j = k THEN record ELSE records[j]]
      /\ UNCHANGED <<commands, events, answers>> /\ Keys' = Keys
  <2>1. record = [NoRecord EXCEPT !.life = records[k].life + 1]
    BY DEF NoRecord
  <2> HIDE DEF record
  <2> QED
    BY <2>1 DEF Expire, RecordInvariant, Keys
<1>2. /\ record.state = "none" /\ record.fingerprint = <<>> /\ record.event = 0 /\ record.life = records[k].life + 1
      /\ record = [state |-> record.state, fingerprint |-> record.fingerprint,
                   event |-> record.event, life |-> record.life]
  OBVIOUS
<1> HIDE DEF record
<1>3. records[k].life \in Nat /\ Len(events) \in Nat
  BY LenProperties DEF RecordInvariant, RecordOK
<1>4. \A j \in Keys : RecordOK(j)'
  <2> TAKE j \in Keys
  <2>1. CASE j = k
    BY <2>1, <1>1, <1>2, <1>3 DEF RecordOK
  <2>2. CASE j # k
    BY <2>2, <1>1 DEF RecordOK, RecordInvariant
  <2> QED
    BY <2>1, <2>2
<1>5. \A i \in DOMAIN events' : EventOK(i)'
  <2> TAKE i \in DOMAIN events'
  <2>1. EventOK(i) /\ i \in DOMAIN events
    BY <1>1 DEF RecordInvariant
  <2>2. CASE events[i].key = k
    <3>1. records'[events[i].key] = record
      BY <2>2, <1>1
    <3>2. events[i].life \in Nat /\ events[i].life <= records[k].life
      BY <2>1, <2>2 DEF EventOK
    <3>3. events[i].life <= record.life /\ events[i].life # record.life
      BY <3>2, <1>2, <1>3
    <3> QED
      BY <3>1, <3>2, <3>3, <2>1, <1>1 DEF EventOK
  <2>3. CASE events[i].key # k
    <3>1. records'[events[i].key] = records[events[i].key]
      BY <2>1, <2>3, <1>1 DEF EventOK
    <3> QED
      BY <3>1, <2>1, <1>1 DEF EventOK
  <2> QED
    BY <2>2, <2>3
<1>6. \A i \in DOMAIN answers' : AnswerOK(answers'[i], Keys', records', events')
  <2> TAKE i \in DOMAIN answers'
  <2> DEFINE b == answers[i]
  <2>1. AnswerOK(b, Keys, records, events) /\ i \in DOMAIN answers /\ answers'[i] = b
    BY <1>1 DEF RecordInvariant
  <2> HIDE DEF b
  <2>2. CASE b.key = k
    <3>1. records'[b.key] = record
      BY <2>2, <1>1
    <3>2. b.life \in Nat /\ b.life <= records[k].life
      BY <2>1, <2>2 DEF AnswerOK
    <3>3. b.life <= record.life /\ b.life # record.life
      BY <3>2, <1>2, <1>3
    <3> QED
      BY <3>1, <3>2, <3>3, <2>1, <1>1 DEF AnswerOK
  <2>3. CASE b.key # k
    <3>1. records'[b.key] = records[b.key]
      BY <2>1, <2>3, <1>1 DEF AnswerOK
    <3> QED
      BY <3>1, <2>1, <1>1 DEF AnswerOK
  <2> QED
    BY <2>2, <2>3
<1>7. RecordInvariant'
  BY <1>1, <1>4, <1>5, <1>6 DEF RecordInvariant
<1>8. OneEffectOneAnswer'
  BY <1>1 DEF OneEffectOneAnswer
<1> QED
  BY <1>7, <1>8

LEMMA UnchangedRecords ==
  ASSUME RecordInvariant, OneEffectOneAnswer, UNCHANGED <<commands, records, events, answers>>
  PROVE  RecordInvariant' /\ OneEffectOneAnswer'
<1>1. Keys' = Keys
  BY DEF Keys
<1> QED
  BY <1>1 DEF RecordInvariant, OneEffectOneAnswer, RecordOK, EventOK

-----------------------------------------------------------------------------
(* What a command changes in the tables.                                     *)

Parts == {"theses", "conditions", "groups", "screens", "universe"}

LEMMA ThesisChange ==
  ASSUME NEW c, NEW seen, NEW tables, NEW id, DOMAIN tables = Parts, c.kind \in ThesisKinds
  PROVE  LET new == ThesisAfter(c, seen, tables, id)
         IN  /\ DOMAIN new = Parts
             /\ new.groups = tables.groups /\ new.screens = tables.screens /\ new.universe = tables.universe
             /\ c.kind = "thesis.create" =>
                  new.theses = tables.theses \union {NewVersion(c, seen, id)} /\ new.conditions = tables.conditions
             /\ c.kind = "condition.delete" =>
                  /\ new.theses = tables.theses
                  /\ new.conditions = {IF d.id = c.condition THEN [d EXCEPT !.deleted = TRUE] ELSE d : d \in tables.conditions}
             /\ c.kind \in {"conditions.create", "conditions.copy"} =>
                  /\ new.theses = tables.theses
                  /\ new.conditions = tables.conditions \union NewConditions(c, seen, id)
<1>1. CASE c.kind = "thesis.create"
  BY <1>1 DEF ThesisAfter, Parts
<1>2. CASE c.kind = "condition.delete"
  BY <1>2 DEF ThesisAfter, Parts
<1>3. CASE c.kind \in {"conditions.create", "conditions.copy"}
  BY <1>3 DEF ThesisAfter, Parts
<1> QED
  BY <1>1, <1>2, <1>3 DEF ThesisKinds

LEMMA WatchlistChange ==
  ASSUME NEW c, NEW seen, NEW tables, NEW id, DOMAIN tables = Parts, c.kind \in WatchlistKinds
  PROVE  LET new == WatchlistAfter(c, seen, tables, id)
         IN  /\ DOMAIN new = Parts
             /\ new.theses = tables.theses /\ new.conditions = tables.conditions
             /\ new.screens = tables.screens /\ new.universe = tables.universe
<1>1. CASE c.kind = "group.create"
  BY <1>1 DEF WatchlistAfter, Parts
<1>2. CASE c.kind = "group.move"
  BY <1>2 DEF WatchlistAfter, Parts
<1>3. CASE c.kind \in {"symbol.add", "symbol.remove"}
  BY <1>3 DEF WatchlistAfter, Parts
<1>4. CASE c.kind \in {"group.rename", "group.remove", "group.restore"}
  BY <1>4 DEF WatchlistAfter, Parts
<1> QED
  BY <1>1, <1>2, <1>3, <1>4 DEF WatchlistKinds

DiscoveryChanges(c, tables, id, new) ==
  /\ DOMAIN new = Parts
  /\ new.theses = tables.theses /\ new.conditions = tables.conditions /\ new.groups = tables.groups
  /\ IsUniverse(c) =>
       /\ new.screens = tables.screens
       /\ DOMAIN new.universe = {"version", "changed"} /\ new.universe.version = c.version + 1
  /\ ~IsUniverse(c) => new.universe = tables.universe
  /\ c.kind \in {"screen.create", "screen.duplicate"} =>
       \E name : new.screens = WithScreen(tables.screens, id, name)
  /\ c.kind = "screen.rename" =>
       new.screens = [tables.screens EXCEPT ![c.screen].name = c.name, ![c.screen].version = @ + 1]
  /\ c.kind = "screen.remove" =>
       new.screens = [tables.screens EXCEPT ![c.screen].deleted = TRUE, ![c.screen].version = @ + 1]

LEMMA DiscoveryChange ==
  ASSUME NEW c, NEW seen, NEW tables, NEW id, DOMAIN tables = Parts, c.kind \in DiscoveryKinds
  PROVE  DiscoveryChanges(c, tables, id, DiscoveryAfter(c, seen, tables, id))
<1>1. CASE c.kind = "screen.create"
  BY <1>1 DEF DiscoveryChanges, DiscoveryAfter, Parts, IsUniverse
<1>2. CASE c.kind = "screen.duplicate"
  BY <1>2 DEF DiscoveryChanges, DiscoveryAfter, Parts, IsUniverse
<1>3. CASE c.kind = "screen.rename"
  BY <1>3 DEF DiscoveryChanges, DiscoveryAfter, Parts, IsUniverse
<1>4. CASE c.kind = "screen.remove"
  BY <1>4 DEF DiscoveryChanges, DiscoveryAfter, Parts, IsUniverse
<1>5. CASE IsUniverse(c)
  <2> DEFINE changed == IF c.kind = "universe.restore"
                        THEN [s \in DOMAIN tables.universe.changed \ {c.symbol} |-> tables.universe.changed[s]]
                        ELSE [s \in DOMAIN tables.universe.changed \union {c.symbol} |->
                                IF s = c.symbol THEN c.kind ELSE tables.universe.changed[s]]
             row == [version |-> c.version + 1, changed |-> changed]
  <2>1. DiscoveryAfter(c, seen, tables, id) = [tables EXCEPT !.universe = row]
    BY <1>5 DEF DiscoveryAfter, IsUniverse
  <2> HIDE DEF changed
  <2>2. DOMAIN row = {"version", "changed"} /\ row.version = c.version + 1
    OBVIOUS
  <2> HIDE DEF row
  <2>3. c.kind \notin {"screen.create", "screen.duplicate", "screen.rename", "screen.remove"}
    BY <1>5 DEF IsUniverse
  <2> QED
    BY <1>5, <2>1, <2>2, <2>3 DEF DiscoveryChanges, Parts
<1> QED
  BY <1>1, <1>2, <1>3, <1>4, <1>5 DEF DiscoveryKinds, IsUniverse

\* The values of a function on a finite set are finite.
LEMMA ValuesAreFinite ==
  ASSUME NEW S, IsFiniteSet(S), NEW f, f = [x \in S |-> f[x]]
  PROVE  IsFiniteSet({f[x] : x \in S})
<1> DEFINE T == {f[x] : x \in S}
<1>1. f \in Surjection(S, T)
  <2>1. f \in [S -> T]
    OBVIOUS
  <2>2. \A t \in T : \E x \in S : f[x] = t
    OBVIOUS
  <2> HIDE DEF T
  <2> QED
    BY <2>1, <2>2 DEF Surjection
<1> HIDE DEF T
<1> QED
  BY <1>1, FS_Surjection DEF T

LEMMA LatestIsLatest ==
  ASSUME NEW theses, IsFiniteSet(theses), \A t \in theses : t.version \in Nat, NEW symbol
  PROVE  /\ LatestVersion(theses, symbol) \in Nat
         /\ \A t \in theses : t.symbol = symbol => t.version <= LatestVersion(theses, symbol)
         /\ (\E t \in theses : t.symbol = symbol) =>
              \/ LatestVersion(theses, symbol) = 0
              \/ \E t \in theses : t.symbol = symbol /\ t.version = LatestVersion(theses, symbol)
<1> DEFINE of == {t \in theses : t.symbol = symbol}
           versions == {t.version : t \in of}
           T == {0} \union versions
<1>1. IsFiniteSet(versions)
  <2>1. IsFiniteSet(of)
    BY FS_Subset
  <2> DEFINE f == [t \in of |-> t.version]
  <2>2. f = [t \in of |-> f[t]]
    OBVIOUS
  <2>3. versions = {f[t] : t \in of}
    OBVIOUS
  <2> HIDE DEF of, f, versions
  <2> QED
    BY <2>1, <2>2, <2>3, ValuesAreFinite
<1>2. IsFiniteSet(T)
  <2> HIDE DEF versions
  <2> QED
    BY <1>1, FS_Singleton, FS_Union
<1>3. T \subseteq Nat /\ T # {}
  OBVIOUS
<1>4. LatestVersion(theses, symbol) = Max(T)
  BY DEF LatestVersion
<1>5. Max(T) \in T /\ \A y \in T : y <= Max(T)
  <2> HIDE DEF T
  <2>1. T \subseteq Int
    BY <1>3
  <2> QED
    BY <2>1, <1>2, <1>3, LargestIsMax
<1>6. \A t \in theses : t.symbol = symbol => t.version \in T
  OBVIOUS
<1>7. \A y \in T : y = 0 \/ \E t \in theses : t.symbol = symbol /\ t.version = y
  OBVIOUS
<1> HIDE DEF T
<1> QED
  BY <1>3, <1>4, <1>5, <1>6, <1>7

LEMMA NextIsLast ==
  ASSUME NEW orders, IsFiniteSet(orders), orders \subseteq Nat
  PROVE  NextOrder(orders) \in Nat /\ \A o \in orders : o < NextOrder(orders)
<1>1. CASE orders = {}
  BY <1>1 DEF NextOrder
<1>2. CASE orders # {}
  <2>1. orders \subseteq Int
    OBVIOUS
  <2>2. Max(orders) \in orders /\ \A o \in orders : o <= Max(orders)
    BY <2>1, <1>2, LargestIsMax
  <2> DEFINE m == Max(orders)
             next == NextOrder(orders)
  <2>3. next = m + 1
    BY <1>2 DEF NextOrder
  <2>4. m \in Nat /\ \A o \in orders : o \in Nat /\ o <= m
    BY <2>2
  <2> HIDE DEF m, next
  <2>5. next \in Nat /\ \A o \in orders : o < next
    BY <2>3, <2>4
  <2> QED
    BY <2>5 DEF next
<1> QED
  BY <1>1, <1>2

-----------------------------------------------------------------------------
(* The tables stay consistent.                                               *)

LEMMA ThesesStayConsistent ==
  ASSUME NEW c, NEW seen, NEW tables, NEW id \in Nat, NEW locks,
         c.kind \in ThesisKinds, WellFormed(c), Consistent(seen), Consistent(tables),
         \A t \in tables.theses : t.id < id,
         StillSo(locks, c, seen, tables), ~ThesisViolates(c, seen, tables, id)
  PROVE  Consistent(ThesisAfter(c, seen, tables, id))
<1> DEFINE new == ThesisAfter(c, seen, tables, id)
<1>1. /\ DOMAIN new = Parts
      /\ new.groups = tables.groups /\ new.screens = tables.screens /\ new.universe = tables.universe
      /\ c.kind = "thesis.create" =>
           new.theses = tables.theses \union {NewVersion(c, seen, id)} /\ new.conditions = tables.conditions
      /\ c.kind = "condition.delete" =>
           /\ new.theses = tables.theses
           /\ new.conditions = {IF d.id = c.condition THEN [d EXCEPT !.deleted = TRUE] ELSE d : d \in tables.conditions}
      /\ c.kind \in {"conditions.create", "conditions.copy"} =>
           /\ new.theses = tables.theses
           /\ new.conditions = tables.conditions \union NewConditions(c, seen, id)
  BY ThesisChange DEF Consistent, Parts
<1> HIDE DEF new
<1>2. /\ IsFiniteSet(tables.theses)
      /\ \A t, u \in tables.theses : t.id \in Nat /\ t.version \in Nat /\ (t.id = u.id => t = u)
      /\ \A d \in tables.conditions :
           DOMAIN d = {"id", "thesis", "deleted"} /\ \E t \in tables.theses : t.id = d.thesis
      /\ \A d, e \in tables.conditions : d.id = e.id => d = e
  BY DEF Consistent
<1>3. /\ IsFiniteSet(new.theses)
      /\ \A t, u \in new.theses : t.id \in Nat /\ t.version \in Nat /\ (t.id = u.id => t = u)
      /\ tables.theses \subseteq new.theses
  <2>1. CASE c.kind = "thesis.create"
    <3> DEFINE v == NewVersion(c, seen, id)
    <3>1. v.id = id /\ v.version \in Nat
      <4>1. LatestVersion(seen.theses, c.symbol) \in Nat
        BY LatestIsLatest DEF Consistent
      <4> HIDE DEF LatestVersion
      <4> QED
        BY <4>1 DEF NewVersion
    <3> HIDE DEF v
    <3>2. new.theses = tables.theses \union {v}
      BY <2>1, <1>1 DEF v
    <3>3. IsFiniteSet(new.theses)
      BY <3>2, <1>2, FS_AddElement
    <3>4. \A t, u \in new.theses : t.id \in Nat /\ t.version \in Nat /\ (t.id = u.id => t = u)
      BY <3>1, <3>2, <1>2
    <3> QED
      BY <3>2, <3>3, <3>4
  <2>2. CASE c.kind # "thesis.create"
    BY <2>2, <1>1, <1>2 DEF ThesisKinds
  <2> QED
    BY <2>1, <2>2
<1>4. /\ \A d \in new.conditions :
           DOMAIN d = {"id", "thesis", "deleted"} /\ \E t \in new.theses : t.id = d.thesis
      /\ \A d, e \in new.conditions : d.id = e.id => d = e
  <2>1. CASE c.kind = "thesis.create"
    BY <2>1, <1>1, <1>2, <1>3
  <2>2. CASE c.kind = "condition.delete"
    <3> DEFINE changed(d) == IF d.id = c.condition THEN [d EXCEPT !.deleted = TRUE] ELSE d
    <3>1. \A d \in tables.conditions :
            DOMAIN changed(d) = {"id", "thesis", "deleted"} /\ changed(d).id = d.id /\ changed(d).thesis = d.thesis
      BY <1>2
    <3>2. new.conditions = {changed(d) : d \in tables.conditions}
      BY <2>2, <1>1
    <3> HIDE DEF changed
    <3>3. \A d \in new.conditions :
            DOMAIN d = {"id", "thesis", "deleted"} /\ \E t \in new.theses : t.id = d.thesis
      BY <3>1, <3>2, <1>2, <1>3
    <3>4. \A d, e \in new.conditions : d.id = e.id => d = e
      <4> SUFFICES ASSUME NEW d \in tables.conditions, NEW e \in tables.conditions,
                          changed(d).id = changed(e).id
                   PROVE  changed(d) = changed(e)
        BY <3>2
      <4>1. d = e
        BY <3>1, <1>2
      <4> QED
        BY <4>1
    <3> QED
      BY <3>3, <3>4
  <2>3. CASE c.kind \in {"conditions.create", "conditions.copy"}
    <3> DEFINE added == NewConditions(c, seen, id)
    <3>1. \E t \in tables.theses : t.id = c.thesis
      BY <2>3 DEF StillSo, ThesisIsNewest, OfThesis, ThesisKinds
    <3>2. \A d \in added : DOMAIN d = {"id", "thesis", "deleted"} /\ d.thesis = c.thesis
      BY DEF NewConditions
    <3>3. \A d \in added : d = [id |-> d.id, thesis |-> c.thesis, deleted |-> FALSE]
      <4>1. \A d \in added : \E x : d = [id |-> x, thesis |-> c.thesis, deleted |-> FALSE]
        BY DEF NewConditions
      <4> HIDE DEF added
      <4>2. SUFFICES ASSUME NEW d \in added
                     PROVE  d = [id |-> d.id, thesis |-> c.thesis, deleted |-> FALSE]
        OBVIOUS
      <4>3. PICK x : d = [id |-> x, thesis |-> c.thesis, deleted |-> FALSE]
        BY <4>1
      <4> QED
        BY <4>3
    <3>4. \A d \in tables.conditions, e \in added : d.id # e.id
      BY <2>3 DEF ThesisViolates
    <3> HIDE DEF added
    <3>5. new.conditions = tables.conditions \union added /\ new.theses = tables.theses
      BY <2>3, <1>1 DEF added
    <3>6. \A d \in new.conditions :
            DOMAIN d = {"id", "thesis", "deleted"} /\ \E t \in new.theses : t.id = d.thesis
      BY <3>1, <3>2, <3>5, <1>2
    <3>7. \A d, e \in added : d.id = e.id => d = e
      <4> SUFFICES ASSUME NEW d \in added, NEW e \in added, d.id = e.id
                   PROVE  d = e
        OBVIOUS
      <4> QED
        BY <3>3, Zenon
    <3>8. \A d, e \in new.conditions : d.id = e.id => d = e
      BY <3>4, <3>5, <3>7, <1>2
    <3> QED
      BY <3>6, <3>8
  <2> QED
    BY <2>1, <2>2, <2>3 DEF ThesisKinds
<1>5. Consistent(new)
  BY <1>1, <1>3, <1>4 DEF Consistent, Parts
<1> QED
  BY <1>5 DEF new

\* The members of a group, with one more or one less.
LEMMA MembersAreWhole ==
  ASSUME NEW c, NEW seen, Consistent(seen), c.group \in DOMAIN seen.groups,
         NEW members, IsFiniteSet(DOMAIN members), \A s \in DOMAIN members : members[s] \in Nat
  PROVE  LET after == MembersAfter(c, seen, members)
         IN  IsFiniteSet(DOMAIN after) /\ \A s \in DOMAIN after : after[s] \in Nat
<1> DEFINE row == seen.groups[c.group]
           orders == {row.members[s] : s \in DOMAIN row.members}
           next == NextOrder(orders)
           after == MembersAfter(c, seen, members)
<1>1. CASE c.kind = "symbol.remove"
  <2>1. after = [s \in DOMAIN members \ {c.symbol} |-> members[s]]
    BY <1>1 DEF MembersAfter
  <2>2. DOMAIN after \subseteq DOMAIN members /\ \A s \in DOMAIN after : after[s] = members[s]
    BY <2>1
  <2> HIDE DEF after
  <2>3. IsFiniteSet(DOMAIN after) /\ \A s \in DOMAIN after : after[s] \in Nat
    BY <2>2, FS_Subset
  <2> QED
    BY <2>3 DEF after
<1>2. CASE c.kind # "symbol.remove" /\ c.symbol \in DOMAIN members
  BY <1>2 DEF MembersAfter
<1>3. CASE c.kind # "symbol.remove" /\ c.symbol \notin DOMAIN members
  <2>1. next \in Nat
    <3>1. IsFiniteSet(DOMAIN row.members) /\ \A s \in DOMAIN row.members : row.members[s] \in Nat
      BY DEF Consistent, GroupIsWhole
    <3> DEFINE f == [s \in DOMAIN row.members |-> row.members[s]]
    <3>2. f = [s \in DOMAIN row.members |-> f[s]] /\ orders = {f[s] : s \in DOMAIN row.members}
      OBVIOUS
    <3>3. orders \subseteq Nat
      BY <3>1
    <3> HIDE DEF f, orders, row
    <3>4. IsFiniteSet(orders)
      BY <3>1, <3>2, ValuesAreFinite
    <3> QED
      BY <3>3, <3>4, NextIsLast
  <2>2. after = With(members, c.symbol, next)
    BY <1>3 DEF MembersAfter
  <2> HIDE DEF next
  <2>3. /\ DOMAIN after = DOMAIN members \union {c.symbol}
        /\ \A s \in DOMAIN after : after[s] = IF s \in DOMAIN members THEN members[s] ELSE next
    BY <2>2 DEF With
  <2> HIDE DEF after
  <2>4. IsFiniteSet(DOMAIN after)
    BY <2>3, FS_AddElement
  <2>5. \A s \in DOMAIN after : after[s] \in Nat
    BY <2>1, <2>3
  <2> QED
    BY <2>4, <2>5 DEF after
<1> QED
  BY <1>1, <1>2, <1>3

LEMMA GroupAfterIsWhole ==
  ASSUME NEW c, NEW row, GroupIsWhole(row), c.kind \in {"group.rename", "group.remove", "group.restore"}
  PROVE  /\ GroupIsWhole(GroupAfter(c, row)) /\ GroupAfter(c, row).version = row.version + 1
         /\ GroupAfter(c, row).order = row.order /\ GroupAfter(c, row).members = row.members
         /\ row.removed => GroupAfter(c, row).removed
<1> DEFINE new == GroupAfter(c, row)
<1>1. /\ DOMAIN new = {"name", "order", "version", "deleted", "removed", "members"}
      /\ new.version = row.version + 1 /\ new.order = row.order /\ new.members = row.members
      /\ new.deleted = IF c.kind = "group.rename" THEN row.deleted ELSE c.kind = "group.remove"
      /\ new.removed = (row.removed \/ c.kind = "group.remove")
  BY DEF GroupAfter, GroupIsWhole
<1> HIDE DEF new
<1>2. row.version + 1 \in Nat
  BY DEF GroupIsWhole
<1>3. new.deleted \in BOOLEAN /\ new.removed \in BOOLEAN
  BY <1>1, Zenon DEF GroupIsWhole
<1>4. new.deleted => new.removed
  <2>1. CASE c.kind = "group.rename"
    BY <2>1, <1>1, Zenon DEF GroupIsWhole
  <2>2. CASE c.kind # "group.rename"
    BY <2>2, <1>1, Zenon
  <2> QED
    BY <2>1, <2>2
<1>5. GroupIsWhole(new)
  BY <1>1, <1>2, <1>3, <1>4, Zenon DEF GroupIsWhole
<1> QED
  BY <1>1, <1>5, Zenon DEF new

\* How the groups change: one row, the places of those that a move has read, or one more.
GroupsChange(c, seen, groups, id, after) ==
  LET m == Moved(c, seen)
  IN  /\ DOMAIN after = DOMAIN groups \union (IF c.kind = "group.create" THEN {id} ELSE {})
      /\ \A g \in DOMAIN after : GroupIsWhole(after[g])
      /\ \A g \in DOMAIN groups :
           /\ after[g].version >= groups[g].version
           /\ groups[g].removed => after[g].removed
           /\ c.kind # "group.move" => after[g].order = groups[g].order
           /\ c.kind \notin {"symbol.add", "symbol.remove"} => after[g].members = groups[g].members
           /\ c.kind = "group.create" => after[g] = groups[g]
           /\ (c.kind \in WatchlistKinds \ {"group.create", "group.move"} /\ g # c.group) => after[g] = groups[g]
           /\ (c.kind = "group.move" /\ g \notin Elements(m)) => after[g] = groups[g]
           /\ (c.kind = "group.move" /\ g \in Elements(m)) =>
                \E i \in DOMAIN m : i \in Nat /\ m[i] = g /\ after[g].order = i - 1
      /\ c.kind = "group.rename" => after[c.group].version = groups[c.group].version + 1
      /\ c.kind \in {"symbol.add", "symbol.remove"} =>
           after[c.group].members = MembersAfter(c, seen, groups[c.group].members)
      /\ (c.kind = "group.create" /\ id \notin DOMAIN groups) =>
           after[id].order = NextOrder({seen.groups[g].order : g \in Live(seen.groups)}) /\ after[id].members = <<>>

LEMMA CreateChangesGroups ==
  ASSUME NEW c, NEW seen, Consistent(seen), NEW tables, Consistent(tables), NEW id \in Nat,
         WellFormed(c), c.kind = "group.create"
  PROVE  GroupsChange(c, seen, tables.groups, id, WatchlistAfter(c, seen, tables, id).groups)
<1> DEFINE groups == tables.groups
           orders == {seen.groups[g].order : g \in Live(seen.groups)}
           next == NextOrder(orders)
           row == [name |-> c.name, order |-> next, version |-> 1, deleted |-> FALSE, removed |-> FALSE, members |-> <<>>]
           after == WatchlistAfter(c, seen, tables, id).groups
<1>1. \A g \in DOMAIN groups : GroupIsWhole(groups[g])
  BY DEF Consistent
<1>2. next \in Nat
  <2> DEFINE live == Live(seen.groups)
             f == [g \in live |-> seen.groups[g].order]
  <2>1. IsFiniteSet(live) /\ live \subseteq DOMAIN seen.groups
    BY FS_Subset DEF Consistent, Live
  <2>2. orders \subseteq Nat
    BY DEF Consistent, GroupIsWhole, Live
  <2>3. f = [g \in live |-> f[g]] /\ orders = {f[g] : g \in live}
    OBVIOUS
  <2> HIDE DEF f, live, orders
  <2>4. IsFiniteSet(orders)
    BY <2>1, <2>3, ValuesAreFinite
  <2> QED
    BY <2>2, <2>4, NextIsLast
<1>3. after = With(groups, id, row)
  <2>1. DOMAIN tables = Parts
    BY DEF Consistent, Parts
  <2> QED
    BY <2>1 DEF WatchlistAfter, Parts
<1>4. row.order = next /\ row.members = <<>> /\ GroupIsWhole(row)
  <2> HIDE DEF next
  <2>1. /\ DOMAIN row = {"name", "order", "version", "deleted", "removed", "members"}
        /\ row.order = next /\ row.version = 1 /\ row.deleted = FALSE /\ row.removed = FALSE /\ row.members = <<>>
    OBVIOUS
  <2>2. IsFiniteSet(DOMAIN <<>>) /\ \A s \in DOMAIN <<>> : <<>>[s] \in Nat
    <3>1. DOMAIN <<>> = {}
      OBVIOUS
    <3> QED
      BY <3>1, FS_EmptySet
  <2> HIDE DEF row
  <2>3. row.order \in Nat /\ row.version \in Nat
    BY <1>2, <2>1
  <2> QED
    BY <2>1, <2>2, <2>3, Zenon DEF GroupIsWhole
<1> HIDE DEF row, next, after
<1>5. /\ DOMAIN after = DOMAIN groups \union {id}
      /\ \A g \in DOMAIN groups : after[g] = groups[g]
      /\ id \notin DOMAIN groups => after[id] = row
  BY <1>3 DEF With
<1>6. \A g \in DOMAIN after : GroupIsWhole(after[g])
  BY <1>1, <1>4, <1>5
<1>7. \A g \in DOMAIN groups : after[g].version >= groups[g].version
  BY <1>1, <1>5 DEF GroupIsWhole
<1>8. GroupsChange(c, seen, groups, id, after)
  BY <1>4, <1>5, <1>6, <1>7 DEF GroupsChange, next
<1> QED
  BY <1>8 DEF after

LEMMA MoveChangesGroups ==
  ASSUME NEW c, NEW seen, Consistent(seen), NEW tables, Consistent(tables), NEW id \in Nat,
         WellFormed(c), c.kind = "group.move"
  PROVE  GroupsChange(c, seen, tables.groups, id, WatchlistAfter(c, seen, tables, id).groups)
<1> DEFINE groups == tables.groups
           m == Moved(c, seen)
           place(g) == (CHOOSE i \in DOMAIN m : m[i] = g) - 1
           after == WatchlistAfter(c, seen, tables, id).groups
<1>1. \A g \in DOMAIN groups : GroupIsWhole(groups[g])
  BY DEF Consistent
<1>2. m \in Seq(Elements(m))
  <2>1. c.target \in Nat
    BY DEF WellFormed, Fields
  <2> QED
    BY <2>1, MovedHasAll
<1>3. after = [g \in DOMAIN groups |->
                 IF \E i \in DOMAIN m : m[i] = g THEN [groups[g] EXCEPT !.order = place(g)] ELSE groups[g]]
  <2>1. DOMAIN tables = Parts
    BY DEF Consistent, Parts
  <2> QED
    BY <2>1 DEF WatchlistAfter, Parts
<1> HIDE DEF m, after
<1>4. DOMAIN m = 1..Len(m) /\ Len(m) \in Nat
  BY <1>2, LenProperties
<1>5. \A g : (\E i \in DOMAIN m : m[i] = g) =>
               place(g) \in Nat /\ \E i \in DOMAIN m : i \in Nat /\ m[i] = g /\ place(g) = i - 1
  <2> TAKE g
  <2> HAVE \E i \in DOMAIN m : m[i] = g
  <2> DEFINE j == CHOOSE i \in DOMAIN m : m[i] = g
  <2>1. j \in DOMAIN m /\ m[j] = g /\ place(g) = j - 1
    OBVIOUS
  <2> HIDE DEF j, place
  <2>2. j \in Nat /\ j >= 1
    BY <2>1, <1>4
  <2> QED
    BY <2>1, <2>2
<1> HIDE DEF place
<1>6. \A g \in DOMAIN groups :
        /\ GroupIsWhole(after[g])
        /\ after[g].version = groups[g].version /\ after[g].members = groups[g].members
        /\ after[g].removed = groups[g].removed
        /\ g \notin Elements(m) => after[g] = groups[g]
        /\ g \in Elements(m) => \E i \in DOMAIN m : i \in Nat /\ m[i] = g /\ after[g].order = i - 1
  <2> TAKE g \in DOMAIN groups
  <2> DEFINE row == [groups[g] EXCEPT !.order = place(g)]
  <2>1. CASE \E i \in DOMAIN m : m[i] = g
    <3>1. after[g] = row
      BY <2>1, <1>3
    <3>2. GroupIsWhole(groups[g]) /\ place(g) \in Nat
      BY <1>1, <1>5, <2>1
    <3>3. /\ DOMAIN row = DOMAIN groups[g] /\ row.order = place(g) /\ row.version = groups[g].version
          /\ row.deleted = groups[g].deleted /\ row.removed = groups[g].removed /\ row.members = groups[g].members
      BY <3>2 DEF GroupIsWhole
    <3> HIDE DEF row
    <3>4. GroupIsWhole(row)
      BY <3>2, <3>3, Zenon DEF GroupIsWhole
    <3>5. \E i \in DOMAIN m : i \in Nat /\ m[i] = g /\ row.order = i - 1
      BY <2>1, <1>5, <3>3
    <3>6. g \in Elements(m)
      BY <2>1 DEF Elements
    <3> QED
      BY <3>1, <3>3, <3>4, <3>5, <3>6
  <2>2. CASE ~\E i \in DOMAIN m : m[i] = g
    <3>1. after[g] = groups[g] /\ g \notin Elements(m)
      BY <2>2, <1>3 DEF Elements
    <3> QED
      BY <3>1, <1>1
  <2> QED
    BY <2>1, <2>2
<1>7. DOMAIN after = DOMAIN groups
  BY <1>3
<1>8. \A g \in DOMAIN groups : after[g].version >= groups[g].version
  BY <1>1, <1>6 DEF GroupIsWhole
<1>9. GroupsChange(c, seen, groups, id, after)
  <2>1. c.kind \notin {"group.create", "group.rename", "symbol.add", "symbol.remove"}
    OBVIOUS
  <2>2. \A g \in DOMAIN groups : groups[g].removed => after[g].removed
    BY <1>6
  <2> QED
    BY <2>1, <2>2, <1>6, <1>7, <1>8 DEF GroupsChange, m
<1> QED
  BY <1>9 DEF after

LEMMA RowChangesGroups ==
  ASSUME NEW c, NEW seen, Consistent(seen), NEW tables, Consistent(tables), NEW id \in Nat,
         WellFormed(c), c.kind \in WatchlistKinds \ {"group.create", "group.move"},
         GroupIsRead(c, seen, tables)
  PROVE  GroupsChange(c, seen, tables.groups, id, WatchlistAfter(c, seen, tables, id).groups)
<1> DEFINE groups == tables.groups
           h == c.group
           after == WatchlistAfter(c, seen, tables, id).groups
<1>1. /\ \A g \in DOMAIN groups : GroupIsWhole(groups[g])
      /\ h \in DOMAIN groups /\ h \in DOMAIN seen.groups
  BY DEF Consistent, GroupIsRead
<1>2. /\ c.kind \in {"symbol.add", "symbol.remove"} =>
           after = [groups EXCEPT ![h].members = MembersAfter(c, seen, @)]
      /\ c.kind \in {"group.rename", "group.remove", "group.restore"} =>
           after = [groups EXCEPT ![h] = GroupAfter(c, @)]
  <2>1. DOMAIN tables = Parts
    BY DEF Consistent, Parts
  <2>2. CASE c.kind \in {"symbol.add", "symbol.remove"}
    BY <2>1, <2>2 DEF WatchlistAfter, Parts
  <2>3. CASE c.kind \in {"group.rename", "group.remove", "group.restore"}
    BY <2>1, <2>3 DEF WatchlistAfter, Parts
  <2> QED
    BY <2>2, <2>3 DEF WatchlistKinds
<1> HIDE DEF after
<1>3. PICK row : after = [groups EXCEPT ![h] = row]
  BY <1>2 DEF WatchlistKinds
<1>4. after[h] = row /\ DOMAIN after = DOMAIN groups /\ \A g \in DOMAIN groups \ {h} : after[g] = groups[g]
  BY <1>1, <1>3
<1>5. /\ GroupIsWhole(row) /\ row.order = groups[h].order /\ (groups[h].removed => row.removed)
      /\ row.version >= groups[h].version
      /\ c.kind = "group.rename" => row.version = groups[h].version + 1
      /\ c.kind \in {"symbol.add", "symbol.remove"} => row.members = MembersAfter(c, seen, groups[h].members)
      /\ c.kind \notin {"symbol.add", "symbol.remove"} => row.members = groups[h].members
  <2>1. CASE c.kind \in {"symbol.add", "symbol.remove"}
    <3> DEFINE old == groups[h]
               members == MembersAfter(c, seen, old.members)
               new == [old EXCEPT !.members = members]
    <3>1. row = new
      BY <2>1, <1>1, <1>2, <1>4
    <3>2. GroupIsWhole(old)
      BY <1>1
    <3>3. IsFiniteSet(DOMAIN members) /\ \A s \in DOMAIN members : members[s] \in Nat
      BY <1>1, <3>2, MembersAreWhole DEF GroupIsWhole
    <3> HIDE DEF members
    <3>4. /\ DOMAIN new = DOMAIN old /\ new.order = old.order /\ new.version = old.version
          /\ new.deleted = old.deleted /\ new.removed = old.removed /\ new.members = members
      BY <3>2 DEF GroupIsWhole
    <3> HIDE DEF new
    <3>5. GroupIsWhole(new)
      BY <3>2, <3>3, <3>4, Zenon DEF GroupIsWhole
    <3>6. new.version >= old.version
      BY <3>2, <3>4 DEF GroupIsWhole
    <3> QED
      BY <2>1, <3>1, <3>4, <3>5, <3>6 DEF members
  <2>2. CASE c.kind \in {"group.rename", "group.remove", "group.restore"}
    <3>1. row = GroupAfter(c, groups[h])
      BY <2>2, <1>1, <1>2, <1>4
    <3>2. GroupIsWhole(groups[h])
      BY <1>1
    <3>3. /\ GroupIsWhole(row) /\ row.version = groups[h].version + 1
          /\ row.order = groups[h].order /\ row.members = groups[h].members
          /\ groups[h].removed => row.removed
      BY <2>2, <3>1, <3>2, GroupAfterIsWhole
    <3>4. row.version >= groups[h].version
      BY <3>2, <3>3 DEF GroupIsWhole
    <3> QED
      BY <2>2, <3>3, <3>4
  <2> QED
    BY <2>1, <2>2 DEF WatchlistKinds
<1>6. /\ \A g \in DOMAIN after : GroupIsWhole(after[g])
      /\ \A g \in DOMAIN groups : after[g].version >= groups[g].version
  <2>1. \A g \in DOMAIN groups \ {h} : after[g].version >= groups[g].version
    BY <1>1, <1>4 DEF GroupIsWhole
  <2> HIDE DEF h
  <2> QED
    BY <2>1, <1>1, <1>4, <1>5
<1>7. GroupsChange(c, seen, groups, id, after)
  BY <1>1, <1>4, <1>5, <1>6 DEF GroupsChange
<1> QED
  BY <1>7 DEF after

LEMMA WatchlistChangesGroups ==
  ASSUME NEW c, NEW seen, Consistent(seen), NEW tables, Consistent(tables), NEW id \in Nat,
         WellFormed(c), c.kind \in WatchlistKinds, GroupIsRead(c, seen, tables)
  PROVE  GroupsChange(c, seen, tables.groups, id, WatchlistAfter(c, seen, tables, id).groups)
BY CreateChangesGroups, MoveChangesGroups, RowChangesGroups

LEMMA WatchlistsStayConsistent ==
  ASSUME NEW c, NEW seen, Consistent(seen), NEW tables, Consistent(tables), NEW id \in Nat,
         WellFormed(c), c.kind \in WatchlistKinds, GroupIsRead(c, seen, tables)
  PROVE  Consistent(WatchlistAfter(c, seen, tables, id))
<1> DEFINE new == WatchlistAfter(c, seen, tables, id)
<1>1. /\ DOMAIN new = Parts
      /\ new.theses = tables.theses /\ new.conditions = tables.conditions
      /\ new.screens = tables.screens /\ new.universe = tables.universe
  BY WatchlistChange DEF Consistent, Parts
<1>2. GroupsChange(c, seen, tables.groups, id, new.groups)
  BY WatchlistChangesGroups
<1> HIDE DEF new
<1>3. IsFiniteSet(DOMAIN new.groups) /\ DOMAIN new.groups \subseteq Nat
  <2>1. IsFiniteSet(DOMAIN tables.groups) /\ DOMAIN tables.groups \subseteq Nat
    BY DEF Consistent
  <2>2. DOMAIN new.groups = DOMAIN tables.groups \/ DOMAIN new.groups = DOMAIN tables.groups \union {id}
    BY <1>2 DEF GroupsChange
  <2>3. CASE DOMAIN new.groups = DOMAIN tables.groups
    BY <2>1, <2>3
  <2>4. CASE DOMAIN new.groups = DOMAIN tables.groups \union {id}
    BY <2>1, <2>4, FS_AddElement
  <2> QED
    BY <2>2, <2>3, <2>4
<1>4. \A g \in DOMAIN new.groups : GroupIsWhole(new.groups[g])
  BY <1>2 DEF GroupsChange
<1>5. Consistent(new)
  BY <1>1, <1>3, <1>4 DEF Consistent, Parts
<1> QED
  BY <1>5 DEF new

\* A symbol that is added goes after all that its group has.
LEMMA MembersStayDistinct ==
  ASSUME NEW c, NEW seen, Consistent(seen), c.group \in DOMAIN seen.groups,
         NEW members, members = seen.groups[c.group].members,
         \A s, t \in DOMAIN members : s # t => members[s] # members[t]
  PROVE  LET after == MembersAfter(c, seen, members)
         IN  \A s, t \in DOMAIN after : s # t => after[s] # after[t]
<1> DEFINE orders == {members[s] : s \in DOMAIN members}
           next == NextOrder(orders)
           after == MembersAfter(c, seen, members)
<1>1. CASE c.kind = "symbol.remove"
  BY <1>1 DEF MembersAfter
<1>2. CASE c.kind # "symbol.remove" /\ c.symbol \in DOMAIN members
  BY <1>2 DEF MembersAfter
<1>3. CASE c.kind # "symbol.remove" /\ c.symbol \notin DOMAIN members
  <2>1. IsFiniteSet(DOMAIN members) /\ \A s \in DOMAIN members : members[s] \in Nat
    BY DEF Consistent, GroupIsWhole
  <2>2. \A s \in DOMAIN members : members[s] < next
    <3> DEFINE f == [s \in DOMAIN members |-> members[s]]
    <3>1. f = [s \in DOMAIN members |-> f[s]] /\ orders = {f[s] : s \in DOMAIN members}
      OBVIOUS
    <3>2. orders \subseteq Nat /\ \A s \in DOMAIN members : members[s] \in orders
      BY <2>1
    <3> HIDE DEF f, orders
    <3>3. IsFiniteSet(orders)
      BY <2>1, <3>1, ValuesAreFinite
    <3>4. \A o \in orders : o < next
      BY <3>2, <3>3, NextIsLast
    <3> HIDE DEF next
    <3> QED
      BY <3>2, <3>4
  <2>3. after = With(members, c.symbol, next)
    BY <1>3 DEF MembersAfter
  <2> HIDE DEF next
  <2>4. /\ DOMAIN after = DOMAIN members \union {c.symbol}
        /\ \A s \in DOMAIN members : after[s] = members[s]
        /\ after[c.symbol] = next
    BY <2>3, <1>3 DEF With
  <2> HIDE DEF after
  <2>5. \A s \in DOMAIN members : members[s] # next
    BY <2>1, <2>2
  <2>6. \A s, t \in DOMAIN after : s # t => after[s] # after[t]
    BY <2>4, <2>5
  <2> QED
    BY <2>6 DEF after
<1> QED
  BY <1>1, <1>2, <1>3

LEMMA PlacesStayDistinct ==
  ASSUME NEW c, NEW seen, Consistent(seen), NEW tables, Consistent(tables), NEW id \in Nat,
         WellFormed(c), c.kind \in WatchlistKinds,
         GroupIsRead(c, seen, tables), PlacesAreRead(c, seen, tables), PlacesAreDistinct(tables.groups)
  PROVE  PlacesAreDistinct(WatchlistAfter(c, seen, tables, id).groups)
<1> DEFINE groups == tables.groups
           after == WatchlistAfter(c, seen, tables, id).groups
           m == Moved(c, seen)
           next == NextOrder({seen.groups[g].order : g \in Live(seen.groups)})
<1>1. GroupsChange(c, seen, groups, id, after)
  BY WatchlistChangesGroups
<1>2. \A g \in DOMAIN groups : groups[g].order \in Nat
  BY DEF Consistent, GroupIsWhole
<1>3. /\ \A g, h \in DOMAIN groups :
           (g # h /\ groups[g].order = groups[h].order) => groups[g].removed \/ groups[h].removed
      /\ \A g \in DOMAIN groups : \A s, t \in DOMAIN groups[g].members :
           s # t => groups[g].members[s] # groups[g].members[t]
  BY DEF PlacesAreDistinct
<1> SUFFICES PlacesAreDistinct(after)
  OBVIOUS
<1> HIDE DEF after
<1>4. CASE c.kind \notin {"group.create", "group.move"}
  <2>1. DOMAIN after = DOMAIN groups
    BY <1>1, <1>4 DEF GroupsChange
  <2>2. \A g, h \in DOMAIN after :
          (g # h /\ after[g].order = after[h].order) => after[g].removed \/ after[h].removed
    <3>1. \A g \in DOMAIN groups : after[g].order = groups[g].order /\ (groups[g].removed => after[g].removed)
      BY <1>1, <1>4 DEF GroupsChange
    <3> QED
      BY <3>1, <2>1, <1>3
  <2>3. \A g \in DOMAIN after : \A s, t \in DOMAIN after[g].members :
          s # t => after[g].members[s] # after[g].members[t]
    <3> TAKE g \in DOMAIN after
    <3>1. CASE after[g].members = groups[g].members
      BY <3>1, <2>1, <1>3
    <3>2. CASE c.kind \in {"symbol.add", "symbol.remove"} /\ g = c.group
      <4>1. after[g].members = MembersAfter(c, seen, groups[g].members)
        BY <3>2, <1>1 DEF GroupsChange
      <4>2. c.group \in DOMAIN seen.groups /\ groups[g].members = seen.groups[c.group].members
        BY <3>2, <1>4 DEF GroupIsRead, WatchlistKinds
      <4>3. \A s, t \in DOMAIN groups[g].members : s # t => groups[g].members[s] # groups[g].members[t]
        BY <2>1, <1>3
      <4> HIDE DEF groups
      <4> QED
        BY <4>1, <4>2, <4>3, MembersStayDistinct
    <3>3. after[g].members = groups[g].members \/ (c.kind \in {"symbol.add", "symbol.remove"} /\ g = c.group)
      <4>1. CASE c.kind \notin {"symbol.add", "symbol.remove"}
        BY <4>1, <2>1, <1>1 DEF GroupsChange
      <4>2. CASE g # c.group
        <5>1. after[g] = groups[g]
          BY <4>2, <2>1, <1>1, <1>4 DEF GroupsChange
        <5> QED
          BY <5>1
      <4> QED
        BY <4>1, <4>2
    <3> QED
      BY <3>1, <3>2, <3>3
  <2> QED
    BY <2>2, <2>3 DEF PlacesAreDistinct
<1>5. CASE c.kind = "group.create"
  <2>1. /\ DOMAIN after = DOMAIN groups \union {id}
        /\ \A g \in DOMAIN groups : after[g] = groups[g]
        /\ id \notin DOMAIN groups => after[id].order = next /\ after[id].members = <<>>
    BY <1>1, <1>5 DEF GroupsChange
  <2>2. \A g \in DOMAIN groups : ~groups[g].removed => groups[g].order # next
    <3> TAKE g \in DOMAIN groups
    <3> HAVE ~groups[g].removed
    <3> DEFINE live == Live(seen.groups)
               orders == {seen.groups[h].order : h \in live}
               f == [h \in live |-> seen.groups[h].order]
    <3>1. g \in live /\ seen.groups[g].order = groups[g].order
      BY <1>5 DEF PlacesAreRead
    <3>2. IsFiniteSet(live) /\ orders \subseteq Nat
      BY FS_Subset DEF Consistent, GroupIsWhole, Live
    <3>3. f = [h \in live |-> f[h]] /\ orders = {f[h] : h \in live} /\ groups[g].order \in orders
      BY <3>1
    <3> HIDE DEF f, live, orders
    <3>4. IsFiniteSet(orders)
      BY <3>2, <3>3, ValuesAreFinite
    <3>5. NextOrder(orders) \in Nat /\ groups[g].order < NextOrder(orders)
      BY <3>2, <3>3, <3>4, NextIsLast
    <3>6. next = NextOrder(orders)
      BY DEF orders, live
    <3>7. groups[g].order \in Nat
      BY <3>2, <3>3
    <3> DEFINE n == NextOrder(orders)
               o == groups[g].order
    <3>8. n \in Nat /\ o \in Nat /\ o < n
      BY <3>5, <3>7
    <3> HIDE DEF n, o, next
    <3>9. o # n
      BY <3>8
    <3> QED
      BY <3>6, <3>9 DEF n, o
  <2> HIDE DEF next
  <2>3. \A g, h \in DOMAIN after :
          (g # h /\ after[g].order = after[h].order) => after[g].removed \/ after[h].removed
    BY <2>1, <2>2, <1>3
  <2>4. \A g \in DOMAIN after : \A s, t \in DOMAIN after[g].members :
          s # t => after[g].members[s] # after[g].members[t]
    <3> TAKE g \in DOMAIN after
    <3>1. CASE g \in DOMAIN groups
      BY <3>1, <2>1, <1>3
    <3>2. CASE g \notin DOMAIN groups
      <4>1. after[g].members = <<>>
        BY <3>2, <2>1
      <4> QED
        BY <4>1
    <3> QED
      BY <3>1, <3>2
  <2> QED
    BY <2>3, <2>4 DEF PlacesAreDistinct
<1>6. CASE c.kind = "group.move"
  <2>1. DOMAIN after = DOMAIN groups
    BY <1>1, <1>6 DEF GroupsChange
  <2>2. \A g \in DOMAIN groups :
          /\ groups[g].removed => after[g].removed
          /\ after[g].members = groups[g].members
          /\ g \notin Elements(m) => after[g] = groups[g]
          /\ g \in Elements(m) => \E i \in DOMAIN m : i \in Nat /\ m[i] = g /\ after[g].order = i - 1
    BY <1>1, <1>6 DEF GroupsChange
  <2>3. \A g \in DOMAIN groups : g \notin Elements(m) => groups[g].removed
    <3>1. c.target \in Nat
      BY <1>6 DEF WellFormed, Fields
    <3>2. Live(seen.groups) \subseteq Elements(m)
      BY <3>1, MovedHasAll
    <3> QED
      BY <3>2, <1>6 DEF PlacesAreRead
  <2>4. \A g, h \in DOMAIN after :
          (g # h /\ after[g].order = after[h].order) => after[g].removed \/ after[h].removed
    <3> SUFFICES ASSUME NEW g \in DOMAIN groups, NEW h \in DOMAIN groups, g # h,
                        after[g].order = after[h].order
                 PROVE  after[g].removed \/ after[h].removed
      BY <2>1
    <3>1. CASE g \notin Elements(m) \/ h \notin Elements(m)
      BY <3>1, <2>2, <2>3
    <3>2. CASE g \in Elements(m) /\ h \in Elements(m)
      <4>1. PICK i \in DOMAIN m : i \in Nat /\ m[i] = g /\ after[g].order = i - 1
        BY <3>2, <2>2
      <4>2. PICK j \in DOMAIN m : j \in Nat /\ m[j] = h /\ after[h].order = j - 1
        BY <3>2, <2>2
      <4> HIDE DEF m
      <4>3. i - 1 = j - 1
        BY <4>1, <4>2, Zenon
      <4>4. i = j
        BY <4>1, <4>2, <4>3
      <4> QED
        BY <4>1, <4>2, <4>4
    <3> QED
      BY <3>1, <3>2
  <2>5. \A g \in DOMAIN after : \A s, t \in DOMAIN after[g].members :
          s # t => after[g].members[s] # after[g].members[t]
    BY <2>1, <2>2, <1>3
  <2> QED
    BY <2>4, <2>5 DEF PlacesAreDistinct
<1> QED
  BY <1>4, <1>5, <1>6

\* Versions of screens and of the universe only grow.
ScreensChange(c, screens, id, after) ==
  /\ DOMAIN screens \subseteq DOMAIN after
  /\ \A n \in DOMAIN after : DOMAIN after[n] = {"name", "version", "deleted"} /\ after[n].version \in Nat
  /\ \A n \in DOMAIN screens : after[n].version >= screens[n].version
  /\ \A n \in DOMAIN screens :
       ~(c.kind \in {"screen.rename", "screen.remove"} /\ n = c.screen) => after[n] = screens[n]
  /\ (c.kind \in {"screen.rename", "screen.remove"} /\ c.screen \in DOMAIN screens) =>
       after[c.screen].version = screens[c.screen].version + 1

LEMMA DiscoveryStaysConsistent ==
  ASSUME NEW c, NEW seen, NEW tables, Consistent(tables), NEW id,
         WellFormed(c), c.kind \in DiscoveryKinds
  PROVE  /\ Consistent(DiscoveryAfter(c, seen, tables, id))
         /\ ScreensChange(c, tables.screens, id, DiscoveryAfter(c, seen, tables, id).screens)
<1> DEFINE new == DiscoveryAfter(c, seen, tables, id)
           screens == tables.screens
           after == new.screens
<1>1. DiscoveryChanges(c, tables, id, new)
  <2>1. DOMAIN tables = Parts
    BY DEF Consistent, Parts
  <2> QED
    BY <2>1, DiscoveryChange
<1> HIDE DEF new
<1>2. \A n \in DOMAIN screens :
        DOMAIN screens[n] = {"name", "version", "deleted"} /\ screens[n].version \in Nat
  BY DEF Consistent
<1>3. ScreensChange(c, screens, id, after)
  <2>1. CASE IsUniverse(c)
    <3>1. c.kind \notin {"screen.rename", "screen.remove"}
      BY <2>1 DEF IsUniverse
    <3> QED
      BY <2>1, <3>1, <1>1, <1>2 DEF ScreensChange, DiscoveryChanges
  <2>2. CASE c.kind \in {"screen.create", "screen.duplicate"}
    <3>1. PICK name : after = WithScreen(screens, id, name)
      BY <2>2, <1>1 DEF DiscoveryChanges
    <3> DEFINE row == [name |-> name, version |-> 1, deleted |-> FALSE]
    <3>2. DOMAIN row = {"name", "version", "deleted"} /\ row.version \in Nat
      OBVIOUS
    <3>3. /\ DOMAIN after = DOMAIN screens \union {id}
          /\ \A n \in DOMAIN after : after[n] = IF n \in DOMAIN screens THEN screens[n] ELSE row
      BY <3>1 DEF WithScreen
    <3> HIDE DEF row, after
    <3> QED
      BY <2>2, <3>2, <3>3, <1>2 DEF ScreensChange
  <2>3. CASE c.kind \in {"screen.rename", "screen.remove"}
    <3>1. PICK row : /\ after = [screens EXCEPT ![c.screen] = row]
                     /\ c.screen \in DOMAIN screens =>
                          /\ DOMAIN row = {"name", "version", "deleted"}
                          /\ row.version = screens[c.screen].version + 1
      <4> DEFINE old == screens[c.screen]
                 row == IF c.kind = "screen.rename" THEN [old EXCEPT !.name = c.name, !.version = @ + 1]
                        ELSE [old EXCEPT !.deleted = TRUE, !.version = @ + 1]
      <4>1. after = [screens EXCEPT ![c.screen] = row]
        BY <2>3, <1>1 DEF DiscoveryChanges
      <4>2. c.screen \in DOMAIN screens =>
              DOMAIN row = {"name", "version", "deleted"} /\ row.version = old.version + 1
        BY <1>2
      <4> HIDE DEF row
      <4> QED
        BY <4>1, <4>2
    <3>2. /\ DOMAIN after = DOMAIN screens
          /\ \A n \in DOMAIN screens : after[n] = IF n = c.screen THEN row ELSE screens[n]
      BY <3>1
    <3> HIDE DEF after
    <3> QED
      BY <2>3, <3>1, <3>2, <1>2 DEF ScreensChange
  <2> QED
    BY <2>1, <2>2, <2>3 DEF IsUniverse, DiscoveryKinds
<1>4. DOMAIN new.universe = {"version", "changed"} /\ new.universe.version \in Nat
  <2>1. CASE IsUniverse(c)
    <3>1. c.version \in Nat
      BY <2>1 DEF IsUniverse, WellFormed, Fields
    <3> QED
      BY <2>1, <3>1, <1>1 DEF DiscoveryChanges
  <2>2. CASE ~IsUniverse(c)
    BY <2>2, <1>1 DEF Consistent, DiscoveryChanges
  <2> QED
    BY <2>1, <2>2
<1>5. Consistent(new)
  <2>1. \A n \in DOMAIN after : DOMAIN after[n] = {"name", "version", "deleted"} /\ after[n].version \in Nat
    BY <1>3 DEF ScreensChange
  <2> QED
    BY <1>1, <1>4, <2>1 DEF Consistent, Parts, DiscoveryChanges
<1> QED
  BY <1>3, <1>5 DEF new

-----------------------------------------------------------------------------
(* One command changes the tables, and what the others have read stays so.   *)

After(c, seen, tables, id) ==
  IF c.kind \in ThesisKinds THEN ThesisAfter(c, seen, tables, id)
  ELSE IF c.kind \in WatchlistKinds THEN WatchlistAfter(c, seen, tables, id)
  ELSE DiscoveryAfter(c, seen, tables, id)

LEMMA KindsAreApart ==
  ASSUME NEW c, WellFormed(c)
  PROVE  /\ c.kind \in ThesisKinds =>
              c.kind \notin WatchlistKinds /\ c.kind \notin DiscoveryKinds /\ ~IsUniverse(c)
         /\ c.kind \in WatchlistKinds => c.kind \notin DiscoveryKinds /\ ~IsUniverse(c)
         /\ c.kind \in DiscoveryKinds => c.kind \notin ThesisKinds /\ c.kind \notin WatchlistKinds
         /\ c.kind \in ThesisKinds \/ c.kind \in WatchlistKinds \/ c.kind \in DiscoveryKinds
BY DEF WellFormed, ThesisKinds, WatchlistKinds, DiscoveryKinds, IsUniverse

\* A command that may commit, with the locks it holds and what it has read.
MayCommit(locks, c, seen, tables, id) ==
  /\ WellFormed(c) /\ Consistent(seen) /\ Consistent(tables)
  /\ id \in Nat /\ \A t \in tables.theses : t.id < id
  /\ Covers(locks, c, tables) /\ StillSo(locks, c, seen, tables)
  /\ c.kind = "group.move" => Elements(RowsToWrite(c, seen)) \subseteq locks
  /\ c.kind \in ThesisKinds => ~ThesisViolates(c, seen, tables, id)

LEMMA TablesStayConsistent ==
  ASSUME NEW locks, NEW c, NEW seen, NEW tables, NEW id, MayCommit(locks, c, seen, tables, id)
  PROVE  Consistent(After(c, seen, tables, id))
<1>1. CASE c.kind \in ThesisKinds
  BY <1>1, ThesesStayConsistent DEF MayCommit, After
<1>2. CASE c.kind \in WatchlistKinds
  <2>1. c.kind \notin ThesisKinds
    BY <1>2, KindsAreApart DEF MayCommit
  <2> QED
    BY <1>2, <2>1, WatchlistsStayConsistent DEF MayCommit, After, StillSo
<1>3. CASE c.kind \in DiscoveryKinds
  <2>1. c.kind \notin ThesisKinds /\ c.kind \notin WatchlistKinds
    BY <1>3, KindsAreApart DEF MayCommit
  <2> QED
    BY <1>3, <2>1, DiscoveryStaysConsistent DEF MayCommit, After
<1> QED
  BY <1>1, <1>2, <1>3, KindsAreApart DEF MayCommit

\* What one command does to each table.
ThesesGrow(c, seen, tables, id, new) ==
  /\ tables.theses \subseteq new.theses
  /\ c.kind = "thesis.create" => new.theses = tables.theses \union {NewVersion(c, seen, id)}
  /\ c.kind # "thesis.create" => new.theses = tables.theses
  /\ \A d \in tables.conditions : \E e \in new.conditions : e.id = d.id /\ e.thesis = d.thesis

GroupsGrow(c, seen, tables, id, new) ==
  IF c.kind \in WatchlistKinds THEN GroupsChange(c, seen, tables.groups, id, new.groups)
  ELSE new.groups = tables.groups

ScreensGrow(c, tables, id, new) ==
  /\ ScreensChange(c, tables.screens, id, new.screens)
  /\ IsUniverse(c) => new.universe.version = c.version + 1
  /\ ~IsUniverse(c) => new.universe = tables.universe

LEMMA ThesesOnlyGrow ==
  ASSUME NEW locks, NEW c, NEW seen, NEW tables, NEW id, MayCommit(locks, c, seen, tables, id)
  PROVE  ThesesGrow(c, seen, tables, id, After(c, seen, tables, id))
<1> DEFINE new == After(c, seen, tables, id)
<1>1. DOMAIN tables = Parts
  BY DEF MayCommit, Consistent, Parts
<1>2. CASE c.kind \in ThesisKinds
  <2>1. new = ThesisAfter(c, seen, tables, id)
    BY <1>2 DEF After
  <2>2. /\ c.kind = "thesis.create" =>
             new.theses = tables.theses \union {NewVersion(c, seen, id)} /\ new.conditions = tables.conditions
        /\ c.kind = "condition.delete" =>
             /\ new.theses = tables.theses
             /\ new.conditions = {IF d.id = c.condition THEN [d EXCEPT !.deleted = TRUE] ELSE d : d \in tables.conditions}
        /\ c.kind \in {"conditions.create", "conditions.copy"} =>
             new.theses = tables.theses /\ tables.conditions \subseteq new.conditions
    BY <1>1, <1>2, <2>1, ThesisChange
  <2> HIDE DEF new
  <2>3. CASE c.kind = "condition.delete"
    <3>1. \A d \in tables.conditions : DOMAIN d = {"id", "thesis", "deleted"}
      BY DEF MayCommit, Consistent
    <3> DEFINE changed(d) == IF d.id = c.condition THEN [d EXCEPT !.deleted = TRUE] ELSE d
    <3>2. \A d \in tables.conditions : changed(d).id = d.id /\ changed(d).thesis = d.thesis
      BY <3>1
    <3>3. new.conditions = {changed(d) : d \in tables.conditions}
      BY <2>2, <2>3
    <3> HIDE DEF changed
    <3>4. \A d \in tables.conditions : \E e \in new.conditions : e.id = d.id /\ e.thesis = d.thesis
      BY <3>2, <3>3
    <3> QED
      BY <2>2, <2>3, <3>4 DEF ThesesGrow, new
  <2>4. CASE c.kind # "condition.delete"
    <3>1. \A d \in tables.conditions : d \in new.conditions
      BY <1>2, <2>2, <2>4 DEF ThesisKinds
    <3>2. ThesesGrow(c, seen, tables, id, new)
      BY <1>2, <2>2, <2>4, <3>1 DEF ThesesGrow, ThesisKinds
    <3> QED
      BY <3>2 DEF new
  <2> QED
    BY <2>3, <2>4
<1>3. CASE c.kind \notin ThesisKinds
  <2>1. new.theses = tables.theses /\ new.conditions = tables.conditions
    <3>1. CASE c.kind \in WatchlistKinds
      BY <1>1, <1>3, <3>1, WatchlistChange DEF After
    <3>2. CASE c.kind \in DiscoveryKinds
      <4>1. new = DiscoveryAfter(c, seen, tables, id)
        BY <1>3, <3>2, KindsAreApart DEF After, MayCommit
      <4> HIDE DEF new
      <4>2. DiscoveryChanges(c, tables, id, new)
        BY <1>1, <3>2, <4>1, DiscoveryChange
      <4> QED
        BY <4>2 DEF DiscoveryChanges
    <3> QED
      BY <1>3, <3>1, <3>2, KindsAreApart DEF MayCommit
  <2>2. c.kind # "thesis.create"
    BY <1>3 DEF ThesisKinds
  <2> HIDE DEF new
  <2>3. ThesesGrow(c, seen, tables, id, new)
    BY <2>1, <2>2 DEF ThesesGrow
  <2> QED
    BY <2>3 DEF new
<1> QED
  BY <1>2, <1>3

LEMMA GroupsOnlyGrow ==
  ASSUME NEW locks, NEW c, NEW seen, NEW tables, NEW id, MayCommit(locks, c, seen, tables, id)
  PROVE  GroupsGrow(c, seen, tables, id, After(c, seen, tables, id))
<1> DEFINE new == After(c, seen, tables, id)
<1>1. DOMAIN tables = Parts
  BY DEF MayCommit, Consistent, Parts
<1>2. CASE c.kind \in WatchlistKinds
  <2>1. new = WatchlistAfter(c, seen, tables, id)
    BY <1>2, KindsAreApart DEF After, MayCommit
  <2> HIDE DEF new
  <2>2. GroupsChange(c, seen, tables.groups, id, new.groups)
    BY <1>2, <2>1, WatchlistChangesGroups DEF MayCommit, StillSo
  <2>3. GroupsGrow(c, seen, tables, id, new)
    BY <1>2, <2>2 DEF GroupsGrow
  <2> QED
    BY <2>3 DEF new
<1>3. CASE c.kind \in ThesisKinds
  <2>1. new = ThesisAfter(c, seen, tables, id) /\ c.kind \notin WatchlistKinds
    BY <1>3, KindsAreApart DEF After, MayCommit
  <2> HIDE DEF new
  <2>2. new.groups = tables.groups
    BY <1>1, <1>3, <2>1, ThesisChange
  <2>3. GroupsGrow(c, seen, tables, id, new)
    BY <2>1, <2>2 DEF GroupsGrow
  <2> QED
    BY <2>3 DEF new
<1>4. CASE c.kind \in DiscoveryKinds
  <2>1. new = DiscoveryAfter(c, seen, tables, id) /\ c.kind \notin WatchlistKinds
    BY <1>4, KindsAreApart DEF After, MayCommit
  <2> HIDE DEF new
  <2>2. new.groups = tables.groups
    <3>1. DiscoveryChanges(c, tables, id, new)
      BY <1>1, <1>4, <2>1, DiscoveryChange
    <3> QED
      BY <3>1 DEF DiscoveryChanges
  <2>3. GroupsGrow(c, seen, tables, id, new)
    BY <2>1, <2>2 DEF GroupsGrow
  <2> QED
    BY <2>3 DEF new
<1> QED
  BY <1>2, <1>3, <1>4, KindsAreApart DEF MayCommit

LEMMA ScreensOnlyGrow ==
  ASSUME NEW locks, NEW c, NEW seen, NEW tables, NEW id, MayCommit(locks, c, seen, tables, id)
  PROVE  ScreensGrow(c, tables, id, After(c, seen, tables, id))
<1> DEFINE new == After(c, seen, tables, id)
<1>1. DOMAIN tables = Parts
  BY DEF MayCommit, Consistent, Parts
<1>2. CASE c.kind \in DiscoveryKinds
  <2>1. new = DiscoveryAfter(c, seen, tables, id)
    BY <1>2, KindsAreApart DEF After, MayCommit
  <2> HIDE DEF new
  <2>2. DiscoveryChanges(c, tables, id, new) /\ ScreensChange(c, tables.screens, id, new.screens)
    BY <1>1, <1>2, <2>1, DiscoveryChange, DiscoveryStaysConsistent DEF MayCommit
  <2>3. ScreensGrow(c, tables, id, new)
    BY <2>2 DEF ScreensGrow, DiscoveryChanges
  <2> QED
    BY <2>3 DEF new
<1>3. CASE c.kind \notin DiscoveryKinds
  <2>1. new.screens = tables.screens /\ new.universe = tables.universe
    <3>1. CASE c.kind \in ThesisKinds
      <4>1. new = ThesisAfter(c, seen, tables, id)
        BY <3>1 DEF After
      <4> HIDE DEF new
      <4> QED
        BY <1>1, <3>1, <4>1, ThesisChange
    <3>2. CASE c.kind \in WatchlistKinds
      <4>1. new = WatchlistAfter(c, seen, tables, id)
        BY <3>2, KindsAreApart DEF After, MayCommit
      <4> HIDE DEF new
      <4> QED
        BY <1>1, <3>2, <4>1, WatchlistChange
    <3> QED
      BY <1>3, <3>1, <3>2, KindsAreApart DEF MayCommit
  <2>2. c.kind \notin {"screen.rename", "screen.remove"} /\ ~IsUniverse(c)
    BY <1>3 DEF DiscoveryKinds, IsUniverse
  <2>3. \A n \in DOMAIN tables.screens :
          DOMAIN tables.screens[n] = {"name", "version", "deleted"} /\ tables.screens[n].version \in Nat
    BY DEF MayCommit, Consistent
  <2> HIDE DEF new
  <2>4. ScreensGrow(c, tables, id, new)
    BY <2>1, <2>2, <2>3 DEF ScreensGrow, ScreensChange
  <2> QED
    BY <2>4 DEF new
<1> QED
  BY <1>2, <1>3

\* With locks that are apart from those of the command that commits, what a transaction
\* has read stays so.
Growth(c, seen, tables, id, new) ==
  /\ ThesesGrow(c, seen, tables, id, new) /\ GroupsGrow(c, seen, tables, id, new)
  /\ ScreensGrow(c, tables, id, new)

LEMMA TablesOnlyGrow ==
  ASSUME NEW locks, NEW c, NEW seen, NEW tables, NEW id, MayCommit(locks, c, seen, tables, id)
  PROVE  Growth(c, seen, tables, id, After(c, seen, tables, id))
BY ThesesOnlyGrow, GroupsOnlyGrow, ScreensOnlyGrow DEF Growth

LEMMA ThesisOfStays ==
  ASSUME NEW c, NEW seen, NEW tables, NEW id, NEW new, ThesesGrow(c, seen, tables, id, new),
         NEW d, NEW t, OfThesis(d, tables, t)
  PROVE  OfThesis(d, new, t)
BY DEF ThesesGrow, OfThesis

LEMMA CoversStays ==
  ASSUME NEW c, NEW seen, NEW tables, NEW id, NEW new, ThesesGrow(c, seen, tables, id, new),
         NEW d, NEW locks, Covers(locks, d, tables)
  PROVE  Covers(locks, d, new)
<1>1. d.kind \in {"conditions.copy", "condition.delete"} =>
        \E t \in new.theses : OfThesis(d, new, t) /\ <<"symbol", t.symbol>> \in locks
  <2> HAVE d.kind \in {"conditions.copy", "condition.delete"}
  <2>1. PICK t \in tables.theses : OfThesis(d, tables, t) /\ <<"symbol", t.symbol>> \in locks
    BY DEF Covers
  <2>2. t \in new.theses /\ OfThesis(d, new, t)
    BY <2>1, ThesisOfStays DEF ThesesGrow
  <2> QED
    BY <2>1, <2>2
<1> QED
  BY <1>1 DEF Covers

LEMMA NewThesisIsOfSymbol ==
  ASSUME NEW c, NEW seen, NEW tables, NEW id, NEW new, ThesesGrow(c, seen, tables, id, new),
         NEW locks, Covers(locks, c, tables), NEW t \in new.theses, t \notin tables.theses
  PROVE  <<"symbol", t.symbol>> \in locks
<1>1. c.kind = "thesis.create" /\ t = NewVersion(c, seen, id)
  BY DEF ThesesGrow
<1>2. t.symbol = c.symbol
  BY <1>1 DEF NewVersion
<1> QED
  BY <1>1, <1>2 DEF Covers

LEMMA ThesisReadsStay ==
  ASSUME NEW c, NEW seen, NEW tables, NEW id, NEW new, ThesesGrow(c, seen, tables, id, new),
         NEW locks, Covers(locks, c, tables),
         NEW d, NEW held, NEW read, held \intersect locks = {},
         Covers(held, d, tables), LatestIsRead(d, read, tables), ThesisIsNewest(held, d, tables)
  PROVE  LatestIsRead(d, read, new) /\ ThesisIsNewest(held, d, new)
<1>1. LatestIsRead(d, read, new)
  <2> SUFFICES ASSUME d.kind = "thesis.create", NEW t \in new.theses, t.symbol = d.symbol
               PROVE  t \in read.theses
    BY DEF LatestIsRead
  <2>1. <<"symbol", t.symbol>> \in held
    BY DEF Covers
  <2>2. t \in tables.theses
    BY <2>1, NewThesisIsOfSymbol
  <2> QED
    BY <2>2 DEF LatestIsRead
<1>2. ThesisIsNewest(held, d, new)
  <2> SUFFICES ASSUME d.kind \in ThesisKinds \ {"thesis.create"}
               PROVE  \E t \in new.theses :
                        /\ OfThesis(d, new, t) /\ <<"symbol", t.symbol>> \in held
                        /\ \A u \in new.theses : u.symbol = t.symbol => u.version <= t.version
    BY DEF ThesisIsNewest
  <2>1. PICK t \in tables.theses :
          /\ OfThesis(d, tables, t) /\ <<"symbol", t.symbol>> \in held
          /\ \A u \in tables.theses : u.symbol = t.symbol => u.version <= t.version
    BY DEF ThesisIsNewest
  <2>2. t \in new.theses /\ OfThesis(d, new, t)
    BY <2>1, ThesisOfStays DEF ThesesGrow
  <2>3. \A u \in new.theses : u.symbol = t.symbol => u \in tables.theses
    <3> SUFFICES ASSUME NEW u \in new.theses, u.symbol = t.symbol, u \notin tables.theses
                 PROVE  FALSE
      OBVIOUS
    <3>1. <<"symbol", u.symbol>> \in locks
      BY NewThesisIsOfSymbol
    <3> QED
      BY <2>1, <3>1
  <2> QED
    BY <2>1, <2>2, <2>3
<1> QED
  BY <1>1, <1>2

LEMMA GroupReadsStay ==
  ASSUME NEW c, NEW seen, Consistent(seen), WellFormed(c), NEW tables, Consistent(tables), NEW id, NEW new,
         GroupsGrow(c, seen, tables, id, new),
         NEW locks, Covers(locks, c, tables),
         c.kind = "group.move" => Elements(RowsToWrite(c, seen)) \subseteq locks,
         NEW d, NEW held, NEW read, held \intersect locks = {},
         Covers(held, d, tables), PlacesAreRead(d, read, tables), GroupIsRead(d, read, tables)
  PROVE  PlacesAreRead(d, read, new) /\ GroupIsRead(d, read, new)
<1> DEFINE groups == tables.groups
           after == new.groups
<1>1. CASE c.kind \notin WatchlistKinds
  <2>1. after = groups
    BY <1>1 DEF GroupsGrow
  <2> QED
    BY <2>1 DEF PlacesAreRead, GroupIsRead
<1>2. CASE c.kind \in WatchlistKinds
  <2>1. GroupsChange(c, seen, groups, id, after)
    BY <1>2 DEF GroupsGrow
  <2>2. PlacesAreRead(d, read, new)
    <3> SUFFICES ASSUME d.kind \in {"group.create", "group.move"}
                 PROVE  PlacesAreRead(d, read, new)
      BY DEF PlacesAreRead
    <3>1. c.kind \notin {"group.create", "group.move"}
      BY DEF Covers
    <3>2. DOMAIN after = DOMAIN groups
          /\ \A g \in DOMAIN groups : after[g].order = groups[g].order /\ (groups[g].removed => after[g].removed)
      BY <2>1, <3>1 DEF GroupsChange
    <3> HIDE DEF groups, after
    <3>3. \A g \in DOMAIN groups : ~groups[g].removed =>
            g \in Live(read.groups) /\ read.groups[g].order = groups[g].order
      BY DEF PlacesAreRead, groups
    <3>4. \A g \in DOMAIN after : ~after[g].removed =>
            g \in Live(read.groups) /\ read.groups[g].order = after[g].order
      BY <3>2, <3>3
    <3> QED
      BY <3>4 DEF PlacesAreRead, after
  <2>3. GroupIsRead(d, read, new)
    <3> SUFFICES ASSUME d.kind \in WatchlistKinds \ {"group.create", "group.move"}
                 PROVE  GroupIsRead(d, read, new)
      BY DEF GroupIsRead
    <3>1. d.group \in DOMAIN groups /\ <<"group", d.group>> \notin locks
      BY DEF Covers, GroupIsRead
    <3>2. after[d.group] = groups[d.group] /\ d.group \in DOMAIN after
      <4>1. CASE c.kind = "group.create"
        BY <2>1, <3>1, <4>1 DEF GroupsChange
      <4>2. CASE c.kind = "group.move"
        <5>1. \A g \in Elements(Moved(c, seen)) : <<"group", g>> \in locks
          BY <4>2, RowsAreSequences
        <5>2. d.group \notin Elements(Moved(c, seen))
          BY <3>1, <5>1
        <5> QED
          BY <2>1, <3>1, <4>2, <5>2 DEF GroupsChange
      <4>3. CASE c.kind \notin {"group.create", "group.move"}
        <5>1. d.group # c.group
          BY <1>2, <3>1, <4>3 DEF Covers
        <5> QED
          BY <1>2, <2>1, <3>1, <4>3, <5>1 DEF GroupsChange
      <4> QED
        BY <4>1, <4>2, <4>3
    <3> QED
      BY <3>2 DEF GroupIsRead
  <2> QED
    BY <2>2, <2>3
<1> QED
  BY <1>1, <1>2

LEMMA VersionReadsStay ==
  ASSUME NEW c, NEW tables, NEW id, NEW new, ScreensGrow(c, tables, id, new),
         NEW locks, Covers(locks, c, tables),
         NEW d, NEW held, held \intersect locks = {},
         Covers(held, d, tables), VersionIsRead(d, tables)
  PROVE  VersionIsRead(d, new)
<1>1. d.kind \in {"screen.rename", "screen.remove"} =>
        d.screen \in DOMAIN new.screens /\ new.screens[d.screen].version = d.version
  <2> HAVE d.kind \in {"screen.rename", "screen.remove"}
  <2>1. d.screen \in DOMAIN tables.screens /\ tables.screens[d.screen].version = d.version
        /\ <<"screen", d.screen>> \notin locks
    BY DEF VersionIsRead, Covers
  <2>2. ~(c.kind \in {"screen.rename", "screen.remove"} /\ d.screen = c.screen)
    BY <2>1 DEF Covers
  <2>3. new.screens[d.screen] = tables.screens[d.screen] /\ d.screen \in DOMAIN new.screens
    BY <2>1, <2>2 DEF ScreensGrow, ScreensChange
  <2> QED
    BY <2>1, <2>3
<1>2. IsUniverse(d) => new.universe.version = d.version
  <2> HAVE IsUniverse(d)
  <2>1. ~IsUniverse(c)
    BY DEF Covers
  <2> QED
    BY <2>1 DEF ScreensGrow, VersionIsRead
<1> QED
  BY <1>1, <1>2 DEF VersionIsRead

LEMMA ReadsStay ==
  ASSUME NEW locks, NEW c, NEW seen, NEW tables, NEW id, MayCommit(locks, c, seen, tables, id),
         NEW q, ReadOK(q, tables), q.held \intersect locks = {}
  PROVE  ReadOK(q, After(c, seen, tables, id))
<1> DEFINE new == After(c, seen, tables, id)
<1>1. /\ ThesesGrow(c, seen, tables, id, new) /\ GroupsGrow(c, seen, tables, id, new)
      /\ ScreensGrow(c, tables, id, new)
  BY TablesOnlyGrow DEF Growth
<1> HIDE DEF new
<1>2. /\ WellFormed(c) /\ Consistent(seen) /\ Consistent(tables) /\ Covers(locks, c, tables)
      /\ c.kind = "group.move" => Elements(RowsToWrite(c, seen)) \subseteq locks
  BY DEF MayCommit
<1>3. q.stage = "read" => Covers(Claims(q), q.command, new)
  BY <1>1, CoversStays DEF ReadOK
<1>4. q.stage = "write" =>
        /\ Consistent(q.seen)
        /\ Covers(q.held, q.command, new) /\ StillSo(q.held, q.command, q.seen, new)
        /\ q.command.kind = "group.move" =>
             Elements(RowsToWrite(q.command, q.seen)) \subseteq Claims(q)
  <2> HAVE q.stage = "write"
  <2>1. /\ Covers(q.held, q.command, tables)
        /\ LatestIsRead(q.command, q.seen, tables) /\ ThesisIsNewest(q.held, q.command, tables)
        /\ PlacesAreRead(q.command, q.seen, tables) /\ GroupIsRead(q.command, q.seen, tables)
        /\ VersionIsRead(q.command, tables)
    BY DEF ReadOK, StillSo
  <2>2. Covers(q.held, q.command, new)
    BY <1>1, <2>1, CoversStays
  <2>3. LatestIsRead(q.command, q.seen, new) /\ ThesisIsNewest(q.held, q.command, new)
    BY <1>1, <1>2, <2>1, ThesisReadsStay
  <2>4. PlacesAreRead(q.command, q.seen, new) /\ GroupIsRead(q.command, q.seen, new)
    BY <1>1, <1>2, <2>1, GroupReadsStay
  <2>5. VersionIsRead(q.command, new)
    BY <1>1, <1>2, <2>1, VersionReadsStay
  <2> QED
    BY <2>2, <2>3, <2>4, <2>5 DEF ReadOK, StillSo
<1>5. ReadOK(q, new)
  BY <1>3, <1>4 DEF ReadOK
<1> QED
  BY <1>5 DEF new

\* A version that is past stays past, and the version that a command was based on is past
\* when it has committed.
LEMMA PastStaysPast ==
  ASSUME NEW locks, NEW c, NEW seen, NEW tables, NEW id, MayCommit(locks, c, seen, tables, id),
         NEW f, VersionIsPast(f, tables)
  PROVE  VersionIsPast(f, After(c, seen, tables, id))
<1> DEFINE new == After(c, seen, tables, id)
<1>1. GroupsGrow(c, seen, tables, id, new) /\ ScreensGrow(c, tables, id, new)
  BY TablesOnlyGrow DEF Growth
<1>2. Consistent(tables) /\ Consistent(new) /\ VersionIsRead(c, tables)
  BY TablesStayConsistent DEF MayCommit, StillSo
<1> HIDE DEF new
<1>3. \A g \in DOMAIN tables.groups :
        /\ g \in DOMAIN new.groups /\ new.groups[g].version >= tables.groups[g].version
        /\ tables.groups[g].version \in Nat /\ new.groups[g].version \in Nat
  <2>1. \A g \in DOMAIN tables.groups :
          g \in DOMAIN new.groups /\ (c.kind \in WatchlistKinds => new.groups[g].version >= tables.groups[g].version)
    BY <1>1 DEF GroupsGrow, GroupsChange
  <2>2. /\ \A g \in DOMAIN tables.groups : tables.groups[g].version \in Nat
        /\ \A g \in DOMAIN new.groups : new.groups[g].version \in Nat
    BY <1>2 DEF Consistent, GroupIsWhole
  <2>3. c.kind \notin WatchlistKinds => new.groups = tables.groups
    BY <1>1 DEF GroupsGrow
  <2> QED
    BY <2>1, <2>2, <2>3
<1>4. \A n \in DOMAIN tables.screens :
        /\ n \in DOMAIN new.screens /\ new.screens[n].version >= tables.screens[n].version
        /\ tables.screens[n].version \in Nat /\ new.screens[n].version \in Nat
  BY <1>1, <1>2 DEF ScreensGrow, ScreensChange, Consistent
<1>5. /\ tables.universe.version \in Nat /\ new.universe.version \in Nat
      /\ new.universe.version >= tables.universe.version
  BY <1>1, <1>2 DEF ScreensGrow, VersionIsRead, Consistent
<1>6. VersionIsPast(f, new)
  <2> SUFFICES ASSUME "version" \in DOMAIN f
               PROVE  VersionIsPast(f, new)
    BY DEF VersionIsPast
  <2>1. f.version \in Nat
    BY DEF VersionIsPast
  <2>2. "group" \in DOMAIN f =>
          f.group \in DOMAIN new.groups /\ f.version < new.groups[f.group].version
    BY <2>1, <1>3 DEF VersionIsPast
  <2>3. "screen" \in DOMAIN f =>
          f.screen \in DOMAIN new.screens /\ f.version < new.screens[f.screen].version
    BY <2>1, <1>4 DEF VersionIsPast
  <2>4. "group" \notin DOMAIN f /\ "screen" \notin DOMAIN f => f.version < new.universe.version
    BY <2>1, <1>5 DEF VersionIsPast
  <2> QED
    BY <2>1, <2>2, <2>3, <2>4 DEF VersionIsPast
<1> QED
  BY <1>6 DEF new

\* The commands that name a version.
LEMMA WhoNamesAVersion ==
  ASSUME NEW c, WellFormed(c), "version" \in DOMAIN c
  PROVE  /\ c.version \in Nat
         /\ \/ c.kind = "group.rename" /\ "group" \in DOMAIN c /\ "screen" \notin DOMAIN c
            \/ c.kind \in {"screen.rename", "screen.remove"} /\ "screen" \in DOMAIN c /\ "group" \notin DOMAIN c
            \/ IsUniverse(c) /\ "group" \notin DOMAIN c /\ "screen" \notin DOMAIN c
BY DEF WellFormed, Fields, IsUniverse, ThesisKinds, WatchlistKinds, DiscoveryKinds

LEMMA FingerprintNames ==
  ASSUME NEW c
  PROVE  /\ DOMAIN Fingerprint(c) = DOMAIN c \ {"key"}
         /\ \A f \in DOMAIN c \ {"key"} : Fingerprint(c)[f] = c[f]
BY DEF Fingerprint

LEMMA CommittedVersionIsPast ==
  ASSUME NEW locks, NEW c, NEW seen, NEW tables, NEW id, MayCommit(locks, c, seen, tables, id)
  PROVE  VersionIsPast(Fingerprint(c), After(c, seen, tables, id))
<1> DEFINE new == After(c, seen, tables, id)
           f == Fingerprint(c)
<1>1. GroupsGrow(c, seen, tables, id, new) /\ ScreensGrow(c, tables, id, new)
  BY TablesOnlyGrow DEF Growth
<1>2. /\ Consistent(tables) /\ WellFormed(c)
      /\ VersionIsRead(c, tables) /\ GroupIsRead(c, seen, tables)
  BY DEF MayCommit, StillSo
<1> HIDE DEF new
<1>3. DOMAIN f = DOMAIN c \ {"key"} /\ \A x \in DOMAIN f : f[x] = c[x]
  BY FingerprintNames
<1> HIDE DEF f
<1>4. VersionIsPast(f, new)
  <2> SUFFICES ASSUME "version" \in DOMAIN f
               PROVE  VersionIsPast(f, new)
    BY DEF VersionIsPast
  <2>1. "version" \in DOMAIN c /\ f.version = c.version
    BY <1>3
  <2>2. c.version \in Nat
    BY <2>1, <1>2, WhoNamesAVersion
  <2>3. CASE c.kind = "group.rename" /\ "group" \in DOMAIN c /\ "screen" \notin DOMAIN c
    <3>1. "group" \in DOMAIN f /\ "screen" \notin DOMAIN f /\ f.group = c.group
      BY <1>3, <2>3
    <3>2. c.group \in DOMAIN tables.groups /\ tables.groups[c.group].version = c.version
      BY <1>2, <2>3 DEF GroupIsRead, WatchlistKinds
    <3>3. c.group \in DOMAIN new.groups /\ new.groups[c.group].version = c.version + 1
      BY <1>1, <2>3, <3>2 DEF GroupsGrow, GroupsChange, WatchlistKinds
    <3>4. c.version < new.groups[c.group].version
      BY <2>2, <3>3
    <3> QED
      BY <2>1, <2>2, <3>1, <3>3, <3>4 DEF VersionIsPast
  <2>4. CASE c.kind \in {"screen.rename", "screen.remove"} /\ "screen" \in DOMAIN c /\ "group" \notin DOMAIN c
    <3>1. "screen" \in DOMAIN f /\ "group" \notin DOMAIN f /\ f.screen = c.screen
      BY <1>3, <2>4
    <3>2. c.screen \in DOMAIN tables.screens /\ tables.screens[c.screen].version = c.version
      BY <1>2, <2>4 DEF VersionIsRead
    <3>3. c.screen \in DOMAIN new.screens /\ new.screens[c.screen].version = c.version + 1
      BY <1>1, <2>4, <3>2 DEF ScreensGrow, ScreensChange
    <3>4. c.version < new.screens[c.screen].version
      BY <2>2, <3>3
    <3> QED
      BY <2>1, <2>2, <3>1, <3>3, <3>4 DEF VersionIsPast
  <2>5. CASE IsUniverse(c) /\ "group" \notin DOMAIN c /\ "screen" \notin DOMAIN c
    <3>1. "group" \notin DOMAIN f /\ "screen" \notin DOMAIN f
      BY <1>3, <2>5
    <3>2. new.universe.version = c.version + 1
      BY <1>1, <2>5 DEF ScreensGrow
    <3>3. c.version < new.universe.version
      BY <2>2, <3>2
    <3> QED
      BY <2>1, <2>2, <3>1, <3>3 DEF VersionIsPast
  <2> QED
    BY <2>1, <2>3, <2>4, <2>5, <1>2, WhoNamesAVersion
<1> QED
  BY <1>4 DEF new, f

-----------------------------------------------------------------------------
(* A command begins, reads and commits.                                      *)

LEMMA LocksCover ==
  ASSUME NEW c, WellFormed(c), NEW tables, Consistent(tables),
         c.kind \in ThesisKinds => ~ThesisIsUnknown(c, tables)
  PROVE  Covers(Elements(IF c.kind \in ThesisKinds THEN ThesisLocks(c, tables)
                         ELSE IF c.kind \in WatchlistKinds THEN WatchlistLocks(c, tables)
                         ELSE DiscoveryLocks(c, tables)), c, tables)
<1> DEFINE n == IF c.kind \in ThesisKinds THEN ThesisLocks(c, tables)
                ELSE IF c.kind \in WatchlistKinds THEN WatchlistLocks(c, tables)
                ELSE DiscoveryLocks(c, tables)
<1>1. /\ \A t, u \in tables.theses : t.id = u.id => t = u
      /\ \A d, e \in tables.conditions : d.id = e.id => d = e
      /\ \A d \in tables.conditions : \E t \in tables.theses : t.id = d.thesis
  BY DEF Consistent
<1>2. CASE c.kind \in {"thesis.create", "conditions.create"}
  <2>1. n = <<<<"symbol", c.symbol>>>>
    BY <1>2 DEF ThesisKinds, ThesisLocks
  <2> HIDE DEF n
  <2>2. <<"symbol", c.symbol>> \in Elements(n)
    BY <2>1, Single
  <2> QED
    BY <1>2, <2>2, KindsAreApart DEF Covers, ThesisKinds, n
<1>3. CASE c.kind = "conditions.copy"
  <2>1. PICK t \in tables.theses : t.id = c.thesis
    BY <1>3 DEF ThesisIsUnknown, ThesisKinds
  <2>2. SymbolOf(tables.theses, c.thesis) = t.symbol
    BY <2>1, <1>1 DEF SymbolOf
  <2>3. n = <<<<"symbol", t.symbol>>>>
    BY <1>3, <2>2 DEF ThesisKinds, ThesisLocks
  <2> HIDE DEF n
  <2>4. <<"symbol", t.symbol>> \in Elements(n) /\ OfThesis(c, tables, t)
    BY <1>3, <2>1, <2>3, Single DEF OfThesis
  <2> QED
    BY <1>3, <2>1, <2>4, KindsAreApart DEF Covers, ThesisKinds, n
<1>4. CASE c.kind = "condition.delete"
  <2>1. PICK d \in tables.conditions : d.id = c.condition
    BY <1>4 DEF ThesisIsUnknown, ThesisKinds
  <2>2. PICK t \in tables.theses : t.id = d.thesis
    BY <1>1
  <2>3. ConditionOf(tables.conditions, c.condition) = d
    BY <2>1, <1>1 DEF ConditionOf
  <2>4. SymbolOf(tables.theses, d.thesis) = t.symbol
    BY <2>2, <1>1 DEF SymbolOf
  <2>5. n = <<<<"condition", c.condition>>, <<"symbol", t.symbol>>>>
    BY <1>4, <2>3, <2>4 DEF ThesisKinds, ThesisLocks
  <2> HIDE DEF n
  <2>6. <<"symbol", t.symbol>> \in Elements(n) /\ OfThesis(c, tables, t)
    BY <1>4, <2>1, <2>2, <2>5, Pair DEF OfThesis
  <2> QED
    BY <1>4, <2>2, <2>6, KindsAreApart DEF Covers, ThesisKinds, n
<1>5. CASE c.kind \in WatchlistKinds
  <2>1. n = IF c.kind \in {"group.create", "group.move"} THEN <<<<"groups">>>> ELSE <<<<"group", c.group>>>>
    BY <1>5, KindsAreApart DEF WatchlistLocks
  <2> HIDE DEF n
  <2>2. /\ c.kind \in {"group.create", "group.move"} => <<"groups">> \in Elements(n)
        /\ c.kind \notin {"group.create", "group.move"} => <<"group", c.group>> \in Elements(n)
    BY <2>1, Single
  <2>3. c.kind \notin {"thesis.create", "conditions.create", "conditions.copy", "condition.delete",
                       "screen.rename", "screen.remove"} /\ ~IsUniverse(c)
    BY <1>5, KindsAreApart DEF WatchlistKinds
  <2> QED
    BY <2>2, <2>3 DEF Covers, n
<1>6. CASE c.kind \in DiscoveryKinds
  <2>1. n = DiscoveryLocks(c, tables)
    BY <1>6, KindsAreApart
  <2> HIDE DEF n
  <2>2. /\ IsUniverse(c) => <<"universe">> \in Elements(n)
        /\ c.kind \in {"screen.rename", "screen.remove"} => <<"screen", c.screen>> \in Elements(n)
    <3>1. CASE IsUniverse(c)
      <4>1. c.kind \notin {"screen.rename", "screen.remove"} /\ n = <<<<"universe">>>>
        BY <2>1, <3>1 DEF DiscoveryLocks, IsUniverse
      <4> QED
        BY <4>1, Single
    <3>2. CASE ~IsUniverse(c) /\ c.kind \in {"screen.rename", "screen.remove"}
      <4>1. n = <<<<"screen", c.screen>>>>
        BY <2>1, <3>2 DEF DiscoveryLocks
      <4> QED
        BY <4>1, <3>2, Single
    <3> QED
      BY <3>1, <3>2
  <2>3. c.kind \notin {"thesis.create", "conditions.create", "conditions.copy", "condition.delete",
                       "group.create", "group.move"} /\ c.kind \notin WatchlistKinds
    BY <1>6, KindsAreApart DEF DiscoveryKinds
  <2> QED
    BY <2>2, <2>3 DEF Covers, n
<1> QED
  BY <1>2, <1>3, <1>4, <1>5, <1>6, KindsAreApart DEF ThesisKinds

\* Who has read with its locks, and was not refused, knows what is so.
LEMMA WhatIsReadIsSo ==
  ASSUME NEW c, WellFormed(c), NEW tables, Consistent(tables), NEW locks, Covers(locks, c, tables),
         c.kind \in ThesisKinds => ~ThesisRefuses(c, tables),
         c.kind \in WatchlistKinds => ~WatchlistRefuses(c, tables),
         c.kind \in DiscoveryKinds => ~DiscoveryRefuses(c, tables)
  PROVE  StillSo(locks, c, tables, tables)
<1>1. LatestIsRead(c, tables, tables)
  BY DEF LatestIsRead
<1>2. ThesisIsNewest(locks, c, tables)
  <2> SUFFICES ASSUME c.kind \in ThesisKinds \ {"thesis.create"}
               PROVE  \E t \in tables.theses :
                        /\ OfThesis(c, tables, t) /\ <<"symbol", t.symbol>> \in locks
                        /\ t.version = LatestVersion(tables.theses, t.symbol)
    <3>1. \A t \in tables.theses : \A u \in tables.theses :
            u.symbol = t.symbol => u.version <= LatestVersion(tables.theses, t.symbol)
      BY LatestIsLatest DEF Consistent
    <3> HIDE DEF LatestVersion
    <3> QED
      BY <3>1 DEF ThesisIsNewest
  <2>1. \A t, u \in tables.theses : t.id = u.id => t = u
    BY DEF Consistent
  <2>2. CASE c.kind = "conditions.create"
    <3>1. PICK t \in tables.theses : t.id = c.thesis /\ t.symbol = c.symbol
                                     /\ t.version = LatestVersion(tables.theses, c.symbol)
      BY <2>2 DEF ThesisRefuses, IsCurrent
    <3> QED
      BY <2>2, <3>1 DEF Covers, OfThesis
  <2>3. CASE c.kind = "conditions.copy"
    <3> DEFINE symbol == SymbolOf(tables.theses, c.thesis)
    <3>1. PICK t \in tables.theses : t.id = c.thesis /\ t.symbol = symbol
                                     /\ t.version = LatestVersion(tables.theses, symbol)
      BY <2>3 DEF ThesisRefuses, IsCurrent
    <3>2. PICK u \in tables.theses : OfThesis(c, tables, u) /\ <<"symbol", u.symbol>> \in locks
      BY <2>3 DEF Covers
    <3>3. u = t
      BY <2>1, <2>3, <3>1, <3>2 DEF OfThesis
    <3> QED
      BY <3>1, <3>2, <3>3
  <2>4. CASE c.kind = "condition.delete"
    <3>1. PICK u \in tables.theses : OfThesis(c, tables, u) /\ <<"symbol", u.symbol>> \in locks
      BY <2>4 DEF Covers
    <3>2. PICK d \in tables.conditions : d.id = c.condition /\ d.thesis = u.id
      BY <2>4, <3>1 DEF OfThesis
    <3>3. ConditionOf(tables.conditions, c.condition) = d
      BY <3>2 DEF ConditionOf, Consistent
    <3> DEFINE symbol == SymbolOf(tables.theses, d.thesis)
    <3>4. PICK t \in tables.theses : t.id = d.thesis /\ t.symbol = symbol
                                     /\ t.version = LatestVersion(tables.theses, symbol)
      BY <2>4, <3>3 DEF ThesisRefuses, IsCurrent
    <3>5. u = t
      BY <2>1, <3>2, <3>4
    <3> QED
      BY <3>1, <3>4, <3>5
  <2> QED
    BY <2>2, <2>3, <2>4 DEF ThesisKinds
<1>3. PlacesAreRead(c, tables, tables)
  BY DEF PlacesAreRead, Live, Consistent, GroupIsWhole
<1>4. GroupIsRead(c, tables, tables)
  BY DEF GroupIsRead, WatchlistRefuses
<1>5. VersionIsRead(c, tables)
  BY DEF VersionIsRead, DiscoveryRefuses, IsUniverse, DiscoveryKinds
<1> QED
  BY <1>1, <1>2, <1>3, <1>4, <1>5 DEF StillSo

\* A version that is new is that of no other thesis.
LEMMA NewVersionsAreNew ==
  ASSUME NEW c, NEW seen, NEW tables, NEW id, Consistent(seen), Consistent(tables),
         LatestIsRead(c, seen, tables), c.kind = "thesis.create"
  PROVE  ~ThesisViolates(c, seen, tables, id)
<1> DEFINE latest == LatestVersion(seen.theses, c.symbol)
<1>1. /\ latest \in Nat
      /\ \A t \in seen.theses : t.symbol = c.symbol => t.version <= latest
  BY LatestIsLatest DEF Consistent
<1>2. NewVersion(c, seen, id).version = latest + 1
  BY DEF NewVersion
<1> HIDE DEF latest
<1>3. \A t \in tables.theses : t.symbol = c.symbol => t.version \in Nat /\ t.version <= latest
  BY <1>1 DEF LatestIsRead, Consistent
<1>4. \A t \in tables.theses : t.symbol = c.symbol => t.version # latest + 1
  BY <1>1, <1>3
<1> QED
  BY <1>2, <1>4 DEF ThesisViolates

\* Neither are the ids that the server makes; the ids that a client makes are, when it has
\* not been done before.
LEMMA ViolationIsOfRepetition ==
  ASSUME NEW c, NEW cs, c \in cs, NEW seen, NEW tables, NEW es, Len(es) \in Nat,
         WellFormed(c), c.kind \in ThesisKinds,
         Consistent(seen), Consistent(tables), IdsOK(tables, es, cs), LatestIsRead(c, seen, tables),
         ThesisViolates(c, seen, tables, 10 + Len(es))
  PROVE  c.kind = "conditions.create" /\ \E i \in DOMAIN es : es[i].key = c.key
<1> DEFINE id == 10 + Len(es)
<1>1. c.kind # "thesis.create"
  BY NewVersionsAreNew
<1>2. c.kind # "condition.delete"
  BY DEF ThesisViolates
<1>3. PICK d \in tables.conditions, e \in NewConditions(c, seen, id) : d.id = e.id
  BY <1>1, <1>2 DEF ThesisViolates, ThesisKinds
<1>4. c.kind # "conditions.copy"
  <2> SUFFICES ASSUME c.kind = "conditions.copy"
               PROVE  FALSE
    OBVIOUS
  <2> HIDE DEF id
  <2>1. PICK x : e.id = <<id, x>>
    <3>1. PICK f \in Listed(seen.conditions, c.source) :
            e = [id |-> <<id, f.id>>, thesis |-> c.thesis, deleted |-> FALSE]
      BY <1>3 DEF NewConditions
    <3> QED
      BY <3>1
  <2>2. d.id = <<id, x>>
    BY <1>3, <2>1
  <2>3. Len(d.id) = 2 /\ d.id[1] = id
    BY <2>2
  <2>4. id \in 10..(9 + Len(es))
    BY <2>3 DEF IdsOK
  <2> QED
    BY <2>4 DEF id
<1>5. c.kind = "conditions.create"
  BY <1>1, <1>2, <1>4 DEF ThesisKinds
<1>6. d.id \in c.conditions
  <2>1. PICK x \in c.conditions : e = [id |-> x, thesis |-> c.thesis, deleted |-> FALSE]
    BY <1>3, <1>5 DEF NewConditions
  <2> QED
    BY <1>3, <2>1
<1> QED
  BY <1>5, <1>6 DEF IdsOK

\* The conditions of a thesis that is superseded are not those that a command changes.
LEMMA ConditionsAreOfTheNewest ==
  ASSUME NEW locks, NEW c, NEW seen, NEW tables, NEW id, MayCommit(locks, c, seen, tables, id),
         NEW t \in tables.theses, NEW u \in tables.theses, u.symbol = t.symbol, u.version > t.version
  PROVE  {d \in After(c, seen, tables, id).conditions : d.thesis = t.id}
           = {d \in tables.conditions : d.thesis = t.id}
<1> DEFINE new == After(c, seen, tables, id)
<1>1. /\ DOMAIN tables = Parts
      /\ \A v, w \in tables.theses : v.id = w.id => v = w
      /\ \A v \in tables.theses : v.version \in Nat
      /\ \A d, e \in tables.conditions : d.id = e.id => d = e
      /\ \A d \in tables.conditions : DOMAIN d = {"id", "thesis", "deleted"}
  BY DEF MayCommit, Consistent, Parts
<1>2. CASE c.kind \in {"conditions.create", "conditions.copy", "condition.delete"}
  <2>1. PICK v \in tables.theses :
          /\ OfThesis(c, tables, v)
          /\ \A w \in tables.theses : w.symbol = v.symbol => w.version <= v.version
    BY <1>2 DEF MayCommit, StillSo, ThesisIsNewest, ThesisKinds
  <2>2. v.id # t.id
    <3> SUFFICES ASSUME v.id = t.id PROVE FALSE
      OBVIOUS
    <3>1. v = t
      BY <1>1
    <3>2. u.version <= t.version
      BY <2>1, <3>1
    <3> QED
      BY <1>1, <3>2
  <2>3. new = ThesisAfter(c, seen, tables, id) /\ c.kind \in ThesisKinds
    BY <1>2 DEF After, ThesisKinds
  <2>4. /\ c.kind = "condition.delete" =>
             new.conditions = {IF d.id = c.condition THEN [d EXCEPT !.deleted = TRUE] ELSE d : d \in tables.conditions}
        /\ c.kind # "condition.delete" =>
             new.conditions = tables.conditions \union NewConditions(c, seen, id)
    BY <1>1, <1>2, <2>3, ThesisChange
  <2> HIDE DEF new
  <2>5. CASE c.kind = "condition.delete"
    <3> DEFINE changed(d) == IF d.id = c.condition THEN [d EXCEPT !.deleted = TRUE] ELSE d
    <3>1. PICK f \in tables.conditions : f.id = c.condition /\ f.thesis = v.id
      BY <2>1, <2>5 DEF OfThesis
    <3>2. \A d \in tables.conditions : d.thesis = t.id => changed(d) = d
      BY <3>1, <2>2, <1>1
    <3>3. \A d \in tables.conditions : changed(d).thesis = d.thesis
      BY <1>1
    <3>4. new.conditions = {changed(d) : d \in tables.conditions}
      BY <2>4, <2>5
    <3> HIDE DEF changed
    <3>5. {d \in new.conditions : d.thesis = t.id} = {d \in tables.conditions : d.thesis = t.id}
      BY <3>2, <3>3, <3>4
    <3> QED
      BY <3>5 DEF new
  <2>6. CASE c.kind # "condition.delete"
    <3>1. \A d \in NewConditions(c, seen, id) : d.thesis = c.thesis
      BY DEF NewConditions
    <3>2. c.thesis # t.id
      BY <2>1, <2>2, <2>6 DEF OfThesis
    <3> DEFINE added == NewConditions(c, seen, id)
    <3> HIDE DEF added
    <3>3. new.conditions = tables.conditions \union added
      BY <2>4, <2>6 DEF added
    <3>4. \A d \in added : d.thesis # t.id
      BY <3>1, <3>2 DEF added
    <3>5. {d \in new.conditions : d.thesis = t.id} = {d \in tables.conditions : d.thesis = t.id}
      BY <3>3, <3>4
    <3> QED
      BY <3>5 DEF new
  <2> QED
    BY <2>5, <2>6
<1>3. CASE c.kind \notin {"conditions.create", "conditions.copy", "condition.delete"}
  <2>1. new.conditions = tables.conditions
    <3>1. CASE c.kind \in ThesisKinds
      <4>1. new = ThesisAfter(c, seen, tables, id) /\ c.kind = "thesis.create"
        BY <1>3, <3>1 DEF After, ThesisKinds
      <4> HIDE DEF new
      <4> QED
        BY <1>1, <3>1, <4>1, ThesisChange
    <3>2. CASE c.kind \in WatchlistKinds
      <4>1. new = WatchlistAfter(c, seen, tables, id)
        BY <3>2, KindsAreApart DEF After, MayCommit
      <4> HIDE DEF new
      <4> QED
        BY <1>1, <3>2, <4>1, WatchlistChange
    <3>3. CASE c.kind \in DiscoveryKinds
      <4>1. new = DiscoveryAfter(c, seen, tables, id)
        BY <3>3, KindsAreApart DEF After, MayCommit
      <4> HIDE DEF new
      <4>2. DiscoveryChanges(c, tables, id, new)
        BY <1>1, <3>3, <4>1, DiscoveryChange
      <4> QED
        BY <4>2 DEF DiscoveryChanges
    <3> QED
      BY <3>1, <3>2, <3>3, KindsAreApart DEF MayCommit
  <2> HIDE DEF new
  <2>2. {d \in new.conditions : d.thesis = t.id} = {d \in tables.conditions : d.thesis = t.id}
    BY <2>1
  <2> QED
    BY <2>2 DEF new
<1> QED
  BY <1>2, <1>3

\* Where the ids of conditions come from.
LEMMA WhereIdsComeFrom ==
  ASSUME NEW locks, NEW c, NEW seen, NEW tables, NEW id, MayCommit(locks, c, seen, tables, id),
         NEW e \in After(c, seen, tables, id).conditions
  PROVE  \/ \E d \in tables.conditions : d.id = e.id
         \/ c.kind = "conditions.create" /\ e.id \in c.conditions
         \/ c.kind = "conditions.copy" /\ \E x : e.id = <<id, x>>
<1> DEFINE new == After(c, seen, tables, id)
<1>1. DOMAIN tables = Parts /\ \A d \in tables.conditions : DOMAIN d = {"id", "thesis", "deleted"}
  BY DEF MayCommit, Consistent, Parts
<1>2. CASE c.kind = "condition.delete"
  <2>1. new = ThesisAfter(c, seen, tables, id)
    BY <1>2 DEF After, ThesisKinds
  <2>2. e \in {IF d.id = c.condition THEN [d EXCEPT !.deleted = TRUE] ELSE d : d \in tables.conditions}
    BY <1>1, <1>2, <2>1, ThesisChange DEF ThesisKinds
  <2>3. PICK d \in tables.conditions : e = IF d.id = c.condition THEN [d EXCEPT !.deleted = TRUE] ELSE d
    BY <2>2
  <2>4. e.id = d.id
    BY <1>1, <2>3
  <2> QED
    BY <2>4
<1>3. CASE c.kind \in {"conditions.create", "conditions.copy"}
  <2>1. new = ThesisAfter(c, seen, tables, id)
    BY <1>3 DEF After, ThesisKinds
  <2>2. e \in tables.conditions \/ e \in NewConditions(c, seen, id)
    BY <1>1, <1>3, <2>1, ThesisChange DEF ThesisKinds
  <2>3. ASSUME e \in NewConditions(c, seen, id), c.kind = "conditions.create"
        PROVE  e.id \in c.conditions
    <3>1. PICK x \in c.conditions : e = [id |-> x, thesis |-> c.thesis, deleted |-> FALSE]
      BY <2>3 DEF NewConditions
    <3> QED
      BY <3>1
  <2>4. ASSUME e \in NewConditions(c, seen, id), c.kind = "conditions.copy"
        PROVE  \E x : e.id = <<id, x>>
    <3>1. PICK f \in Listed(seen.conditions, c.source) :
            e = [id |-> <<id, f.id>>, thesis |-> c.thesis, deleted |-> FALSE]
      BY <2>4 DEF NewConditions
    <3> QED
      BY <3>1
  <2> QED
    BY <1>3, <2>2, <2>3, <2>4
<1>4. CASE c.kind \notin {"conditions.create", "conditions.copy", "condition.delete"}
  <2>1. e \in tables.conditions
    <3>1. CASE c.kind \in ThesisKinds
      <4>1. new = ThesisAfter(c, seen, tables, id) /\ c.kind = "thesis.create"
        BY <1>4, <3>1 DEF After, ThesisKinds
      <4> QED
        BY <1>1, <3>1, <4>1, ThesisChange
    <3>2. CASE c.kind \in WatchlistKinds
      <4>1. new = WatchlistAfter(c, seen, tables, id)
        BY <3>2, KindsAreApart DEF After, MayCommit
      <4> QED
        BY <1>1, <3>2, <4>1, WatchlistChange
    <3>3. CASE c.kind \in DiscoveryKinds
      <4>1. new = DiscoveryAfter(c, seen, tables, id)
        BY <3>3, KindsAreApart DEF After, MayCommit
      <4>2. DiscoveryChanges(c, tables, id, new)
        BY <1>1, <3>3, <4>1, DiscoveryChange
      <4>3. new.conditions = tables.conditions
        BY <4>2 DEF DiscoveryChanges
      <4> QED
        BY <4>3
    <3> QED
      BY <3>1, <3>2, <3>3, KindsAreApart DEF MayCommit
  <2> QED
    BY <2>1
<1> QED
  BY <1>2, <1>3, <1>4

LEMMA IdsStayNew ==
  ASSUME NEW locks, NEW c, NEW seen, NEW tables, NEW es, es \in Seq(Elements(es)),
         MayCommit(locks, c, seen, tables, 10 + Len(es)), NEW event, event.key = c.key,
         CommandsOK, c \in commands, IdsOK(tables, es, commands)
  PROVE  IdsOK(After(c, seen, tables, 10 + Len(es)), Append(es, event), commands)
<1> DEFINE n == Len(es)
           id == 10 + n
           new == After(c, seen, tables, id)
           more == Append(es, event)
<1>1. /\ n \in Nat /\ DOMAIN es = 1..n /\ Len(more) = n + 1 /\ DOMAIN more = 1..(n + 1)
      /\ \A i \in DOMAIN es : more[i] = es[i]
      /\ more[n + 1] = event
  <2> HIDE DEF more
  <2> QED
    BY Appended DEF more
<1>2. ThesesGrow(c, seen, tables, id, new)
  BY TablesOnlyGrow DEF Growth
<1>3. \A e \in new.conditions :
        \/ \E d \in tables.conditions : d.id = e.id
        \/ c.kind = "conditions.create" /\ e.id \in c.conditions
        \/ c.kind = "conditions.copy" /\ \E x : e.id = <<id, x>>
  BY WhereIdsComeFrom
<1>4. WellFormed(c) /\ Consistent(tables)
  BY DEF MayCommit
<1> HIDE DEF new, more, n
<1>5. \A t \in new.theses : t.id < 10 + Len(more)
  <2> TAKE t \in new.theses
  <2>1. CASE t \in tables.theses
    <3>1. t.id \in Nat /\ t.id < 10 + n
      BY <2>1, <1>4 DEF IdsOK, Consistent, n
    <3> QED
      BY <3>1, <1>1
  <2>2. CASE t \notin tables.theses
    <3>1. t = NewVersion(c, seen, id)
      BY <2>2, <1>2 DEF ThesesGrow
    <3>2. t.id = 10 + n
      BY <3>1 DEF NewVersion
    <3> QED
      BY <3>2, <1>1
  <2> QED
    BY <2>1, <2>2
<1>6. \A e \in new.conditions : Len(e.id) = 1 \/ (Len(e.id) = 2 /\ e.id[1] \in 10..(9 + Len(more)))
  <2> TAKE e \in new.conditions
  <2>1. CASE \E d \in tables.conditions : d.id = e.id
    <3>1. Len(e.id) = 1 \/ (Len(e.id) = 2 /\ e.id[1] \in 10..(9 + n))
      BY <2>1 DEF IdsOK, n
    <3> QED
      BY <3>1, <1>1
  <2>2. CASE c.kind = "conditions.create" /\ e.id \in c.conditions
    <3>1. "conditions" \in DOMAIN c
      BY <2>2, <1>4 DEF WellFormed, Fields
    <3> QED
      BY <2>2, <3>1, <1>4 DEF WellFormed
  <2>3. CASE \E x : e.id = <<id, x>>
    <3>1. PICK x : e.id = <<id, x>>
      BY <2>3
    <3>2. Len(e.id) = 2 /\ e.id[1] = id
      BY <3>1
    <3> QED
      BY <3>2, <1>1
  <2> QED
    BY <1>3, <2>1, <2>2, <2>3
<1>7. \A e \in new.conditions, d \in commands :
        (d.kind = "conditions.create" /\ e.id \in d.conditions) => \E i \in DOMAIN more : more[i].key = d.key
  <2> SUFFICES ASSUME NEW e \in new.conditions, NEW d \in commands,
                      d.kind = "conditions.create", e.id \in d.conditions
               PROVE  \E i \in DOMAIN more : more[i].key = d.key
    OBVIOUS
  <2>1. CASE \E f \in tables.conditions : f.id = e.id
    <3>1. PICK i \in DOMAIN es : es[i].key = d.key
      BY <2>1 DEF IdsOK
    <3>2. i \in DOMAIN more /\ more[i] = es[i]
      BY <1>1
    <3> QED
      BY <3>1, <3>2
  <2>2. CASE c.kind = "conditions.create" /\ e.id \in c.conditions
    <3>1. d.key = c.key
      BY <2>2 DEF CommandsOK
    <3>2. n + 1 \in DOMAIN more /\ more[n + 1].key = d.key
      BY <3>1, <1>1
    <3> QED
      BY <3>2
  <2>3. CASE \E x : e.id = <<id, x>>
    <3>1. Len(e.id) # 1
      BY <2>3
    <3>2. Len(e.id) = 1
      BY DEF CommandsOK, WellFormed, Fields
    <3> QED
      BY <3>1, <3>2
  <2> QED
    BY <1>3, <2>1, <2>2, <2>3
<1>8. IdsOK(new, more, commands)
  BY <1>5, <1>6, <1>7 DEF IdsOK
<1> QED
  BY <1>8 DEF new, more, n

LEMMA PlacesStayDistinctAfter ==
  ASSUME NEW locks, NEW c, NEW seen, NEW tables, NEW id, MayCommit(locks, c, seen, tables, id),
         PlacesAreDistinct(tables.groups)
  PROVE  PlacesAreDistinct(After(c, seen, tables, id).groups)
<1>1. CASE c.kind \in WatchlistKinds
  <2>1. After(c, seen, tables, id) = WatchlistAfter(c, seen, tables, id)
    BY <1>1, KindsAreApart DEF After, MayCommit
  <2> QED
    BY <1>1, <2>1, PlacesStayDistinct DEF MayCommit, StillSo
<1>2. CASE c.kind \notin WatchlistKinds
  <2>1. After(c, seen, tables, id).groups = tables.groups
    BY <1>2, TablesOnlyGrow DEF Growth, GroupsGrow
  <2> QED
    BY <2>1
<1> QED
  BY <1>1, <1>2

\* A change is based on another version than those before it.
LEMMA VersionIsNew ==
  ASSUME NEW locks, NEW c, NEW seen, NEW tables, NEW id, MayCommit(locks, c, seen, tables, id),
         "version" \in DOMAIN Fingerprint(c),
         NEW f, VersionIsPast(f, tables), "version" \in DOMAIN f
  PROVE  BasedOn(f) # BasedOn(Fingerprint(c))
<1> DEFINE g == Fingerprint(c)
           fields == {"group", "screen", "version"}
<1>1. /\ Consistent(tables) /\ WellFormed(c)
      /\ VersionIsRead(c, tables) /\ GroupIsRead(c, seen, tables)
  BY DEF MayCommit, StillSo
<1>2. DOMAIN g = DOMAIN c \ {"key"} /\ \A x \in DOMAIN g : g[x] = c[x]
  BY FingerprintNames
<1> HIDE DEF g
<1>3. /\ DOMAIN BasedOn(f) = DOMAIN f \intersect fields
      /\ DOMAIN BasedOn(g) = DOMAIN g \intersect fields
      /\ \A x \in DOMAIN f \intersect fields : BasedOn(f)[x] = f[x]
      /\ \A x \in DOMAIN g \intersect fields : BasedOn(g)[x] = g[x]
  BY DEF BasedOn
<1> SUFFICES ASSUME BasedOn(f) = BasedOn(g)
             PROVE  FALSE
  BY DEF g
<1>4. /\ \A x \in fields : x \in DOMAIN f <=> x \in DOMAIN g
      /\ \A x \in fields : x \in DOMAIN f => f[x] = g[x]
  BY <1>3
<1>5. "version" \in DOMAIN g /\ "version" \in DOMAIN c /\ f.version = c.version /\ f.version \in Nat
  BY <1>2, <1>4 DEF VersionIsPast, g
<1>6. CASE c.kind = "group.rename" /\ "group" \in DOMAIN c /\ "screen" \notin DOMAIN c
  <2>1. "group" \in DOMAIN f /\ f.group = c.group
    BY <1>2, <1>4, <1>6
  <2>2. c.group \in DOMAIN tables.groups /\ tables.groups[c.group].version = c.version
    BY <1>1, <1>6 DEF GroupIsRead, WatchlistKinds
  <2>3. f.version < c.version
    BY <2>1, <2>2 DEF VersionIsPast
  <2> QED
    BY <1>5, <2>3
<1>7. CASE c.kind \in {"screen.rename", "screen.remove"} /\ "screen" \in DOMAIN c /\ "group" \notin DOMAIN c
  <2>1. "screen" \in DOMAIN f /\ f.screen = c.screen
    BY <1>2, <1>4, <1>7
  <2>2. c.screen \in DOMAIN tables.screens /\ tables.screens[c.screen].version = c.version
    BY <1>1, <1>7 DEF VersionIsRead
  <2>3. f.version < c.version
    BY <2>1, <2>2 DEF VersionIsPast
  <2> QED
    BY <1>5, <2>3
<1>8. CASE IsUniverse(c) /\ "group" \notin DOMAIN c /\ "screen" \notin DOMAIN c
  <2>1. "group" \notin DOMAIN f /\ "screen" \notin DOMAIN f
    BY <1>2, <1>4, <1>8
  <2>2. tables.universe.version = c.version
    BY <1>1, <1>8 DEF VersionIsRead
  <2>3. f.version < c.version
    BY <2>1, <2>2 DEF VersionIsPast
  <2> QED
    BY <1>5, <2>3
<1> QED
  BY <1>1, <1>5, <1>6, <1>7, <1>8, WhoNamesAVersion

-----------------------------------------------------------------------------
(* The steps.                                                                *)

\* What an action that writes only to its own transaction keeps.
LEMMA OneReads ==
  ASSUME TransactionInvariant, DataInvariant, NEW s \in Slots, NEW q, slots' = [slots EXCEPT ![s] = q],
         UNCHANGED <<commands, db, events>>, ReadOK(q, db)
  PROVE  DataInvariant'
<1>1. slots' = [t \in Slots |-> IF t = s THEN q ELSE slots[t]]
  BY DEF TransactionInvariant
<1>2. \A t \in Slots : ReadOK(slots'[t], db')
  BY <1>1 DEF DataInvariant
<1> QED
  BY <1>2 DEF DataInvariant

LEMMA IdleReadsNothing ==
  ASSUME NEW tables
  PROVE  ReadOK(Idle, tables)
BY DEF ReadOK, Idle

LEMMA UnchangedAnswers ==
  ASSUME AnswerInvariant, UNCHANGED <<commands, db, records, events, answers>>
  PROVE  AnswerInvariant'
<1>1. Keys' = Keys
  BY DEF Keys
<1>2. \A k \in Keys : WasTold(k)'
  BY DEF AnswerInvariant, WasTold
<1> QED
  BY <1>1, <1>2 DEF AnswerInvariant, RefusalsAreOrderly, NoLostUpdate

LEMMA CoversMore ==
  ASSUME NEW few, NEW many, few \subseteq many, NEW c, NEW tables, Covers(few, c, tables)
  PROVE  Covers(many, c, tables)
BY DEF Covers

LEMMA StillSoMore ==
  ASSUME NEW few, NEW many, few \subseteq many, NEW c, NEW seen, NEW tables, StillSo(few, c, seen, tables)
  PROVE  StillSo(many, c, seen, tables)
<1>1. ThesisIsNewest(many, c, tables)
  BY DEF StillSo, ThesisIsNewest
<1> QED
  BY <1>1 DEF StillSo

LEMMA ReceiveKeepsData ==
  ASSUME TransactionInvariant, DataInvariant, NEW s \in Slots, NEW c \in commands, Receive(s, c)
  PROVE  DataInvariant'
<1> DEFINE q == [Idle EXCEPT !.stage = "check", !.command = c, !.need = <<<<"key", c.key>>>>]
<1>1. slots' = [slots EXCEPT ![s] = q] /\ UNCHANGED <<commands, db, events>>
  BY DEF Receive
<1>2. q.stage = "check"
  BY DEF Idle
<1> HIDE DEF q
<1>3. ReadOK(q, db)
  BY <1>2 DEF ReadOK
<1> QED
  BY <1>1, <1>3, OneReads

LEMMA TakeLockKeepsData ==
  ASSUME TransactionInvariant, DataInvariant, NEW s \in Slots, TakeLock(s)
  PROVE  DataInvariant'
<1> DEFINE p == slots[s]
           q == [p EXCEPT !.held = @ \union {Head(p.need)}, !.need = Tail(@)]
<1>1. slots' = [slots EXCEPT ![s] = q] /\ UNCHANGED <<commands, db, events>>
  BY DEF TakeLock, TransactionInvariant
<1>2. SlotOK(p, commands, records) /\ p.need # <<>>
  BY DEF TransactionInvariant, TakeLock
<1>3. /\ q.stage = p.stage /\ q.command = p.command /\ q.held = p.held \union {Head(p.need)}
      /\ q.need = Tail(p.need) /\ q.seen = p.seen
  BY <1>2 DEF SlotOK
<1> HIDE DEF q
<1>4. Claims(q) = Claims(p)
  BY <1>2, <1>3, FirstAndOthers DEF Claims, SlotOK
<1>5. p.held \subseteq q.held
  BY <1>3
<1>6. ReadOK(p, db)
  BY DEF DataInvariant
<1>7. ReadOK(q, db)
  <2>1. q.stage = "read" => Covers(Claims(q), q.command, db)
    BY <1>3, <1>4, <1>6 DEF ReadOK
  <2>2. q.stage = "write" =>
          /\ Consistent(q.seen)
          /\ Covers(q.held, q.command, db) /\ StillSo(q.held, q.command, q.seen, db)
          /\ q.command.kind = "group.move" =>
               Elements(RowsToWrite(q.command, q.seen)) \subseteq Claims(q)
    <3> HAVE q.stage = "write"
    <3>1. /\ Consistent(p.seen)
          /\ Covers(p.held, p.command, db) /\ StillSo(p.held, p.command, p.seen, db)
          /\ p.command.kind = "group.move" =>
               Elements(RowsToWrite(p.command, p.seen)) \subseteq Claims(p)
      BY <1>3, <1>6 DEF ReadOK
    <3> HIDE DEF p
    <3>2. Covers(q.held, p.command, db) /\ StillSo(q.held, p.command, p.seen, db)
      BY <1>5, <3>1, CoversMore, StillSoMore
    <3> QED
      BY <1>3, <1>4, <3>1, <3>2
  <2> QED
    BY <2>1, <2>2 DEF ReadOK
<1> QED
  BY <1>1, <1>7, OneReads

LEMMA BeginKeepsData ==
  ASSUME TransactionInvariant, CommandsOK, DataInvariant, NEW s \in Slots, Begin(s)
  PROVE  DataInvariant'
<1> DEFINE p == slots[s]
           c == p.command
           n == Locks(c)
           q == [p EXCEPT !.stage = "read", !.need = n]
<1>1. slots' = [slots EXCEPT ![s] = q] /\ UNCHANGED <<commands, db, events>>
  BY DEF Begin, TransactionInvariant
<1>2. SlotOK(p, commands, records) /\ c \in commands
  BY ReadyHoldsKey DEF TransactionInvariant, Begin
<1>3. q.stage = "read" /\ q.command = c /\ q.need = n
  BY <1>2 DEF SlotOK
<1>4. Covers(Elements(n), c, db)
  <2>1. WellFormed(c) /\ Consistent(db) /\ (c.kind \in ThesisKinds => ~ThesisIsUnknown(c, db))
    BY <1>2 DEF CommandsOK, DataInvariant, Begin, IsUnknown
  <2> HIDE DEF c
  <2> QED
    BY <2>1, LocksCover DEF Locks
<1> HIDE DEF q, n, c
<1>5. Covers(Claims(q), q.command, db)
  <2>1. Elements(n) \subseteq Claims(q)
    BY <1>3 DEF Claims
  <2> QED
    BY <2>1, <1>3, <1>4, CoversMore
<1>6. ReadOK(q, db)
  BY <1>3, <1>5 DEF ReadOK
<1> QED
  BY <1>1, <1>6, OneReads

LEMMA ReadKeepsData ==
  ASSUME TransactionInvariant, CommandsOK, DataInvariant, NEW s \in Slots, Read(s)
  PROVE  DataInvariant'
<1> DEFINE p == slots[s]
           c == p.command
           n == IF c.kind \in WatchlistKinds THEN RowsToWrite(c, db) ELSE <<>>
           q == [p EXCEPT !.stage = "write", !.seen = db, !.need = n]
<1>1. slots' = [slots EXCEPT ![s] = q] /\ UNCHANGED <<commands, db, events>>
  BY DEF Read, TransactionInvariant
<1>2. SlotOK(p, commands, records) /\ c \in commands /\ p.stage = "read" /\ p.need = <<>>
  BY ReadyHoldsKey DEF TransactionInvariant, Read, Ready
<1>3. q.stage = "write" /\ q.command = c /\ q.held = p.held /\ q.need = n /\ q.seen = db
  BY <1>2 DEF SlotOK
<1>4. WellFormed(c) /\ Consistent(db)
  BY <1>2 DEF CommandsOK, DataInvariant
<1>5. Covers(p.held, c, db)
  <2>1. Claims(p) = p.held
    BY <1>2, NoLocks DEF Claims
  <2>2. ReadOK(p, db)
    BY DEF DataInvariant
  <2> QED
    BY <1>2, <2>1, <2>2 DEF ReadOK
<1>6. StillSo(p.held, c, db, db)
  <2>1. ~Refuses(c)
    BY DEF Read
  <2> HIDE DEF c, p
  <2>2. /\ c.kind \in ThesisKinds => ~ThesisRefuses(c, db)
        /\ c.kind \in WatchlistKinds => ~WatchlistRefuses(c, db)
        /\ c.kind \in DiscoveryKinds => ~DiscoveryRefuses(c, db)
    BY <2>1, <1>4, KindsAreApart DEF Refuses
  <2> QED
    BY <2>2, <1>4, <1>5, WhatIsReadIsSo
<1> HIDE DEF q, n, c, p
<1>7. c.kind = "group.move" => Elements(RowsToWrite(c, db)) \subseteq Claims(q)
  BY <1>3 DEF n, Claims, WatchlistKinds
<1>8. ReadOK(q, db)
  BY <1>3, <1>4, <1>5, <1>6, <1>7 DEF ReadOK
<1> QED
  BY <1>1, <1>8, OneReads

\* A transaction that is ready to write may commit, unless the schema forbids it.
LEMMA ReadyMayCommit ==
  ASSUME TransactionInvariant, RecordInvariant, CommandsOK, DataInvariant, NEW s \in Slots, Ready(s, "write"),
         ~Violates(slots[s].command, slots[s].seen, NewId)
  PROVE  MayCommit(slots[s].held, slots[s].command, slots[s].seen, db, NewId)
<1> DEFINE p == slots[s]
           c == p.command
<1>1. c \in commands /\ p.stage = "write" /\ p.need = <<>>
  BY ReadyHoldsKey DEF Ready
<1>2. Claims(p) = p.held
  BY <1>1, NoLocks DEF Claims
<1>3. /\ Consistent(p.seen)
      /\ Covers(p.held, c, db) /\ StillSo(p.held, c, p.seen, db)
      /\ c.kind = "group.move" => Elements(RowsToWrite(c, p.seen)) \subseteq p.held
  BY <1>1, <1>2 DEF DataInvariant, ReadOK
<1>4. WellFormed(c) /\ Consistent(db)
  BY <1>1 DEF CommandsOK, DataInvariant
<1>5. NewId \in Nat /\ \A t \in db.theses : t.id < NewId
  <2>1. Len(events) \in Nat
    BY LenProperties DEF RecordInvariant
  <2> QED
    BY <2>1 DEF NewId, DataInvariant, IdsOK
<1>6. c.kind \in ThesisKinds => ~ThesisViolates(c, p.seen, db, NewId)
  BY DEF Violates
<1> QED
  BY <1>3, <1>4, <1>5, <1>6 DEF MayCommit

LEMMA CommitMayCommit ==
  ASSUME TransactionInvariant, RecordInvariant, CommandsOK, DataInvariant, NEW s \in Slots, Commit(s)
  PROVE  /\ MayCommit(slots[s].held, slots[s].command, slots[s].seen, db, NewId)
         /\ db' = After(slots[s].command, slots[s].seen, db, NewId)
<1>1. Ready(s, "write") /\ ~Violates(slots[s].command, slots[s].seen, NewId)
      /\ db' = Changed(slots[s].command, slots[s].seen, NewId)
  BY DEF Commit
<1> QED
  BY <1>1, ReadyMayCommit DEF Changed, After

LEMMA CommitKeepsData ==
  ASSUME TransactionInvariant, RecordInvariant, CommandsOK, DataInvariant, NEW s \in Slots, Commit(s)
  PROVE  DataInvariant'
<1> DEFINE c == slots[s].command
           seen == slots[s].seen
           held == slots[s].held
           event == [key |-> c.key, life |-> records[c.key].life]
<1>1. MayCommit(held, c, seen, db, NewId) /\ db' = After(c, seen, db, NewId)
  BY CommitMayCommit
<1>2. c \in commands
  BY ReadyHoldsKey DEF Commit
<1>3. /\ slots' = [slots EXCEPT ![s] = Idle] /\ events' = Append(events, event) /\ UNCHANGED commands
  BY DEF Commit
<1>4. slots' = [t \in Slots |-> IF t = s THEN Idle ELSE slots[t]]
  BY <1>3 DEF TransactionInvariant
<1>5. event.key = c.key
  OBVIOUS
<1> HIDE DEF event
<1>6. Consistent(db')
  BY <1>1, TablesStayConsistent
<1>7. PlacesAreDistinct(db'.groups)
  BY <1>1, PlacesStayDistinctAfter DEF DataInvariant
<1>8. IdsOK(db', events', commands')
  <2>1. events \in Seq(Elements(events)) /\ IdsOK(db, events, commands)
    BY DEF RecordInvariant, DataInvariant
  <2> HIDE DEF c, seen, held
  <2>2. MayCommit(held, c, seen, db, 10 + Len(events)) /\ db' = After(c, seen, db, 10 + Len(events))
    BY <1>1 DEF NewId
  <2> QED
    BY <1>2, <1>3, <1>5, <2>1, <2>2, IdsStayNew
<1>9. \A t \in Slots : ReadOK(slots'[t], db')
  <2> TAKE t \in Slots
  <2>1. CASE t = s
    BY <2>1, <1>4, IdleReadsNothing
  <2>2. CASE t # s
    <3>1. slots[t].held \intersect held = {}
      BY <2>2 DEF TransactionInvariant, Apart
    <3>2. ReadOK(slots[t], db)
      BY DEF DataInvariant
    <3>3. ReadOK(slots[t], db')
      BY <1>1, <3>1, <3>2, ReadsStay
    <3> QED
      BY <1>4, <2>2, <3>3
  <2> QED
    BY <2>1, <2>2
<1> QED
  BY <1>6, <1>7, <1>8, <1>9 DEF DataInvariant

\* One more answer to a request that changes nothing.
LEMMA AnswerKeepsAnswers ==
  ASSUME RecordInvariant, AnswerInvariant, UNCHANGED <<commands, db, records, events>>,
         NEW a, answers' = Append(answers, a),
         a.life = 1 => a.status # "error",
         a.status = "done" =>
           \E i \in DOMAIN answers :
             /\ answers[i].status = "done" /\ answers[i].event = a.event
             /\ answers[i].fingerprint = a.fingerprint
  PROVE  AnswerInvariant'
<1> DEFINE n == Len(answers)
<1>1. /\ n \in Nat /\ DOMAIN answers = 1..n /\ DOMAIN answers' = 1..(n + 1)
      /\ (\A i \in 1..n : answers'[i] = answers[i]) /\ answers'[n + 1] = a
  <2>1. answers \in Seq(Elements(answers))
    BY DEF RecordInvariant
  <2> HIDE DEF n
  <2> QED
    BY <2>1, Appended DEF n
<1> HIDE DEF n
\* Whoever is answered that it is done is told what another was told before.
<1>2. \A j \in DOMAIN answers' : answers'[j].status = "done" =>
        \E i \in DOMAIN answers :
          /\ answers[i].status = "done" /\ answers[i].event = answers'[j].event
          /\ answers[i].fingerprint = answers'[j].fingerprint
  <2> TAKE j \in DOMAIN answers'
  <2>1. CASE j = n + 1
    BY <2>1, <1>1
  <2>2. CASE j # n + 1
    <3>1. j \in DOMAIN answers /\ answers'[j] = answers[j]
      BY <2>2, <1>1
    <3> QED
      BY <3>1
  <2> QED
    BY <2>1, <2>2
<1>3. RefusalsAreOrderly'
  <2> SUFFICES ASSUME NEW i \in DOMAIN answers', answers'[i].life = 1
               PROVE  answers'[i].status # "error"
    BY DEF RefusalsAreOrderly
  <2>1. CASE i = n + 1
    BY <2>1, <1>1
  <2>2. CASE i # n + 1
    <3>1. i \in DOMAIN answers /\ answers'[i] = answers[i]
      BY <2>2, <1>1
    <3> QED
      BY <3>1 DEF AnswerInvariant, RefusalsAreOrderly
  <2> QED
    BY <2>1, <2>2
<1>4. NoLostUpdate'
  <2> SUFFICES ASSUME NEW i \in DOMAIN answers', NEW j \in DOMAIN answers',
                      answers'[i].status = "done", answers'[j].status = "done",
                      answers'[i].event # answers'[j].event,
                      "version" \in DOMAIN answers'[i].fingerprint,
                      "version" \in DOMAIN answers'[j].fingerprint
               PROVE  BasedOn(answers'[i].fingerprint) # BasedOn(answers'[j].fingerprint)
    BY DEF NoLostUpdate
  <2>1. PICK k \in DOMAIN answers :
          /\ answers[k].status = "done" /\ answers[k].event = answers'[i].event
          /\ answers[k].fingerprint = answers'[i].fingerprint
    BY <1>2
  <2>2. PICK l \in DOMAIN answers :
          /\ answers[l].status = "done" /\ answers[l].event = answers'[j].event
          /\ answers[l].fingerprint = answers'[j].fingerprint
    BY <1>2
  <2>3. BasedOn(answers[k].fingerprint) # BasedOn(answers[l].fingerprint)
    BY <2>1, <2>2 DEF AnswerInvariant, NoLostUpdate
  <2> QED
    BY <2>1, <2>2, <2>3
<1>5. Keys' = Keys
  BY DEF Keys
<1>6. \A k \in Keys : records'[k].life >= 1 /\ WasTold(k)'
  <2> TAKE k \in Keys
  <2>1. records[k].life >= 1 /\ WasTold(k)
    BY DEF AnswerInvariant
  <2>2. WasTold(k)'
    <3> SUFFICES ASSUME records[k].state = "kept"
                 PROVE  \E i \in DOMAIN answers' :
                          /\ answers'[i].status = "done" /\ answers'[i].event = records[k].event
                          /\ answers'[i].fingerprint = records[k].fingerprint
      BY DEF WasTold
    <3>1. PICK i \in DOMAIN answers :
            /\ answers[i].status = "done" /\ answers[i].event = records[k].event
            /\ answers[i].fingerprint = records[k].fingerprint
      BY <2>1 DEF WasTold
    <3>2. i \in DOMAIN answers' /\ answers'[i] = answers[i]
      BY <1>1
    <3> QED
      BY <3>1, <3>2
  <2> QED
    BY <2>1, <2>2
<1>7. \A i \in DOMAIN answers' : answers'[i].status = "done" => VersionIsPast(answers'[i].fingerprint, db')
  <2> TAKE i \in DOMAIN answers'
  <2> HAVE answers'[i].status = "done"
  <2>1. PICK k \in DOMAIN answers :
          answers[k].status = "done" /\ answers[k].fingerprint = answers'[i].fingerprint
    BY <1>2
  <2>2. VersionIsPast(answers[k].fingerprint, db)
    BY <2>1 DEF AnswerInvariant
  <2> QED
    BY <2>1, <2>2
<1> QED
  BY <1>3, <1>4, <1>5, <1>6, <1>7 DEF AnswerInvariant

LEMMA ReplayKeepsAnswers ==
  ASSUME TransactionInvariant, RecordInvariant, AnswerInvariant, NEW s \in Slots, Replay(s)
  PROVE  AnswerInvariant'
<1> DEFINE c == slots[s].command
           k == c.key
           r == records[k]
           answer(status, event) == [key |-> k, life |-> r.life, fingerprint |-> Fingerprint(c),
                                     status |-> status, event |-> event]
<1>1. c \in commands /\ k \in Keys
  BY ReadyHoldsKey DEF Replay
<1>2. /\ r.state = "kept" /\ UNCHANGED <<commands, db, records, events>>
      /\ answers' = IF r.fingerprint = Fingerprint(c) THEN Answered(s, "done", r.event) ELSE Answered(s, "conflict", 0)
  BY DEF Replay
<1>3. CASE r.fingerprint = Fingerprint(c)
  <2> DEFINE a == answer("done", r.event)
  <2>1. answers' = Append(answers, a)
    BY <1>2, <1>3 DEF Answered
  <2>2. a.status = "done" /\ a.event = r.event /\ a.fingerprint = r.fingerprint
    BY <1>3
  <2>3. \E i \in DOMAIN answers : /\ answers[i].status = "done" /\ answers[i].event = r.event
                                  /\ answers[i].fingerprint = r.fingerprint
    BY <1>1, <1>2 DEF AnswerInvariant, WasTold
  <2> HIDE DEF a, r, k, c
  <2> QED
    BY <1>2, <2>1, <2>2, <2>3, AnswerKeepsAnswers
<1>4. CASE r.fingerprint # Fingerprint(c)
  <2> DEFINE a == answer("conflict", 0)
  <2>1. answers' = Append(answers, a)
    BY <1>2, <1>4 DEF Answered
  <2>2. a.status = "conflict"
    OBVIOUS
  <2> HIDE DEF a, r, k, c
  <2> QED
    BY <1>2, <2>1, <2>2, AnswerKeepsAnswers
<1> QED
  BY <1>3, <1>4

LEMMA RefuseKeepsAnswers ==
  ASSUME RecordInvariant, AnswerInvariant, NEW s \in Slots, Refuse(s)
  PROVE  AnswerInvariant'
<1> DEFINE k == slots[s].command.key
           a == [key |-> k, life |-> records[k].life, fingerprint |-> Fingerprint(slots[s].command),
                 status |-> "refused", event |-> 0]
<1>1. answers' = Append(answers, a) /\ UNCHANGED <<commands, db, records, events>>
  BY DEF Refuse, Answered
<1>2. a.status = "refused"
  OBVIOUS
<1> HIDE DEF a
<1> QED
  BY <1>1, <1>2, AnswerKeepsAnswers

\* A clash of rows: the command was done in an earlier life of its key.
LEMMA BreakKeepsAnswers ==
  ASSUME TransactionInvariant, RecordInvariant, CommandsOK, DataInvariant, AnswerInvariant,
         NEW s \in Slots, Break(s)
  PROVE  AnswerInvariant'
<1> DEFINE p == slots[s]
           c == p.command
           k == c.key
           a == [key |-> k, life |-> records[k].life, fingerprint |-> Fingerprint(c),
                 status |-> "error", event |-> 0]
<1>1. answers' = Append(answers, a) /\ UNCHANGED <<commands, db, records, events>>
  BY DEF Break, Answered
<1>2. a.status = "error" /\ a.life = records[k].life
  OBVIOUS
<1> HIDE DEF a
<1>3. c \in commands /\ k \in Keys /\ records[k].state # "kept" /\ p.stage = "write"
  BY ReadyHoldsKey DEF Break, Ready
<1>4. c.kind \in ThesisKinds /\ ThesisViolates(c, p.seen, db, 10 + Len(events))
  BY DEF Break, Violates, NewId
<1>5. /\ WellFormed(c) /\ Consistent(p.seen) /\ Consistent(db) /\ IdsOK(db, events, commands)
      /\ LatestIsRead(c, p.seen, db) /\ Len(events) \in Nat
  BY <1>3, LenProperties DEF CommandsOK, DataInvariant, ReadOK, StillSo, RecordInvariant
<1>6. PICK i \in DOMAIN events : events[i].key = k
  <2> DEFINE seen == p.seen
  <2>1. c \in commands /\ Consistent(seen) /\ LatestIsRead(c, seen, db)
        /\ ThesisViolates(c, seen, db, 10 + Len(events))
    BY <1>3, <1>4, <1>5
  <2> HIDE DEF c, seen
  <2> QED
    BY <1>4, <1>5, <2>1, ViolationIsOfRepetition
<1>7. records[k].life # 1
  <2> SUFFICES ASSUME records[k].life = 1
               PROVE  FALSE
    OBVIOUS
  <2>1. events[i].life \in Nat /\ events[i].life <= 1 /\ events[i].life >= 1
    BY <1>6 DEF RecordInvariant, EventOK, AnswerInvariant
  <2>2. events[i].life = records[k].life
    BY <2>1
  <2> HIDE DEF k
  <2>3. records[k].state = "kept"
    BY <1>6, <2>2 DEF RecordInvariant, EventOK
  <2> QED
    BY <1>3, <2>3
<1> HIDE DEF k, c
<1> QED
  BY <1>1, <1>2, <1>7, AnswerKeepsAnswers

LEMMA CommitKeepsAnswers ==
  ASSUME TransactionInvariant, RecordInvariant, CommandsOK, DataInvariant, AnswerInvariant,
         NEW s \in Slots, Commit(s)
  PROVE  AnswerInvariant'
<1> DEFINE c == slots[s].command
           k == c.key
           seen == slots[s].seen
           held == slots[s].held
           life == records[k].life
           m == Len(events) + 1
           n == Len(answers) + 1
           event == [key |-> k, life |-> life]
           a == [key |-> k, life |-> life, fingerprint |-> Fingerprint(c), status |-> "done", event |-> m]
           record == [state |-> "kept", fingerprint |-> Fingerprint(c), event |-> m, life |-> life]
<1>1. MayCommit(held, c, seen, db, NewId) /\ db' = After(c, seen, db, NewId)
  BY CommitMayCommit
<1>2. c \in commands /\ k \in Keys
  BY ReadyHoldsKey DEF Commit
<1>3. /\ records' = [j \in Keys |-> IF j = k THEN record ELSE records[j]]
      /\ events' = Append(events, event) /\ answers' = Append(answers, a)
      /\ UNCHANGED commands /\ Keys' = Keys
  BY <1>2 DEF Commit, Record, Answered, RecordInvariant, Keys
<1>4. /\ a.fingerprint = Fingerprint(c) /\ a.status = "done" /\ a.event = m
      /\ record.fingerprint = Fingerprint(c) /\ record.event = m /\ record.life = life
      /\ event.life = life
  OBVIOUS
<1>5. life >= 1
  BY <1>2 DEF AnswerInvariant
<1> HIDE DEF event, a, record, life
<1>6. /\ m \in Nat /\ n \in Nat /\ DOMAIN events = 1..(m - 1) /\ DOMAIN events' = 1..m
      /\ (\A i \in DOMAIN events : events'[i] = events[i]) /\ events'[m] = event
      /\ DOMAIN answers = 1..(n - 1) /\ DOMAIN answers' = 1..n /\ n >= 1
      /\ (\A i \in DOMAIN answers : answers'[i] = answers[i]) /\ answers'[n] = a
  <2>1. events \in Seq(Elements(events)) /\ answers \in Seq(Elements(answers))
    BY DEF RecordInvariant
  <2>2. /\ Len(events) \in Nat
        /\ DOMAIN events = 1..Len(events) /\ DOMAIN events' = 1..(Len(events) + 1)
        /\ (\A i \in DOMAIN events : events'[i] = events[i]) /\ events'[Len(events) + 1] = event
    BY <2>1, <1>3, Appended
  <2>3. /\ Len(answers) \in Nat
        /\ DOMAIN answers = 1..Len(answers) /\ DOMAIN answers' = 1..(Len(answers) + 1)
        /\ (\A i \in DOMAIN answers : answers'[i] = answers[i]) /\ answers'[Len(answers) + 1] = a
    BY <2>1, <1>3, Appended
  <2> QED
    BY <2>2, <2>3
<1>7. \A i \in DOMAIN answers :
        answers[i].status = "done" =>
          answers[i].event # m /\ VersionIsPast(answers[i].fingerprint, db)
  <2> SUFFICES ASSUME NEW i \in DOMAIN answers, answers[i].status = "done"
               PROVE  answers[i].event # m /\ VersionIsPast(answers[i].fingerprint, db)
    OBVIOUS
  <2>1. answers[i].event \in DOMAIN events
    BY DEF RecordInvariant, AnswerOK
  <2>2. VersionIsPast(answers[i].fingerprint, db)
    BY DEF AnswerInvariant
  <2> HIDE DEF m, n
  <2>3. answers[i].event # m
    BY <2>1, <1>6
  <2> QED
    BY <2>2, <2>3
<1> HIDE DEF m, n
<1>8. RefusalsAreOrderly'
  <2> SUFFICES ASSUME NEW i \in DOMAIN answers', answers'[i].life = 1
               PROVE  answers'[i].status # "error"
    BY DEF RefusalsAreOrderly
  <2>1. CASE i = n
    BY <2>1, <1>4, <1>6
  <2>2. CASE i # n
    <3>1. i \in DOMAIN answers /\ answers'[i] = answers[i]
      BY <2>2, <1>6
    <3> QED
      BY <3>1 DEF AnswerInvariant, RefusalsAreOrderly
  <2> QED
    BY <2>1, <2>2
<1>9. \A i \in DOMAIN answers :
        (answers[i].status = "done" /\ "version" \in DOMAIN answers[i].fingerprint
           /\ "version" \in DOMAIN a.fingerprint)
        => BasedOn(answers[i].fingerprint) # BasedOn(a.fingerprint)
  <2> HIDE DEF c, seen, held
  <2> QED
    BY <1>1, <1>4, <1>7, VersionIsNew
<1>10. NoLostUpdate'
  <2> SUFFICES ASSUME NEW i \in DOMAIN answers', NEW j \in DOMAIN answers',
                      answers'[i].status = "done", answers'[j].status = "done",
                      answers'[i].event # answers'[j].event,
                      "version" \in DOMAIN answers'[i].fingerprint,
                      "version" \in DOMAIN answers'[j].fingerprint
               PROVE  BasedOn(answers'[i].fingerprint) # BasedOn(answers'[j].fingerprint)
    BY DEF NoLostUpdate
  <2>1. \A x \in DOMAIN answers' : x # n => x \in DOMAIN answers /\ answers'[x] = answers[x]
    BY <1>6
  <2>2. CASE i # n /\ j # n
    BY <2>1, <2>2 DEF AnswerInvariant, NoLostUpdate
  <2>3. CASE i # n /\ j = n
    BY <2>1, <2>3, <1>6, <1>9
  <2>4. CASE i = n /\ j # n
    <3>1. BasedOn(answers'[j].fingerprint) # BasedOn(answers'[i].fingerprint)
      BY <2>1, <2>4, <1>6, <1>9
    <3> QED
      BY <3>1
  <2>5. CASE i = n /\ j = n
    BY <2>5
  <2> QED
    BY <2>2, <2>3, <2>4, <2>5
<1>11. \A j \in Keys : records'[j].life >= 1 /\ WasTold(j)'
  <2> TAKE j \in Keys
  <2>1. CASE j = k
    <3>1. records'[j] = record
      BY <2>1, <1>3
    <3>2. n \in DOMAIN answers' /\ answers'[n] = a
      BY <1>6
    <3>3. WasTold(j)'
      BY <3>1, <3>2, <1>4 DEF WasTold
    <3> QED
      BY <3>1, <3>3, <1>4, <1>5
  <2>2. CASE j # k
    <3>1. records'[j] = records[j]
      BY <2>2, <1>3
    <3>2. records[j].life >= 1 /\ WasTold(j)
      BY DEF AnswerInvariant
    <3>3. WasTold(j)'
      <4> SUFFICES ASSUME records[j].state = "kept"
                   PROVE  \E i \in DOMAIN answers' :
                            /\ answers'[i].status = "done" /\ answers'[i].event = records[j].event
                            /\ answers'[i].fingerprint = records[j].fingerprint
        BY <3>1 DEF WasTold
      <4>1. PICK i \in DOMAIN answers :
              /\ answers[i].status = "done" /\ answers[i].event = records[j].event
              /\ answers[i].fingerprint = records[j].fingerprint
        BY <3>2 DEF WasTold
      <4>2. i \in DOMAIN answers' /\ answers'[i] = answers[i]
        BY <1>6
      <4> QED
        BY <4>1, <4>2
    <3> QED
      BY <3>1, <3>2, <3>3
  <2> QED
    BY <2>1, <2>2
<1>12. \A i \in DOMAIN events' : events'[i].life >= 1
  <2> TAKE i \in DOMAIN events'
  <2>1. CASE i = m
    BY <2>1, <1>4, <1>5, <1>6
  <2>2. CASE i # m
    <3>1. i \in DOMAIN events /\ events'[i] = events[i]
      BY <2>2, <1>6
    <3> QED
      BY <3>1 DEF AnswerInvariant
  <2> QED
    BY <2>1, <2>2
<1>13. \A i \in DOMAIN answers' : answers'[i].status = "done" => VersionIsPast(answers'[i].fingerprint, db')
  <2> TAKE i \in DOMAIN answers'
  <2> HAVE answers'[i].status = "done"
  <2>1. CASE i = n
    <3>1. VersionIsPast(Fingerprint(c), db')
      BY <1>1, CommittedVersionIsPast
    <3> QED
      BY <2>1, <3>1, <1>4, <1>6
  <2>2. CASE i # n
    <3>1. i \in DOMAIN answers /\ answers'[i] = answers[i]
      BY <2>2, <1>6
    <3>2. VersionIsPast(answers[i].fingerprint, db)
      BY <3>1, <1>7
    <3> HIDE DEF c, seen, held
    <3>3. VersionIsPast(answers[i].fingerprint, db')
      BY <1>1, <3>2, PastStaysPast
    <3> QED
      BY <3>1, <3>3
  <2> QED
    BY <2>1, <2>2
<1> QED
  BY <1>3, <1>8, <1>10, <1>11, <1>12, <1>13 DEF AnswerInvariant

LEMMA ExpireKeepsAnswers ==
  ASSUME RecordInvariant, AnswerInvariant, NEW k \in Keys, Expire(k)
  PROVE  AnswerInvariant'
<1> DEFINE record == [NoRecord EXCEPT !.life = records[k].life + 1]
<1>1. /\ records' = [records EXCEPT ![k] = record] /\ UNCHANGED <<commands, db, events, answers>>
  BY DEF Expire
<1>2. records[k].life \in Nat /\ records[k].life >= 1
  BY DEF RecordInvariant, RecordOK, AnswerInvariant
<1>3. record.state = "none" /\ record.life >= 1
  BY <1>2 DEF NoRecord
<1> HIDE DEF record
<1>4. records' = [j \in Keys |-> IF j = k THEN record ELSE records[j]] /\ Keys' = Keys
  BY <1>1 DEF RecordInvariant, Keys
<1>5. \A j \in Keys : records'[j].life >= 1 /\ WasTold(j)'
  <2> TAKE j \in Keys
  <2>1. CASE j = k
    <3>1. records'[j] = record
      BY <2>1, <1>4
    <3> QED
      BY <3>1, <1>3 DEF WasTold
  <2>2. CASE j # k
    <3>1. records'[j] = records[j] /\ records[j].life >= 1 /\ WasTold(j)
      BY <2>2, <1>4 DEF AnswerInvariant
    <3> QED
      BY <3>1, <1>1 DEF WasTold
  <2> QED
    BY <2>1, <2>2
<1> QED
  BY <1>1, <1>4, <1>5 DEF AnswerInvariant, RefusalsAreOrderly, NoLostUpdate

-----------------------------------------------------------------------------
(* Every step keeps the invariant.                                           *)

\* A transaction that has ended reads nothing.
LEMMA EndKeepsData ==
  ASSUME TransactionInvariant, DataInvariant, NEW s \in Slots, slots' = [slots EXCEPT ![s] = Idle],
         UNCHANGED <<commands, db, events>>
  PROVE  DataInvariant'
BY OneReads, IdleReadsNothing

LEMMA CrashKeepsData ==
  ASSUME DataInvariant, Crash
  PROVE  DataInvariant'
<1>1. \A s \in Slots : slots'[s] = Idle
  BY DEF Crash
<1>2. UNCHANGED <<commands, db, events>>
  BY DEF Crash
<1> QED
  BY <1>1, <1>2, IdleReadsNothing DEF DataInvariant, IdsOK

LEMMA ExpireKeepsData ==
  ASSUME DataInvariant, NEW k \in Keys, Expire(k)
  PROVE  DataInvariant'
BY DEF Expire, DataInvariant, IdsOK

\* Requests in flight and their answers: one more, one less, or as many as before.
LEMMA WhoIsBusy ==
  ASSUME TransactionInvariant, NEW s \in Slots, NEW q, slots' = [slots EXCEPT ![s] = q]
  PROVE  /\ q.stage # "idle" => Busy' = Busy \union {s}
         /\ q.stage = "idle" => Busy' = Busy \ {s}
<1>1. slots'[s] = q /\ \A t \in Slots : t # s => slots'[t] = slots[t]
  BY DEF TransactionInvariant
<1> QED
  BY <1>1 DEF Busy

LEMMA BeginsAndGoesOn ==
  ASSUME TransactionInvariant, CountsOK, NEW s \in Slots, slots[s].stage # "idle",
         NEW q, slots' = [slots EXCEPT ![s] = q], q.stage # "idle",
         UNCHANGED <<answers, sent, crashes, expiries>>
  PROVE  CountsOK'
<1>1. Busy' = Busy
  BY WhoIsBusy DEF Busy
<1> QED
  BY <1>1 DEF CountsOK

LEMMA ReceiveKeepsCounts ==
  ASSUME TransactionInvariant, RecordInvariant, CountsOK, NEW s \in Slots, NEW c \in commands, Receive(s, c)
  PROVE  CountsOK'
<1> DEFINE q == [Idle EXCEPT !.stage = "check", !.command = c, !.need = <<<<"key", c.key>>>>]
<1>1. /\ slots' = [slots EXCEPT ![s] = q] /\ sent' = sent + 1 /\ sent < MaxRequests
      /\ UNCHANGED <<answers, crashes, expiries>> /\ slots[s] = Idle
  BY DEF Receive
<1>2. q.stage # "idle" /\ Idle.stage = "idle"
  BY DEF Idle
<1> HIDE DEF q
<1>3. Busy' = Busy \union {s} /\ s \notin Busy
  BY <1>1, <1>2, WhoIsBusy DEF Busy
<1>4. IsFiniteSet(Busy') /\ Cardinality(Busy') = Cardinality(Busy) + 1 /\ Cardinality(Busy) \in Nat
  BY <1>3, FS_AddElement, FS_CardinalityType DEF CountsOK
<1>5. Len(answers) \in Nat
  BY LenProperties DEF RecordInvariant
<1> QED
  BY <1>1, <1>4, <1>5, BoundsAssumption DEF CountsOK

LEMMA EndKeepsCounts ==
  ASSUME TransactionInvariant, RecordInvariant, CountsOK, NEW s \in Slots, slots[s].stage # "idle",
         slots' = [slots EXCEPT ![s] = Idle],
         NEW a, answers' = Append(answers, a), UNCHANGED <<sent, crashes, expiries>>
  PROVE  CountsOK'
<1>1. Busy' = Busy \ {s} /\ s \in Busy
  <2>1. Idle.stage = "idle"
    BY DEF Idle
  <2>2. Busy' = Busy \ {s}
    BY <2>1, WhoIsBusy
  <2> QED
    BY <2>2 DEF Busy
<1>2. IsFiniteSet(Busy') /\ Cardinality(Busy') = Cardinality(Busy) - 1 /\ Cardinality(Busy) \in Nat
  BY <1>1, FS_RemoveElement, FS_CardinalityType DEF CountsOK
<1>3. Len(answers) \in Nat /\ Len(answers') = Len(answers) + 1
  BY Appended DEF RecordInvariant
<1> QED
  BY <1>2, <1>3 DEF CountsOK

LEMMA CrashKeepsCounts ==
  ASSUME RecordInvariant, CountsOK, Crash
  PROVE  CountsOK'
<1>1. Busy' = {}
  BY DEF Crash, Busy, Idle
<1>2. IsFiniteSet(Busy') /\ Cardinality(Busy') = 0
  BY <1>1, FS_EmptySet
<1>3. crashes' = crashes + 1 /\ crashes < MaxCrashes /\ UNCHANGED <<answers, sent, expiries>>
  BY DEF Crash
<1>4. Len(answers) \in Nat /\ Cardinality(Busy) \in Nat
  BY LenProperties, FS_CardinalityType DEF RecordInvariant, CountsOK
<1> QED
  BY <1>2, <1>3, <1>4, BoundsAssumption DEF CountsOK

LEMMA ExpireKeepsCounts ==
  ASSUME CountsOK, NEW k \in Keys, Expire(k)
  PROVE  CountsOK'
<1>1. expiries' = expiries + 1 /\ expiries < MaxExpiries /\ UNCHANGED <<slots, answers, sent, crashes>>
  BY DEF Expire
<1>2. Busy' = Busy
  BY <1>1 DEF Busy
<1> QED
  BY <1>1, <1>2, BoundsAssumption DEF CountsOK

-----------------------------------------------------------------------------

LEMMA InvariantHoldsAtFirst ==
  Init => CommandInvariant
<1> SUFFICES ASSUME Init PROVE CommandInvariant
  OBVIOUS
<1>1. PICK sc \in Scenarios : commands = sc.commands /\ db = sc.db
  BY DEF Init
<1>2. /\ events = <<>> /\ answers = <<>> /\ slots = [s \in Slots |-> Idle]
      /\ records = [k \in Keys |-> NoRecord] /\ sent = 0 /\ crashes = 0 /\ expiries = 0
  BY DEF Init
<1>3. /\ Consistent(db) /\ PlacesAreDistinct(db.groups)
      /\ \A t \in db.theses : t.id < 10
      /\ \A c \in commands : WellFormed(c)
      /\ \A d \in db.conditions : Len(d.id) = 1
      /\ \A c \in commands : c.kind = "conditions.create" =>
           /\ \A d \in db.conditions : d.id \notin c.conditions
           /\ \A e \in commands :
                e.kind = "conditions.create" /\ e.key # c.key => c.conditions \intersect e.conditions = {}
  BY <1>1, ScenariosAssumption
<1>4. KeyInvariant
  BY KeyInvariantHoldsAtFirst
<1>5. CommandsOK
  BY <1>3 DEF CommandsOK
<1>6. DataInvariant
  <2>1. Len(events) = 0
    BY <1>2
  <2>2. IdsOK(db, events, commands)
    BY <2>1, <1>3 DEF IdsOK
  <2>3. \A s \in Slots : ReadOK(slots[s], db)
    BY <1>2, IdleReadsNothing
  <2> QED
    BY <1>3, <2>2, <2>3 DEF DataInvariant
<1>7. AnswerInvariant
  <2>1. \A k \in Keys : records[k].life >= 1 /\ WasTold(k)
    BY <1>2 DEF NoRecord, WasTold
  <2> QED
    BY <1>2, <2>1 DEF AnswerInvariant, RefusalsAreOrderly, NoLostUpdate
<1>8. CountsOK
  <2>1. Busy = {}
    BY <1>2 DEF Busy, Idle
  <2>2. IsFiniteSet(Busy) /\ Cardinality(Busy) = 0 /\ Len(answers) = 0
    BY <2>1, <1>2, FS_EmptySet
  <2> QED
    BY <2>2, <1>2, BoundsAssumption DEF CountsOK
<1> QED
  BY <1>4, <1>5, <1>6, <1>7, <1>8 DEF CommandInvariant

\* Transactions that end without a change: replayed, refused, broken.
LEMMA EndingsKeepInvariant ==
  ASSUME CommandInvariant, NEW s \in Slots, Replay(s) \/ Refuse(s) \/ Break(s)
  PROVE  CommandInvariant'
<1>1. TransactionInvariant /\ RecordInvariant /\ OneEffectOneAnswer
      /\ CommandsOK /\ DataInvariant /\ AnswerInvariant /\ CountsOK
  BY DEF CommandInvariant, KeyInvariant
<1>2. /\ slots' = [slots EXCEPT ![s] = Idle]
      /\ UNCHANGED <<commands, db, records, events, sent, crashes, expiries>>
      /\ \E a : answers' = Append(answers, a)
      /\ slots[s].stage # "idle"
  <2>1. CASE Replay(s)
    BY <2>1 DEF Replay, Ready, Answered
  <2>2. CASE Refuse(s)
    BY <2>2 DEF Refuse, Ready, Answered
  <2>3. CASE Break(s)
    BY <2>3 DEF Break, Ready, Answered
  <2> QED
    BY <2>1, <2>2, <2>3
<1>3. RecordInvariant' /\ OneEffectOneAnswer'
  BY <1>1, ReplayKeepsRecords, RefuseKeepsRecords, BreakKeepsRecords
<1>4. AnswerInvariant'
  BY <1>1, ReplayKeepsAnswers, RefuseKeepsAnswers, BreakKeepsAnswers
<1>5. TransactionInvariant'
  BY <1>1, <1>2, OneEnds
<1>6. DataInvariant'
  BY <1>1, <1>2, EndKeepsData
<1>7. CountsOK'
  BY <1>1, <1>2, EndKeepsCounts
<1>8. CommandsOK'
  BY <1>1, <1>2 DEF CommandsOK
<1> QED
  BY <1>3, <1>4, <1>5, <1>6, <1>7, <1>8 DEF CommandInvariant, KeyInvariant

LEMMA InvariantIsKept ==
  CommandInvariant /\ [Next]_vars => CommandInvariant'
<1> SUFFICES ASSUME CommandInvariant, [Next]_vars
             PROVE  CommandInvariant'
  OBVIOUS
<1>1. TransactionInvariant /\ RecordInvariant /\ OneEffectOneAnswer
      /\ CommandsOK /\ DataInvariant /\ AnswerInvariant /\ CountsOK
  BY DEF CommandInvariant, KeyInvariant
<1>2. \A s \in Slots, c \in commands : Receive(s, c) => CommandInvariant'
  <2> SUFFICES ASSUME NEW s \in Slots, NEW c \in commands, Receive(s, c)
               PROVE  CommandInvariant'
    OBVIOUS
  <2>1. UNCHANGED <<commands, db, records, events, answers>>
    BY DEF Receive
  <2>2. TransactionInvariant'
    BY <1>1, ReceiveKeepsLocks
  <2>3. DataInvariant'
    BY <1>1, ReceiveKeepsData
  <2>4. CountsOK'
    BY <1>1, ReceiveKeepsCounts
  <2>5. RecordInvariant' /\ OneEffectOneAnswer' /\ AnswerInvariant' /\ CommandsOK'
    BY <1>1, <2>1, UnchangedRecords, UnchangedAnswers DEF CommandsOK
  <2> QED
    BY <2>2, <2>3, <2>4, <2>5 DEF CommandInvariant, KeyInvariant
<1>3. \A s \in Slots : TakeLock(s) \/ Begin(s) \/ Read(s) => CommandInvariant'
  <2> SUFFICES ASSUME NEW s \in Slots, TakeLock(s) \/ Begin(s) \/ Read(s)
               PROVE  CommandInvariant'
    OBVIOUS
  <2>1. UNCHANGED <<commands, db, records, events, answers, sent, crashes, expiries>>
    BY DEF TakeLock, Begin, Read
  <2>2. TransactionInvariant'
    BY <1>1, TakeLockKeepsLocks, BeginKeepsLocks, ReadKeepsLocks DEF DataInvariant, CommandsOK
  <2>3. DataInvariant'
    BY <1>1, TakeLockKeepsData, BeginKeepsData, ReadKeepsData
  <2>4. CountsOK'
    <3>1. PICK q : slots' = [slots EXCEPT ![s] = q] /\ q.stage # "idle" /\ slots[s].stage # "idle"
      <4>1. CASE TakeLock(s)
        <5> DEFINE q == [slots[s] EXCEPT !.held = @ \union {Head(slots[s].need)}, !.need = Tail(@)]
        <5>1. slots' = [slots EXCEPT ![s] = q]
          BY <4>1 DEF TakeLock
        <5>2. slots[s].need # <<>> /\ DOMAIN slots[s] = {"stage", "command", "held", "need", "seen"}
              /\ (slots[s].stage = "idle" => slots[s] = Idle)
          BY <4>1, <1>1 DEF TakeLock, TransactionInvariant, SlotOK
        <5>3. slots[s].stage # "idle"
          BY <5>2 DEF Idle
        <5>4. q.stage = slots[s].stage
          BY <5>2
        <5> HIDE DEF q
        <5> QED
          BY <5>1, <5>3, <5>4
      <4>2. CASE Begin(s)
        <5> DEFINE q == [slots[s] EXCEPT !.stage = "read", !.need = Locks(slots[s].command)]
        <5>1. slots' = [slots EXCEPT ![s] = q] /\ slots[s].stage = "check"
          BY <4>2 DEF Begin, Ready
        <5>2. q.stage = "read"
          BY <1>1 DEF TransactionInvariant, SlotOK
        <5> HIDE DEF q
        <5> QED
          BY <5>1, <5>2
      <4>3. CASE Read(s)
        <5> DEFINE q == [slots[s] EXCEPT !.stage = "write", !.seen = db,
                           !.need = IF slots[s].command.kind \in WatchlistKinds
                                    THEN RowsToWrite(slots[s].command, db) ELSE <<>>]
        <5>1. slots' = [slots EXCEPT ![s] = q] /\ slots[s].stage = "read"
          BY <4>3 DEF Read, Ready
        <5>2. q.stage = "write"
          BY <1>1 DEF TransactionInvariant, SlotOK
        <5> HIDE DEF q
        <5> QED
          BY <5>1, <5>2
      <4> QED
        BY <4>1, <4>2, <4>3
    <3> QED
      BY <1>1, <2>1, <3>1, BeginsAndGoesOn
  <2>5. RecordInvariant' /\ OneEffectOneAnswer' /\ AnswerInvariant' /\ CommandsOK'
    BY <1>1, <2>1, UnchangedRecords, UnchangedAnswers DEF CommandsOK
  <2> QED
    BY <2>2, <2>3, <2>4, <2>5 DEF CommandInvariant, KeyInvariant
<1>4. \A s \in Slots : Replay(s) \/ Refuse(s) \/ Break(s) => CommandInvariant'
  BY EndingsKeepInvariant
<1>5. \A s \in Slots : Commit(s) => CommandInvariant'
  <2> SUFFICES ASSUME NEW s \in Slots, Commit(s)
               PROVE  CommandInvariant'
    OBVIOUS
  <2>1. TransactionInvariant' /\ RecordInvariant' /\ OneEffectOneAnswer'
    BY <1>1, CommitKeepsLocks, CommitKeepsRecords
  <2>2. DataInvariant' /\ AnswerInvariant'
    BY <1>1, CommitKeepsData, CommitKeepsAnswers
  <2>3. /\ slots' = [slots EXCEPT ![s] = Idle] /\ UNCHANGED <<commands, sent, crashes, expiries>>
        /\ slots[s].stage # "idle" /\ \E a : answers' = Append(answers, a)
    BY DEF Commit, Ready, Answered
  <2>4. CountsOK'
    BY <1>1, <2>3, EndKeepsCounts
  <2>5. CommandsOK'
    BY <1>1, <2>3 DEF CommandsOK
  <2> QED
    BY <2>1, <2>2, <2>4, <2>5 DEF CommandInvariant, KeyInvariant
<1>6. Crash => CommandInvariant'
  <2> SUFFICES ASSUME Crash
               PROVE  CommandInvariant'
    OBVIOUS
  <2>1. UNCHANGED <<commands, db, records, events, answers>>
    BY DEF Crash
  <2>2. TransactionInvariant' /\ DataInvariant' /\ CountsOK'
    BY <1>1, CrashKeepsLocks, CrashKeepsData, CrashKeepsCounts
  <2>3. RecordInvariant' /\ OneEffectOneAnswer' /\ AnswerInvariant' /\ CommandsOK'
    BY <1>1, <2>1, UnchangedRecords, UnchangedAnswers DEF CommandsOK
  <2> QED
    BY <2>2, <2>3 DEF CommandInvariant, KeyInvariant
<1>7. \A k \in Keys : Expire(k) => CommandInvariant'
  <2> SUFFICES ASSUME NEW k \in Keys, Expire(k)
               PROVE  CommandInvariant'
    OBVIOUS
  <2>1. TransactionInvariant' /\ RecordInvariant' /\ OneEffectOneAnswer'
    BY <1>1, ExpireKeepsLocks, ExpireKeepsRecords
  <2>2. DataInvariant' /\ AnswerInvariant' /\ CountsOK'
    BY <1>1, ExpireKeepsData, ExpireKeepsAnswers, ExpireKeepsCounts
  <2>3. CommandsOK'
    BY <1>1 DEF CommandsOK, Expire
  <2> QED
    BY <2>1, <2>2, <2>3 DEF CommandInvariant, KeyInvariant
<1>8. CASE UNCHANGED vars
  <2>1. /\ UNCHANGED <<commands, db, records, events, answers>> /\ UNCHANGED <<slots, sent, crashes, expiries>>
    BY <1>8 DEF vars
  <2>2. RecordInvariant' /\ OneEffectOneAnswer' /\ AnswerInvariant' /\ CommandsOK'
    BY <1>1, <2>1, UnchangedRecords, UnchangedAnswers DEF CommandsOK
  <2>3. TransactionInvariant'
    BY <1>1, <2>1 DEF TransactionInvariant, Apart
  <2>4. DataInvariant'
    BY <1>1, <2>1 DEF DataInvariant, IdsOK
  <2>5. CountsOK'
    BY <1>1, <2>1 DEF CountsOK, Busy
  <2> QED
    BY <2>2, <2>3, <2>4, <2>5 DEF CommandInvariant, KeyInvariant
<1> QED
  BY <1>2, <1>3, <1>4, <1>5, <1>6, <1>7, <1>8 DEF Next, Step

-----------------------------------------------------------------------------
(* Theorems                                                                  *)

LEMMA InvariantAlways ==
  Spec => []CommandInvariant
<1>1. Init => CommandInvariant
  BY InvariantHoldsAtFirst
<1>2. CommandInvariant /\ [Next]_vars => CommandInvariant'
  BY InvariantIsKept
<1> QED
  BY <1>1, <1>2, PTL DEF Spec

\* However many requests carry a key, at once, again and across deaths of the server and
\* the expiry of its record, the command takes effect once in each life of the record,
\* everyone who is answered after that in this life gets the same answer, and in the
\* first life nobody is answered with a clash of rows (withIdempotency.ts,
\* idempotencyRepository.ts:29-49, thesisRepository.ts:34, 99).
THEOREM OneEffectForAKey ==
  Spec => []OneAnswerPerKey
<1>1. CommandInvariant => OneAnswerPerKey
  <2> SUFFICES ASSUME CommandInvariant PROVE OneAnswerPerKey
    OBVIOUS
  <2>1. OneEffectOneAnswer /\ RefusalsAreOrderly
    BY DEF CommandInvariant, KeyInvariant, AnswerInvariant
  <2>2. \A k \in Keys : records[k].state \in {"none", "kept"} /\ records[k].event \in 0..Len(events)
    BY DEF CommandInvariant, KeyInvariant, RecordInvariant, RecordOK
  <2>3. \A s \in Slots : slots[s].stage \in {"idle", "check", "read", "write"}
    BY DEF CommandInvariant, KeyInvariant, TransactionInvariant, SlotOK
  <2>4. Cardinality(Busy) \in Nat /\ Len(answers) \in Nat
    BY FS_CardinalityType, LenProperties DEF CommandInvariant, KeyInvariant, RecordInvariant, CountsOK
  <2>5. /\ sent \in 0..MaxRequests /\ crashes \in 0..MaxCrashes /\ expiries \in 0..MaxExpiries
        /\ Len(answers) + Cardinality(Busy) <= sent
    BY DEF CommandInvariant, CountsOK
  <2>6. Len(answers) <= sent
    BY <2>4, <2>5
  <2> QED
    BY <2>1, <2>2, <2>3, <2>5, <2>6 DEF OneAnswerPerKey, TypeOK
<1> QED
  BY <1>1, InvariantAlways, PTL

\* Any number of changes of lists, screens and the universe at once: no two that succeed
\* started from the same version of the same row, and no two groups, or symbols of a
\* group, are at one place (watchlistRepository.ts:24, 43, 51, 74,
\* discoveryStateRepository.ts:58, 84).
THEOREM ListsKeepEveryChange ==
  Spec => []ListsLoseNothing
<1>1. CommandInvariant => ListsLoseNothing
  BY DEF CommandInvariant, AnswerInvariant, DataInvariant, ListsLoseNothing
<1> QED
  BY <1>1, InvariantAlways, PTL

\* No step, whatever versions and conditions are saved at the same time, adds, changes
\* or deletes a condition of a thesis that has a newer version
\* (thesisRepository.ts:98-102).
THEOREM SupersededConditionsAreFrozen ==
  Spec => SupersededIsFrozen
<1> DEFINE of(tables, t) == {d \in tables.conditions : d.thesis = t.id}
<1>1. CommandInvariant /\ [Next]_vars =>
        \A t \in db.theses :
          (\E u \in db.theses : u.symbol = t.symbol /\ u.version > t.version) => of(db', t) = of(db, t)
  <2> SUFFICES ASSUME CommandInvariant, [Next]_vars,
                      NEW t \in db.theses, NEW u \in db.theses, u.symbol = t.symbol, u.version > t.version
               PROVE  of(db', t) = of(db, t)
    OBVIOUS
  <2>1. CASE \E s \in Slots : Commit(s)
    <3>1. PICK s \in Slots : Commit(s)
      BY <2>1
    <3> DEFINE locks == slots[s].held
               c == slots[s].command
               seen == slots[s].seen
    <3>2. MayCommit(locks, c, seen, db, NewId) /\ db' = After(c, seen, db, NewId)
      BY <3>1, CommitMayCommit DEF CommandInvariant, KeyInvariant
    <3> HIDE DEF locks, c, seen
    <3> QED
      BY <3>2, ConditionsAreOfTheNewest
  <2>2. CASE ~\E s \in Slots : Commit(s)
    <3>1. UNCHANGED db
      BY <2>2 DEF Next, Step, vars, Receive, TakeLock, Replay, Begin, Refuse, Read, Break, Crash, Expire
    <3> QED
      BY <3>1
  <2> QED
    BY <2>1, <2>2
<1>2. CommandInvariant /\ [Next]_vars =>
        [\A t \in db.theses :
           (\E u \in db.theses : u.symbol = t.symbol /\ u.version > t.version)
           => {c \in db.conditions' : c.thesis = t.id} = {c \in db.conditions : c.thesis = t.id}]_vars
  BY <1>1
<1> QED
  BY <1>2, InvariantAlways, PTL DEF Spec, SupersededIsFrozen
==============================================================================
