---------------------------- MODULE StateCommands ----------------------------
(* Commands of the state API (routes/thesisStateRoutes.ts,                      *)
(* routes/stateDiscoveryRoutes.ts) under platform/withIdempotency.ts: clients   *)
(* send and send again, the server runs each request as one transaction of      *)
(* PostgreSQL at READ COMMITTED, one action for each statement that waits, reads *)
(* or commits, and may die at any of them.                                       *)
EXTENDS ThesisVersions, Watchlists, DiscoveryState

CONSTANTS
  Scenarios,    \* the commands of the clients and the tables they begin with
  Slots,        \* transactions at once
  MaxRequests, MaxCrashes,
  MaxExpiries   \* records that grow older than 30 days

\* The fields of each request: its key, its kind, and what its body and path say.
Fields(kind) ==
  {"key", "kind"} \union
  (CASE kind = "thesis.create" -> {"symbol"}
     [] kind = "conditions.create" -> {"symbol", "thesis", "conditions"}
     [] kind = "conditions.copy" -> {"thesis", "source"}
     [] kind = "condition.delete" -> {"condition"}
     [] kind \in {"group.create", "screen.create"} -> {"name"}
     [] kind = "group.rename" -> {"group", "name", "version"}
     [] kind = "group.move" -> {"group", "target"}
     [] kind \in {"group.remove", "group.restore"} -> {"group"}
     [] kind \in {"symbol.add", "symbol.remove"} -> {"group", "symbol"}
     [] kind = "screen.rename" -> {"screen", "name", "version"}
     [] kind = "screen.duplicate" -> {"screen"}
     [] kind = "screen.remove" -> {"screen", "version"}
     [] OTHER -> {"symbol", "version"})

WellFormed(c) ==
  /\ c.kind \in ThesisKinds \union WatchlistKinds \union DiscoveryKinds
  /\ DOMAIN c = Fields(c.kind)
  /\ "version" \in DOMAIN c => c.version \in Nat
  /\ "target" \in DOMAIN c => c.target \in Nat
  /\ "conditions" \in DOMAIN c => \A id \in c.conditions : Len(id) = 1

\* The tables as their types, keys and references keep them.
GroupIsWhole(row) ==
  /\ DOMAIN row = {"name", "order", "version", "deleted", "removed", "members"}
  /\ row.order \in Nat /\ row.version \in Nat
  /\ row.deleted \in BOOLEAN /\ row.removed \in BOOLEAN /\ (row.deleted => row.removed)
  /\ IsFiniteSet(DOMAIN row.members) /\ \A s \in DOMAIN row.members : row.members[s] \in Nat
Consistent(tables) ==
  /\ DOMAIN tables = {"theses", "conditions", "groups", "screens", "universe"}
  /\ IsFiniteSet(tables.theses)
  /\ \A t, u \in tables.theses : t.id \in Nat /\ t.version \in Nat /\ (t.id = u.id => t = u)
  /\ \A d \in tables.conditions :
       DOMAIN d = {"id", "thesis", "deleted"} /\ \E t \in tables.theses : t.id = d.thesis
  /\ \A d, e \in tables.conditions : d.id = e.id => d = e
  /\ IsFiniteSet(DOMAIN tables.groups) /\ DOMAIN tables.groups \subseteq Nat
  /\ \A g \in DOMAIN tables.groups : GroupIsWhole(tables.groups[g])
  /\ \A n \in DOMAIN tables.screens :
       DOMAIN tables.screens[n] = {"name", "version", "deleted"} /\ tables.screens[n].version \in Nat
  /\ DOMAIN tables.universe = {"version", "changed"} /\ tables.universe.version \in Nat

ASSUME BoundsAssumption == MaxRequests \in Nat /\ MaxCrashes \in Nat /\ MaxExpiries \in Nat

\* Clients name their conditions, each request its own; the ids the server makes (NewId)
\* begin at 10.
ASSUME ScenariosAssumption ==
  \A sc \in Scenarios :
    /\ Consistent(sc.db) /\ PlacesAreDistinct(sc.db.groups)
    /\ \A t \in sc.db.theses : t.id < 10
    /\ \A c \in sc.commands : WellFormed(c)
    /\ \A d \in sc.db.conditions : Len(d.id) = 1
    /\ \A c \in sc.commands : c.kind = "conditions.create" =>
         /\ \A d \in sc.db.conditions : d.id \notin c.conditions
         /\ \A e \in sc.commands :
              e.kind = "conditions.create" /\ e.key # c.key => c.conditions \intersect e.conditions = {}

VARIABLES
  commands,   \* what the clients ask for, each with its idempotency key
  db,         \* the committed tables
  records,    \* platform.idempotency_record
  events,     \* the outbox: the command and the life of its key
  slots,      \* the transactions
  answers,    \* everything that was answered, in order
  sent, crashes, expiries

vars == <<commands, db, records, events, slots, answers, sent, crashes, expiries>>

Keys == {c.key : c \in commands}
NoRecord == [state |-> "none", fingerprint |-> <<>>, event |-> 0, life |-> 1]
\* A transaction: what it runs, the locks it holds and still needs, what it has read.
Idle == [stage |-> "idle", command |-> <<>>, held |-> {}, need |-> <<>>, seen |-> <<>>]

TypeOK ==
  /\ \A k \in Keys : records[k].state \in {"none", "kept"} /\ records[k].event \in 0..Len(events)
  /\ \A s \in Slots : slots[s].stage \in {"idle", "check", "read", "write"}
  /\ sent \in 0..MaxRequests /\ crashes \in 0..MaxCrashes /\ expiries \in 0..MaxExpiries
  /\ Len(answers) <= sent

Init ==
  /\ \E sc \in Scenarios : commands = sc.commands /\ db = sc.db
  /\ records = [k \in Keys |-> NoRecord]
  /\ events = <<>>
  /\ slots = [s \in Slots |-> Idle]
  /\ answers = <<>>
  /\ sent = 0 /\ crashes = 0 /\ expiries = 0

-----------------------------------------------------------------------------
(* What a command locks, refuses and changes. *)

Fingerprint(c) == [f \in DOMAIN c \ {"key"} |-> c[f]]

Locks(c) ==
  IF c.kind \in ThesisKinds THEN ThesisLocks(c, db)
  ELSE IF c.kind \in WatchlistKinds THEN WatchlistLocks(c, db) ELSE DiscoveryLocks(c, db)

IsUnknown(c) == c.kind \in ThesisKinds /\ ThesisIsUnknown(c, db)

Refuses(c) ==
  IF c.kind \in ThesisKinds THEN ThesisRefuses(c, db)
  ELSE IF c.kind \in WatchlistKinds THEN WatchlistRefuses(c, db) ELSE DiscoveryRefuses(c, db)

Changed(c, seen, id) ==
  IF c.kind \in ThesisKinds THEN ThesisAfter(c, seen, db, id)
  ELSE IF c.kind \in WatchlistKinds THEN WatchlistAfter(c, seen, db, id)
  ELSE DiscoveryAfter(c, seen, db, id)

Violates(c, seen, id) == c.kind \in ThesisKinds /\ ThesisViolates(c, seen, db, id)

NewId == 10 + Len(events)

-----------------------------------------------------------------------------
(* One transaction *)

Answered(s, status, event) ==
  Append(answers, [key |-> slots[s].command.key, life |-> records[slots[s].command.key].life,
                   fingerprint |-> Fingerprint(slots[s].command), status |-> status, event |-> event])

\* A client sends a command, for the first time or again.
Receive(s, c) ==
  /\ slots[s] = Idle /\ sent < MaxRequests
  /\ slots' = [slots EXCEPT ![s] = [Idle EXCEPT !.stage = "check", !.command = c, !.need = <<<<"key", c.key>>>>]]
  /\ sent' = sent + 1
  /\ UNCHANGED <<commands, db, records, events, answers, crashes, expiries>>

IsFree(s, lock) == \A t \in Slots \ {s} : lock \notin slots[t].held

\* Advisory locks of the transaction and row locks: held until it ends.
TakeLock(s) ==
  /\ slots[s].need # <<>>
  /\ IsFree(s, Head(slots[s].need))
  /\ slots' = [slots EXCEPT ![s].held = @ \union {Head(slots[s].need)}, ![s].need = Tail(@)]
  /\ UNCHANGED <<commands, db, records, events, answers, sent, crashes, expiries>>

Ready(s, stage) == slots[s].stage = stage /\ slots[s].need = <<>>

\* A record that holds is the answer, or a conflict if it is of another request.
Replay(s) ==
  /\ Ready(s, "check")
  /\ LET r == records[slots[s].command.key]
     IN  /\ r.state = "kept"
         /\ answers' = IF r.fingerprint = Fingerprint(slots[s].command)
                       THEN Answered(s, "done", r.event) ELSE Answered(s, "conflict", 0)
  /\ slots' = [slots EXCEPT ![s] = Idle]
  /\ UNCHANGED <<commands, db, records, events, sent, crashes, expiries>>

Begin(s) ==
  /\ Ready(s, "check")
  /\ records[slots[s].command.key].state # "kept"
  /\ ~IsUnknown(slots[s].command)
  /\ slots' = [slots EXCEPT ![s].stage = "read", ![s].need = Locks(slots[s].command)]
  /\ UNCHANGED <<commands, db, records, events, answers, sent, crashes, expiries>>

\* An ApiError rolls back: nothing is recorded, and a retry is run again.
Refuse(s) ==
  /\ \/ Ready(s, "read") /\ Refuses(slots[s].command)
     \/ /\ Ready(s, "check")
        /\ records[slots[s].command.key].state # "kept" /\ IsUnknown(slots[s].command)
  /\ answers' = Answered(s, "refused", 0)
  /\ slots' = [slots EXCEPT ![s] = Idle]
  /\ UNCHANGED <<commands, db, records, events, sent, crashes, expiries>>

Read(s) ==
  /\ Ready(s, "read")
  /\ ~Refuses(slots[s].command)
  /\ slots' = [slots EXCEPT ![s].stage = "write", ![s].seen = db,
                 ![s].need = IF slots[s].command.kind \in WatchlistKinds
                             THEN RowsToWrite(slots[s].command, db) ELSE <<>>]
  /\ UNCHANGED <<commands, db, records, events, answers, sent, crashes, expiries>>

\* Mutated form: the record is left to another transaction, which may not come.
RecordLate(s) ==
  records

\* A record that expired was deleted first: it counts as none.
Record(s) ==
  [records EXCEPT ![slots[s].command.key] =
     [state |-> "kept", fingerprint |-> Fingerprint(slots[s].command),
      event |-> Len(events) + 1, life |-> @.life]]

\* The change, its event in the outbox and the record: one commit.
Commit(s) ==
  /\ Ready(s, "write")
  /\ LET c == slots[s].command
     IN  /\ ~Violates(c, slots[s].seen, NewId)
         /\ db' = Changed(c, slots[s].seen, NewId)
         /\ records' = Record(s)
         /\ events' = Append(events, [key |-> c.key, life |-> records[c.key].life])
         /\ answers' = Answered(s, "done", Len(events) + 1)
  /\ slots' = [slots EXCEPT ![s] = Idle]
  /\ UNCHANGED <<commands, sent, crashes, expiries>>

\* A constraint of the schema breaks the transaction: 500.
Break(s) ==
  /\ Ready(s, "write")
  /\ Violates(slots[s].command, slots[s].seen, NewId)
  /\ answers' = Answered(s, "error", 0)
  /\ slots' = [slots EXCEPT ![s] = Idle]
  /\ UNCHANGED <<commands, db, records, events, sent, crashes, expiries>>

-----------------------------------------------------------------------------

\* The server dies: transactions roll back, their locks go, their clients get no answer.
Crash ==
  /\ crashes < MaxCrashes
  /\ \E s \in Slots : slots[s] # Idle
  /\ slots' = [s \in Slots |-> Idle]
  /\ crashes' = crashes + 1
  /\ UNCHANGED <<commands, db, records, events, answers, sent, expiries>>

Expire(k) ==
  /\ expiries < MaxExpiries
  /\ records[k].state = "kept"
  /\ records' = [records EXCEPT ![k] = [NoRecord EXCEPT !.life = records[k].life + 1]]
  /\ expiries' = expiries + 1
  /\ UNCHANGED <<commands, db, events, slots, answers, sent, crashes>>

Step(s) == TakeLock(s) \/ Replay(s) \/ Begin(s) \/ Refuse(s) \/ Read(s) \/ Commit(s) \/ Break(s)

Next ==
  \/ \E s \in Slots : Step(s) \/ \E c \in commands : Receive(s, c)
  \/ Crash
  \/ \E k \in Keys : Expire(k)

\* Whoever holds what it needs goes on.
Fairness == \A s \in Slots : WF_vars(Step(s))
Spec == Init /\ [][Next]_vars /\ Fairness

-----------------------------------------------------------------------------
(* Properties *)

\* A command takes effect once in the life of its record (idempotencyRepository.ts:29-49),
\* however often and at the same time it is sent and whenever the server dies, and
\* once it is done every later answer to it in that life says so.
OneEffectOneAnswer ==
  /\ \A i, j \in DOMAIN events : events[i] = events[j] => i = j
  /\ \A i, j \in DOMAIN answers :
       (/\ i < j /\ answers[i].status = "done"
        /\ answers[i].key = answers[j].key /\ answers[i].life = answers[j].life
        /\ answers[i].fingerprint = answers[j].fingerprint)
       => answers[j] = answers[i]

\* The locks come before the constraints (thesisRepository.ts:34, 99): in the first life
\* of its key no request dies of a duplicate version or condition.
RefusalsAreOrderly ==
  \A i \in DOMAIN answers : answers[i].life = 1 => answers[i].status # "error"

\* Two successful changes never started from the same version of a group, a screen or the
\* universe (watchlistRepository.ts:43, discoveryStateRepository.ts:58, 84): no update is lost.
BasedOn(f) == [d \in DOMAIN f \intersect {"group", "screen", "version"} |-> f[d]]
NoLostUpdate ==
  \A i, j \in DOMAIN answers :
    (/\ answers[i].status = "done" /\ answers[j].status = "done"
     /\ answers[i].event # answers[j].event
     /\ "version" \in DOMAIN answers[i].fingerprint /\ "version" \in DOMAIN answers[j].fingerprint)
    => BasedOn(answers[i].fingerprint) # BasedOn(answers[j].fingerprint)

\* The conditions of a thesis that has a newer version never change again
\* (thesisRepository.ts:98-102), though conditions and versions are saved at the same time.
SupersededIsFrozen ==
  [][\A t \in db.theses :
       (\E u \in db.theses : u.symbol = t.symbol /\ u.version > t.version)
       => {c \in db.conditions' : c.thesis = t.id} = {c \in db.conditions : c.thesis = t.id}]_vars

\* Sending again, and sending two commands at once, change neither what is done nor
\* what is answered: one effect for a key, and no answer that is only a clash of rows.
OneAnswerPerKey == TypeOK /\ OneEffectOneAnswer /\ RefusalsAreOrderly

\* What two requests at once write to lists, screens and the universe keeps both: no
\* version is the base of two changes, and no two groups or symbols share a place
\* (watchlistRepository.ts:24, 51, 74).
ListsLoseNothing == NoLostUpdate /\ PlacesAreDistinct(db.groups)

\* Transactions that wait for each other's locks (idempotencyRepository.ts:29,
\* thesisRepository.ts:79-81, watchlistRepository.ts:76-85) all end, also two moves that
\* write the same rows in opposite orders.  (PostgreSQL would break a circle of waiting
\* transactions by failing one of them, which is no end a client should see.)
RequestsEnd == \A s \in Slots : (slots[s].stage # "idle") ~> (slots[s].stage = "idle")
=============================================================================
