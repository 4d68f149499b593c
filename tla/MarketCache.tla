----------------------------- MODULE MarketCache -----------------------------
(* Reads of market data through the cache (core/marketDataGateway.ts,            *)
(* cache/postgresMarketDataCache.ts): requests for one key of one provider, side *)
(* by side, each a sequence of awaits.                                           *)
EXTENDS Naturals

CONSTANTS
  Requests,
  TTL,           \* how long an entry stays fresh
  MaxClock,      \* bound of the clock
  None

ASSUME CacheAssumption ==
  TTL \in Nat \ {0} /\ MaxClock \in Nat /\ None \notin [data : Nat, fetchedAt : Nat]

VARIABLES
  clock,
  entry,         \* market.cache_entry: what was loaded, and when the load was asked for
  cooldown,      \* provider_state.cooldownUntil; 0 if never set
  request

cacheVars == <<clock, entry, cooldown, request>>

\* now: when it began; cached: the entry as first read; loaded: the provider's answer;
\* until: the end of the cooldown that it asked for; answer: what the client is told.
IdleRequest == [pc |-> "idle", force |-> FALSE, now |-> 0, cached |-> None, loaded |-> 0,
                until |-> 0, answer |-> None]

CacheInit ==
  /\ clock = 1 /\ entry = None /\ cooldown = 0
  /\ request = [r \in Requests |-> IdleRequest]

Goes(r, step) == request' = [request EXCEPT ![r].pc = step]

Expired(record, now) == record.fetchedAt + TTL <= now

toEnvelope(record, stale) ==
  [data |-> record.data, fetchedAt |-> record.fetchedAt, stale |-> stale, fallback |-> FALSE]

Answers(r, envelope) ==
  request' = [request EXCEPT ![r] = [@ EXCEPT !.pc = "answered", !.answer = envelope, !.loaded = 0, !.until = 0]]

\* With an error: 503 when there is nothing to fall back on, 500 otherwise.
Refuses(r) == request' = [request EXCEPT ![r] = IdleRequest]

staleOrThrow(r) ==
  LET cached == request[r].cached
  IN  IF cached = None THEN Refuses(r)
      ELSE Answers(r, [toEnvelope(cached, Expired(cached, request[r].now)) EXCEPT !.fallback = TRUE])

Tick ==
  /\ clock < MaxClock /\ clock' = clock + 1
  /\ UNCHANGED <<entry, cooldown, request>>

\* A route asks, or the user asks for a refresh.
readThrough(r, force) ==
  /\ request[r].pc = "idle"
  /\ request' = [request EXCEPT ![r] = [IdleRequest EXCEPT !.pc = "get", !.force = force, !.now = clock]]
  /\ UNCHANGED <<clock, entry, cooldown>>

Get(r) ==
  /\ request[r].pc = "get"
  /\ IF entry # None /\ ~Expired(entry, request[r].now) /\ ~request[r].force
     THEN Answers(r, toEnvelope(entry, FALSE))
     ELSE request' = [request EXCEPT ![r].pc = "cooldown", ![r].cached = entry]
  /\ UNCHANGED <<clock, entry, cooldown>>

GetCooldown(r) ==
  /\ request[r].pc = "cooldown"
  /\ IF cooldown > request[r].now THEN staleOrThrow(r) ELSE Goes(r, "load")
  /\ UNCHANGED <<clock, entry, cooldown>>

\* The provider answers with the data of the moment,
LoadAnswers(r) ==
  /\ request[r].pc = "load"
  /\ request' = [request EXCEPT ![r].pc = "put", ![r].loaded = clock]
  /\ UNCHANGED <<clock, entry, cooldown>>

\* with a limit and its end (in words that are no time, such as seconds, it makes the
\* statement that marks the cooldown fail),
LoadIsLimited(r) ==
  /\ request[r].pc = "load"
  /\ request' = [request EXCEPT ![r].pc = "mark", ![r].until = clock + 1]
  /\ UNCHANGED <<clock, entry, cooldown>>

\* or fails in any other way.
LoadFails(r) ==
  /\ request[r].pc = "load"
  /\ Goes(r, "recordError")
  /\ UNCHANGED <<clock, entry, cooldown>>

\* The mistake of stamping the entry when it is written.
LabelledNow(r) == [data |-> request[r].loaded, fetchedAt |-> clock]

Labelled(r) == [data |-> request[r].loaded, fetchedAt |-> request[r].now]

\* The mistake of an upsert without its condition.
StoredAlways(record) == record

\* A slower request does not replace what a later one has stored.
Stored(record) == IF entry = None \/ record.fetchedAt >= entry.fetchedAt THEN record ELSE entry

Put(r) ==
  /\ request[r].pc = "put"
  /\ entry' = Stored(Labelled(r))
  /\ request' = [request EXCEPT ![r].pc = "reread", ![r].loaded = 0]
  /\ UNCHANGED <<clock, cooldown>>

\* recordRefreshAttempt, whose row nothing reads, and then the entry once more.
Reread(r) ==
  /\ request[r].pc = "reread"
  /\ Answers(r, toEnvelope(entry, FALSE))
  /\ UNCHANGED <<clock, entry, cooldown>>

\* Overwritten, also by an earlier end.
MarkCooldown(r) ==
  /\ request[r].pc = "mark"
  /\ cooldown' = request[r].until
  /\ request' = [request EXCEPT ![r].pc = "recordError", ![r].until = 0]
  /\ UNCHANGED <<clock, entry>>

RecordError(r) ==
  /\ request[r].pc = "recordError"
  /\ staleOrThrow(r)
  /\ UNCHANGED <<clock, entry, cooldown>>

\* A statement that fails inside the try is an error like the provider's; outside it,
\* and in the handler itself, it fails the request.
StatementFails(r) ==
  /\ \/ request[r].pc \in {"put", "reread"}
        /\ request' = [request EXCEPT ![r].pc = "recordError", ![r].loaded = 0]
     \/ request[r].pc \in {"get", "cooldown", "mark", "recordError"} /\ Refuses(r)
  /\ UNCHANGED <<clock, entry, cooldown>>

Deliver(r) ==
  /\ request[r].pc = "answered"
  /\ request' = [request EXCEPT ![r] = IdleRequest]
  /\ UNCHANGED <<clock, entry, cooldown>>

ReadStep(r) ==
  \/ Get(r) \/ GetCooldown(r) \/ LoadAnswers(r) \/ LoadFails(r)
  \/ LoadIsLimited(r) \/ Put(r) \/ Reread(r) \/ MarkCooldown(r) \/ RecordError(r)
  \/ StatementFails(r) \/ Deliver(r)

-----------------------------------------------------------------------------
\* What an answer says of itself is true, whatever other requests stored in between:
\* its data is no older than fetchedAt, it is called stale exactly when it had expired,
\* a forced refresh that is not called a fallback was loaded after it was asked for,
\* and no answer is older than what the request itself found (readThrough).
AnswersAreHonest ==
  \A r \in Requests :
    LET q == request[r]
        a == q.answer
    IN  q.pc = "answered" =>
          /\ a.data >= a.fetchedAt
          /\ a.stale <=> Expired(a, q.now)
          /\ a.stale => a.fallback
          /\ q.force /\ ~a.fallback => a.fetchedAt >= q.now
          /\ q.cached # None => a.fetchedAt >= q.cached.fetchedAt

\* The entry never goes back to an earlier load (put).
EntryMovesForward == entry # None => entry' # None /\ entry'.fetchedAt >= entry.fetchedAt
=============================================================================
