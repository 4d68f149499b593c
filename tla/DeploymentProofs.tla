--------------------------- MODULE DeploymentProofs ---------------------------
(* The parts of a running system, for every number of requests, sockets,          *)
(* previews, tabs, endpoints and processes: the market cache under the API         *)
(* process, the worker with its stream, the migrations, the push settings, the     *)
(* order ticket and the performance tab. Each part has an invariant of its own,    *)
(* kept by its own steps.                                                          *)
EXTENDS Deployment, SequenceTheorems, FiniteSetTheorems, TLAPS

-----------------------------------------------------------------------------
(* The part that moves, and those that stand still.                         *)

LEMMA OnePartMoves ==
    ASSUME [Next]_vars
    PROVE  /\ ApiNext \/ UNCHANGED apiVars
           /\ WorkerNext \/ UNCHANGED workerVars
           /\ TicketNext \/ UNCHANGED ticketVars
           /\ ViewNext \/ UNCHANGED viewVars
           /\ SettingsNext \/ UNCHANGED settingsVars
           /\ SchemaNext \/ UNCHANGED schemaVars
BY DEF Next, vars

-----------------------------------------------------------------------------
(* The market cache.                                                        *)

Records == [data : Nat, fetchedAt : Nat]
Envelopes == [data : Nat, fetchedAt : Nat, stale : BOOLEAN, fallback : BOOLEAN]

ReadSteps == {"idle", "get", "cooldown", "load", "put", "reread", "mark", "recordError", "answered"}

RequestState ==
    [pc : ReadSteps, force : BOOLEAN, now : Nat, cached : Records \cup {None}, loaded : Nat,
     until : Nat, answer : Envelopes \cup {None}]

\* An entry, if there is one, is labelled with a time before its data was loaded.
LabelledRight(record) == record # None => record.data >= record.fetchedAt

Honest(q) ==
    /\ q.answer \in Envelopes
    /\ q.answer.data >= q.answer.fetchedAt
    /\ q.answer.stale <=> Expired(q.answer, q.now)
    /\ q.answer.stale => q.answer.fallback
    /\ q.force /\ ~q.answer.fallback => q.answer.fetchedAt >= q.now
    /\ q.cached # None => q.answer.fetchedAt >= q.cached.fetchedAt

\* What a request knows, at a time and with an entry: when it began, what it found
\* first, which the entry has only moved on from, and what it has stored since.
RequestOK(q, time, found) ==
    /\ q \in RequestState
    /\ q.now <= time
    /\ LabelledRight(q.cached)
    /\ q.cached # None => found # None /\ q.cached.fetchedAt <= found.fetchedAt
    /\ q.pc = "get" => q.cached = None
    /\ q.pc = "put" => q.now <= q.loaded
    /\ q.pc = "reread" => found # None /\ q.now <= found.fetchedAt
    /\ q.pc = "answered" => Honest(q)

CacheInvariant ==
    /\ clock \in Nat /\ cooldown \in Nat /\ entry \in Records \cup {None}
    /\ LabelledRight(entry)
    /\ request = [r \in Requests |-> request[r]]
    /\ \A r \in Requests : RequestOK(request[r], clock, entry)

LEMMA IdleRequestOK ==
    ASSUME NEW time \in Nat, NEW found
    PROVE  RequestOK(IdleRequest, time, found)
BY DEF RequestOK, IdleRequest, RequestState, ReadSteps, LabelledRight

\* Time and the entry move on, and a request that waits still knows the truth.
LEMMA RequestStays ==
    ASSUME NEW q, NEW time \in Nat, NEW later \in Nat, time <= later,
           NEW found \in Records \cup {None}, NEW next \in Records \cup {None},
           found # None => next # None /\ found.fetchedAt <= next.fetchedAt,
           RequestOK(q, time, found)
    PROVE  RequestOK(q, later, next)
<1>1. q.now \in Nat /\ (q.cached # None => q.cached \in Records)
    BY DEF RequestOK, RequestState
<1>2. found # None => found \in Records /\ next \in Records
    OBVIOUS
<1> QED BY <1>1, <1>2 DEF RequestOK, Records

\* The steps of one request.
LEMMA FallbackEnvelope ==
    ASSUME NEW record \in Records, NEW stale \in BOOLEAN
    PROVE  LET e == [toEnvelope(record, stale) EXCEPT !.fallback = TRUE]
           IN  /\ e \in Envelopes /\ e.data = record.data /\ e.fetchedAt = record.fetchedAt
               /\ (e.stale <=> stale) /\ e.fallback
<1>1. CASE stale
    BY <1>1 DEF toEnvelope, Envelopes, Records
<1>2. CASE ~stale
    BY <1>2 DEF toEnvelope, Envelopes, Records
<1> QED BY <1>1, <1>2

LEMMA RequestMoves ==
    ASSUME CacheInvariant, NEW r \in Requests, ReadStep(r)
    PROVE  /\ clock' = clock /\ cooldown' \in Nat
           /\ entry' \in Records \cup {None} /\ LabelledRight(entry')
           /\ EntryMovesForward
           /\ \E q : request' = [request EXCEPT ![r] = q] /\ RequestOK(q, clock, entry')
<1> DEFINE q == request[r]
<1>0. q \in RequestState /\ RequestOK(q, clock, entry) /\ clock \in Nat
    BY DEF CacheInvariant, RequestOK
<1>21. TTL \in Nat /\ TTL > 0 /\ None \notin Records
    BY CacheAssumption DEF Records
<1>20. entry' = entry => EntryMovesForward
    BY DEF EntryMovesForward, CacheInvariant, Records
<1> SUFFICES /\ clock' = clock /\ cooldown' \in Nat
             /\ entry' \in Records \cup {None} /\ LabelledRight(entry') /\ EntryMovesForward
             /\ \E p : request' = [request EXCEPT ![r] = p] /\ RequestOK(p, clock, entry')
    OBVIOUS
<1>1. ASSUME UNCHANGED <<clock, entry>>, cooldown' \in Nat,
             NEW p, request' = [request EXCEPT ![r] = p], RequestOK(p, clock, entry)
      PROVE  /\ clock' = clock /\ cooldown' \in Nat
             /\ entry' \in Records \cup {None} /\ LabelledRight(entry') /\ EntryMovesForward
             /\ \E x : request' = [request EXCEPT ![r] = x] /\ RequestOK(x, clock, entry')
    BY <1>1, <1>20 DEF CacheInvariant, EntryMovesForward
<1>2. cooldown \in Nat
    BY DEF CacheInvariant
<1>3. RequestOK(IdleRequest, clock, entry)
    BY <1>0, IdleRequestOK
<1>4. ASSUME NEW envelope \in Envelopes,
             Honest([q EXCEPT !.pc = "answered", !.answer = envelope, !.loaded = 0, !.until = 0])
      PROVE  RequestOK([q EXCEPT !.pc = "answered", !.answer = envelope, !.loaded = 0, !.until = 0],
                       clock, entry)
    BY <1>0, <1>4 DEF RequestOK, RequestState, ReadSteps
<1>5. ASSUME staleOrThrow(r), UNCHANGED <<clock, entry, cooldown>>
      PROVE  \E p : request' = [request EXCEPT ![r] = p] /\ RequestOK(p, clock, entry)
    <2>1. CASE q.cached = None
        BY <1>3, <1>5, <2>1 DEF staleOrThrow, Refuses
    <2>2. CASE q.cached # None
        <3> DEFINE e == [toEnvelope(q.cached, Expired(q.cached, q.now)) EXCEPT !.fallback = TRUE]
                   p == [q EXCEPT !.pc = "answered", !.answer = e, !.loaded = 0, !.until = 0]
        <3>1. q.cached \in Records /\ q.cached.data >= q.cached.fetchedAt /\ q.now \in Nat
            BY <1>0, <2>2 DEF RequestOK, RequestState, LabelledRight
        <3>2. Expired(q.cached, q.now) \in BOOLEAN
            BY DEF Expired
        <3>3. request' = [request EXCEPT ![r] = p]
            BY <1>5, <2>2 DEF staleOrThrow, Answers
        <3>4. e \in Envelopes /\ e.data = q.cached.data /\ e.fetchedAt = q.cached.fetchedAt
              /\ (e.stale <=> Expired(q.cached, q.now)) /\ e.fallback
            BY <3>1, <3>2, FallbackEnvelope
        <3> HIDE DEF e
        <3>5. p.answer = e /\ p.now = q.now /\ p.cached = q.cached /\ p.force = q.force
            BY <1>0 DEF RequestState
        <3>6. Honest(p)
            BY <3>1, <3>4, <3>5 DEF Honest, Expired, Records
        <3>7. RequestOK(p, clock, entry)
            BY <1>4, <3>4, <3>6
        <3> QED BY <3>3, <3>7
    <2> QED BY <2>1, <2>2
<1>6. ASSUME NEW step \in ReadSteps \ {"put", "reread", "answered", "get"},
             NEW l \in Nat, NEW u \in Nat
      PROVE  RequestOK([q EXCEPT !.pc = step, !.loaded = l, !.until = u], clock, entry)
    BY <1>0 DEF RequestOK, RequestState, ReadSteps
<1>7. CASE Get(r)
    <2>1. q.pc = "get" /\ UNCHANGED <<clock, entry, cooldown>>
        BY <1>7 DEF Get
    <2>2. CASE entry # None /\ ~Expired(entry, q.now) /\ ~q.force
        <3> DEFINE e == toEnvelope(entry, FALSE)
                   p == [q EXCEPT !.pc = "answered", !.answer = e, !.loaded = 0, !.until = 0]
        <3>1. entry \in Records /\ entry.data >= entry.fetchedAt /\ q.cached = None
            BY <1>0, <2>1, <2>2 DEF CacheInvariant, RequestOK, LabelledRight
        <3>2. e \in Envelopes /\ e.data = entry.data /\ e.fetchedAt = entry.fetchedAt
              /\ e.stale = FALSE /\ e.fallback = FALSE
            BY <3>1 DEF toEnvelope, Envelopes, Records
        <3>3. request' = [request EXCEPT ![r] = p]
            BY <1>7, <2>2 DEF Get, Answers
        <3> HIDE DEF e
        <3>4. p.answer = e /\ p.now = q.now /\ p.cached = q.cached /\ p.force = q.force
            BY <1>0 DEF RequestState
        <3>5. Honest(p)
            BY <2>2, <3>1, <3>2, <3>4 DEF Honest, Expired
        <3> QED BY <1>1, <1>2, <1>4, <2>1, <3>2, <3>3, <3>5
    <2>3. CASE ~(entry # None /\ ~Expired(entry, q.now) /\ ~q.force)
        <3>1. request' = [request EXCEPT ![r] = [q EXCEPT !.pc = "cooldown", !.cached = entry]]
            BY <1>7, <2>3 DEF Get, CacheInvariant
        <3> DEFINE p == [q EXCEPT !.pc = "cooldown", !.cached = entry]
        <3>2. /\ p \in RequestState /\ p.pc = "cooldown" /\ p.now = q.now /\ p.cached = entry
            BY <1>0 DEF RequestState, ReadSteps, CacheInvariant
        <3>3. q.now <= clock /\ LabelledRight(entry) /\ (entry # None => entry.fetchedAt \in Nat)
            BY <1>0 DEF RequestOK, CacheInvariant, Records
        <3> HIDE DEF p
        <3>4. RequestOK(p, clock, entry)
            BY <3>2, <3>3 DEF RequestOK
        <3> QED BY <1>1, <1>2, <2>1, <3>1, <3>4 DEF p
    <2> QED BY <2>2, <2>3
<1>8. \A step : Goes(r, step) => request' = [request EXCEPT ![r] = [q EXCEPT !.pc = step]]
    BY DEF Goes, CacheInvariant
<1>9. \A step \in ReadSteps \ {"put", "reread", "answered", "get"} :
          RequestOK([q EXCEPT !.pc = step], clock, entry)
    BY <1>0 DEF RequestOK, RequestState, ReadSteps
<1>10. CASE GetCooldown(r)
    <2>1. UNCHANGED <<clock, entry, cooldown>>
        BY <1>10 DEF GetCooldown
    <2>2. CASE staleOrThrow(r)
        BY <1>1, <1>2, <1>5, <2>1, <2>2
    <2>3. CASE Goes(r, "load")
        BY <1>1, <1>2, <1>8, <1>9, <2>1, <2>3 DEF ReadSteps
    <2> QED BY <1>10, <2>2, <2>3 DEF GetCooldown
<1>11. CASE LoadAnswers(r)
    <2>1. /\ UNCHANGED <<clock, entry, cooldown>>
          /\ request' = [request EXCEPT ![r] = [q EXCEPT !.pc = "put", !.loaded = clock]]
        BY <1>11 DEF LoadAnswers, CacheInvariant
    <2>2. RequestOK([q EXCEPT !.pc = "put", !.loaded = clock], clock, entry)
        BY <1>0 DEF RequestOK, RequestState, ReadSteps
    <2> QED BY <1>1, <1>2, <2>1, <2>2
<1>12. CASE LoadIsLimited(r)
    <2>1. /\ UNCHANGED <<clock, entry, cooldown>>
          /\ request' = [request EXCEPT ![r] = [q EXCEPT !.pc = "mark", !.until = clock + 1]]
        BY <1>12 DEF LoadIsLimited, CacheInvariant
    <2> DEFINE p == [q EXCEPT !.pc = "mark", !.until = clock + 1]
    <2>2. clock + 1 \in Nat
        BY <1>0
    <2>3. p \in RequestState /\ p.pc = "mark" /\ p.now = q.now /\ p.cached = q.cached
        BY <1>0, <2>2 DEF RequestState, ReadSteps
    <2> HIDE DEF p
    <2>4. RequestOK(p, clock, entry)
        BY <1>0, <2>3 DEF RequestOK
    <2> QED BY <1>1, <1>2, <2>1, <2>4 DEF p
<1>13. CASE LoadFails(r)
    BY <1>1, <1>2, <1>8, <1>9, <1>13 DEF LoadFails, ReadSteps
<1>14. CASE Put(r)
    <2> DEFINE p == [q EXCEPT !.pc = "reread", !.loaded = 0]
    <2>1. /\ UNCHANGED <<clock, cooldown>> /\ q.pc = "put"
          /\ entry' = Stored(Labelled(r))
          /\ request' = [request EXCEPT ![r] = p]
        BY <1>14 DEF Put, CacheInvariant
    <2>2. q.now \in Nat /\ q.loaded \in Nat /\ q.now <= q.loaded
        BY <1>0, <2>1 DEF RequestOK, RequestState
    <2>3. Labelled(r) \in Records /\ Labelled(r).fetchedAt = q.now /\ Labelled(r).data = q.loaded
        BY <2>2 DEF Labelled, Records
    <2>4. entry # None => entry \in Records
        BY DEF CacheInvariant
    <2>5. /\ entry' \in Records /\ entry' # None /\ q.now <= entry'.fetchedAt
          /\ entry # None => entry.fetchedAt <= entry'.fetchedAt
          /\ entry'.data >= entry'.fetchedAt
        <3>1. CASE entry = None \/ q.now >= entry.fetchedAt
            <4>1. entry' = Labelled(r)
                BY <2>1, <2>3, <3>1 DEF Stored
            <4> QED BY <1>21, <2>2, <2>3, <2>4, <3>1, <4>1 DEF Records
        <3>2. CASE ~(entry = None \/ q.now >= entry.fetchedAt)
            <4>1. entry' = entry
                BY <2>1, <2>3, <3>2 DEF Stored
            <4>2. entry \in Records /\ entry.fetchedAt \in Nat /\ entry.data >= entry.fetchedAt
                BY <2>4, <3>2 DEF Records, CacheInvariant, LabelledRight
            <4> QED BY <2>2, <3>2, <4>1, <4>2
        <3> QED BY <3>1, <3>2
    <2>6. RequestOK(q, clock, entry')
        BY <1>0, <2>4, <2>5, RequestStays DEF CacheInvariant
    <2>7. RequestOK(p, clock, entry')
        BY <2>5, <2>6 DEF RequestOK, RequestState, ReadSteps
    <2>8. EntryMovesForward /\ LabelledRight(entry')
        BY <2>4, <2>5 DEF EntryMovesForward, LabelledRight, Records
    <2> QED BY <1>2, <2>1, <2>5, <2>7, <2>8
<1>15. CASE Reread(r)
    <2> DEFINE e == toEnvelope(entry, FALSE)
               p == [q EXCEPT !.pc = "answered", !.answer = e, !.loaded = 0, !.until = 0]
    <2>1. UNCHANGED <<clock, entry, cooldown>> /\ q.pc = "reread" /\ request' = [request EXCEPT ![r] = p]
        BY <1>15 DEF Reread, Answers
    <2>2. /\ entry \in Records /\ entry.data >= entry.fetchedAt /\ q.now <= entry.fetchedAt
          /\ q.cached # None => q.cached.fetchedAt <= entry.fetchedAt
          /\ q.now \in Nat /\ (q.cached # None => q.cached.fetchedAt \in Nat)
        BY <1>0, <2>1 DEF RequestOK, CacheInvariant, LabelledRight, RequestState, Records
    <2>3. e \in Envelopes /\ e.data = entry.data /\ e.fetchedAt = entry.fetchedAt
          /\ e.stale = FALSE /\ e.fallback = FALSE
        BY <2>2 DEF toEnvelope, Envelopes, Records
    <2> HIDE DEF e
    <2>4. p.answer = e /\ p.now = q.now /\ p.cached = q.cached /\ p.force = q.force
        BY <1>0 DEF RequestState
    <2>5. Honest(p)
        BY <1>21, <2>2, <2>3, <2>4 DEF Honest, Expired, Records
    <2> QED BY <1>1, <1>2, <1>4, <2>1, <2>3, <2>5
<1>16. CASE MarkCooldown(r)
    <2>1. /\ UNCHANGED <<clock, entry>> /\ cooldown' = q.until
          /\ request' = [request EXCEPT ![r] = [q EXCEPT !.pc = "recordError", !.until = 0]]
        BY <1>16 DEF MarkCooldown, CacheInvariant
    <2>2. RequestOK([q EXCEPT !.pc = "recordError", !.until = 0], clock, entry) /\ q.until \in Nat
        BY <1>0 DEF RequestOK, RequestState, ReadSteps
    <2> QED BY <1>1, <2>1, <2>2
<1>17. CASE RecordError(r)
    BY <1>1, <1>2, <1>5, <1>17 DEF RecordError
<1>18. CASE StatementFails(r)
    <2>1. UNCHANGED <<clock, entry, cooldown>>
        BY <1>18 DEF StatementFails
    <2>2. CASE request' = [request EXCEPT ![r].pc = "recordError", ![r].loaded = 0]
        <3>1. request' = [request EXCEPT ![r] = [q EXCEPT !.pc = "recordError", !.loaded = 0]]
            BY <2>2 DEF CacheInvariant
        <3>2. RequestOK([q EXCEPT !.pc = "recordError", !.loaded = 0], clock, entry)
            BY <1>0 DEF RequestOK, RequestState, ReadSteps
        <3> QED BY <1>1, <1>2, <2>1, <3>1, <3>2
    <2>3. CASE Refuses(r)
        BY <1>1, <1>2, <1>3, <2>1, <2>3 DEF Refuses
    <2> QED BY <1>18, <2>2, <2>3 DEF StatementFails
<1>19. CASE Deliver(r)
    BY <1>1, <1>2, <1>3, <1>19 DEF Deliver
<1> QED BY <1>7, <1>10, <1>11, <1>12, <1>13, <1>14, <1>15, <1>16, <1>17, <1>18, <1>19 DEF ReadStep

-----------------------------------------------------------------------------
(* The API process: what its shutdown has waited for does not come back.    *)

ApiStages == {"up", "publisher", "drain", "queue", "redis", "database", "closed", "gone"}

ApiInvariant ==
    /\ CacheInvariant
    /\ apiLife \in ApiStages
    /\ publisher \in [timer : BOOLEAN, active : BOOLEAN]
    /\ apiLife # "up" => ~publisher.timer
    /\ apiLife \notin {"up", "publisher"} => ~publisher.active
    /\ apiLife \notin {"up", "publisher", "drain"} => Drained
    /\ ~apiDatabase => apiLife \in {"closed", "gone"}

LEMMA ApiStartsRight ==
    ApiInit => ApiInvariant
<1>1. SUFFICES ASSUME ApiInit PROVE ApiInvariant
    OBVIOUS
<1>2. CacheInvariant
    <2>1. \A r \in Requests : RequestOK(request[r], clock, entry)
        BY <1>1, IdleRequestOK DEF ApiInit, CacheInit
    <2> QED BY <1>1, <2>1 DEF ApiInit, CacheInit, CacheInvariant, LabelledRight
<1> QED BY <1>1, <1>2 DEF ApiInit, ApiInvariant, ApiStages

\* When one request moves the others stay right.
LEMMA OneRequestMoves ==
    ASSUME CacheInvariant, NEW r \in Requests, NEW q,
           clock' = clock, cooldown' \in Nat,
           entry' \in Records \cup {None}, LabelledRight(entry'), EntryMovesForward,
           request' = [request EXCEPT ![r] = q], RequestOK(q, clock, entry')
    PROVE  CacheInvariant'
<1>1. entry # None => entry' # None /\ entry.fetchedAt <= entry'.fetchedAt
    <2>1. entry # None => entry.fetchedAt \in Nat
        BY DEF CacheInvariant, Records
    <2>2. entry' # None => entry'.fetchedAt \in Nat
        BY DEF Records
    <2> QED BY <2>1, <2>2 DEF EntryMovesForward
<1>2. \A s \in Requests : RequestOK(request[s], clock, entry')
    BY <1>1, RequestStays DEF CacheInvariant
<1>3. \A s \in Requests : request'[s] = IF s = r THEN q ELSE request[s]
    BY DEF CacheInvariant
<1>4. request' = [s \in Requests |-> request'[s]]
    BY DEF CacheInvariant
<1>5. \A s \in Requests : RequestOK(request'[s], clock', entry')
    BY <1>2, <1>3
<1> QED BY <1>4, <1>5 DEF CacheInvariant

LEMMA ReadStepKeeps ==
    ASSUME CacheInvariant, NEW r \in Requests, ReadStep(r)
    PROVE  CacheInvariant' /\ EntryMovesForward /\ request[r].pc # "idle"
<1>1. request[r].pc # "idle"
    BY DEF ReadStep, Get, GetCooldown, LoadAnswers, LoadFails, LoadIsLimited, Put, Reread,
           MarkCooldown, RecordError, StatementFails, Deliver
<1> QED BY <1>1, RequestMoves, OneRequestMoves

LEMMA AcceptKeeps ==
    ASSUME CacheInvariant, NEW r \in Requests, NEW force \in BOOLEAN, readThrough(r, force)
    PROVE  CacheInvariant' /\ EntryMovesForward
<1> DEFINE q == [IdleRequest EXCEPT !.pc = "get", !.force = force, !.now = clock]
<1>1. clock \in Nat /\ cooldown \in Nat /\ LabelledRight(entry) /\ entry \in Records \cup {None}
    BY DEF CacheInvariant
<1>2. RequestOK(q, clock, entry)
    <2>1. q \in RequestState /\ q.pc = "get" /\ q.now = clock /\ q.cached = None
        BY <1>1 DEF IdleRequest, RequestState, ReadSteps
    <2> HIDE DEF q
    <2> QED BY <1>1, <2>1 DEF RequestOK, LabelledRight
<1>3. EntryMovesForward
    BY <1>1 DEF EntryMovesForward, readThrough, Records
<1>4. request' = [request EXCEPT ![r] = q] /\ UNCHANGED <<clock, entry, cooldown>>
    BY DEF readThrough
<1>5. LabelledRight(entry')
    BY <1>1, <1>4
<1> HIDE DEF q
<1>6. CacheInvariant'
    BY <1>1, <1>2, <1>3, <1>4, <1>5, OneRequestMoves
<1> QED BY <1>3, <1>6

LEMMA GoneKeeps ==
    ASSUME ApiInvariant, Gone
    PROVE  ApiInvariant' /\ EntryMovesForward
<1>1. clock \in Nat /\ cooldown \in Nat /\ LabelledRight(entry) /\ entry \in Records \cup {None}
    BY DEF ApiInvariant, CacheInvariant
<1>2. EntryMovesForward
    BY <1>1 DEF EntryMovesForward, Gone, Records
<1>3. \A r \in Requests : RequestOK(IdleRequest, clock, entry)
    BY <1>1, IdleRequestOK
<1>4. CacheInvariant'
    <2>1. request' = [r \in Requests |-> request'[r]] /\ \A r \in Requests : request'[r] = IdleRequest
        BY DEF Gone
    <2>2. UNCHANGED <<clock, entry, cooldown>>
        BY DEF Gone
    <2>3. \A r \in Requests : RequestOK(request'[r], clock', entry')
        BY <1>3, <2>1, <2>2
    <2>4. LabelledRight(entry')
        BY <1>1, <2>2
    <2> QED BY <1>1, <2>1, <2>2, <2>3, <2>4 DEF CacheInvariant
<1>5. Drained'
    BY DEF Drained, Gone, IdleRequest
<1> QED BY <1>2, <1>4, <1>5 DEF ApiInvariant, Gone, ApiStages

LEMMA ApiKeeps ==
    ASSUME ApiInvariant, ApiNext \/ UNCHANGED apiVars
    PROVE  ApiInvariant' /\ EntryMovesForward
<1>1. UNCHANGED entry => EntryMovesForward
    BY DEF EntryMovesForward, ApiInvariant, CacheInvariant, Records
<1>2. UNCHANGED cacheVars => CacheInvariant' /\ Drained' = Drained /\ EntryMovesForward
    <2>1. SUFFICES ASSUME UNCHANGED cacheVars PROVE CacheInvariant' /\ Drained' = Drained
        BY <1>1 DEF cacheVars
    <2>2. UNCHANGED <<clock, entry, cooldown, request>>
        BY <2>1 DEF cacheVars
    <2>3. CacheInvariant' = CacheInvariant
        BY <2>2 DEF CacheInvariant, LabelledRight, RequestOK, Honest, Expired
    <2> QED BY <2>2, <2>3 DEF ApiInvariant, Drained
<1>3. CASE UNCHANGED apiVars
    BY <1>2, <1>3 DEF apiVars, ApiInvariant
<1>4. CASE Tick /\ UNCHANGED <<apiLife, publisher, apiDatabase>>
    <2>1. /\ clock \in Nat /\ clock' = clock + 1 /\ UNCHANGED <<entry, cooldown, request>>
          /\ clock' \in Nat /\ clock <= clock'
        BY <1>4 DEF Tick, ApiInvariant, CacheInvariant
    <2>2. entry # None => entry.fetchedAt <= entry.fetchedAt
        BY DEF ApiInvariant, CacheInvariant, Records
    <2>3. \A r \in Requests : RequestOK(request[r], clock', entry)
        BY <2>1, <2>2, RequestStays DEF ApiInvariant, CacheInvariant
    <2>4. LabelledRight(entry')
        BY <2>1 DEF ApiInvariant, CacheInvariant
    <2>5. \A r \in Requests : RequestOK(request'[r], clock', entry')
        BY <2>1, <2>3
    <2>6. CacheInvariant'
        BY <2>1, <2>4, <2>5 DEF ApiInvariant, CacheInvariant
    <2>7. Drained' = Drained
        BY <2>1 DEF Drained
    <2> QED BY <1>1, <1>4, <2>1, <2>6, <2>7 DEF ApiInvariant
<1>5. ASSUME NEW r \in Requests, Serve(r)
      PROVE  ApiInvariant' /\ EntryMovesForward
    <2>1. CacheInvariant' /\ EntryMovesForward /\ request[r].pc # "idle"
        BY <1>5, ReadStepKeeps DEF Serve, ApiInvariant
    <2>2. ~Drained
        BY <2>1 DEF Drained
    <2> QED BY <1>5, <2>1, <2>2 DEF Serve, ApiInvariant
<1>6. ASSUME NEW r \in Requests, NEW force \in BOOLEAN, Accept(r, force)
      PROVE  ApiInvariant' /\ EntryMovesForward
    <2>1. CacheInvariant' /\ EntryMovesForward
        BY <1>6, AcceptKeeps DEF Accept, ApiInvariant
    <2> QED BY <1>6, <2>1 DEF Accept, ApiInvariant
<1>7. CASE PublishStarts \/ PublishEnds
    BY <1>2, <1>7 DEF PublishStarts, PublishEnds, ApiInvariant
<1>8. CASE PublishFails
    <2>1. CASE Gone
        BY <2>1, GoneKeeps
    <2>2. CASE publisher' = [publisher EXCEPT !.active = FALSE] /\ UNCHANGED <<cacheVars, apiLife, apiDatabase>>
        BY <1>2, <2>2 DEF ApiInvariant
    <2> QED BY <1>8, <2>1, <2>2 DEF PublishFails
<1>9. CASE Shutdown
    BY <1>2, <1>9 DEF Shutdown, ApiInvariant, ApiStages
<1>10. CASE StopPublisher \/ DrainRequests \/ CloseQueue \/ CloseRedis \/ CloseDatabase
    BY <1>2, <1>10 DEF StopPublisher, DrainRequests, CloseQueue, CloseRedis, CloseDatabase, Waits,
                       ApiInvariant, ApiStages
<1>11. CASE ApiDies
    BY <1>11, GoneKeeps DEF ApiDies
<1>12. CASE ApiRestarts
    BY <1>2, <1>12 DEF ApiRestarts, ApiInvariant, ApiStages
<1> QED BY <1>3, <1>4, <1>5, <1>6, <1>7, <1>8, <1>9, <1>10, <1>11, <1>12 DEF ApiNext

LEMMA ApiIsRight ==
    ApiInvariant => AnswersAreHonest /\ ApiClosesDatabaseLast
<1>1. ApiInvariant => AnswersAreHonest
    BY DEF ApiInvariant, CacheInvariant, RequestOK, Honest, AnswersAreHonest
<1>2. ApiInvariant => ApiClosesDatabaseLast
    BY DEF ApiInvariant, Drained, ApiClosesDatabaseLast
<1> QED BY <1>1, <1>2

-----------------------------------------------------------------------------
(* The stream of the worker.                                                *)

\* StreamIsKept, socket by socket.
StreamInvariant ==
    /\ stopping = "no" =>
         IF reconnectTimer THEN current = NoConn /\ \A c \in Conns : sockets[c] = "none"
         ELSE current \in Conns /\ \A c \in Conns : sockets[c] # "none" <=> c = current
    /\ stopping # "no" => ~reconnectTimer /\ ~streamHealthy /\ current = NoConn
                          /\ \A c \in Conns : sockets[c] \in {"none", "closing"}
    /\ \A c, d \in Conns : sockets[c] # "none" /\ sockets[d] # "none" => c = d

StreamTypes ==
    /\ sockets \in [Conns -> {"none", "connecting", "open", "closing"}]
    /\ current \in Conns \cup {NoConn}
    /\ stopping \in {"no", "waits", "stopped"}
    /\ reconnectTimer \in BOOLEAN /\ streamHealthy \in BOOLEAN

LEMMA StreamIsKeptBySockets ==
    StreamInvariant => StreamIsKept
<1> SUFFICES ASSUME StreamInvariant PROVE StreamIsKept
    OBVIOUS
<1>1. stopping = "no" => IF reconnectTimer THEN Live = {} /\ current = NoConn ELSE Live = {current}
    BY DEF StreamInvariant, Live
<1>2. stopping # "no" => ~reconnectTimer /\ ~streamHealthy /\ current = NoConn
                         /\ \A c \in Live : sockets[c] = "closing"
    BY DEF StreamInvariant, Live
<1>3. Cardinality(Live) <= 1
    <2>1. CASE Live = {}
        BY <2>1, FS_EmptySet
    <2>2. CASE Live # {}
        <3>1. PICK c \in Live : TRUE
            BY <2>2
        <3>2. Live = {c}
            BY <3>1 DEF StreamInvariant, Live
        <3> QED BY <3>2, FS_Singleton
    <2> QED BY <2>1, <2>2
<1> QED BY <1>1, <1>2, <1>3 DEF StreamIsKept

\* A new socket where there was none.
LEMMA ConnectKeeps ==
    ASSUME StreamTypes, NEW c \in Conns, connect(c), \A d \in Conns : sockets[d] = "none",
           reconnectTimer' = FALSE
    PROVE  StreamTypes' /\ StreamInvariant'
BY DEF StreamTypes, connect, StreamInvariant

\* The steps that move neither a socket nor a timer, and report no health once stopped.
LEMMA ReportsKeeps ==
    ASSUME StreamTypes, StreamInvariant, UNCHANGED <<sockets, current, reconnectTimer, stopping>>,
           streamHealthy' \in BOOLEAN, stopping # "no" => streamHealthy' \in {FALSE, streamHealthy}
    PROVE  StreamTypes' /\ StreamInvariant'
<1>1. StreamTypes'
    BY DEF StreamTypes
<1>2. stopping # "no" => ~streamHealthy'
    BY DEF StreamInvariant
<1>3. StreamInvariant'
    BY <1>2 DEF StreamInvariant
<1> QED BY <1>1, <1>3

LEMMA ReportsIsQuiet ==
    ASSUME StreamTypes, NEW healthy \in BOOLEAN, Reports(healthy)
    PROVE  streamHealthy' \in BOOLEAN /\ (stopping # "no" => streamHealthy' \in {FALSE, streamHealthy})
BY DEF StreamTypes, Reports

LEMMA StreamStepKeeps ==
    ASSUME StreamTypes, StreamInvariant, StreamStep
    PROVE  StreamTypes' /\ StreamInvariant'
<1>1. CASE TimerFires
    <2>1. reconnectTimer /\ reconnectTimer' = FALSE
        BY <1>1 DEF TimerFires
    <2>2. PICK c \in Conns : connect(c)
        BY <1>1 DEF TimerFires
    <2>3. \A d \in Conns : sockets[d] = "none"
        BY <2>1, <2>2 DEF StreamInvariant, connect
    <2> QED BY <2>1, <2>2, <2>3, ConnectKeeps
<1>2. CASE ForceTimer
    BY <1>2 DEF ForceTimer, StreamTypes, StreamInvariant
<1>3. ASSUME NEW c \in Conns, Opens(c)
      PROVE  StreamTypes' /\ StreamInvariant'
    BY <1>3 DEF Opens, StreamTypes, StreamInvariant
<1>4. ASSUME NEW c \in Conns, NEW next, NEW healthy \in BOOLEAN, Granted(c, next, healthy)
      PROVE  StreamTypes' /\ StreamInvariant'
    <2>1. UNCHANGED <<sockets, current, reconnectTimer, stopping>> /\ Reports(healthy)
        BY <1>4 DEF Granted
    <2> QED BY <2>1, ReportsIsQuiet, ReportsKeeps
<1>5. ASSUME NEW c \in Conns, Authorization(c) \/ Listening(c) \/ Unknown(c)
      PROVE  StreamTypes' /\ StreamInvariant'
    BY <1>4, <1>5 DEF Authorization, Listening, Unknown
<1>6. ASSUME NEW c \in Conns, SocketErrs(c)
      PROVE  StreamTypes' /\ StreamInvariant'
    BY <1>6, ReportsKeeps DEF SocketErrs
<1>7. ASSUME NEW c \in Conns, SocketCloses(c)
      PROVE  StreamTypes' /\ StreamInvariant'
    <2>1. /\ sockets[c] # "none" /\ sockets' = [sockets EXCEPT ![c] = "none"]
          /\ current' = IF current = c THEN NoConn ELSE current
          /\ streamHealthy' = FALSE /\ reconnectTimer' = (reconnectTimer \/ stopping = "no")
          /\ stopping' = IF stopping = "waits" THEN "stopped" ELSE stopping
        BY <1>7 DEF SocketCloses, TimerSet
    <2>2. StreamTypes'
        BY <2>1 DEF StreamTypes
    <2>3. CASE stopping = "no"
        <3>1. stopping' = "no" /\ reconnectTimer' = TRUE
            BY <2>1, <2>3
        <3>2. current = c /\ \A d \in Conns : d # c => sockets[d] = "none"
            BY <2>1, <2>3 DEF StreamInvariant
        <3>3. current' = NoConn /\ \A d \in Conns : sockets'[d] = "none"
            BY <2>1, <3>2 DEF StreamTypes
        <3> QED BY <2>2, <3>1, <3>3 DEF StreamInvariant
    <2>4. CASE stopping # "no"
        <3>1. stopping' # "no" /\ reconnectTimer' = FALSE /\ current' = NoConn /\ streamHealthy' = FALSE
            BY <2>1, <2>4 DEF StreamInvariant, StreamTypes
        <3>2. \A d \in Conns : sockets'[d] \in {"none", "closing"} /\ (sockets'[d] # "none" => sockets[d] # "none")
            BY <2>1, <2>4 DEF StreamInvariant, StreamTypes
        <3> QED BY <2>2, <3>1, <3>2 DEF StreamInvariant
    <2> QED BY <2>3, <2>4
<1>8. ASSUME NEW c \in Conns, NEW u \in Updates, Receives(c, u)
      PROVE  StreamTypes' /\ StreamInvariant'
    <2>1. UNCHANGED <<sockets, current, reconnectTimer, stopping>>
          /\ (Reports(TRUE) \/ UNCHANGED streamHealthy)
        BY <1>8 DEF Receives
    <2>2. CASE UNCHANGED streamHealthy
        BY <2>1, <2>2, ReportsKeeps DEF StreamTypes
    <2> QED BY <2>1, <2>2, ReportsIsQuiet, ReportsKeeps
<1>9. ASSUME NEW h \in handlers, NEW ok \in BOOLEAN, HandlerEnds(h, ok)
      PROVE  StreamTypes' /\ StreamInvariant'
    <2>1. UNCHANGED <<sockets, current, reconnectTimer, stopping>>
          /\ (Reports(TRUE) \/ streamHealthy' = FALSE)
        BY <1>9 DEF HandlerEnds
    <2> QED BY <2>1, ReportsIsQuiet, ReportsKeeps
<1> QED BY <1>1, <1>2, <1>3, <1>5, <1>6, <1>7, <1>8, <1>9 DEF StreamStep

\* A stop leaves no timer, and at most the socket that it closes.
LEMMA StopKeeps ==
    ASSUME StreamTypes, StreamInvariant, stop
    PROVE  StreamTypes' /\ StreamInvariant' /\ stopping' # "no"
<1>1. stopping = "no" /\ streamHealthy' = FALSE /\ reconnectTimer' = FALSE /\ current' = NoConn
    BY DEF stop
<1>2. CASE current = NoConn
    <2>1. stopping' = "stopped" /\ UNCHANGED sockets
        BY <1>2 DEF stop
    <2>2. \A c \in Conns : sockets[c] = "none"
        BY <1>1, <1>2, StreamAssumption DEF StreamInvariant
    <2> QED BY <1>1, <2>1, <2>2 DEF StreamTypes, StreamInvariant
<1>3. CASE current # NoConn
    <2>1. stopping' = "waits" /\ sockets' = [sockets EXCEPT ![current] = "closing"] /\ current \in Conns
        BY <1>3 DEF stop, StreamTypes
    <2>2. \A c \in Conns : sockets[c] # "none" => c = current
        BY <1>1, <1>3 DEF StreamInvariant
    <2>3. \A c \in Conns : sockets'[c] = IF c = current THEN "closing" ELSE "none"
        BY <2>1, <2>2 DEF StreamTypes
    <2>4. StreamTypes'
        BY <1>1, <2>1 DEF StreamTypes
    <2> QED BY <1>1, <2>1, <2>3, <2>4 DEF StreamInvariant
<1> QED BY <1>2, <1>3

-----------------------------------------------------------------------------
(* The worker: what a hook has waited for does not come back.               *)

QueueClosed == {"closeQueue", "disconnect", "destroyDatabase", "closed"}
LifecycleClosed == {"closeWorker"} \cup QueueClosed
LifecycleCloses == {"closesLifecycle"} \cup LifecycleClosed
FarewellSaid == {"closeLifecycle"} \cup LifecycleCloses
HeartbeatOver == {"recordStopping", "recordsStopping"} \cup FarewellSaid
Lives == {"gone", "starting", "initialized", "running", "waitForHeartbeat"} \cup HeartbeatOver

WorkerInvariant ==
    /\ life \in Lives /\ active \in [Kinds -> Nat]
    /\ StreamTypes
    /\ IF life \in {"gone", "starting"} THEN NoStream ELSE StreamInvariant
    /\ life \in HeartbeatOver => beat = "none"
    /\ life \in LifecycleCloses => timers = FALSE /\ stopping # "no"
    /\ life \in LifecycleClosed => LifecycleIsOver
    /\ life \in QueueClosed => (job => failed)

LEMMA WorkingBeforeClose ==
    Working => life \notin QueueClosed
<1>1. \A i \in 1..6 : Hooks[i] \notin QueueClosed
    <2> SUFFICES ASSUME NEW i \in 1..6 PROVE Hooks[i] \notin QueueClosed
        OBVIOUS
    <2>1. i = 1 \/ i = 2 \/ i = 3 \/ i = 4 \/ i = 5 \/ i = 6
        OBVIOUS
    <2> QED BY <2>1 DEF Hooks, QueueClosed
<1>2. {"initialized", "running"} \cap QueueClosed = {}
    BY DEF QueueClosed
<1> QED BY <1>1, <1>2 DEF Working

LEMMA WorkerIsRight ==
    WorkerInvariant => StreamIsKeptAlive /\ WorkerClosesDatabaseLast
<1>1. WorkerInvariant => StreamIsKeptAlive
    BY StreamIsKeptBySockets DEF WorkerInvariant, StreamIsKeptAlive
<1>2. WorkerInvariant => WorkerClosesDatabaseLast
    BY DEF WorkerInvariant, WorkerClosesDatabaseLast, LifecycleIsOver, StreamInvariant, QueueClosed,
           LifecycleClosed, LifecycleCloses, FarewellSaid, HeartbeatOver
<1> QED BY <1>1, <1>2

LEMMA StreamUnchanged ==
    ASSUME UNCHANGED streamVars
    PROVE  /\ NoStream' = NoStream /\ StreamTypes' = StreamTypes /\ StreamInvariant' = StreamInvariant
           /\ stopping' = stopping
BY DEF streamVars, NoStream, StreamTypes, StreamInvariant

LEMMA NothingStarted ==
    NoStream => StreamTypes
BY DEF NoStream, StreamTypes

\* No event of the stream comes before it is started.
LEMMA NoStreamNoStep ==
    ASSUME NoStream PROVE ~StreamStep
BY DEF NoStream, StreamStep, TimerFires, ForceTimer, Opens, Authorization, Listening, Unknown, Granted,
       SocketErrs, SocketCloses, Receives, HandlerEnds

LEMMA WorkerStartsRight ==
    WorkerInit => WorkerInvariant
<1>1. WorkerInit => WorkerInvariant
    BY NothingStarted
    DEF WorkerInit, NoProcess, WorkerInvariant, Lives, HeartbeatOver, FarewellSaid, LifecycleCloses,
        LifecycleClosed, QueueClosed
<1> QED BY <1>1

LEMMA WorkerKeeps ==
    ASSUME WorkerInvariant, WorkerNext \/ UNCHANGED workerVars
    PROVE  WorkerInvariant' /\ FarewellIsLast
<1> USE DEF Lives, HeartbeatOver, FarewellSaid, LifecycleCloses, LifecycleClosed, QueueClosed
<1>1. UNCHANGED row => FarewellIsLast
    BY DEF FarewellIsLast
<1>2. CASE UNCHANGED workerVars
    <2>1. UNCHANGED streamVars /\ UNCHANGED <<timers, active, job, beat, failed, life, row>>
        BY <1>2 DEF workerVars, lifeVars
    <2> QED BY <1>1, <2>1, StreamUnchanged DEF WorkerInvariant, LifecycleIsOver
<1>3. CASE WorkerDies
    <2>1. NoStream'
        BY <1>3 DEF WorkerDies, StreamEnds, NoStream
    <2>2. StreamTypes'
        BY <2>1 DEF NoStream, StreamTypes
    <2>3. active' \in [Kinds -> Nat]
        BY <1>3 DEF WorkerDies
    <2>4. life' = "gone" /\ UNCHANGED row
        BY <1>3 DEF WorkerDies
    <2> QED BY <1>1, <2>1, <2>2, <2>3, <2>4 DEF WorkerInvariant
<1>4. CASE Starts
    BY <1>4, StreamUnchanged DEF Starts, WorkerInvariant, FarewellIsLast
<1>5. CASE Initialize
    <2>1. PICK c \in Conns : connect(c)
        BY <1>5 DEF Initialize
    <2>2. life = "starting" /\ life' = "initialized" /\ UNCHANGED <<reconnectTimer, row, active>>
        BY <1>5 DEF Initialize
    <2>3. NoStream
        BY <2>2 DEF WorkerInvariant
    <2>4. reconnectTimer' = FALSE /\ \A d \in Conns : sockets[d] = "none"
        BY <2>2, <2>3 DEF NoStream
    <2>5. StreamTypes' /\ StreamInvariant'
        BY <2>1, <2>4, ConnectKeeps DEF WorkerInvariant
    <2> QED BY <1>1, <2>2, <2>5 DEF WorkerInvariant
<1>6. CASE Ready
    BY <1>6, StreamUnchanged DEF Ready, WorkerInvariant, FarewellIsLast
<1>7. CASE BeatStarts
    BY <1>1, <1>7, StreamUnchanged DEF BeatStarts, WorkerInvariant
<1>8. CASE BeatRecords
    BY <1>8, StreamUnchanged DEF BeatRecords, WorkerInvariant, FarewellIsLast, LifecycleIsOver
<1>9. CASE BeatFails
    BY <1>1, <1>9, StreamUnchanged DEF BeatFails, WorkerInvariant, LifecycleIsOver
<1>10. CASE BeatRecovers
    BY <1>10, StreamUnchanged DEF BeatRecovers, WorkerInvariant, FarewellIsLast, LifecycleIsOver
<1>11. CASE Streams
    <2>1. StreamStep /\ UNCHANGED <<life, row, timers, active, job, beat, failed>>
        BY <1>11 DEF Streams, lifeVars
    <2>2. life \notin {"gone", "starting"}
        BY <2>1, NoStreamNoStep DEF WorkerInvariant
    <2>3. StreamTypes' /\ StreamInvariant'
        BY <2>1, <2>2, StreamStepKeeps DEF WorkerInvariant
    <2>4. (stopping # "no" => stopping' # "no") /\ (stopping = "stopped" => stopping' = "stopped")
        BY <2>1 DEF StreamStep, TimerFires, connect, ForceTimer, Opens, Authorization, Listening, Unknown,
                    Granted, SocketErrs, SocketCloses, Receives, HandlerEnds
    <2> QED BY <1>1, <2>1, <2>2, <2>3, <2>4 DEF WorkerInvariant, LifecycleIsOver
<1>12. ASSUME NEW k \in Kinds, PassStarts(k)
       PROVE  WorkerInvariant' /\ FarewellIsLast
    <2>1. life \notin LifecycleCloses
        BY <1>12 DEF PassStarts, WorkerInvariant
    <2>2. active' \in [Kinds -> Nat]
        BY <1>12 DEF PassStarts, WorkerInvariant
    <2> QED BY <1>1, <1>12, <2>1, <2>2, StreamUnchanged DEF PassStarts, WorkerInvariant
<1>13. ASSUME NEW k \in Kinds, NEW ok \in BOOLEAN, PassEnds(k, ok)
       PROVE  WorkerInvariant' /\ FarewellIsLast
    <2>1. life \notin LifecycleClosed
        BY <1>13 DEF PassEnds, WorkerInvariant, LifecycleIsOver
    <2>2. active' \in [Kinds -> Nat]
        BY <1>13 DEF PassEnds, WorkerInvariant
    <2> QED BY <1>1, <1>13, <2>1, <2>2, StreamUnchanged DEF PassEnds, WorkerInvariant
<1>14. CASE JobStarts
    BY <1>1, <1>14, WorkingBeforeClose, StreamUnchanged DEF JobStarts, WorkerInvariant, LifecycleIsOver
<1>15. CASE JobEnds
    BY <1>1, <1>15, StreamUnchanged DEF JobEnds, WorkerInvariant, LifecycleIsOver
<1>16. CASE WorkerErrs
    BY <1>1, <1>16, StreamUnchanged DEF WorkerErrs, WorkerInvariant, LifecycleIsOver
<1>17. CASE WorkerReady
    BY <1>1, <1>17, StreamUnchanged DEF WorkerReady, WorkerInvariant, LifecycleIsOver
<1>18. CASE StopHeartbeat
    BY <1>1, <1>18, StreamUnchanged DEF StopHeartbeat, Then, WorkerInvariant, lifeVars
<1>19. CASE WaitForHeartbeat
    BY <1>1, <1>19, StreamUnchanged DEF WaitForHeartbeat, BeatIsOver, Then, WorkerInvariant, lifeVars
<1>20. CASE RecordStopping
    BY <1>1, <1>20, StreamUnchanged DEF RecordStopping, Then, WorkerInvariant
<1>21. CASE RecordsStopping
    BY <1>21, StreamUnchanged DEF RecordsStopping, Then, WorkerInvariant, lifeVars, FarewellIsLast
<1>22. CASE CloseLifecycle
    BY <1>1, <1>22, StopKeeps DEF CloseLifecycle, Then, WorkerInvariant
<1>23. CASE ClosesLifecycle
    BY <1>1, <1>23, StreamUnchanged DEF ClosesLifecycle, Then, WorkerInvariant, lifeVars, LifecycleIsOver
<1>24. CASE CloseWorker
    BY <1>1, <1>24, StreamUnchanged DEF CloseWorker, Then, WorkerInvariant, LifecycleIsOver
<1>25. CASE CloseQueueAndRedis
    BY <1>1, <1>25, StreamUnchanged DEF CloseQueueAndRedis, Then, WorkerInvariant, lifeVars, LifecycleIsOver
<1>26. CASE DestroyDatabase
    BY <1>1, <1>26, StreamUnchanged DEF DestroyDatabase, Then, WorkerInvariant, LifecycleIsOver
<1> QED BY <1>2, <1>3, <1>4, <1>5, <1>6, <1>7, <1>8, <1>9, <1>10, <1>11, <1>12, <1>13, <1>14, <1>15, <1>16,
           <1>17, <1>18, <1>19, <1>20, <1>21, <1>22, <1>23, <1>24, <1>25, <1>26 DEF WorkerNext, ShutdownStep

-----------------------------------------------------------------------------
(* The migrations.                                                          *)

StarterState ==
    [pc : {"down", "locked", "migrating", "serving"}, names : SUBSET Nat, ran : Seq(Nat)]

\* What a starter has run goes on from the schema as it read it, under the lock.
StarterOK(s) ==
    /\ starter[s] \in StarterState
    /\ starter[s].pc \in {"down", "locked"} => starter[s].ran = <<>>
    /\ starter[s].pc = "migrating" =>
         /\ starter[s].names = 1..Len(schema)
         /\ \A i \in 1..Len(starter[s].ran) : starter[s].ran[i] = Len(schema) + i
    /\ starter[s].pc = "serving" => Known[s] <= Len(schema)

SchemaInvariant ==
    /\ schema \in Seq(Nat) /\ names = 1..Len(schema)
    /\ \A i \in 1..Len(schema) : schema[i] = i
    /\ starter = [s \in Starters |-> starter[s]]
    /\ \A s \in Starters : StarterOK(s)
    /\ \A s, t \in Starters : Migrating(s) /\ Migrating(t) => s = t

\* Sequences that count on from a number.
LEMMA AppendCounts ==
    ASSUME NEW run \in Seq(Nat), NEW n \in Nat, \A i \in 1..Len(run) : run[i] = n + i
    PROVE  LET next == Append(run, n + Len(run) + 1)
           IN  next \in Seq(Nat) /\ \A i \in 1..Len(next) : next[i] = n + i
<1> DEFINE next == Append(run, n + Len(run) + 1)
<1>1. Len(run) \in Nat /\ n + Len(run) + 1 \in Nat
    OBVIOUS
<1>2. next \in Seq(Nat) /\ Len(next) = Len(run) + 1 /\ next[Len(run) + 1] = n + Len(run) + 1
      /\ \A i \in 1..Len(run) : next[i] = run[i]
    BY <1>1
<1> HIDE DEF next
<1>3. \A i \in 1..Len(next) : next[i] = n + i
    <2> SUFFICES ASSUME NEW i \in 1..Len(next) PROVE next[i] = n + i
        OBVIOUS
    <2>1. i \in 1..Len(run) \/ i = Len(run) + 1
        BY <1>1, <1>2
    <2>2. CASE i \in 1..Len(run)
        BY <1>2, <2>2
    <2>3. CASE i = Len(run) + 1
        BY <1>1, <1>2, <2>3
    <2> QED BY <2>1, <2>2, <2>3
<1> QED BY <1>2, <1>3 DEF next

LEMMA RangeCounts ==
    ASSUME NEW run \in Seq(Nat), NEW n \in Nat, \A i \in 1..Len(run) : run[i] = n + i
    PROVE  Range(run) = (n + 1)..(n + Len(run))
<1>1. Len(run) \in Nat /\ Range(run) = {run[i] : i \in 1..Len(run)}
    BY DEF Range
<1>2. ASSUME NEW m \in (n + 1)..(n + Len(run))
      PROVE  m \in Range(run)
    <2>1. m - n \in 1..Len(run) /\ n + (m - n) = m
        BY <1>1
    <2>2. run[m - n] = m
        BY <2>1
    <2> QED BY <1>1, <2>1, <2>2
<1>3. ASSUME NEW m \in Range(run)
      PROVE  m \in (n + 1)..(n + Len(run))
    <2>1. PICK i \in 1..Len(run) : m = run[i]
        BY <1>1, <1>3
    <2> QED BY <1>1, <2>1
<1> QED BY <1>2, <1>3

LEMMA SchemaStartsRight ==
    SchemaInit => SchemaInvariant
BY DEF SchemaInit, SchemaInvariant, StarterOK, StarterState, NotStarted, Migrating

\* What is missing is what comes after the recorded and the run.
LEMMA MissingIsTheRest ==
    ASSUME SchemaInvariant, NEW s \in Starters, starter[s].pc = "migrating"
    PROVE  Missing(s) = {m \in 1..Known[s] : m > Len(schema) + Len(starter[s].ran)}
<1> DEFINE n == Len(schema)
           ran == starter[s].ran
<1>1. n \in Nat /\ ran \in Seq(Nat) /\ Len(ran) \in Nat /\ Known[s] \in Nat
    BY MigrationsAssumption DEF SchemaInvariant, StarterOK, StarterState
<1>2. starter[s].names = 1..n /\ \A i \in 1..Len(ran) : ran[i] = n + i
    BY DEF SchemaInvariant, StarterOK
<1>3. Range(ran) = (n + 1)..(n + Len(ran))
    BY <1>1, <1>2, RangeCounts
<1> QED BY <1>1, <1>2, <1>3 DEF Missing

LEMMA NextMissing ==
    ASSUME NEW k \in Nat, NEW n \in Nat, {m \in 1..k : m > n} # {}
    PROVE  Min({m \in 1..k : m > n}) = n + 1
<1> DEFINE S == {m \in 1..k : m > n}
<1>1. n + 1 \in S /\ \A m \in S : n + 1 <= m
    OBVIOUS
<1>2. \A x \in S : (\A y \in S : x <= y) => x = n + 1
    BY <1>1
<1> QED BY <1>1, <1>2 DEF Min

LEMMA SchemaKeeps ==
    ASSUME SchemaInvariant, SchemaNext \/ UNCHANGED schemaVars
    PROVE  SchemaInvariant'
<1>1. CASE UNCHANGED schemaVars
    BY <1>1 DEF schemaVars, SchemaInvariant, StarterOK, Migrating
<1> SUFFICES ASSUME NEW s \in Starters,
                    TakeLock(s) \/ ReadNames(s) \/ RunNext(s) \/ CommitMigrations(s) \/ StarterDies(s)
             PROVE  SchemaInvariant'
    BY <1>1 DEF SchemaNext
<1> DEFINE n == Len(schema)
<1>2. n \in Nat /\ starter[s] \in StarterState /\ Known[s] \in Nat
    BY MigrationsAssumption DEF SchemaInvariant, StarterOK
\* The schema stands still: only the starter has to be looked at.
<1>3. ASSUME UNCHANGED <<schema, names>>, NEW q, starter' = [starter EXCEPT ![s] = q],
             q \in StarterState,
             q.pc = "migrating" => q.names = 1..n /\ \A i \in 1..Len(q.ran) : q.ran[i] = n + i,
             q.pc # "serving", q.pc \in {"down", "locked"} => q.ran = <<>>,
             q.pc \in {"locked", "migrating"} => \A t \in Starters \ {s} : ~Migrating(t)
      PROVE  SchemaInvariant'
    <2>1. \A t \in Starters : starter'[t] = IF t = s THEN q ELSE starter[t]
        BY <1>3 DEF SchemaInvariant
    <2>2. \A t \in Starters : StarterOK(t)'
        BY <1>3, <2>1 DEF SchemaInvariant, StarterOK
    <2>3. \A t, u \in Starters : Migrating(t)' /\ Migrating(u)' => t = u
        BY <1>3, <2>1 DEF SchemaInvariant, Migrating
    <2>4. starter' = [t \in Starters |-> starter'[t]]
        BY <1>3 DEF SchemaInvariant
    <2> QED BY <1>3, <2>2, <2>3, <2>4 DEF SchemaInvariant
<1>4. starter[s].pc \in {"locked", "migrating"} => \A t \in Starters \ {s} : ~Migrating(t)
    BY DEF SchemaInvariant, Migrating
<1>5. CASE TakeLock(s)
    <2>1. starter' = [starter EXCEPT ![s] = [starter[s] EXCEPT !.pc = "locked"]] /\ UNCHANGED <<schema, names>>
        BY <1>5 DEF TakeLock, SchemaInvariant
    <2>2. \A t \in Starters \ {s} : ~Migrating(t)
        BY <1>5 DEF TakeLock, LockIsFree
    <2>3. /\ [starter[s] EXCEPT !.pc = "locked"] \in StarterState
          /\ [starter[s] EXCEPT !.pc = "locked"].pc = "locked"
          /\ [starter[s] EXCEPT !.pc = "locked"].ran = <<>>
        <3>1. starter[s].ran = <<>>
            BY <1>5 DEF TakeLock, SchemaInvariant, StarterOK
        <3> QED BY <1>2, <3>1 DEF StarterState
    <2> QED BY <1>3, <2>1, <2>2, <2>3
<1>6. CASE ReadNames(s)
    <2> DEFINE q == [starter[s] EXCEPT !.pc = "migrating", !.names = names]
    <2>1. starter' = [starter EXCEPT ![s] = q] /\ UNCHANGED <<schema, names>> /\ starter[s].pc = "locked"
        BY <1>6 DEF ReadNames, SchemaInvariant
    <2>2. names = 1..n /\ names \in SUBSET Nat
        BY <1>2 DEF SchemaInvariant
    <2>3. q \in StarterState /\ q.pc = "migrating" /\ q.names = 1..n /\ q.ran = starter[s].ran
        BY <1>2, <2>2 DEF StarterState
    <2>4. starter[s].ran = <<>>
        BY <2>1 DEF SchemaInvariant, StarterOK
    <2> HIDE DEF q
    <2>5. q.ran = <<>> /\ \A i \in 1..Len(q.ran) : q.ran[i] = n + i
        BY <2>3, <2>4
    <2> QED BY <1>3, <1>4, <2>1, <2>3, <2>5
<1>7. CASE RunNext(s)
    <2> DEFINE ran == starter[s].ran
               q == [starter[s] EXCEPT !.ran = Append(ran, n + Len(ran) + 1)]
    <2>1. starter[s].pc = "migrating" /\ Missing(s) # {} /\ UNCHANGED <<schema, names>>
        BY <1>7 DEF RunNext
    <2>2. ran \in Seq(Nat) /\ Len(ran) \in Nat
        BY <1>2 DEF StarterState
    <2>3. Min(Missing(s)) = n + Len(ran) + 1
        <3>1. Missing(s) = {m \in 1..Known[s] : m > n + Len(ran)}
            BY <2>1, MissingIsTheRest
        <3>2. n + Len(ran) \in Nat
            BY <1>2, <2>2
        <3> QED BY <1>2, <2>1, <3>1, <3>2, NextMissing
    <2>4. starter' = [starter EXCEPT ![s] = q]
        BY <1>7, <2>3 DEF RunNext, SchemaInvariant
    <2>5. starter[s].names = 1..n /\ \A i \in 1..Len(ran) : ran[i] = n + i
        BY <2>1 DEF SchemaInvariant, StarterOK
    <2>6. /\ Append(ran, n + Len(ran) + 1) \in Seq(Nat)
          /\ \A i \in 1..Len(Append(ran, n + Len(ran) + 1)) : Append(ran, n + Len(ran) + 1)[i] = n + i
        BY <1>2, <2>2, <2>5, AppendCounts
    <2>7. q \in StarterState /\ q.pc = "migrating" /\ q.names = 1..n /\ q.ran = Append(ran, n + Len(ran) + 1)
        BY <1>2, <2>1, <2>5, <2>6 DEF StarterState
    <2> HIDE DEF q
    <2> QED BY <1>3, <1>4, <2>1, <2>4, <2>6, <2>7
<1>8. CASE CommitMigrations(s)
    <2> DEFINE ran == starter[s].ran
               q == [NotStarted EXCEPT !.pc = "serving"]
    <2>1. /\ starter[s].pc = "migrating" /\ Missing(s) = {}
          /\ schema' = schema \o ran /\ names' = names \cup Range(ran)
          /\ starter' = [starter EXCEPT ![s] = q]
        BY <1>8 DEF CommitMigrations
    <2>2. ran \in Seq(Nat) /\ Len(ran) \in Nat /\ schema \in Seq(Nat)
        BY <1>2 DEF StarterState, SchemaInvariant
    <2>3. \A i \in 1..Len(ran) : ran[i] = n + i
        BY <2>1 DEF SchemaInvariant, StarterOK
    <2>4. schema' \in Seq(Nat) /\ Len(schema') = n + Len(ran)
        BY <2>1, <2>2
    <2>5. \A i \in 1..Len(schema') : schema'[i] = i
        <3> SUFFICES ASSUME NEW i \in 1..Len(schema') PROVE schema'[i] = i
            OBVIOUS
        <3>1. CASE i <= n
            BY <1>2, <2>1, <2>2, <2>4, <3>1 DEF SchemaInvariant
        <3>2. CASE i > n
            <4>1. i - n \in 1..Len(ran) /\ schema'[i] = ran[i - n]
                BY <1>2, <2>1, <2>2, <2>4, <3>2
            <4> QED BY <1>2, <2>3, <4>1
        <3> QED BY <1>2, <2>4, <3>1, <3>2
    <2>6. names' = 1..Len(schema')
        <3>4. Range(ran) = (n + 1)..(n + Len(ran))
            BY <1>2, <2>2, <2>3, RangeCounts
        <3>5. names = 1..n
            BY DEF SchemaInvariant
        <3> QED BY <1>2, <2>1, <2>2, <2>4, <3>4, <3>5
    <2>7. q \in StarterState /\ q.pc = "serving"
        <3>1. NotStarted \in StarterState
            BY DEF NotStarted, StarterState
        <3> QED BY <3>1 DEF StarterState
    <2>8. Known[s] <= Len(schema')
        <3>1. {m \in 1..Known[s] : m > n + Len(ran)} = {}
            BY <2>1, MissingIsTheRest
        <3>2. Known[s] \in 1..Known[s]
            BY MigrationsAssumption
        <3> QED BY <1>2, <2>2, <2>4, <3>1, <3>2
    <2>9. \A t \in Starters : starter'[t] = IF t = s THEN q ELSE starter[t]
        BY <2>1 DEF SchemaInvariant
    <2>10. starter' = [t \in Starters |-> starter'[t]]
        BY <2>1 DEF SchemaInvariant
    <2>11. \A t \in Starters \ {s} : starter[t].pc # "migrating"
        BY <1>4, <2>1 DEF Migrating
    <2> HIDE DEF q
    <2>12. ASSUME NEW t \in Starters PROVE StarterOK(t)'
        <3>1. CASE t = s
            BY <2>7, <2>8, <2>9, <3>1 DEF StarterOK
        <3>2. CASE t # s
            <4>1. starter'[t] = starter[t] /\ starter[t].pc # "migrating" /\ StarterOK(t)
                BY <2>9, <2>11, <3>2 DEF SchemaInvariant
            <4>2. Known[t] \in Nat /\ n <= Len(schema')
                BY <1>2, <2>2, <2>4, MigrationsAssumption
            <4> QED BY <1>2, <2>4, <4>1, <4>2 DEF StarterOK
        <3> QED BY <3>1, <3>2
    <2>13. \A t, u \in Starters : Migrating(t)' /\ Migrating(u)' => t = u
        BY <2>7, <2>9 DEF SchemaInvariant, Migrating
    <2> QED BY <2>4, <2>5, <2>6, <2>10, <2>12, <2>13 DEF SchemaInvariant
<1>9. CASE StarterDies(s)
    <2>1. NotStarted \in StarterState /\ NotStarted.pc = "down" /\ NotStarted.ran = <<>>
        BY DEF NotStarted, StarterState
    <2>2. starter' = [starter EXCEPT ![s] = NotStarted] /\ UNCHANGED <<schema, names>>
        BY <1>9 DEF StarterDies
    <2> QED BY <1>3, <2>1, <2>2
<1> QED BY <1>5, <1>6, <1>7, <1>8, <1>9

LEMMA LastName ==
    ASSUME NEW n \in Nat
    PROVE  Max({0} \cup 1..n) = n
<1> DEFINE S == {0} \cup 1..n
<1>1. n \in S /\ \A x \in S : n >= x /\ x \in Nat
    OBVIOUS
<1>2. \A x \in S : (\A y \in S : x >= y) => x >= n /\ n >= x /\ x \in Nat
    BY <1>1
<1>3. \A x \in Nat : x >= n /\ n >= x => x = n
    OBVIOUS
<1>4. \A x \in S : (\A y \in S : x >= y) => x = n
    BY <1>2, <1>3
<1> QED BY <1>1, <1>4 DEF Max

LEMMA SchemaIsRight ==
    SchemaInvariant => SchemaIsWhole
<1> SUFFICES ASSUME SchemaInvariant PROVE SchemaIsWhole
    OBVIOUS
<1>1. Len(schema) \in Nat /\ schema = [i \in 1..Len(schema) |-> i]
    BY DEF SchemaInvariant
<1>2. Range(schema) = 1..Len(schema) /\ names = 1..Len(schema)
    BY <1>1 DEF Range, SchemaInvariant
<1>3. MigrationVersion = Len(schema)
    BY <1>1, <1>2, LastName DEF MigrationVersion
<1>4. ASSUME NEW s \in Starters, starter[s].pc = "serving" \/ UpToDate(s)
      PROVE  1..Known[s] \subseteq Range(schema) \cap names
    <2>1. Known[s] \in Nat /\ Known[s] <= Len(schema)
        BY <1>1, <1>3, <1>4, MigrationsAssumption DEF SchemaInvariant, StarterOK, UpToDate
    <2> QED BY <1>1, <1>2, <2>1
<1> QED BY <1>1, <1>4 DEF SchemaIsWhole

-----------------------------------------------------------------------------
(* The push settings.                                                       *)

Permissions == {"default", "denied", "granted"}
SomeEndpoint == Endpoints \cup {NoEndpoint}
Pushes == [tab : Tabs, kind : {"subscribe", "revoke"}, endpoint : Endpoints]
AtRest == {"idle", "asking", "subscribing"}

Pages ==
    [view : {"closed", "loading", "denied", "disabled", "enabled", "error"}, held : SomeEndpoint,
     pc : AtRest \cup {"posting", "revoking", "unsubscribing"}, target : SomeEndpoint,
     loading : BOOLEAN, ran : Permissions]

SettingsTypes ==
    /\ device \in [Endpoints -> {"none", "active", "revoked", "invalid"}]
    /\ permission \in Permissions /\ spoiled \in BOOLEAN
    /\ used \subseteq Endpoints /\ browser \in used \cup {NoEndpoint}
    /\ tab \in [Tabs -> Pages] /\ \A t \in Tabs : tab[t].held \in used \cup {NoEndpoint}
    /\ \A m \in sent : m \in Pushes /\ m.endpoint \in used

\* A tab is at one of these steps with the endpoint.
WorkedOn(e, steps) == \E t \in Tabs : tab[t].pc \in steps /\ tab[t].target = e

SettingsInvariant ==
    /\ SettingsTypes
    \* An endpoint has been recorded exactly when its key was used, so twice only when
    \* the record of the first time is forgotten,
    /\ \A e \in Endpoints : device[e] # "none" <=> <<"subscribe", e>> \in kept \cup forgotten
    /\ \A e \in Endpoints : device[e] # "none" => e \in used
    \* and unless the work of a page was cut off, each request has a page that waits for
    \* it, and one is at work when the two lists do not agree.
    /\ ~spoiled =>
         /\ \A m \in sent : IsAwaited(m)
         /\ browser # NoEndpoint =>
              /\ device[browser] = "none" => WorkedOn(browser, {"posting"})
              /\ device[browser] = "revoked" => WorkedOn(browser, {"revoking", "unsubscribing"})

LEMMA SettingsStartRight ==
    SettingsInit => SettingsInvariant
<1> SUFFICES ASSUME SettingsInit PROVE SettingsInvariant
    OBVIOUS
<1>1. Closed \in Pages /\ Closed.held = NoEndpoint
    BY DEF Closed, Pages, Permissions, SomeEndpoint, AtRest
<1>2. SettingsTypes
    BY <1>1 DEF SettingsInit, SettingsTypes, Permissions
<1> QED BY <1>2 DEF SettingsInit, SettingsInvariant

LEMMA DrawnPage ==
    ASSUME NEW page \in Pages, NEW now \in Permissions
    PROVE  /\ Drawn(page, now) \in Pages
           /\ Drawn(page, now).pc = page.pc /\ Drawn(page, now).target = page.target
           /\ Drawn(page, now).held = page.held
BY DEF Drawn, Pages

\* A page at rest, or one that keeps its step, disturbs nothing; and what is cut off
\* claims nothing.
LEMMA PageMoves ==
    ASSUME SettingsInvariant, NEW t \in Tabs, NEW page \in Pages, page.held \in used \cup {NoEndpoint},
           tab' = [tab EXCEPT ![t] = page],
           UNCHANGED <<device, kept, forgotten, browser, used, sent>>, permission' \in Permissions,
           spoiled' \in BOOLEAN, spoiled => spoiled',
           \/ spoiled'
           \/ page.pc = tab[t].pc /\ page.target = tab[t].target
           \/ tab[t].pc \in AtRest
    PROVE  SettingsInvariant'
<1>1. \A u \in Tabs : tab'[u] = IF u = t THEN page ELSE tab[u]
    BY DEF SettingsInvariant, SettingsTypes
<1>2. SettingsTypes'
    <2>1. tab' \in [Tabs -> Pages]
        BY DEF SettingsInvariant, SettingsTypes
    <2> QED BY <1>1, <2>1 DEF SettingsInvariant, SettingsTypes
<1>3. ASSUME ~spoiled', NEW u \in Tabs, tab[u].pc \notin AtRest
      PROVE  tab'[u].pc = tab[u].pc /\ tab'[u].target = tab[u].target
    BY <1>1, <1>3
<1>4. ASSUME ~spoiled', NEW m \in sent, IsAwaited(m)
      PROVE  IsAwaited(m)'
    <2>1. m.tab \in Tabs
        BY DEF SettingsInvariant, SettingsTypes, Pushes
    <2>2. tab[m.tab].pc \notin AtRest
        BY <1>4 DEF IsAwaited, AtRest
    <2> QED BY <1>3, <1>4, <2>1, <2>2 DEF IsAwaited
<1>5. ASSUME ~spoiled', NEW e, NEW steps, steps \cap AtRest = {}, WorkedOn(e, steps)
      PROVE  WorkedOn(e, steps)'
    BY <1>3, <1>5 DEF WorkedOn
<1>6. {"posting"} \cap AtRest = {} /\ {"revoking", "unsubscribing"} \cap AtRest = {}
    BY DEF AtRest
<1>7. ASSUME ~spoiled'
      PROVE  /\ \A m \in sent : IsAwaited(m)'
             /\ browser # NoEndpoint =>
                  /\ device[browser] = "none" => WorkedOn(browser, {"posting"})'
                  /\ device[browser] = "revoked" => WorkedOn(browser, {"revoking", "unsubscribing"})'
    <2>1. ~spoiled
        BY <1>7
    <2> QED BY <1>4, <1>5, <1>6, <1>7, <2>1 DEF SettingsInvariant
<1>8. /\ \A e \in Endpoints : device'[e] # "none" <=> <<"subscribe", e>> \in (kept \cup forgotten)'
      /\ \A e \in Endpoints : device'[e] # "none" => e \in used'
    BY DEF SettingsInvariant
<1> QED BY <1>2, <1>7, <1>8 DEF SettingsInvariant, WorkedOn

\* The same where the page is drawn.
LEMMA DrawMoves ==
    ASSUME SettingsInvariant, NEW t \in Tabs, NEW page \in Pages, page.held \in used \cup {NoEndpoint},
           Draw(t, page),
           UNCHANGED <<device, kept, forgotten, browser, used, sent>>, permission' \in Permissions,
           spoiled' \in BOOLEAN, spoiled => spoiled',
           \/ spoiled'
           \/ page.pc = tab[t].pc /\ page.target = tab[t].target
           \/ tab[t].pc \in AtRest
    PROVE  SettingsInvariant'
<1> DEFINE p == Drawn(page, permission')
<1>1. p \in Pages /\ p.pc = page.pc /\ p.target = page.target /\ p.held = page.held
    BY DrawnPage
<1>2. tab' = [tab EXCEPT ![t] = p]
    BY DEF Draw
<1> HIDE DEF p
<1> QED BY <1>1, <1>2, PageMoves

\* A page sends its request: it had none under way, unless work was cut off.
LEMMA NoneUnderWay ==
    ASSUME SettingsInvariant, ~spoiled, NEW m \in sent
    PROVE  m \in Pushes /\ IsAwaited(m) /\ tab[m.tab].pc \notin AtRest
<1>1. m \in Pushes /\ IsAwaited(m)
    BY DEF SettingsInvariant, SettingsTypes
<1> QED BY <1>1 DEF IsAwaited, AtRest

LEMMA SubscribeKeeps ==
    ASSUME SettingsInvariant, NEW t \in Tabs, subscribeBrowserPush(t)
    PROVE  SettingsInvariant'
<1>1. PICK e \in (IF browser = NoEndpoint THEN Endpoints \ used ELSE {browser}) :
         /\ browser' = e /\ used' = used \cup {e}
         /\ sent' = sent \cup {Request(t, "subscribe", e)}
         /\ tab' = [tab EXCEPT ![t].pc = "posting", ![t].target = e]
    BY DEF subscribeBrowserPush
<1>2. /\ e \in Endpoints /\ e # NoEndpoint /\ UNCHANGED <<device, kept, forgotten, permission, spoiled>>
      /\ tab[t].pc = "subscribing" /\ (browser = e \/ e \notin used)
    BY <1>1, SettingsAssumption DEF subscribeBrowserPush, Server, Counts, SettingsInvariant, SettingsTypes
<1> DEFINE page == [tab[t] EXCEPT !.pc = "posting", !.target = e]
<1>3. page \in Pages /\ page.pc = "posting" /\ page.target = e /\ page.held = tab[t].held
    BY <1>2 DEF SettingsInvariant, SettingsTypes, Pages, SomeEndpoint
<1>4. tab' = [tab EXCEPT ![t] = page]
    BY <1>1 DEF SettingsInvariant, SettingsTypes
<1> HIDE DEF page
<1>5. \A u \in Tabs : tab'[u] = IF u = t THEN page ELSE tab[u]
    BY <1>4 DEF SettingsInvariant, SettingsTypes
<1>6. /\ Request(t, "subscribe", e) \in Pushes /\ Request(t, "subscribe", e).tab = t
      /\ Request(t, "subscribe", e).kind = "subscribe" /\ Request(t, "subscribe", e).endpoint = e
    BY <1>2 DEF Request, Pushes
<1>7. SettingsTypes'
    <2>1. tab' \in [Tabs -> Pages]
        BY <1>3, <1>4 DEF SettingsInvariant, SettingsTypes
    <2>2. \A u \in Tabs : tab'[u].held \in used' \cup {NoEndpoint}
        BY <1>1, <1>3, <1>5 DEF SettingsInvariant, SettingsTypes
    <2>3. \A m \in sent' : m \in Pushes /\ m.endpoint \in used'
        BY <1>1, <1>6 DEF SettingsInvariant, SettingsTypes
    <2>4. used' \subseteq Endpoints /\ browser' \in used'
        BY <1>1, <1>2 DEF SettingsInvariant, SettingsTypes
    <2> QED BY <1>2, <2>1, <2>2, <2>3, <2>4 DEF SettingsInvariant, SettingsTypes
<1>8. browser # e => device[e] = "none"
    BY <1>2 DEF SettingsInvariant
<1>9. ASSUME ~spoiled
      PROVE  /\ \A m \in sent' : IsAwaited(m)'
             /\ device[e] = "none" => WorkedOn(e, {"posting"})'
             /\ device[e] = "revoked" => WorkedOn(e, {"revoking", "unsubscribing"})'
    <2>1. ASSUME NEW m \in sent
          PROVE  IsAwaited(m)'
        <3>1. m.tab \in Tabs /\ IsAwaited(m) /\ m.tab # t
            BY <1>2, <1>9, NoneUnderWay DEF Pushes, AtRest
        <3> QED BY <1>5, <3>1 DEF IsAwaited
    <2>2. IsAwaited(Request(t, "subscribe", e))'
        BY <1>3, <1>5, <1>6 DEF IsAwaited
    <2>3. WorkedOn(e, {"posting"})'
        BY <1>3, <1>5 DEF WorkedOn
    <2>4. device[e] = "revoked" => WorkedOn(e, {"revoking", "unsubscribing"})'
        <3>1. SUFFICES ASSUME device[e] = "revoked" PROVE WorkedOn(e, {"revoking", "unsubscribing"})'
            OBVIOUS
        <3>2. browser = e
            BY <1>8, <3>1
        <3>3. PICK u \in Tabs : tab[u].pc \in {"revoking", "unsubscribing"} /\ tab[u].target = e
            BY <1>2, <1>9, <3>1, <3>2 DEF SettingsInvariant, WorkedOn
        <3> QED BY <1>2, <1>5, <3>3 DEF WorkedOn
    <2> QED BY <1>1, <2>1, <2>2, <2>3, <2>4
<1>10. /\ \A x \in Endpoints : device'[x] # "none" <=> <<"subscribe", x>> \in (kept \cup forgotten)'
       /\ \A x \in Endpoints : device'[x] # "none" => x \in used'
    BY <1>1, <1>2, <1>8 DEF SettingsInvariant
<1> QED BY <1>1, <1>2, <1>7, <1>9, <1>10 DEF SettingsInvariant

LEMMA RevokeKeeps ==
    ASSUME SettingsInvariant, NEW t \in Tabs, Revoke(t)
    PROVE  SettingsInvariant'
<1>0. PICK e : e = tab[t].held
    OBVIOUS
<1> DEFINE page == Drawn([tab[t] EXCEPT !.pc = "revoking", !.target = e], permission')
<1>1. /\ UNCHANGED <<device, kept, forgotten, permission, browser, used, spoiled>> /\ tab[t].pc = "idle"
      /\ sent' = sent \cup {Request(t, "revoke", e)} /\ tab' = [tab EXCEPT ![t] = page]
    BY <1>0 DEF Revoke, Server, Browser, Draw
<1>2. e \in used /\ e \in Endpoints /\ permission' \in Permissions
    BY <1>0, <1>1 DEF Revoke, SettingsInvariant, SettingsTypes
<1>3. page \in Pages /\ page.pc = "revoking" /\ page.target = e /\ page.held = e
    <2> DEFINE p == [tab[t] EXCEPT !.pc = "revoking", !.target = e]
    <2>1. p \in Pages /\ p.pc = "revoking" /\ p.target = e /\ p.held = e
        BY <1>0, <1>2 DEF SettingsInvariant, SettingsTypes, Pages, SomeEndpoint
    <2> HIDE DEF p
    <2>2. Drawn(p, permission').pc = "revoking" /\ Drawn(p, permission') \in Pages
          /\ Drawn(p, permission').target = e /\ Drawn(p, permission').held = e
        BY <1>2, <2>1, DrawnPage
    <2> QED BY <2>2 DEF p
<1> HIDE DEF page
<1>4. \A u \in Tabs : tab'[u] = IF u = t THEN page ELSE tab[u]
    BY <1>1 DEF SettingsInvariant, SettingsTypes
<1>5. /\ Request(t, "revoke", e) \in Pushes /\ Request(t, "revoke", e).tab = t
      /\ Request(t, "revoke", e).kind = "revoke" /\ Request(t, "revoke", e).endpoint = e
    BY <1>2 DEF Request, Pushes
<1>6. SettingsTypes'
    <2>1. tab' \in [Tabs -> Pages]
        BY <1>1, <1>3 DEF SettingsInvariant, SettingsTypes
    <2>2. \A u \in Tabs : tab'[u].held \in used' \cup {NoEndpoint}
        BY <1>1, <1>2, <1>3, <1>4 DEF SettingsInvariant, SettingsTypes
    <2>3. \A m \in sent' : m \in Pushes /\ m.endpoint \in used'
        BY <1>1, <1>2, <1>5 DEF SettingsInvariant, SettingsTypes
    <2> QED BY <1>1, <2>1, <2>2, <2>3 DEF SettingsInvariant, SettingsTypes
<1>7. ASSUME ~spoiled
      PROVE  /\ \A m \in sent' : IsAwaited(m)'
             /\ browser # NoEndpoint =>
                  \A x \in Endpoints : x = browser =>
                    /\ device[x] = "none" => WorkedOn(x, {"posting"})'
                    /\ device[x] = "revoked" => WorkedOn(x, {"revoking", "unsubscribing"})'
    <2>1. ASSUME NEW m \in sent
          PROVE  IsAwaited(m)'
        <3>1. m.tab \in Tabs /\ IsAwaited(m) /\ m.tab # t
            BY <1>1, <1>7, NoneUnderWay DEF Pushes, AtRest
        <3> QED BY <1>4, <3>1 DEF IsAwaited
    <2>2. IsAwaited(Request(t, "revoke", e))'
        BY <1>3, <1>4, <1>5 DEF IsAwaited
    <2>3. \A x : WorkedOn(x, {"posting"}) => WorkedOn(x, {"posting"})'
        BY <1>1, <1>4 DEF WorkedOn
    <2>4. \A x : WorkedOn(x, {"revoking", "unsubscribing"}) => WorkedOn(x, {"revoking", "unsubscribing"})'
        BY <1>1, <1>4 DEF WorkedOn
    <2> QED BY <1>1, <1>7, <2>1, <2>2, <2>3, <2>4 DEF SettingsInvariant
<1>8. /\ \A x \in Endpoints : device'[x] # "none" <=> <<"subscribe", x>> \in (kept \cup forgotten)'
      /\ \A x \in Endpoints : device'[x] # "none" => x \in used'
    BY <1>1 DEF SettingsInvariant
<1>9. browser # NoEndpoint => browser \in Endpoints
    BY DEF SettingsInvariant, SettingsTypes
<1> QED BY <1>1, <1>6, <1>7, <1>8, <1>9 DEF SettingsInvariant

LEMMA UnsubscribeKeeps ==
    ASSUME SettingsInvariant, NEW t \in Tabs, Unsubscribe(t)
    PROVE  SettingsInvariant'
<1> DEFINE page == Drawn([tab[t] EXCEPT !.pc = "idle", !.held = NoEndpoint, !.view = "disabled"], permission')
<1>1. /\ UNCHANGED <<device, kept, forgotten, permission, used, sent, spoiled>> /\ tab[t].pc = "unsubscribing"
      /\ tab' = [tab EXCEPT ![t] = page]
      /\ browser' = IF browser = tab[t].target THEN NoEndpoint ELSE browser
    BY DEF Unsubscribe, Server, Draw
<1>2. page \in Pages /\ page.held = NoEndpoint
    <2> DEFINE p == [tab[t] EXCEPT !.pc = "idle", !.held = NoEndpoint, !.view = "disabled"]
    <2>1. p \in Pages /\ p.held = NoEndpoint /\ permission' \in Permissions
        BY <1>1 DEF SettingsInvariant, SettingsTypes, Pages, SomeEndpoint, AtRest
    <2> HIDE DEF p
    <2>2. Drawn(p, permission') \in Pages /\ Drawn(p, permission').held = NoEndpoint
        BY <2>1, DrawnPage
    <2> QED BY <2>2 DEF p
<1> HIDE DEF page
<1>3. \A u \in Tabs : tab'[u] = IF u = t THEN page ELSE tab[u]
    BY <1>1 DEF SettingsInvariant, SettingsTypes
<1>4. SettingsTypes'
    <2>1. tab' \in [Tabs -> Pages]
        BY <1>1, <1>2 DEF SettingsInvariant, SettingsTypes
    <2>2. \A u \in Tabs : tab'[u].held \in used' \cup {NoEndpoint}
        BY <1>1, <1>2, <1>3 DEF SettingsInvariant, SettingsTypes
    <2>3. browser' \in used' \cup {NoEndpoint}
        BY <1>1 DEF SettingsInvariant, SettingsTypes
    <2> QED BY <1>1, <2>1, <2>2, <2>3 DEF SettingsInvariant, SettingsTypes
<1>5. ASSUME ~spoiled
      PROVE  /\ \A m \in sent : IsAwaited(m)'
             /\ \A x \in Endpoints : x = browser' =>
                  /\ device[x] = "none" => WorkedOn(x, {"posting"})'
                  /\ device[x] = "revoked" => WorkedOn(x, {"revoking", "unsubscribing"})'
    <2>1. ASSUME NEW m \in sent
          PROVE  IsAwaited(m)'
        <3>1. m.tab \in Tabs /\ IsAwaited(m)
            BY <1>5, NoneUnderWay DEF Pushes
        <3>2. m.tab # t
            BY <1>1, <3>1 DEF IsAwaited
        <3> QED BY <1>3, <3>1, <3>2 DEF IsAwaited
    <2>2. ASSUME NEW x \in Endpoints, x = browser'
          PROVE  /\ device[x] = "none" => WorkedOn(x, {"posting"})'
                 /\ device[x] = "revoked" => WorkedOn(x, {"revoking", "unsubscribing"})'
        <3>1. x = browser /\ x # tab[t].target /\ x # NoEndpoint
            BY <1>1, <2>2, SettingsAssumption
        <3>2. WorkedOn(x, {"posting"}) => WorkedOn(x, {"posting"})'
            BY <1>3, <3>1 DEF WorkedOn
        <3>3. WorkedOn(x, {"revoking", "unsubscribing"}) => WorkedOn(x, {"revoking", "unsubscribing"})'
            BY <1>3, <3>1 DEF WorkedOn
        <3> QED BY <1>5, <3>1, <3>2, <3>3 DEF SettingsInvariant
    <2> QED BY <2>1, <2>2
<1>6. /\ \A x \in Endpoints : device'[x] # "none" <=> <<"subscribe", x>> \in (kept \cup forgotten)'
      /\ \A x \in Endpoints : device'[x] # "none" => x \in used'
    BY <1>1 DEF SettingsInvariant
<1>7. browser' # NoEndpoint => browser' \in Endpoints
    BY <1>1 DEF SettingsInvariant, SettingsTypes
<1> QED BY <1>1, <1>4, <1>5, <1>6, <1>7 DEF SettingsInvariant

\* The page that gets an answer goes on: to rest after a subscription, and to the end
\* of its own after a revocation.
LEMMA AwaitedPage ==
    ASSUME SettingsInvariant, NEW m \in sent, mutation(m)
    PROVE  \/ UNCHANGED tab
           \/ /\ IsAwaited(m)
              /\ \E page \in Pages :
                   /\ tab' = [tab EXCEPT ![m.tab] = page]
                   /\ page.held \in used \cup {NoEndpoint} /\ page.target = m.endpoint
                   /\ m.kind = "subscribe" => page.pc = "idle"
                   /\ m.kind = "revoke" => page.pc = "unsubscribing"
<1> SUFFICES ASSUME IsAwaited(m), Draw(m.tab, Awaited(m.tab)), UNCHANGED permission
             PROVE  \E page \in Pages :
                      /\ tab' = [tab EXCEPT ![m.tab] = page]
                      /\ page.held \in used \cup {NoEndpoint} /\ page.target = m.endpoint
                      /\ m.kind = "subscribe" => page.pc = "idle"
                      /\ m.kind = "revoke" => page.pc = "unsubscribing"
    BY DEF mutation, Browser
<1> DEFINE t == m.tab
           p == Awaited(t)
           page == Drawn(p, permission')
<1>1. /\ t \in Tabs /\ tab[t] \in Pages /\ tab[t].held \in used \cup {NoEndpoint} /\ m.endpoint \in used
      /\ tab[t].target = m.endpoint /\ m.kind \in {"subscribe", "revoke"} /\ permission' \in Permissions
      /\ tab[t].pc = (IF m.kind = "subscribe" THEN "posting" ELSE "revoking")
      /\ m.endpoint \in Endpoints
    BY DEF SettingsInvariant, SettingsTypes, Pushes, IsAwaited
<1> HIDE DEF t
<1>2. /\ p \in Pages /\ p.held \in used \cup {NoEndpoint} /\ p.target = m.endpoint
      /\ m.kind = "subscribe" => p.pc = "idle"
      /\ m.kind = "revoke" => p.pc = "unsubscribing"
    BY <1>1 DEF Awaited, Pages, SomeEndpoint, AtRest
<1>3. tab' = [tab EXCEPT ![t] = page]
    BY DEF Draw, t
<1> HIDE DEF p
<1>4. page \in Pages /\ page.pc = p.pc /\ page.target = p.target /\ page.held = p.held
    BY <1>1, <1>2, DrawnPage
<1> QED BY <1>2, <1>3, <1>4 DEF t

LEMMA MutationTypes ==
    ASSUME SettingsInvariant, NEW m \in sent, mutation(m),
           device' \in [Endpoints -> {"none", "active", "revoked", "invalid"}]
    PROVE  SettingsTypes'
<1>1. UNCHANGED <<permission, browser, used, spoiled>> /\ sent' \subseteq sent /\ m.tab \in Tabs
    BY DEF mutation, Browser, SettingsInvariant, SettingsTypes, Pushes
<1>2. tab' \in [Tabs -> Pages] /\ \A t \in Tabs : tab'[t].held \in used \cup {NoEndpoint}
    BY <1>1, AwaitedPage DEF SettingsInvariant, SettingsTypes
<1> QED BY <1>1, <1>2 DEF SettingsInvariant, SettingsTypes

\* The pages that go on waiting for their requests do.
LEMMA MutationAnswers ==
    ASSUME SettingsInvariant, NEW m \in sent, mutation(m), ~spoiled
    PROVE  \A other \in sent' : IsAwaited(other)'
<1> SUFFICES ASSUME NEW other \in sent' PROVE IsAwaited(other)'
    OBVIOUS
<1>1. other \in sent /\ other # m
    BY DEF mutation
<1>2. other \in Pushes /\ m \in Pushes /\ IsAwaited(other) /\ IsAwaited(m)
    BY <1>1, NoneUnderWay
<1>3. other.tab # m.tab
    <2>1. SUFFICES ASSUME other.tab = m.tab PROVE FALSE
        OBVIOUS
    <2>2. other.endpoint = m.endpoint /\ other.kind = m.kind
        BY <1>2, <2>1 DEF IsAwaited, Pushes
    <2> QED BY <1>1, <1>2, <2>1, <2>2 DEF Pushes
<1>4. other.tab \in Tabs /\ tab'[other.tab] = tab[other.tab]
    BY <1>2, <1>3, AwaitedPage DEF SettingsInvariant, SettingsTypes, Pushes
<1> QED BY <1>2, <1>4 DEF IsAwaited

\* Of the work on an endpoint an answer only ends a subscription of the same endpoint.
LEMMA MutationWork ==
    ASSUME SettingsInvariant, NEW m \in sent, mutation(m), NEW x
    PROVE  /\ WorkedOn(x, {"revoking", "unsubscribing"}) => WorkedOn(x, {"revoking", "unsubscribing"})'
           /\ (m.kind = "revoke" \/ m.endpoint # x) /\ WorkedOn(x, {"posting"}) => WorkedOn(x, {"posting"})'
<1>1. CASE UNCHANGED tab
    BY <1>1 DEF WorkedOn
<1>2. ASSUME IsAwaited(m), NEW page \in Pages, tab' = [tab EXCEPT ![m.tab] = page],
             page.target = m.endpoint, m.kind = "revoke" => page.pc = "unsubscribing"
      PROVE  /\ WorkedOn(x, {"revoking", "unsubscribing"}) => WorkedOn(x, {"revoking", "unsubscribing"})'
             /\ (m.kind = "revoke" \/ m.endpoint # x) /\ WorkedOn(x, {"posting"}) => WorkedOn(x, {"posting"})'
    <2>1. m.tab \in Tabs /\ m.kind \in {"subscribe", "revoke"}
        BY DEF SettingsInvariant, SettingsTypes, Pushes
    <2>2. \A u \in Tabs : tab'[u] = IF u = m.tab THEN page ELSE tab[u]
        BY <1>2 DEF SettingsInvariant, SettingsTypes
    <2>3. tab[m.tab].pc = (IF m.kind = "subscribe" THEN "posting" ELSE "revoking") /\ tab[m.tab].target = m.endpoint
        BY <1>2 DEF IsAwaited
    <2>4. WorkedOn(x, {"revoking", "unsubscribing"}) => WorkedOn(x, {"revoking", "unsubscribing"})'
        <3>1. ASSUME NEW u \in Tabs, tab[u].pc \in {"revoking", "unsubscribing"}, tab[u].target = x
              PROVE  tab'[u].pc \in {"revoking", "unsubscribing"} /\ tab'[u].target = x
            BY <1>2, <2>1, <2>2, <2>3, <3>1
        <3> QED BY <3>1 DEF WorkedOn
    <2>5. (m.kind = "revoke" \/ m.endpoint # x) /\ WorkedOn(x, {"posting"}) => WorkedOn(x, {"posting"})'
        BY <2>1, <2>2, <2>3 DEF WorkedOn
    <2> QED BY <2>4, <2>5
<1> QED BY <1>1, <1>2, AwaitedPage

LEMMA MutationKeeps ==
    ASSUME SettingsInvariant, NEW m \in sent, mutation(m)
    PROVE  SettingsInvariant'
<1> DEFINE e == m.endpoint
           t == m.tab
<1>1. m \in Pushes /\ e \in Endpoints /\ e \in used /\ t \in Tabs /\ m.kind \in {"subscribe", "revoke"}
    BY DEF SettingsInvariant, SettingsTypes, Pushes
<1>2. /\ UNCHANGED <<permission, browser, used, spoiled>>
      /\ sent' = sent \ {m} /\ kept' = kept \cup {<<m.kind, e>>} /\ forgotten' = forgotten \ {<<m.kind, e>>}
      /\ (Draw(t, Awaited(t)) /\ IsAwaited(m)) \/ UNCHANGED tab
    BY DEF mutation, Browser, Counts, Key
<1>3. device' = IF <<m.kind, e>> \in kept THEN device
                ELSE IF m.kind = "subscribe" THEN [device EXCEPT ![e] = "active"]
                ELSE [device EXCEPT ![e] = IF device[e] \in {"active", "invalid"} THEN "revoked" ELSE device[e]]
    BY DEF mutation, Replays, Key, upsert, revoke
<1>4. device \in [Endpoints -> {"none", "active", "revoked", "invalid"}]
    BY DEF SettingsInvariant, SettingsTypes
<1> HIDE DEF e, t
<1>5. \A x \in Endpoints \ {e} : device'[x] = device[x]
    BY <1>1, <1>3, <1>4
<1>6. device' \in [Endpoints -> {"none", "active", "revoked", "invalid"}]
    BY <1>1, <1>3, <1>4
\* What becomes of the device itself.
<1>7. CASE m.kind = "subscribe"
    <2>1. <<"subscribe", e>> \in kept => device' = device
        BY <1>3, <1>7
    <2>2. <<"subscribe", e>> \notin kept => device'[e] = "active"
        BY <1>1, <1>3, <1>4, <1>7
    <2>3. device'[e] \in {"active", device[e]}
        BY <2>1, <2>2
    <2>4. device'[e] # "none" /\ (device[e] = "none" => device'[e] = "active")
        BY <1>1, <2>1, <2>2 DEF SettingsInvariant
    <2>5. (kept \cup forgotten)' = kept \cup forgotten \cup {<<"subscribe", e>>}
        BY <1>2, <1>7
    <2>6. \A x \in Endpoints : device'[x] # "none" <=> <<"subscribe", x>> \in (kept \cup forgotten)'
        BY <1>5, <2>4, <2>5 DEF SettingsInvariant
    <2>7. SettingsTypes'
        BY <1>1, <1>2, <1>6, MutationTypes
    <2>8. \A x \in Endpoints : device'[x] # "none" => x \in used'
        BY <1>1, <1>2, <1>5 DEF SettingsInvariant
    <2>10. ASSUME ~spoiled
           PROVE  /\ \A other \in sent' : IsAwaited(other)'
                  /\ \A x \in Endpoints : x = browser =>
                       /\ device'[x] = "none" => WorkedOn(x, {"posting"})'
                       /\ device'[x] = "revoked" => WorkedOn(x, {"revoking", "unsubscribing"})'
        <3>1. \A other \in sent' : IsAwaited(other)'
            BY <2>10, MutationAnswers
        <3>2. ASSUME NEW x \in Endpoints, x = browser, device'[x] = "none"
              PROVE  WorkedOn(x, {"posting"})'
            <4>1. x # e /\ device[x] = "none"
                BY <1>5, <2>4, <3>2
            <4>2. WorkedOn(x, {"posting"})
                BY <2>10, <3>2, <4>1, SettingsAssumption DEF SettingsInvariant
            <4> QED BY <4>1, <4>2, MutationWork DEF e
        <3>3. ASSUME NEW x \in Endpoints, x = browser, device'[x] = "revoked"
              PROVE  WorkedOn(x, {"revoking", "unsubscribing"})'
            <4>1. device[x] = "revoked"
                BY <1>1, <1>5, <2>3, <2>4, <3>3
            <4>2. WorkedOn(x, {"revoking", "unsubscribing"})
                BY <2>10, <3>3, <4>1, SettingsAssumption DEF SettingsInvariant
            <4> QED BY <4>2, MutationWork
        <3> QED BY <3>1, <3>2, <3>3
    <2>11. browser # NoEndpoint => browser \in Endpoints
        BY DEF SettingsInvariant, SettingsTypes
    <2> QED BY <1>2, <2>6, <2>7, <2>8, <2>10, <2>11 DEF SettingsInvariant
<1>8. CASE m.kind = "revoke"
    <2>1. device'[e] = device[e] \/ (device[e] \in {"active", "invalid"} /\ device'[e] = "revoked")
        <3>1. \/ device' = device
              \/ device' = [device EXCEPT ![e] = IF device[e] \in {"active", "invalid"} THEN "revoked" ELSE device[e]]
            BY <1>3, <1>8
        <3> QED BY <1>1, <1>4, <3>1
    <2>2. \A x : <<"subscribe", x>> \in (kept \cup forgotten)' <=> <<"subscribe", x>> \in kept \cup forgotten
        BY <1>2, <1>8
    <2>3. \A x \in Endpoints : device'[x] # "none" <=> <<"subscribe", x>> \in (kept \cup forgotten)'
        BY <1>1, <1>5, <2>1, <2>2 DEF SettingsInvariant
    <2>4. SettingsTypes'
        BY <1>1, <1>2, <1>6, MutationTypes
    <2>5. \A x \in Endpoints : device'[x] # "none" => x \in used'
        BY <1>1, <1>2, <1>5 DEF SettingsInvariant
    <2>7. ASSUME ~spoiled
          PROVE  /\ \A other \in sent' : IsAwaited(other)'
                 /\ \A x \in Endpoints : x = browser =>
                      /\ device'[x] = "none" => WorkedOn(x, {"posting"})'
                      /\ device'[x] = "revoked" => WorkedOn(x, {"revoking", "unsubscribing"})'
        <3>1. \A other \in sent' : IsAwaited(other)'
            BY <2>7, MutationAnswers
        <3>2. ASSUME NEW x \in Endpoints, x = browser, device'[x] = "none"
              PROVE  WorkedOn(x, {"posting"})'
            <4>1. device[x] = "none"
                BY <1>1, <1>5, <2>1, <3>2
            <4>2. WorkedOn(x, {"posting"})
                BY <2>7, <3>2, <4>1, SettingsAssumption DEF SettingsInvariant
            <4> QED BY <1>8, <4>2, MutationWork
        <3>3. ASSUME NEW x \in Endpoints, x = browser, device'[x] = "revoked"
              PROVE  WorkedOn(x, {"revoking", "unsubscribing"})'
            <4>1. CASE device[x] = "revoked"
                <5>1. WorkedOn(x, {"revoking", "unsubscribing"})
                    BY <2>7, <3>3, <4>1, SettingsAssumption DEF SettingsInvariant
                <5> QED BY <5>1, MutationWork
            \* It is revoked by this request, whose page goes on to unsubscribe.
            <4>2. CASE device[x] # "revoked"
                <5>1. x = e
                    BY <1>5, <3>3, <4>2
                <5>2. IsAwaited(m)
                    BY <2>7, NoneUnderWay
                <5>3. WorkedOn(x, {"revoking", "unsubscribing"})
                    BY <1>1, <1>8, <5>1, <5>2 DEF WorkedOn, IsAwaited, e, t
                <5> QED BY <5>3, MutationWork
            <4> QED BY <4>1, <4>2
        <3> QED BY <3>1, <3>2, <3>3
    <2>8. browser # NoEndpoint => browser \in Endpoints
        BY DEF SettingsInvariant, SettingsTypes
    <2> QED BY <1>2, <2>3, <2>4, <2>5, <2>7, <2>8 DEF SettingsInvariant
<1> QED BY <1>1, <1>7, <1>8

LEMMA PermissionKeeps ==
    ASSUME SettingsInvariant, NEW p \in Permissions,
           permission' = p, browser' = (IF p = "granted" THEN browser ELSE NoEndpoint),
           UNCHANGED <<device, kept, forgotten, used, sent, tab, spoiled>>
    PROVE  SettingsInvariant'
<1>1. SettingsTypes'
    BY DEF SettingsInvariant, SettingsTypes
<1>2. \A m \in sent : IsAwaited(m)' <=> IsAwaited(m)
    BY DEF IsAwaited
<1>3. CASE browser' = NoEndpoint
    BY <1>1, <1>2, <1>3 DEF SettingsInvariant
<1>4. CASE browser' = browser
    BY <1>1, <1>2, <1>4 DEF SettingsInvariant, WorkedOn
<1> QED BY <1>3, <1>4

LEMMA InvalidateKeeps ==
    ASSUME SettingsInvariant, NEW e \in Endpoints, invalidate(e)
    PROVE  SettingsInvariant'
<1>1. /\ device[e] = "active" /\ device' = [device EXCEPT ![e] = "invalid"]
      /\ UNCHANGED <<kept, forgotten, permission, browser, used, sent, tab, spoiled>>
    BY DEF invalidate, Browser
<1>2. \A x \in Endpoints : device'[x] = IF x = e THEN "invalid" ELSE device[x]
    BY <1>1 DEF SettingsInvariant, SettingsTypes
<1>3. SettingsTypes'
    BY <1>1 DEF SettingsInvariant, SettingsTypes
<1>4. \A x \in Endpoints : device'[x] \in {"none", "revoked"} => device'[x] = device[x]
    BY <1>2
<1>5. browser # NoEndpoint => browser \in Endpoints
    BY DEF SettingsInvariant, SettingsTypes
<1>6. \A x \in Endpoints : device'[x] # "none" <=> device[x] # "none"
    BY <1>1, <1>2
<1>7. \A m \in sent : IsAwaited(m)' <=> IsAwaited(m)
    BY <1>1 DEF IsAwaited
<1> QED BY <1>1, <1>3, <1>4, <1>5, <1>6, <1>7 DEF SettingsInvariant, WorkedOn

LEMMA ForgetKeeps ==
    ASSUME SettingsInvariant, NEW key \in kept, Forget(key)
    PROVE  SettingsInvariant'
<1>1. /\ (kept \cup forgotten)' = kept \cup forgotten
      /\ UNCHANGED <<device, permission, browser, used, sent, tab, spoiled>>
    BY DEF Forget, Browser
<1>2. SettingsTypes'
    BY <1>1 DEF SettingsInvariant, SettingsTypes
<1>3. \A m \in sent : IsAwaited(m)' <=> IsAwaited(m)
    BY <1>1 DEF IsAwaited
<1> QED BY <1>1, <1>2, <1>3 DEF SettingsInvariant, WorkedOn

LEMMA SettingsKeep ==
    ASSUME SettingsInvariant, SettingsNext \/ UNCHANGED settingsVars
    PROVE  SettingsInvariant'
<1>1. CASE UNCHANGED settingsVars
    BY <1>1 DEF settingsVars, SettingsInvariant, SettingsTypes, WorkedOn, IsAwaited
<1>2. \A t \in Tabs : tab[t] \in Pages /\ tab[t].held \in used \cup {NoEndpoint}
    BY DEF SettingsInvariant, SettingsTypes
<1>3. permission \in Permissions /\ spoiled \in BOOLEAN /\ used \subseteq Endpoints
      /\ browser \in used \cup {NoEndpoint}
    BY DEF SettingsInvariant, SettingsTypes
<1>4. ASSUME NEW t \in Tabs, Open(t)
      PROVE  SettingsInvariant'
    <2> DEFINE page == [Closed EXCEPT !.view = "loading", !.loading = TRUE, !.ran = permission]
    <2>1. /\ tab' = [tab EXCEPT ![t] = page] /\ spoiled' = (spoiled \/ tab[t].pc # "idle")
          /\ UNCHANGED <<device, kept, forgotten, permission, browser, used, sent>>
        BY <1>4 DEF Open, Server, Browser
    <2>2. page \in Pages /\ page.held = NoEndpoint
        BY <1>3 DEF Closed, Pages, SomeEndpoint, AtRest
    <2>3. spoiled' \/ tab[t].pc \in AtRest
        BY <2>1 DEF AtRest
    <2>4. spoiled' \in BOOLEAN /\ (spoiled => spoiled')
        BY <2>1
    <2> HIDE DEF page
    <2> QED BY <1>3, <2>1, <2>2, <2>3, <2>4, PageMoves
<1>5. ASSUME NEW t \in Tabs, Load(t)
      PROVE  SettingsInvariant'
    <2>1. PICK page : /\ Draw(t, page) /\ page \in Pages /\ page.held \in used \cup {NoEndpoint}
                      /\ page.pc = tab[t].pc /\ page.target = tab[t].target
        <3>1. CASE tab[t].ran = "denied"
            <4> DEFINE page == [tab[t] EXCEPT !.view = "denied", !.loading = FALSE]
            <4>1. Draw(t, page)
                BY <1>5, <3>1 DEF Load
            <4>2. page \in Pages /\ page.held = tab[t].held /\ page.pc = tab[t].pc /\ page.target = tab[t].target
                BY <1>2 DEF Pages
            <4> HIDE DEF page
            <4> QED BY <1>2, <4>1, <4>2
        <3>2. CASE tab[t].ran = "default"
            <4> DEFINE page == [tab[t] EXCEPT !.view = "disabled", !.loading = FALSE]
            <4>1. Draw(t, page)
                BY <1>5, <3>2 DEF Load
            <4>2. page \in Pages /\ page.held = tab[t].held /\ page.pc = tab[t].pc /\ page.target = tab[t].target
                BY <1>2 DEF Pages
            <4> HIDE DEF page
            <4> QED BY <1>2, <4>1, <4>2
        <3>3. CASE tab[t].ran \notin {"denied", "default"}
            <4> DEFINE page == [tab[t] EXCEPT !.loading = FALSE, !.held = browser,
                                  !.view = IF browser = NoEndpoint THEN "disabled" ELSE "enabled"]
            <4>1. Draw(t, page)
                BY <1>5, <3>3 DEF Load
            <4>2. page \in Pages /\ page.held = browser /\ page.pc = tab[t].pc /\ page.target = tab[t].target
                BY <1>2, <1>3 DEF Pages, SomeEndpoint
            <4> HIDE DEF page
            <4> QED BY <1>3, <4>1, <4>2
        <3> QED BY <3>1, <3>2, <3>3
    <2>2. UNCHANGED <<device, kept, forgotten, permission, browser, used, sent, spoiled>>
        BY <1>5 DEF Load, Server, Browser
    <2> QED BY <1>3, <2>1, <2>2, DrawMoves
<1>6. ASSUME NEW t \in Tabs, Enable(t)
      PROVE  SettingsInvariant'
    <2> DEFINE page == [tab[t] EXCEPT !.pc = IF tab[t].ran = "granted" THEN "subscribing" ELSE "asking"]
    <2>1. /\ Draw(t, page) /\ tab[t].pc \in AtRest
          /\ UNCHANGED <<device, kept, forgotten, permission, browser, used, sent, spoiled>>
        BY <1>6 DEF Enable, Server, Browser, AtRest
    <2>2. page \in Pages /\ page.held = tab[t].held
        BY <1>2 DEF Pages, AtRest
    <2> HIDE DEF page
    <2> QED BY <1>2, <1>3, <2>1, <2>2, DrawMoves
<1>7. ASSUME NEW t \in Tabs, PermissionAnswered(t)
      PROVE  SettingsInvariant'
    <2>1. /\ permission' \in Permissions /\ tab[t].pc \in AtRest
          /\ UNCHANGED <<device, kept, forgotten, browser, used, sent, spoiled>>
        BY <1>3, <1>7 DEF PermissionAnswered, Server, AtRest, Permissions
    <2>2. CASE permission' = "granted"
        <3> DEFINE page == [tab[t] EXCEPT !.pc = "subscribing"]
        <3>1. tab' = [tab EXCEPT ![t] = page]
            BY <1>7, <2>2 DEF PermissionAnswered, SettingsInvariant, SettingsTypes
        <3>2. page \in Pages /\ page.held = tab[t].held
            BY <1>2 DEF Pages, AtRest
        <3> HIDE DEF page
        <3> QED BY <1>2, <1>3, <2>1, <3>1, <3>2, PageMoves
    <2>3. CASE permission' # "granted"
        <3> DEFINE page == [tab[t] EXCEPT !.pc = "idle", !.view = "denied"]
        <3>1. Draw(t, page)
            BY <1>7, <2>3 DEF PermissionAnswered
        <3>2. page \in Pages /\ page.held = tab[t].held
            BY <1>2 DEF Pages, AtRest
        <3> HIDE DEF page
        <3> QED BY <1>2, <1>3, <2>1, <3>1, <3>2, DrawMoves
    <2> QED BY <2>2, <2>3
<1>8. ASSUME NEW t \in Tabs, SubscribeFails(t)
      PROVE  SettingsInvariant'
    <2> DEFINE page == [tab[t] EXCEPT !.pc = "idle", !.view = "error"]
    <2>1. /\ Draw(t, page) /\ tab[t].pc \in AtRest
          /\ UNCHANGED <<device, kept, forgotten, permission, browser, used, sent, spoiled>>
        BY <1>8 DEF SubscribeFails, Server, Browser, AtRest
    <2>2. page \in Pages /\ page.held = tab[t].held
        BY <1>2 DEF Pages, AtRest
    <2> HIDE DEF page
    <2> QED BY <1>2, <1>3, <2>1, <2>2, DrawMoves
<1>9. ASSUME NEW t \in Tabs, GivesUp(t) \/ UnsubscribeFails(t)
      PROVE  SettingsInvariant'
    <2>1. PICK page : /\ Draw(t, page)
                      /\ page \in {[tab[t] EXCEPT !.pc = "idle", !.view = "error"], [tab[t] EXCEPT !.pc = "idle"]}
        BY <1>9 DEF GivesUp, UnsubscribeFails
    <2>2. spoiled' = TRUE /\ UNCHANGED <<device, kept, forgotten, permission, browser, used, sent>>
        BY <1>9 DEF GivesUp, UnsubscribeFails, Server, Browser
    <2>3. page \in Pages /\ page.held = tab[t].held
        BY <1>2, <2>1 DEF Pages, AtRest
    <2> QED BY <1>2, <1>3, <2>1, <2>2, <2>3, DrawMoves
<1>10. ASSUME NEW p \in Changes, ChangePermission(p)
       PROVE  SettingsInvariant'
    <2>1. p \in Permissions
        BY SettingsAssumption DEF Permissions
    <2>2. /\ permission' = p /\ browser' = (IF p = "granted" THEN browser ELSE NoEndpoint)
          /\ UNCHANGED <<device, kept, forgotten, used, sent, tab, spoiled>>
        BY <1>10 DEF ChangePermission, Server
    <2> QED BY <2>1, <2>2, PermissionKeeps
<1> QED BY <1>1, <1>4, <1>5, <1>6, <1>7, <1>8, <1>9, <1>10, SubscribeKeeps, RevokeKeeps, UnsubscribeKeeps,
           MutationKeeps, InvalidateKeeps, ForgetKeeps DEF SettingsNext

LEMMA DevicesStayGone ==
    ASSUME SettingsInvariant, SettingsNext \/ UNCHANGED settingsVars
    PROVE  GoneUntilForgotten
<1>1. ASSUME UNCHANGED device
      PROVE  GoneUntilForgotten
    BY <1>1 DEF GoneUntilForgotten
<1>2. ASSUME NEW m \in sent, mutation(m)
      PROVE  GoneUntilForgotten
    <2> DEFINE e == m.endpoint
    <2>1. /\ e \in Endpoints /\ m.kind \in {"subscribe", "revoke"}
          /\ device \in [Endpoints -> {"none", "active", "revoked", "invalid"}]
        BY DEF SettingsInvariant, SettingsTypes, Pushes
    <2>2. device' = IF <<m.kind, e>> \in kept THEN device
                    ELSE IF m.kind = "subscribe" THEN [device EXCEPT ![e] = "active"]
                    ELSE [device EXCEPT ![e] = IF device[e] \in {"active", "invalid"} THEN "revoked" ELSE device[e]]
        BY <1>2 DEF mutation, Replays, Key, upsert, revoke
    <2> HIDE DEF e
    <2>3. CASE device' = device
        BY <1>1, <2>3
    <2>4. CASE m.kind = "subscribe" /\ device' = [device EXCEPT ![e] = "active"] /\ <<"subscribe", e>> \notin kept
        <3>1. device[e] = "none" \/ <<"subscribe", e>> \in forgotten
            BY <2>1, <2>4 DEF SettingsInvariant
        <3> QED BY <2>1, <2>4, <3>1 DEF GoneUntilForgotten
    <2>5. CASE device' = [device EXCEPT ![e] = IF device[e] \in {"active", "invalid"} THEN "revoked" ELSE device[e]]
        BY <2>1, <2>5 DEF GoneUntilForgotten
    <2> QED BY <2>1, <2>2, <2>3, <2>4, <2>5
<1>3. ASSUME NEW e \in Endpoints, invalidate(e)
      PROVE  GoneUntilForgotten
    BY <1>3 DEF invalidate, GoneUntilForgotten, SettingsInvariant, SettingsTypes
<1>4. ASSUME NEW t \in Tabs,
             \/ Open(t) \/ Load(t)
             \/ Enable(t) \/ PermissionAnswered(t) \/ subscribeBrowserPush(t) \/ SubscribeFails(t)
             \/ Revoke(t) \/ GivesUp(t) \/ Unsubscribe(t) \/ UnsubscribeFails(t)
      PROVE  UNCHANGED device
    BY <1>4 DEF Open, Load, Enable, PermissionAnswered, subscribeBrowserPush, SubscribeFails, Revoke, GivesUp,
                Unsubscribe, UnsubscribeFails, Server
<1>5. ASSUME NEW p \in Changes, ChangePermission(p)
      PROVE  UNCHANGED device
    BY <1>5 DEF ChangePermission, Server
<1>6. ASSUME NEW key \in kept, Forget(key)
      PROVE  UNCHANGED device
    BY <1>6 DEF Forget
<1> QED BY <1>1, <1>2, <1>3, <1>4, <1>5, <1>6 DEF SettingsNext, settingsVars

LEMMA SettingsAreRight ==
    SettingsInvariant => DeviceIsKnown
<1> SUFFICES ASSUME SettingsInvariant, ~spoiled, browser # NoEndpoint, \A t \in Tabs : tab[t].pc = "idle"
             PROVE  device[browser] \in {"active", "invalid"}
    BY DEF DeviceIsKnown
<1>1. ~WorkedOn(browser, {"posting"}) /\ ~WorkedOn(browser, {"revoking", "unsubscribing"})
    BY DEF WorkedOn
<1>2. browser \in Endpoints /\ device[browser] \in {"none", "active", "revoked", "invalid"}
    BY DEF SettingsInvariant, SettingsTypes
<1> QED BY <1>1, <1>2 DEF SettingsInvariant

-----------------------------------------------------------------------------
(* The order ticket.                                                        *)

Confirmations == [key : Nat, token : tokens, pc : {"sent", "created", "refused"}]

\* The confirmation of an order was lost, or is the one under way, or was answered: and
\* then its dialog is closed, unless it was refused.
Settled(c) ==
    \/ c.key \in unanswered
    \/ c.key = awaited /\ c.token = preview
    \/ c.pc = "refused"
    \/ c.pc = "created" /\ c.token # preview

TicketInvariant ==
    /\ IsFiniteSet(tokens) /\ \A t \in tokens : t.id \in Nat /\ t.id < Cardinality(tokens)
    /\ preview \in tokens \cup {Nothing}
    /\ IsFiniteSet(confirmations)
    /\ \A c \in confirmations : c \in Confirmations /\ c.key < Cardinality(confirmations) /\ c.token # Nothing
    /\ \A c, d \in confirmations : c.key = d.key => c = d
    /\ asked # Nothing => busy /\ awaited = Nothing /\ preview = Nothing
    /\ awaited # Nothing => busy
    /\ \A c \in confirmations : Settled(c)
    /\ \A c, d \in confirmations :
         c.token = d.token /\ c.pc = "created" /\ d.pc = "created" /\ c.key \notin unanswered
           /\ d.key \notin unanswered => c = d
    /\ \A o \in orders :
         /\ o = [key |-> o.key, token |-> o.token, order |-> o.token.order]
         /\ \E c \in confirmations : c.key = o.key /\ c.token = o.token /\ c.pc = "created"

LEMMA TicketStartsRight ==
    TicketInit => TicketInvariant
BY FS_EmptySet DEF TicketInit, TicketInvariant

\* Each order has a confirmation of its own, and all but one of them were lost.
LEMMA TicketIsRight ==
    TicketInvariant => OneOrderPerDialog
<1> SUFFICES ASSUME TicketInvariant, NEW t \in tokens
             PROVE  LET made == {o \in orders : o.token = t}
                        lost == {c \in confirmations : c.token = t /\ c.key \in unanswered}
                    IN  /\ Cardinality(made) <= 1 + Cardinality(lost)
                        /\ preview # t /\ lost = {} => \A c \in confirmations : c.token = t => c.pc # "sent"
    BY DEF OneOrderPerDialog
<1> DEFINE made == {o \in orders : o.token = t}
           lost == {c \in confirmations : c.token = t /\ c.key \in unanswered}
           created == {c \in confirmations : c.token = t /\ c.pc = "created"}
<1>1. IsFiniteSet(created) /\ IsFiniteSet(lost)
    <2>1. created \in SUBSET confirmations /\ lost \in SUBSET confirmations /\ IsFiniteSet(confirmations)
        BY DEF TicketInvariant
    <2> HIDE DEF created, lost
    <2> QED BY <2>1, FS_Subset
<1>2. IsFiniteSet(made) /\ Cardinality(made) <= Cardinality(created)
    <2> DEFINE f == [o \in made |-> CHOOSE c \in created : c.key = o.key]
    <2>1. \A o \in made : f[o] \in created /\ f[o].key = o.key
        <3>1. \A o \in made : \E c \in created : c.key = o.key
            BY DEF TicketInvariant
        <3> QED BY <3>1
    <2>2. \A o, p \in made : f[o] = f[p] => o = p
        <3>1. \A o \in made : o = [key |-> o.key, token |-> t, order |-> t.order]
            BY DEF TicketInvariant
        <3> QED BY <2>1, <3>1
    <2>3. f \in [made -> created]
        BY <2>1
    <2> HIDE DEF f, made, created
    <2>4. f \in Injection(made, created)
        BY <2>2, <2>3 DEF Injection, IsInjective
    <2> QED BY <1>1, <2>4, FS_Injection
<1>3. Cardinality(created) <= 1 + Cardinality(lost)
    <2>1. CASE created \subseteq lost
        <3>1. created \in SUBSET lost
            BY <2>1
        <3>2. Cardinality(created) <= Cardinality(lost)
            BY <1>1, <3>1, FS_Subset
        <3> QED BY <1>1, <3>2, FS_CardinalityType
    <2>2. CASE ~(created \subseteq lost)
        <3>1. PICK c \in created : c \notin lost
            BY <2>2
        <3>2. created \subseteq lost \cup {c}
            BY <3>1 DEF TicketInvariant
        <3>3. created \in SUBSET (lost \cup {c})
            BY <3>2
        <3> HIDE DEF created, lost
        <3>4. IsFiniteSet(lost \cup {c}) /\ Cardinality(lost \cup {c}) <= Cardinality(lost) + 1
              /\ Cardinality(lost) \in Nat
            <4>1. Cardinality(lost) \in Nat
                BY <1>1, FS_CardinalityType
            <4>2. IsFiniteSet(lost \cup {c}) /\ Cardinality(lost \cup {c}) \in {Cardinality(lost), Cardinality(lost) + 1}
                BY <1>1, FS_AddElement
            <4> QED BY <4>1, <4>2
        <3>5. Cardinality(created) <= Cardinality(lost \cup {c})
            BY <3>3, <3>4, FS_Subset
        <3>6. Cardinality(lost \cup {c}) \in Nat /\ Cardinality(created) \in Nat
            BY <1>1, <3>4, FS_CardinalityType
        <3> QED BY <3>4, <3>5, <3>6
    <2> QED BY <2>1, <2>2
<1>4. Cardinality(made) <= 1 + Cardinality(lost)
    <2> HIDE DEF made, lost, created
    <2>1. Cardinality(made) \in Nat /\ Cardinality(lost) \in Nat /\ Cardinality(created) \in Nat
        BY <1>1, <1>2, FS_CardinalityType
    <2> QED BY <1>2, <1>3, <2>1
<1>5. preview # t /\ lost = {} => \A c \in confirmations : c.token = t => c.pc # "sent"
    BY DEF TicketInvariant, Settled
<1> QED BY <1>4, <1>5

\* What the form does, with no confirmation under way, leaves the rest as it was.
LEMMA FormMoves ==
    ASSUME TicketInvariant, UNCHANGED <<tokens, confirmations, orders, unanswered, awaited>>,
           \/ UNCHANGED preview
           \/ awaited = Nothing /\ preview' = Nothing,
           asked' # Nothing => busy' /\ awaited = Nothing /\ preview' = Nothing,
           awaited # Nothing => busy'
    PROVE  TicketInvariant'
<1>1. preview' \in tokens \cup {Nothing}
    BY DEF TicketInvariant
<1>2. \A c \in confirmations : Settled(c)'
    BY TicketAssumption DEF TicketInvariant, Settled, Confirmations
<1> QED BY <1>1, <1>2 DEF TicketInvariant, Confirmations

LEMMA PreviewKeeps ==
    ASSUME TicketInvariant, PreviewArrives
    PROVE  TicketInvariant'
<1> DEFINE token == issue(Normalized(asked))
<1>1. /\ asked # Nothing /\ tokens' = tokens \cup {token} /\ preview' = token
      /\ asked' = Nothing /\ UNCHANGED <<awaited, confirmations, orders, unanswered>>
    BY DEF PreviewArrives
<1>2. awaited = Nothing
    BY <1>1 DEF TicketInvariant
<1>3. Cardinality(tokens) \in Nat /\ token.id = Cardinality(tokens)
    BY FS_CardinalityType DEF TicketInvariant, issue
<1> HIDE DEF token
<1>4. token \notin tokens
    BY <1>3 DEF TicketInvariant
<1>5. IsFiniteSet(tokens') /\ Cardinality(tokens') = Cardinality(tokens) + 1
    BY <1>1, <1>4, FS_AddElement DEF TicketInvariant
<1>6. \A t \in tokens' : t.id \in Nat /\ t.id < Cardinality(tokens')
    <2>1. \A t \in tokens : t.id \in Nat /\ t.id < Cardinality(tokens)
        BY DEF TicketInvariant
    <2> QED BY <1>1, <1>3, <1>5, <2>1
<1>7. \A c \in confirmations : c \in Confirmations /\ c.token \in tokens /\ c.key \in Nat
    BY DEF TicketInvariant, Confirmations
<1>8. \A c \in confirmations : c \in Confirmations'
    BY <1>1, <1>7 DEF Confirmations
<1>9. \A c \in confirmations : Settled(c)'
    <2> SUFFICES ASSUME NEW c \in confirmations PROVE Settled(c)'
        OBVIOUS
    <2>1. Settled(c) /\ c.key # awaited /\ c.token # token
        BY <1>2, <1>4, <1>7, TicketAssumption DEF TicketInvariant
    <2> QED BY <1>1, <2>1 DEF Settled
<1> QED BY <1>1, <1>2, <1>5, <1>6, <1>8, <1>9 DEF TicketInvariant

LEMMA ConfirmKeeps ==
    ASSUME TicketInvariant, confirm
    PROVE  TicketInvariant'
<1>0. PICK n, new : n = Cardinality(confirmations) /\ new = [key |-> n, token |-> preview, pc |-> "sent"]
    OBVIOUS
<1>1. /\ preview # Nothing /\ ~busy /\ confirmations' = confirmations \cup {new} /\ busy' = TRUE /\ awaited' = n
      /\ UNCHANGED <<preview, asked, tokens, orders, unanswered>>
    BY <1>0 DEF confirm, MayConfirm
<1>2. n \in Nat /\ awaited = Nothing /\ asked = Nothing /\ preview \in tokens
    BY <1>0, <1>1, FS_CardinalityType DEF TicketInvariant
<1>3. \A c \in confirmations : c \in Confirmations /\ c.key \in Nat /\ c.key < n /\ c.token # Nothing
    BY <1>0 DEF TicketInvariant, Confirmations
<1>4. new.key = n /\ new.token = preview /\ new.pc = "sent" /\ new \in Confirmations
    BY <1>0, <1>2 DEF Confirmations
<1>5. new \notin confirmations
    BY <1>2, <1>3, <1>4
<1>6. IsFiniteSet(confirmations') /\ Cardinality(confirmations') = n + 1
    BY <1>0, <1>1, <1>5, FS_AddElement DEF TicketInvariant
<1>7. \A c \in confirmations' : c \in Confirmations' /\ c.key < Cardinality(confirmations') /\ c.token # Nothing
    <2>1. Confirmations' = Confirmations
        BY <1>1 DEF Confirmations
    <2>2. \A c \in confirmations : c.key < n + 1
        BY <1>2, <1>3
    <2> QED BY <1>1, <1>2, <1>3, <1>4, <1>6, <2>1, <2>2
<1>8. \A c, d \in confirmations' : c.key = d.key => c = d
    <2>1. \A c \in confirmations : c.key # new.key
        BY <1>2, <1>3, <1>4
    <2> QED BY <1>1, <2>1 DEF TicketInvariant
<1>9. \A c \in confirmations' : Settled(c)'
    <2>1. \A c \in confirmations : Settled(c)'
        BY <1>1, <1>2, <1>3, TicketAssumption DEF TicketInvariant, Settled
    <2>2. Settled(new)'
        BY <1>1, <1>4 DEF Settled
    <2> QED BY <1>1, <2>1, <2>2
<1>10. \A o \in orders : \E c \in confirmations' : c.key = o.key /\ c.token = o.token /\ c.pc = "created"
    BY <1>1 DEF TicketInvariant
<1>11. \A c, d \in confirmations' :
          c.token = d.token /\ c.pc = "created" /\ d.pc = "created" /\ c.key \notin unanswered
            /\ d.key \notin unanswered => c = d
    BY <1>1, <1>4 DEF TicketInvariant
<1> QED BY <1>1, <1>2, <1>6, <1>7, <1>8, <1>9, <1>10, <1>11 DEF TicketInvariant

LEMMA AnsweredKeeps ==
    ASSUME TicketInvariant, NEW c \in confirmations, c.pc = "sent", NEW answer \in {"created", "refused"},
           Answered(c, answer), UNCHANGED <<formVars, tokens, unanswered>>,
           \/ UNCHANGED orders
           \/ answer = "created" /\ createOrderIntent(c.key, c.token)
    PROVE  TicketInvariant'
<1> DEFINE new == [c EXCEPT !.pc = answer]
<1>1. /\ confirmations' = (confirmations \ {c}) \cup {new}
      /\ UNCHANGED <<preview, asked, awaited, busy, tokens, unanswered>>
    BY DEF Answered, formVars
<1>2. new.key = c.key /\ new.token = c.token /\ new.pc = answer /\ new \in Confirmations
      /\ c \in Confirmations /\ c.key < Cardinality(confirmations) /\ c.token # Nothing
    BY DEF TicketInvariant, Confirmations
<1> HIDE DEF new
<1>3. \A d \in confirmations : d # c => d.key # c.key
    BY DEF TicketInvariant
<1>4. new \notin confirmations
    BY <1>2, <1>3
<1>5. IsFiniteSet(confirmations') /\ Cardinality(confirmations') = Cardinality(confirmations)
    <2>1. IsFiniteSet(confirmations \ {c}) /\ Cardinality(confirmations \ {c}) = Cardinality(confirmations) - 1
          /\ Cardinality(confirmations) \in Nat
        BY FS_RemoveElement, FS_CardinalityType DEF TicketInvariant
    <2>2. Cardinality((confirmations \ {c}) \cup {new}) = Cardinality(confirmations \ {c}) + 1
          /\ IsFiniteSet((confirmations \ {c}) \cup {new})
        BY <1>4, <2>1, FS_AddElement
    <2> QED BY <1>1, <2>1, <2>2
<1>6. \A d \in confirmations' : d \in Confirmations' /\ d.key < Cardinality(confirmations') /\ d.token # Nothing
    <2>1. Confirmations' = Confirmations
        BY <1>1 DEF Confirmations
    <2> QED BY <1>1, <1>2, <1>5, <2>1 DEF TicketInvariant
<1>7. \A d, e \in confirmations' : d.key = e.key => d = e
    BY <1>1, <1>2, <1>3 DEF TicketInvariant
\* It was not settled by its answer, so it is the one under way, or was lost.
<1>8. c.key \in unanswered \/ (c.key = awaited /\ c.token = preview)
    BY DEF TicketInvariant, Settled
<1>9. \A d \in confirmations' : Settled(d)'
    <2>1. \A d \in confirmations : Settled(d)'
        BY <1>1 DEF TicketInvariant, Settled
    <2>2. Settled(new)'
        BY <1>1, <1>2, <1>8 DEF Settled
    <2> QED BY <1>1, <2>1, <2>2
<1>10. \A d, e \in confirmations' :
          d.token = e.token /\ d.pc = "created" /\ e.pc = "created" /\ d.key \notin unanswered
            /\ e.key \notin unanswered => d = e
    <2>1. ASSUME NEW d \in confirmations, d.token = c.token, d.pc = "created", d.key \notin unanswered, d # c
          PROVE  c.key \in unanswered
        <3>1. (d.key = awaited /\ d.token = preview) \/ d.token # preview
            BY <2>1 DEF TicketInvariant, Settled
        <3>2. d.key # c.key
            BY <1>3, <2>1
        <3> QED BY <1>8, <2>1, <3>1, <3>2
    <2> QED BY <1>1, <1>2, <2>1 DEF TicketInvariant
<1>11. \A o \in orders' :
          /\ o = [key |-> o.key, token |-> o.token, order |-> o.token.order]
          /\ \E d \in confirmations' : d.key = o.key /\ d.token = o.token /\ d.pc = "created"
    <2>1. ASSUME NEW o \in orders
          PROVE  /\ o = [key |-> o.key, token |-> o.token, order |-> o.token.order]
                 /\ \E d \in confirmations' : d.key = o.key /\ d.token = o.token /\ d.pc = "created"
        <3>1. PICK d \in confirmations : d.key = o.key /\ d.token = o.token /\ d.pc = "created"
            BY DEF TicketInvariant
        <3>2. d \in confirmations'
            BY <1>1, <3>1
        <3>3. o = [key |-> o.key, token |-> o.token, order |-> o.token.order]
            BY DEF TicketInvariant
        <3> QED BY <3>1, <3>2, <3>3
    <2>2. CASE UNCHANGED orders
        BY <2>1, <2>2
    <2>3. CASE answer = "created" /\ createOrderIntent(c.key, c.token)
        <3> DEFINE made == [key |-> c.key, token |-> c.token, order |-> c.token.order]
        <3>1. orders' = orders \cup {made}
            BY <2>3 DEF createOrderIntent
        <3>2. made.key = c.key /\ made.token = c.token
              /\ made = [key |-> made.key, token |-> made.token, order |-> made.token.order]
            OBVIOUS
        <3> HIDE DEF made
        <3>3. \E d \in confirmations' : d.key = made.key /\ d.token = made.token /\ d.pc = "created"
            BY <1>1, <1>2, <2>3, <3>2
        <3> QED BY <2>1, <3>1, <3>2, <3>3
    <2> QED BY <2>2, <2>3
<1>12. asked' # Nothing => busy' /\ awaited' = Nothing /\ preview' = Nothing
    BY <1>1 DEF TicketInvariant
<1> QED BY <1>1, <1>5, <1>6, <1>7, <1>9, <1>10, <1>11, <1>12 DEF TicketInvariant

\* The confirmation under way is answered, or given up.
LEMMA DoneKeeps ==
    ASSUME TicketInvariant, NEW c \in confirmations, c.key = awaited,
           awaited' = Nothing, UNCHANGED <<asked, tokens, confirmations, orders>>,
           \/ c.pc = "created" /\ preview' = Nothing /\ UNCHANGED unanswered
           \/ c.pc = "refused" /\ UNCHANGED <<preview, unanswered>>
           \/ UNCHANGED preview /\ unanswered' = unanswered \cup {c.key}
    PROVE  TicketInvariant'
<1>1. \A d \in confirmations : d.key \in Nat /\ d.token # Nothing /\ (d.key = awaited => d = c)
    BY DEF TicketInvariant, Confirmations
<1>2. awaited # Nothing /\ asked = Nothing
    <2>1. awaited # Nothing
        BY <1>1, TicketAssumption
    <2> QED BY <2>1 DEF TicketInvariant
<1>3. \A d \in confirmations : Settled(d)'
    <2> SUFFICES ASSUME NEW d \in confirmations PROVE Settled(d)'
        OBVIOUS
    <2>1. CASE d = c
        BY <1>1, <2>1 DEF Settled
    <2>2. CASE d # c
        <3>1. Settled(d) /\ d.key # awaited
            BY <1>1, <2>2 DEF TicketInvariant
        <3> QED BY <1>1, <3>1 DEF Settled
    <2> QED BY <2>1, <2>2
<1>4. unanswered \subseteq unanswered'
    OBVIOUS
<1>5. preview' \in tokens \cup {Nothing} /\ Confirmations' = Confirmations
    BY DEF TicketInvariant, Confirmations
<1>6. \A d, e \in confirmations :
          d.token = e.token /\ d.pc = "created" /\ e.pc = "created" /\ d.key \notin unanswered'
            /\ e.key \notin unanswered' => d = e
    BY <1>4 DEF TicketInvariant
<1> QED BY <1>2, <1>3, <1>5, <1>6 DEF TicketInvariant

LEMMA TicketKeeps ==
    ASSUME TicketInvariant, TicketNext \/ UNCHANGED ticketVars
    PROVE  TicketInvariant'
<1>1. /\ asked # Nothing => busy /\ awaited = Nothing /\ preview = Nothing
      /\ awaited # Nothing => busy
    BY DEF TicketInvariant
<1>2. CASE UNCHANGED ticketVars
    BY <1>1, <1>2, FormMoves DEF ticketVars, formVars, deskVars
<1>3. CASE StatusArrives \/ OpenForm \/ CloseForm
    BY <1>1, <1>3, FormMoves DEF StatusArrives, OpenForm, CloseForm, deskVars
<1>4. ASSUME NEW f \in Forms, Edit(f)
      PROVE  TicketInvariant'
    BY <1>1, <1>4, FormMoves DEF Edit, deskVars
<1>5. CASE requestPreview
    BY <1>1, <1>5, FormMoves DEF requestPreview, deskVars
<1>6. CASE PreviewFails
    BY <1>1, <1>6, FormMoves DEF PreviewFails, deskVars
<1>7. CASE Back
    BY <1>1, <1>7, FormMoves DEF Back, deskVars
<1>8. ASSUME NEW t \in tokens, TokenLapses(t)
      PROVE  TicketInvariant'
    BY <1>1, <1>8, FormMoves DEF TokenLapses, formVars
<1>9. ASSUME NEW c \in confirmations, CreateIntent(c)
      PROVE  TicketInvariant'
    BY <1>9, AnsweredKeeps DEF CreateIntent
<1>10. ASSUME NEW c \in confirmations, RefuseIntent(c)
       PROVE  TicketInvariant'
    BY <1>10, AnsweredKeeps DEF RefuseIntent
<1>11. ASSUME NEW c \in confirmations, IntentAnswered(c)
       PROVE  TicketInvariant'
    <2>1. /\ c.key = awaited /\ awaited' = Nothing
          /\ UNCHANGED <<asked, tokens, confirmations, orders, unanswered>>
          /\ (c.pc = "created" /\ preview' = Nothing) \/ (c.pc = "refused" /\ UNCHANGED preview)
        BY <1>11 DEF IntentAnswered, deskVars
    <2> QED BY <2>1, DoneKeeps
<1>12. ASSUME NEW c \in confirmations, AnswerLost(c)
       PROVE  TicketInvariant'
    BY <1>12, DoneKeeps DEF AnswerLost
<1> QED BY <1>2, <1>3, <1>4, <1>5, <1>6, <1>7, <1>8, <1>9, <1>10, <1>11, <1>12, PreviewKeeps, ConfirmKeeps
    DEF TicketNext

-----------------------------------------------------------------------------
(* The performance tab.                                                     *)

AnyInput == Inputs \cup {FirstInput}
Models == [input : AnyInput, dataState : {"fresh", "unavailable", "stale"}]
Entries ==
    {e \in [identity : {Identity(i) : i \in AnyInput}, model : Models, valid : BOOLEAN] :
        e.identity = Identity(e.model.input)}
LoadState ==
    [pc : {"free", "loading"}, input : AnyInput \cup {NoModel}, cached : Models \cup {NoModel},
     active : BOOLEAN]

\* A model, or none, that may be shown for an input.
FitsTo(model, i) == model # NoModel => Identity(model.input) = Identity(i)

\* Each entry is filed under what it was made of, and a load that is not cut off is of
\* the present input, as is what it found in the cache.
ViewInvariant ==
    /\ input \in AnyInput /\ enabled \in BOOLEAN
    /\ stored \in Seq(Entries)
    /\ load \in [Loads -> LoadState]
    /\ view \in [status : {"idle", "loading", "ready", "error"}, model : Models \cup {NoModel}]
    /\ \A l \in Loads : load[l].active =>
         enabled /\ load[l].input = input /\ FitsTo(load[l].cached, input)
    /\ PerformanceIsOfThisPortfolio

LEMMA LeastIsMin ==
    ASSUME NEW n \in Nat, NEW T, T \subseteq 1..n, T # {}
    PROVE  Min(T) \in T /\ \A y \in T : Min(T) <= y
<1> DEFINE under(x) == {y \in T : y < x}
           family == {under(x) : x \in T}
           smaller == StrictSubsetOrdering(T)
<1> HIDE DEF family, smaller
<1>0. IsFiniteSet(T)
    <2>1. IsFiniteSet(1..n)
        BY FS_Interval
    <2> QED BY <2>1, FS_Subset
<1>1. IsWellFoundedOn(smaller, FiniteSubsetsOf(T))
    BY <1>0, FS_StrictSubsetOrderingWellFounded DEF smaller
<1>2. \A x \in T : under(x) \in SUBSET T
    OBVIOUS
<1>3. family \subseteq FiniteSubsetsOf(T) /\ family # {}
    <2>1. FiniteSubsetsOf(T) = SUBSET T
        BY <1>0, FS_FiniteSubsetsOfFinite
    <2> HIDE DEF under
    <2>2. PICK x \in T : TRUE
        OBVIOUS
    <2>3. under(x) \in family
        BY DEF family
    <2> QED BY <1>2, <2>1, <2>3 DEF family
<1>4. PICK least \in family : \A a \in family : ~(<<a, least>> \in smaller)
    BY <1>1, <1>3, WFMin
<1>5. PICK x \in T : least = under(x)
    BY <1>4 DEF family
<1>6. \A y \in T : x <= y
    <2>1. SUFFICES ASSUME NEW y \in T, y < x
                   PROVE  FALSE
        OBVIOUS
    <2>2. \A z \in T : z \in Nat /\ (z < y => z < x)
        BY <2>1
    <2>3. y < x /\ ~(y < y)
        BY <2>1, <2>2
    <2>4. under(y) \subseteq under(x) /\ y \in under(x) /\ y \notin under(y)
        <3> HIDE DEF under
        <3> QED BY <2>2, <2>3, Zenon DEF under
    <2>5. <<under(y), least>> \in smaller
        BY <2>4, <1>2, <1>5 DEF smaller, StrictSubsetOrdering
    <2> QED BY <2>5, <1>4 DEF family
<1> QED BY <1>6 DEF Min

\* What is picked is of the sequence, at these positions.
LEMMA PickedAreThere ==
    ASSUME NEW S, NEW q \in Seq(S), NEW P, P \subseteq 1..Len(q)
    PROVE  /\ Picked(q, P) \in Seq(S)
           /\ Len(Picked(q, P)) = Cardinality(P) /\ Cardinality(P) \in Nat
<1> DEFINE n == Cardinality(P)
           below(i) == {j \in P : j < i}
           rank == [i \in P |-> Cardinality(below(i))]
<1>1. IsFiniteSet(P) /\ n \in Nat /\ \A i \in P : i \in Nat
    <2>1. Len(q) \in Nat
        BY LenProperties
    <2>2. IsFiniteSet(1..Len(q))
        BY <2>1, FS_Interval
    <2>3. IsFiniteSet(P)
        BY <2>2, FS_Subset
    <2> QED BY <2>1, <2>3, FS_CardinalityType
<1>2. \A i \in P : rank[i] \in 0..(n - 1) /\ IsFiniteSet(below(i))
    <2> TAKE i \in P
    <2>1. below(i) \subseteq P /\ below(i) # P
        BY <1>1
    <2>2. rank[i] = Cardinality(below(i))
        OBVIOUS
    <2> HIDE DEF below, rank
    <2> QED BY <1>1, <2>1, <2>2, FS_Subset, FS_CardinalityType
<1>3. \A i, j \in P : i < j => rank[i] < rank[j]
    <2> TAKE i, j \in P
    <2> HAVE i < j
    <2>1. below(i) \subseteq below(j) /\ i \in below(j) /\ i \notin below(i)
        <3>1. \A k \in P : k < i => k < j
            BY <1>1
        <3>2. ~(i < i)
            BY <1>1
        <3> QED BY <3>1, <3>2
    <2>2. rank[i] = Cardinality(below(i)) /\ rank[j] = Cardinality(below(j))
        OBVIOUS
    <2> HIDE DEF below, rank
    <2> QED BY <1>2, <2>1, <2>2, FS_Subset
<1>4. rank \in Injection(P, 0..(n - 1))
    <2>1. rank \in [P -> 0..(n - 1)]
        BY <1>2
    <2>2. \A i, j \in P : rank[i] = rank[j] => i = j
        <3> HIDE DEF rank, below, n
        <3>1. \A i, j \in P : i # j => i < j \/ j < i
            BY <1>1
        <3>2. \A i \in P : rank[i] \in Nat
            BY <1>1, <1>2
        <3> QED BY <1>3, <3>1, <3>2
    <2> HIDE DEF rank
    <2> QED BY <2>1, <2>2 DEF Injection, IsInjective
<1>5. rank \in Surjection(P, 0..(n - 1))
    <2>1. IsFiniteSet(0..(n - 1)) /\ Cardinality(0..(n - 1)) = n
        <3> HIDE DEF n
        <3>1. n - 1 \in Int /\ IsFiniteSet(0..(n - 1))
            BY <1>1, FS_Interval
        <3>2. CASE n = 0
            <4>1. 0..(n - 1) = {}
                BY <3>2
            <4> QED BY <3>1, <3>2, <4>1, FS_EmptySet
        <3>3. CASE n # 0
            <4>1. Cardinality(0..(n - 1)) = (n - 1) - 0 + 1
                BY <3>1, <3>3, <1>1, FS_Interval
            <4> QED BY <3>1, <4>1, <1>1
        <3> QED BY <3>2, <3>3
    <2> HIDE DEF rank
    <2> QED BY <1>4, <2>1, FS_Injection
<1>6. \A m \in 1..n : \E i \in P : Cardinality({j \in P : j < i}) = m - 1
    <2> TAKE m \in 1..n
    <2>1. m - 1 \in 0..(n - 1)
        BY <1>1
    <2>2. PICK i \in P : rank[i] = m - 1
        <3> HIDE DEF rank, n
        <3> QED BY <2>1, <1>5 DEF Surjection
    <2> QED BY <2>2
<1>7. \A m \in 1..n : Picked(q, P)[m] \in S
    <2> TAKE m \in 1..n
    <2> DEFINE i == CHOOSE i \in P : Cardinality({j \in P : j < i}) = m - 1
    <2>1. i \in P
        BY <1>6
    <2>2. Picked(q, P)[m] = q[i]
        BY DEF Picked
    <2> HIDE DEF i
    <2> QED BY <2>1, <2>2, LenProperties, ElementOfSeq
<1>8. Picked(q, P) \in [1..n -> S]
    BY <1>7 DEF Picked
<1> HIDE DEF n
<1> QED BY <1>1, <1>8, SeqDef, LenProperties DEF n

LEMMA ReadEntries ==
    ASSUME stored \in Seq(Entries)
    PROVE  read \in Seq(Entries) /\ Len(read) \in Nat
<1>1. {i \in DOMAIN stored : stored[i].valid} \subseteq 1..Len(stored)
    BY LenProperties
<1> QED BY <1>1, PickedAreThere, LenProperties DEF read

\* What the cache has for an input fits to it.
LEMMA CachedFits ==
    ASSUME stored \in Seq(Entries), NEW i
    PROVE  /\ getLatest(Identity(i)) \in Models \cup {NoModel}
           /\ FitsTo(getLatest(Identity(i)), i)
<1> DEFINE found == {n \in 1..Len(read) : read[n].identity = Identity(i)}
           at == IF found # {} THEN Min(found) ELSE 0
<1>1. getLatest(Identity(i)) = IF at = 0 THEN NoModel ELSE read[at].model
    BY DEF getLatest, SelectInSeq
<1>2. CASE found = {}
    BY <1>1, <1>2 DEF FitsTo
<1>3. CASE found # {}
    <2>1. at \in found
        BY <1>3, ReadEntries, LeastIsMin
    <2> HIDE DEF at
    <2>2. at \in 1..Len(read) /\ read[at].identity = Identity(i) /\ at # 0
        BY <2>1, ReadEntries
    <2>3. read[at] \in Entries
        BY <2>2, ReadEntries, ElementOfSeq
    <2> QED BY <1>1, <2>2, <2>3 DEF FitsTo, Entries
<1> QED BY <1>2, <1>3

LEMMA PutKeepsEntries ==
    ASSUME stored \in Seq(Entries), NEW model \in Models
    PROVE  put(model) \in Seq(Entries)
<1> DEFINE filed == [identity |-> Identity(model.input), model |-> model, valid |-> TRUE]
           others == Picked(read, {i \in DOMAIN read : read[i].identity # filed.identity})
           all == <<filed>> \o others
           room == IF Len(others) < Kept THEN Len(others) + 1 ELSE Kept
<1>1. filed \in Entries
    BY DEF Entries, Models
<1>2. {i \in DOMAIN read : read[i].identity # filed.identity} \subseteq 1..Len(read)
    BY ReadEntries, LenProperties
<1>3. put(model) = SubSeq(all, 1, room)
    BY DEF put
<1>4. others \in Seq(Entries) /\ Len(others) \in Nat
    <2> HIDE DEF filed
    <2> QED BY <1>2, ReadEntries, PickedAreThere, LenProperties
<1> HIDE DEF filed, others
<1>5. all \in Seq(Entries) /\ Len(all) = Len(others) + 1
    <2>1. <<filed>> \in Seq(Entries) /\ Len(<<filed>>) = 1
        BY <1>1
    <2> QED BY <2>1, <1>4, ConcatProperties
<1>6. room \in 1..Len(all)
    BY <1>4, <1>5, KeptAssumption
<1> HIDE DEF all, room
<1> QED BY <1>3, <1>5, <1>6, SubSeqProperties

LEMMA ViewStartsRight ==
    ViewInit => ViewInvariant
<1>1. NoLoad \in LoadState /\ ~NoLoad.active
    BY DEF NoLoad, LoadState
<1> SUFFICES ASSUME ViewInit PROVE ViewInvariant
    OBVIOUS
<1>2. load \in [Loads -> LoadState] /\ \A l \in Loads : ~load[l].active
    BY <1>1 DEF ViewInit
<1>3. view \in [status : {"idle", "loading", "ready", "error"}, model : Models \cup {NoModel}]
    BY DEF ViewInit
<1>4. input \in AnyInput /\ ~enabled /\ enabled \in BOOLEAN
    BY DEF ViewInit, AnyInput
<1>5. stored \in Seq(Entries)
    BY DEF ViewInit
<1> QED BY <1>2, <1>3, <1>4, <1>5 DEF ViewInvariant, PerformanceIsOfThisPortfolio

\* An effect: one load of the new input, shown with what the cache has for it.
LEMMA EffectKeeps ==
    ASSUME ViewInvariant, NEW i \in AnyInput, Effect(i), input' = i, enabled', UNCHANGED stored
    PROVE  ViewInvariant'
<1> DEFINE cached == getLatest(Identity(i))
           started == [pc |-> "loading", input |-> i, cached |-> cached, active |-> TRUE]
<1>1. PICK l \in Loads :
        /\ load' = [[k \in Loads |-> [load[k] EXCEPT !.active = FALSE]] EXCEPT ![l] = started]
        /\ view' = [status |-> "loading", model |-> cached]
    BY DEF Effect
<1>2. cached \in Models \cup {NoModel} /\ FitsTo(cached, i)
    BY CachedFits DEF ViewInvariant
<1> HIDE DEF cached
<1>3. started \in LoadState
    BY <1>2 DEF LoadState
<1>4. started.input = i /\ started.cached = cached
    OBVIOUS
<1>5. \A k \in Loads : [load[k] EXCEPT !.active = FALSE] \in LoadState
                       /\ ~[load[k] EXCEPT !.active = FALSE].active
    BY DEF ViewInvariant, LoadState
<1>6. load' \in [Loads -> LoadState]
    BY <1>1, <1>3, <1>5
<1>7. \A k \in Loads : load'[k].active => load'[k] = started
    BY <1>1, <1>5
<1> HIDE DEF started
<1>8. PerformanceIsOfThisPortfolio'
    BY <1>1, <1>2 DEF PerformanceIsOfThisPortfolio, FitsTo
<1>9. view' \in [status : {"idle", "loading", "ready", "error"}, model : Models \cup {NoModel}]
    BY <1>1, <1>2
<1>10. \A k \in Loads : load'[k].active =>
         enabled' /\ load'[k].input = input' /\ FitsTo(load'[k].cached, input')
    BY <1>2, <1>4, <1>7
<1> QED BY <1>6, <1>8, <1>9, <1>10 DEF ViewInvariant

LEMMA ViewKeeps ==
    ASSUME ViewInvariant, ViewNext \/ UNCHANGED viewVars
    PROVE  ViewInvariant'
<1>0. NoLoad \in LoadState /\ ~NoLoad.active
    BY DEF NoLoad, LoadState
<1>1. ASSUME OpenTab PROVE ViewInvariant'
    BY <1>1, EffectKeeps DEF OpenTab, ViewInvariant
<1>2. ASSUME refresh PROVE ViewInvariant'
    BY <1>2, EffectKeeps DEF refresh, ViewInvariant
<1>3. ASSUME NEW i \in Inputs, InputChanges(i) PROVE ViewInvariant'
    <2>1. i \in AnyInput /\ input' = i /\ UNCHANGED <<enabled, stored>>
        BY <1>3 DEF InputChanges, AnyInput
    <2>2. CASE enabled
        BY <1>3, <2>1, <2>2, EffectKeeps DEF InputChanges
    <2>3. CASE ~enabled
        BY <1>3, <2>1, <2>3 DEF InputChanges, ViewInvariant, PerformanceIsOfThisPortfolio
    <2> QED BY <2>2, <2>3
<1>4. ASSUME CloseTab PROVE ViewInvariant'
    <2>1. /\ ~enabled' /\ enabled' \in BOOLEAN /\ UNCHANGED <<input, view, stored>>
          /\ load' = [l \in Loads |-> [load[l] EXCEPT !.active = FALSE]]
        BY <1>4 DEF CloseTab
    <2>2. \A k \in Loads : [load[k] EXCEPT !.active = FALSE] \in LoadState
                           /\ ~[load[k] EXCEPT !.active = FALSE].active
        BY DEF ViewInvariant, LoadState
    <2>3. load' \in [Loads -> LoadState] /\ \A k \in Loads : ~load'[k].active
        BY <2>1, <2>2
    <2> QED BY <2>1, <2>3 DEF ViewInvariant, PerformanceIsOfThisPortfolio
<1>5. ASSUME NEW l \in Loads, load' = [load EXCEPT ![l] = NoLoad]
      PROVE  /\ load' \in [Loads -> LoadState]
             /\ \A k \in Loads : load'[k].active => load'[k] = load[k] /\ load[k].active
    BY <1>0, <1>5 DEF ViewInvariant
<1>6. ASSUME NEW l \in Loads, NEW d \in {"fresh", "unavailable"}, LoadSucceeds(l, d)
      PROVE  ViewInvariant'
    <2> DEFINE model == [input |-> load[l].input, dataState |-> d]
    <2>1. /\ load[l].active /\ load' = [load EXCEPT ![l] = NoLoad] /\ stored' = put(model)
          /\ view' = [status |-> "ready", model |-> model] /\ UNCHANGED <<input, enabled>>
        BY <1>6 DEF LoadSucceeds, Current, Frees
    <2>2. enabled /\ model.input = input /\ input \in AnyInput
        BY <2>1 DEF ViewInvariant
    <2>3. model \in Models
        BY <2>2 DEF Models
    <2> HIDE DEF model
    <2>4. stored' \in Seq(Entries)
        BY <2>1, <2>3, PutKeepsEntries DEF ViewInvariant
    <2>5. PerformanceIsOfThisPortfolio'
        BY <2>1, <2>2 DEF PerformanceIsOfThisPortfolio
    <2>6. view' \in [status : {"idle", "loading", "ready", "error"}, model : Models \cup {NoModel}]
        BY <2>1, <2>3
    <2> QED BY <2>1, <2>4, <2>5, <2>6, <1>5 DEF ViewInvariant
<1>7. ASSUME NEW l \in Loads, LoadThrows(l)
      PROVE  ViewInvariant'
    <2> DEFINE cached == load[l].cached
               model == IF cached = NoModel THEN NoModel ELSE [cached EXCEPT !.dataState = "stale"]
    <2>1. /\ load[l].active /\ load' = [load EXCEPT ![l] = NoLoad]
          /\ view' = [status |-> "error", model |-> model] /\ UNCHANGED <<input, enabled, stored>>
        BY <1>7 DEF LoadThrows, Current, Frees
    <2>2. cached \in Models \cup {NoModel} /\ FitsTo(cached, input)
        BY <2>1 DEF ViewInvariant, LoadState
    <2> HIDE DEF cached
    <2>3. /\ model \in Models \cup {NoModel}
          /\ model # NoModel => model.dataState = "stale" /\ Identity(model.input) = Identity(input)
        BY <2>2 DEF Models, FitsTo
    <2> HIDE DEF model
    <2>4. PerformanceIsOfThisPortfolio'
        BY <2>1, <2>3 DEF PerformanceIsOfThisPortfolio
    <2>5. view' \in [status : {"idle", "loading", "ready", "error"}, model : Models \cup {NoModel}]
        BY <2>1, <2>3
    <2> QED BY <2>1, <2>4, <2>5, <1>5 DEF ViewInvariant
<1>8. ASSUME NEW l \in Loads, LateAnswer(l)
      PROVE  ViewInvariant'
    <2>1. load' = [load EXCEPT ![l] = NoLoad] /\ UNCHANGED <<input, enabled, view, stored>>
        BY <1>8 DEF LateAnswer, Frees
    <2> QED BY <2>1, <1>5 DEF ViewInvariant, PerformanceIsOfThisPortfolio
<1>9. ASSUME Spoil PROVE ViewInvariant'
    <2>1. stored' \in Seq(Entries)
        <3>1. CASE stored' = <<>>
            BY <3>1
        <3>2. CASE \E i \in 1..Len(stored) : stored' = [stored EXCEPT ![i].valid = FALSE]
            <4>1. PICK i \in 1..Len(stored) : stored' = [stored EXCEPT ![i].valid = FALSE]
                BY <3>2
            <4> DEFINE e == [stored[i] EXCEPT !.valid = FALSE]
            <4>2. stored[i] \in Entries
                BY ElementOfSeq DEF ViewInvariant
            <4>3. e \in Entries
                BY <4>2 DEF Entries
            <4>4. stored' = [stored EXCEPT ![i] = e]
                BY <4>1
            <4> HIDE DEF e
            <4> QED BY <4>3, <4>4, ExceptSeq DEF ViewInvariant
        <3> QED BY <1>9, <3>1, <3>2 DEF Spoil
    <2> QED BY <1>9, <2>1 DEF Spoil, ViewInvariant, PerformanceIsOfThisPortfolio
<1>10. ASSUME UNCHANGED viewVars PROVE ViewInvariant'
    BY <1>10 DEF viewVars, ViewInvariant, PerformanceIsOfThisPortfolio
<1> QED BY <1>1, <1>2, <1>3, <1>4, <1>6, <1>7, <1>8, <1>9, <1>10 DEF ViewNext

-----------------------------------------------------------------------------
(* The deployment.                                                          *)

DeploymentInvariant ==
    /\ ApiInvariant
    /\ WorkerInvariant
    /\ TicketInvariant
    /\ SettingsInvariant
    /\ SchemaInvariant
    /\ ViewInvariant

LEMMA DeploymentStartsRight ==
    Init => DeploymentInvariant
BY ApiStartsRight, WorkerStartsRight, TicketStartsRight, SettingsStartRight, SchemaStartsRight,
   ViewStartsRight
DEF Init, DeploymentInvariant

LEMMA DeploymentKeeps ==
    ASSUME DeploymentInvariant, [Next]_vars
    PROVE  DeploymentInvariant' /\ EntryMovesForward /\ FarewellIsLast /\ GoneUntilForgotten
<1>1. ApiInvariant' /\ EntryMovesForward
    BY OnePartMoves, ApiKeeps DEF DeploymentInvariant
<1>2. WorkerInvariant' /\ FarewellIsLast
    BY OnePartMoves, WorkerKeeps DEF DeploymentInvariant
<1>3. TicketInvariant'
    BY OnePartMoves, TicketKeeps DEF DeploymentInvariant
<1>4. SettingsInvariant' /\ GoneUntilForgotten
    BY OnePartMoves, SettingsKeep, DevicesStayGone DEF DeploymentInvariant
<1>5. SchemaInvariant'
    BY OnePartMoves, SchemaKeeps DEF DeploymentInvariant
<1>6. ViewInvariant'
    BY OnePartMoves, ViewKeeps DEF DeploymentInvariant
<1> QED BY <1>1, <1>2, <1>3, <1>4, <1>5, <1>6 DEF DeploymentInvariant

LEMMA DeploymentIsRight ==
    Spec => []DeploymentInvariant
<1>1. DeploymentInvariant /\ [Next]_vars => DeploymentInvariant'
    BY DeploymentKeeps
<1> QED BY <1>1, DeploymentStartsRight, PTL DEF Spec

\* What an answer of the market routes says of itself is true: how old it is, whether it
\* is stale, and whether it was loaded after the refresh that asked for it (readThrough).
THEOREM AnswersSayWhatTheyAre ==
    Spec => []AnswersAreHonest
<1>1. DeploymentInvariant => AnswersAreHonest
    BY ApiIsRight DEF DeploymentInvariant
<1> QED BY <1>1, DeploymentIsRight, PTL

\* Who serves has the whole schema of its build, and both processes close the database
\* only when nothing is left that would use it (migrateToLatest, createGracefulShutdown,
\* createWorkerShutdown).
THEOREM DatabaseServesToTheLast ==
    Spec => []DatabaseIsReadyToTheLast
<1>1. DeploymentInvariant => DatabaseIsReadyToTheLast
    BY ApiIsRight, WorkerIsRight, SchemaIsRight DEF DeploymentInvariant, DatabaseIsReadyToTheLast
<1> QED BY <1>1, DeploymentIsRight, PTL

\* From its start to its stop the stream of trade updates has exactly one socket or the
\* timer of the next, and after it neither (connect, scheduleReconnect, stop).
THEOREM StreamIsNeverLost ==
    Spec => []StreamIsKeptAlive
<1>1. DeploymentInvariant => StreamIsKeptAlive
    BY WorkerIsRight DEF DeploymentInvariant
<1> QED BY <1>1, DeploymentIsRight, PTL

\* A preview makes one order, and another only beside each confirmation whose answer was
\* lost, for any number of previews and presses (confirm, createOrderIntent).
THEOREM DialogsOrderOnce ==
    Spec => []OneOrderPerDialog
<1>1. DeploymentInvariant => OneOrderPerDialog
    BY TicketIsRight DEF DeploymentInvariant
<1> QED BY <1>1, DeploymentIsRight, PTL

\* While no work of a page was cut off, the subscription of a browser at rest is known to
\* the server and was revoked by nobody, however long an answer is kept and whatever the
\* push service ends (enable, revoke, invalidate).
THEOREM DevicesAreKnown ==
    Spec => []DeviceIsKnown
<1>1. DeploymentInvariant => DeviceIsKnown
    BY SettingsAreRight DEF DeploymentInvariant
<1> QED BY <1>1, DeploymentIsRight, PTL

\* Whatever loads overlap while the ledger, the range and the decisions change, and whatever
\* becomes of the stored entries, the open tab shows a model of what it stands at
\* (usePortfolioPerformance, getLatest, put).
THEOREM ViewsAreOfTheirPortfolio ==
    Spec => []PerformanceIsOfThisPortfolio
<1>1. DeploymentInvariant => PerformanceIsOfThisPortfolio
    BY DEF DeploymentInvariant, ViewInvariant
<1> QED BY <1>1, DeploymentIsRight, PTL

\* The cache entry does not go back, the worker's row is not written after its farewell,
\* and a device that is gone stays gone until the record of its subscription is forgotten
\* (put, createWorkerShutdown, upsert).
THEOREM RecordsNeverGoBack ==
    Spec => RecordsMoveForward
<1>1. DeploymentInvariant /\ [Next]_vars => EntryMovesForward /\ FarewellIsLast /\ GoneUntilForgotten
    BY DeploymentKeeps
<1> QED BY <1>1, DeploymentIsRight, PTL DEF Spec, RecordsMoveForward
=============================================================================
