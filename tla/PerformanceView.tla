--------------------------- MODULE PerformanceView ---------------------------
(* What the performance tab shows (performance/usePortfolioPerformance.ts) and    *)
(* the cache behind it (performance/performanceCacheRepository.ts), while the      *)
(* ledger, the range and the decisions about splits change under loads that are    *)
(* under way. A hash stands for what it was made of. What a model holds is the     *)
(* business of PortfolioPerformance; here it is the input it was made of.          *)
EXTENDS Naturals, FiniteSets, Sequences, SequencesExt

CONSTANTS
  Ledgers,       \* contents of the ledger and settings
  Ranges,
  Decisions,     \* ignored splits, no part of any key of the cache
  FirstInput,    \* before anything of the portfolio has been read
  Loads,         \* loads that may be under way at once
  Kept,          \* entries the cache keeps: 10
  NoModel

ASSUME KeptAssumption == Kept \in Nat \ {0}

VARIABLES
  input,         \* what the hook is called with: [ledger, range, decisions]
  enabled,       \* the tab is open
  load,          \* Loads -> [pc, input, cached, active]
  view,          \* the hook's state: [status, model]
  stored         \* localStorage: entries [identity, model, valid], the newest first

viewVars == <<input, enabled, load, view, stored>>

Inputs == [ledger : Ledgers, range : Ranges, decisions : Decisions]

\* latestKey. The key of an entry has the days of its prices as well; entries of older days
\* are never found before a newer one and only take room, so here each takes their place.
Identity(i) == [ledger |-> i.ledger, range |-> i.range]

NoLoad == [pc |-> "free", input |-> NoModel, cached |-> NoModel, active |-> FALSE]

ViewInit ==
  /\ input = FirstInput /\ enabled = FALSE
  /\ load = [l \in Loads |-> NoLoad]
  /\ view = [status |-> "idle", model |-> NoModel] /\ stored = <<>>

\* What a sequence has at these positions, in its order.
Picked(q, positions) ==
  [n \in 1..Cardinality(positions) |->
     q[CHOOSE i \in positions : Cardinality({j \in positions : j < i}) = n - 1]]

\* Entries that do not validate are left out.
read == Picked(stored, {i \in DOMAIN stored : stored[i].valid})

getLatest(identity) ==
  LET i == SelectInSeq(read, LAMBDA entry : entry.identity = identity)
  IN  IF i = 0 THEN NoModel ELSE read[i].model

\* One entry for each identity, the newest first.
put(model) ==
  LET entry == [identity |-> Identity(model.input), model |-> model, valid |-> TRUE]
      others == Picked(read, {i \in DOMAIN read : read[i].identity # entry.identity})
  IN  SubSeq(<<entry>> \o others, 1, IF Len(others) < Kept THEN Len(others) + 1 ELSE Kept)

\* The cleanup of the effect, and the effect for what the hook is now called with.
Effect(i) ==
  LET cached == getLatest(Identity(i))
  IN  \E l \in Loads :
        /\ load[l].pc = "free"
        /\ load' = [[k \in Loads |-> [load[k] EXCEPT !.active = FALSE]] EXCEPT ![l] =
                      [pc |-> "loading", input |-> i, cached |-> cached, active |-> TRUE]]
        /\ view' = [status |-> "loading", model |-> cached]

\* An effect runs when the tab is opened, when an input changes, and on a refresh.
OpenTab ==
  /\ ~enabled /\ enabled' = TRUE
  /\ Effect(input)
  /\ UNCHANGED <<input, stored>>

InputChanges(i) ==
  /\ i # input /\ input' = i
  /\ IF enabled THEN Effect(i) ELSE UNCHANGED <<load, view>>
  /\ UNCHANGED <<enabled, stored>>

refresh ==
  /\ enabled
  /\ Effect(input)
  /\ UNCHANGED <<input, enabled, stored>>

\* The other tabs of the page go on with the state as it was.
CloseTab ==
  /\ enabled /\ enabled' = FALSE
  /\ load' = [l \in Loads |-> [load[l] EXCEPT !.active = FALSE]]
  /\ UNCHANGED <<input, view, stored>>

\* The mistake of an answer that is taken whenever it comes.
AnyLoad(l) == load[l].pc = "loading"

Current(l) == load[l].pc = "loading" /\ load[l].active

Frees(l) == load' = [load EXCEPT ![l] = NoLoad]

\* History, calculation, cache and state, without a pause between them. A model without
\* prices is taken, and cached, when there is nothing to fall back on.
LoadSucceeds(l, dataState) ==
  LET model == [input |-> load[l].input, dataState |-> dataState]
  IN  /\ Current(l) /\ Frees(l)
      /\ dataState = "unavailable" => load[l].cached = NoModel
      /\ stored' = put(model)
      /\ view' = [status |-> "ready", model |-> model]
      /\ UNCHANGED <<input, enabled>>

\* No answer, prices that are unavailable while there is a cached model, or a cache that
\* is full: the cached model is shown as stale.
LoadThrows(l) ==
  /\ Current(l) /\ Frees(l)
  /\ view' = [status |-> "error",
              model |-> IF load[l].cached = NoModel THEN NoModel
                        ELSE [load[l].cached EXCEPT !.dataState = "stale"]]
  /\ UNCHANGED <<input, enabled, stored>>

LateAnswer(l) ==
  /\ load[l].pc = "loading" /\ ~load[l].active /\ Frees(l)
  /\ UNCHANGED <<input, enabled, view, stored>>

\* Someone edits the storage: one entry is spoiled, or all of it.
Spoil ==
  /\ stored # <<>>
  /\ \/ stored' = <<>>
     \/ \E i \in 1..Len(stored) : stored' = [stored EXCEPT ![i].valid = FALSE]
  /\ UNCHANGED <<input, enabled, load, view>>

ViewNext ==
  \/ OpenTab \/ CloseTab \/ refresh \/ Spoil
  \/ \E i \in Inputs : InputChanges(i)
  \/ \E l \in Loads : (\E d \in {"fresh", "unavailable"} : LoadSucceeds(l, d)) \/ LoadThrows(l) \/ LateAnswer(l)

-----------------------------------------------------------------------------
\* The open tab shows a model of the ledger and range it stands at, loaded or cached,
\* whichever load ends last, and calls it ready only if it was also made with the
\* decisions as they are (the active flag of the effect and the identity key).
PerformanceIsOfThisPortfolio ==
  enabled /\ view.model # NoModel =>
    /\ Identity(view.model.input) = Identity(input)
    /\ view.status = "ready" => view.model.input = input
    /\ view.status = "error" => view.model.dataState = "stale"
=============================================================================
