-------------------------- MODULE BrokerAccountProofs --------------------------
(* The drift gate, the ledger, the end of the worker, what an order was confirmed *)
(* with and what a quiet pass finds, for every scenario, every number of passes   *)
(* and every number of faults.                                                    *)
EXTENDS BrokerAccount, SequenceTheorems, FiniteSetTheorems, TLAPS

-----------------------------------------------------------------------------
(* The rounding of broker/fixedDecimal.ts, for every product and every even     *)
(* divisor.                                                                     *)

\* The quotient is a multiple of the divisor nearest to the product: it is off by
\* at most half a unit.
THEOREM RoundingIsNearest ==
  ASSUME NEW product \in Int, NEW half \in Nat, half > 0
  PROVE  LET r == RoundedQuotient(product, 2 * half) IN
         /\ r \in Int
         /\ r * (2 * half) - product <= half
         /\ product - r * (2 * half) <= half
<1> DEFINE d == 2 * half
           a == IF product < 0 THEN -product ELSE product
           q == (a + half) \div d
<1>1. d \in Nat /\ d > 0 /\ a \in Nat /\ a + half \in Nat /\ d \div 2 = half
  BY SMT
<1>2. q \in Int /\ q * d <= a + half /\ a + half < q * d + d
  <2> HIDE DEF d, a
  <2> QED BY <1>1, SMTT(30)
<1>3. RoundedQuotient(product, d) = IF product < 0 THEN -q ELSE q
  BY <1>1 DEF RoundedQuotient
<1>4. q * d - a <= half /\ a - q * d <= half
  BY <1>2, <1>1
<1> QED BY <1>2, <1>3, <1>4

\* A value and its negation are rounded alike: a buy and a sell of the same
\* notional cancel out.
THEOREM RoundingIsOdd ==
  ASSUME NEW product \in Int, NEW divisor \in Nat, divisor > 0
  PROVE  RoundedQuotient(-product, divisor) = -RoundedQuotient(product, divisor)
<1>1. CASE product < 0
  BY <1>1 DEF RoundedQuotient
<1>2. CASE product = 0
  BY <1>2 DEF RoundedQuotient
<1>3. CASE product > 0
  BY <1>3 DEF RoundedQuotient
<1> QED BY <1>1, <1>2, <1>3

-----------------------------------------------------------------------------
(* The drift gate.                                                              *)

\* While drift stands, whoever is past the gate was caught there when it appeared, and has
\* not written an order since.
GateInv ==
  /\ api = [k \in Requests |-> api[k]]
  /\ underDrift \in Nat
  /\ caught \subseteq Requests
  /\ drift = {} => underDrift = 0
  /\ drift # {} => /\ InFlight \subseteq caught
                   /\ underDrift + Cardinality(InFlight) <= Cardinality(caught)

LEMMA GateInitially == Init => GateInv
BY DEF Init, GateInv

\* Nothing of it changes as long as neither drift nor a confirmation does.
LEMMA GateStays ==
  ASSUME GateInv, UNCHANGED <<drift, api, underDrift, caught>>
  PROVE  GateInv'
BY DEF GateInv, InFlight

\* A request that has passed the gate comes to its end: one less is in flight.
LEMMA OneLessInFlight ==
  ASSUME GateInv, NEW k \in Requests, api[k] # None, api' = [api EXCEPT ![k] = None]
  PROVE  /\ InFlight' \subseteq InFlight
         /\ Cardinality(InFlight) \in Nat
         /\ Cardinality(InFlight') \in Nat
         /\ Cardinality(InFlight') + 1 = Cardinality(InFlight)
<1>1. InFlight' = InFlight \ {k} /\ k \in InFlight
  BY DEF InFlight, GateInv
<1>2. IsFiniteSet(InFlight)
  BY BrokerAssumption, FS_Subset DEF InFlight
<1>3. Cardinality(InFlight \ {k}) = Cardinality(InFlight) - 1
  BY <1>1, <1>2, FS_RemoveElement
<1>4. IsFiniteSet(InFlight \ {k})
  BY <1>2, FS_RemoveElement
<1>5. Cardinality(InFlight) \in Nat /\ Cardinality(InFlight \ {k}) \in Nat
  BY <1>2, <1>4, FS_CardinalityType
<1> QED
  BY <1>1, <1>3, <1>5

LEMMA CaughtAreCounted == GateInv => Cardinality(caught) \in Nat /\ Cardinality(InFlight) \in Nat
<1> SUFFICES ASSUME GateInv PROVE Cardinality(caught) \in Nat /\ Cardinality(InFlight) \in Nat
  OBVIOUS
<1>1. IsFiniteSet(caught) /\ IsFiniteSet(InFlight)
  BY BrokerAssumption, FS_Subset DEF GateInv, InFlight
<1> QED
  BY <1>1, FS_CardinalityType

LEMMA GateStep == GateInv /\ [Next]_vars => GateInv'
<1> SUFFICES ASSUME GateInv, [Next]_vars PROVE GateInv'
  OBVIOUS
<1>1. CASE Happen
  BY <1>1, GateStays DEF Happen, confirming
<1>2. ASSUME NEW p \in Passes, PassStep(p) PROVE GateInv'
  <2>1. CASE Begin(p)
    BY <2>1, GateStays DEF Begin, confirming
  <2>2. ASSUME NEW what \in {"account", "positions"}, Answer(p, what) PROVE GateInv'
    BY <2>2, GateStays DEF Answer, confirming
  <2>3. CASE ListPage(p)
    BY <2>3, GateStays DEF ListPage, confirming
  <2>4. CASE Observe(p)
    BY <2>4, GateStays DEF Observe, confirming
  <2>5. CASE StoreActivity(p)
    BY <2>5, GateStays DEF StoreActivity, confirming
  <2>6. CASE Post(p)
    BY <2>6, GateStays DEF Post, confirming
  <2>7. CASE Choke(p)
    BY <2>7, GateStays DEF Choke, confirming
  <2>8. CASE Replay(p)
    BY <2>8, GateStays DEF Replay, confirming
  <2>9. CASE Clear(p)
    BY <2>9 DEF Clear, ClearedBy, GateInv
  <2>10. CASE Sweep(p)
    BY <2>10, GateStays DEF Sweep, confirming
  <2>11. CASE Insert(p)
    <3>1. drift' # {} /\ UNCHANGED <<api, underDrift>> /\ InFlight' = InFlight
      BY <2>11 DEF Insert, InFlight
    <3>2. CASE drift = {}
      <4>1. caught' = InFlight /\ underDrift = 0 /\ InFlight \subseteq Requests
        BY <2>11, <3>2 DEF Insert, GateInv, InFlight
      <4> QED
        BY <3>1, <4>1, CaughtAreCounted DEF GateInv
    <3>3. CASE drift # {}
      BY <2>11, <3>1, <3>3 DEF Insert, GateInv
    <3> QED
      BY <3>2, <3>3
  <2> QED
    BY <1>2, <2>1, <2>2, <2>3, <2>4, <2>5, <2>6, <2>7, <2>8, <2>9, <2>10, <2>11 DEF PassStep
<1>3. ASSUME NEW p \in Passes, Fail(p) PROVE GateInv'
  BY <1>3, GateStays DEF Fail, confirming
<1>4. CASE Crash \/ Close \/ Closed \/ WorkerClosed \/ Restart
  BY <1>4, GateStays DEF Crash, Close, Closed, WorkerClosed, Restart, confirming
<1>5. ASSUME NEW d \in Drafts, NEW asset \in Assets, NEW quote \in Quotes, IssuePreview(d, asset, quote)
      PROVE  GateInv'
  BY <1>5, GateStays DEF IssuePreview, worker
<1>6. CASE Expire
  BY <1>6, GateStays DEF Expire, worker
<1>7. ASSUME NEW k \in Requests, PassGate(k) PROVE GateInv'
  BY <1>7 DEF PassGate, Gate, GateInv, worker
<1>8. ASSUME NEW k \in Requests, Confirm(k) PROVE GateInv'
  <2>1. UNCHANGED <<drift, caught>> /\ api[k] # None /\ api' = [api EXCEPT ![k] = None]
    BY <1>8 DEF Confirm, worker
  <2>2. underDrift' = IF drift = {} THEN 0 ELSE underDrift + 1
    BY <1>8 DEF Confirm
  <2> QED
    BY <2>1, <2>2, OneLessInFlight, CaughtAreCounted DEF GateInv
<1>9. ASSUME NEW k \in Requests, Abandon(k) PROVE GateInv'
  <2>1. UNCHANGED <<drift, caught, underDrift>> /\ api[k] # None /\ api' = [api EXCEPT ![k] = None]
    BY <1>9 DEF Abandon, worker
  <2> QED
    BY <2>1, OneLessInFlight, CaughtAreCounted DEF GateInv
<1>10. CASE UNCHANGED vars
  BY <1>10, GateStays DEF vars, worker, confirming
<1> QED
  BY <1>1, <1>2, <1>3, <1>4, <1>5, <1>6, <1>7, <1>8, <1>9, <1>10 DEF Next

\* While drift stands, only confirmations that had read the gate before it appeared write
\* their orders, each at most one, however many there are and however passes that overlap
\* record, replace and clear the drift.
THEOREM GateIsSafe == Spec => []DriftStopsNewOrders
<1>1. GateInv => DriftStopsNewOrders
  BY DEF GateInv, DriftStopsNewOrders
<1> QED
  BY GateInitially, GateStep, <1>1, PTL DEF Spec

-----------------------------------------------------------------------------
(* The ledger, and the passes *)

Reads == {None} \union {<<n>> : n \in Nat}

PassType ==
  [stage : {"idle", "ask", "ingest", "post", "decide", "insert"}, quiet : BOOLEAN, account : Reads,
   positions : Reads, listed : SUBSET Nat, paged : BOOLEAN, done : SUBSET Nat, differs : BOOLEAN,
   swept : SUBSET Passes]

ScenarioType == [past : Seq(Happenings), events : Seq(Happenings), faults : Nat, orders : Nat]

\* The order of the broker's lists, of whatever log.
Before(log, i, j) == log[i].time < log[j].time \/ (log[i].time = log[j].time /\ i < j)

FirstOf(log, S) == CHOOSE i \in S : \A j \in S : j = i \/ Before(log, i, j)

\* A pass lists what has happened, ingests what it has listed, and posts what is left of it.
ListIsRight(pass, log) ==
  /\ pass.listed \subseteq 1..Len(log) /\ pass.done \subseteq pass.listed
  /\ pass.stage = "post" => pass.done # pass.listed

\* Every pass knows what it has listed and posted, the log of the broker only grows, an
\* activity is in the ledger once, and a worker that is closed has no pass.
BrokerInv ==
  /\ passes \in [Passes -> PassType]
  /\ \A p \in Passes : ListIsRight(passes[p], activities)
  /\ drift \subseteq Passes
  /\ activities \in Seq(Happenings)
  /\ scenario \in ScenarioType
  /\ ledger \in Seq(Nat)
  /\ PostedOnce
  /\ ClosedIsQuiet

LEMMA IdleIsAPass ==
  ASSUME NEW log
  PROVE  IdlePass \in PassType /\ ListIsRight(IdlePass, log)
BY DEF IdlePass, PassType, Reads, ListIsRight

\* The order is one: of two activities one is before the other, and never both.
LEMMA BeforeIsAnOrder ==
  ASSUME NEW log \in Seq(Happenings), NEW i \in 1..Len(log), NEW j \in 1..Len(log), NEW k \in 1..Len(log)
  PROVE  /\ i = j \/ Before(log, i, j) \/ Before(log, j, i)
         /\ ~(Before(log, i, j) /\ Before(log, j, i))
         /\ ~Before(log, i, i)
         /\ Before(log, i, j) /\ Before(log, j, k) => Before(log, i, k)
<1>1. log[i].time \in Nat /\ log[j].time \in Nat /\ log[k].time \in Nat
  <2>1. log[i] \in Happenings /\ log[j] \in Happenings /\ log[k] \in Happenings
    OBVIOUS
  <2> QED
    BY <2>1, ActivityAssumption
<1> QED
  BY <1>1 DEF Before

\* Of some activities one is the first.
LEMMA OneIsFirst ==
  ASSUME NEW log \in Seq(Happenings), NEW S \in SUBSET (1..Len(log)), S # {}
  PROVE  /\ FirstOf(log, S) \in S
         /\ \A j \in S : j = FirstOf(log, S) \/ Before(log, FirstOf(log, S), j)
<1> DEFINE before(i) == {j \in S : Before(log, j, i)}
           family == {before(i) : i \in S}
           smaller == StrictSubsetOrdering(S)
<1>1. IsFiniteSet(S)
  <2>1. IsFiniteSet(1..Len(log))
    BY FS_Interval
  <2> QED
    BY <2>1, FS_Subset
<1>2. IsWellFoundedOn(smaller, FiniteSubsetsOf(S)) /\ FiniteSubsetsOf(S) = SUBSET S
  BY <1>1, FS_StrictSubsetOrderingWellFounded, FS_FiniteSubsetsOfFinite
<1>3. family \subseteq SUBSET S /\ family # {}
  OBVIOUS
<1> HIDE DEF smaller, family
<1>4. PICK least \in family : \A a \in family : ~(<<a, least>> \in smaller)
  BY <1>2, <1>3, WFMin
<1>5. PICK i \in S : least = before(i)
  BY <1>4 DEF family
<1>6. \A j \in S : ~Before(log, j, i)
  <2>1. SUFFICES ASSUME NEW j \in S, Before(log, j, i) PROVE FALSE
    OBVIOUS
  <2>2. before(j) \subseteq before(i)
    <3>1. ASSUME NEW k \in S, Before(log, k, j) PROVE Before(log, k, i)
      <4>1. k \in 1..Len(log) /\ j \in 1..Len(log) /\ i \in 1..Len(log)
        BY <2>1
      <4> QED
        BY <2>1, <3>1, <4>1, BeforeIsAnOrder
    <3> QED
      BY <3>1
  <2>3. j \in before(i) /\ j \notin before(j)
    <3>1. j \in 1..Len(log)
      OBVIOUS
    <3>2. ~Before(log, j, j)
      BY <3>1, BeforeIsAnOrder
    <3> QED
      BY <2>1, <3>2
  <2>4. before(j) \in family /\ before(j) \in SUBSET S /\ before(i) \in SUBSET S
    BY DEF family
  <2> HIDE DEF before
  <2>5. <<before(j), least>> \in smaller
    BY <1>5, <2>2, <2>3, <2>4 DEF smaller, StrictSubsetOrdering
  <2> QED
    BY <1>4, <2>4, <2>5
<1>7. \A j \in S : j = i \/ Before(log, i, j)
  <2> TAKE j \in S
  <2>1. i \in 1..Len(log) /\ j \in 1..Len(log)
    OBVIOUS
  <2>2. i = j \/ Before(log, i, j) \/ Before(log, j, i)
    BY <2>1, BeforeIsAnOrder
  <2> QED
    BY <1>6, <2>2
<1> QED
  BY <1>7 DEF FirstOf

\* The first has a name: whatever is before all the others is it.
LEMMA FirstIsOne ==
  ASSUME NEW log \in Seq(Happenings), NEW S \in SUBSET (1..Len(log)), NEW i \in S,
         \A j \in S : j = i \/ Before(log, i, j)
  PROVE  FirstOf(log, S) = i
<1>1. FirstOf(log, S) \in S /\ (i = FirstOf(log, S) \/ Before(log, FirstOf(log, S), i))
  BY OneIsFirst
<1>2. i \in 1..Len(log) /\ FirstOf(log, S) \in 1..Len(log)
  BY <1>1
<1>3. ~(Before(log, i, FirstOf(log, S)) /\ Before(log, FirstOf(log, S), i))
  BY <1>2, BeforeIsAnOrder
<1> QED
  BY <1>1, <1>3

\* What is upcoming is listed and not done.
LEMMA UpcomingIsListed ==
  ASSUME BrokerInv, NEW p \in Passes, passes[p].listed # passes[p].done
  PROVE  /\ Upcoming(p) = FirstOf(activities, passes[p].listed \ passes[p].done)
         /\ Upcoming(p) \in passes[p].listed \ passes[p].done
         /\ Upcoming(p) \in 1..Len(activities)
<1> DEFINE S == passes[p].listed \ passes[p].done
<1>1. S \in SUBSET (1..Len(activities)) /\ S # {} /\ activities \in Seq(Happenings)
  BY DEF BrokerInv, ListIsRight
<1>2. Upcoming(p) = FirstOf(activities, S)
  BY DEF Upcoming, FirstOf, Before, Earlier
<1>3. FirstOf(activities, S) \in S
  BY <1>1, OneIsFirst
<1> QED
  BY <1>1, <1>2, <1>3

\* An event is appended only when no event of its source is in the ledger.
LEMMA PostingIsOnce ==
  ASSUME ledger \in Seq(Nat), PostedOnce, NEW source \in Nat
  PROVE  /\ Posting(source) \in Seq(Nat)
         /\ IsInjective(Posting(source))
<1>1. CASE source \in Range(ledger)
  BY <1>1 DEF Posting, PostedOnce
<1>2. CASE source \notin Range(ledger)
  <2>1. Posting(source) = Append(ledger, source)
    BY <1>2 DEF Posting
  <2>2. \A i \in 1..Len(ledger) : ledger[i] # source
    BY <1>2 DEF Range
  <2> QED
    BY <2>1, <2>2 DEF PostedOnce, IsInjective
<1> QED
  BY <1>1, <1>2

LEMMA BrokerInitially == Init => BrokerInv
<1> SUFFICES ASSUME Init PROVE BrokerInv
  OBVIOUS
<1>1. passes \in [Passes -> PassType] /\ \A p \in Passes : ListIsRight(passes[p], activities)
  BY IdleIsAPass DEF Init
<1>2. drift \subseteq Passes /\ ledger \in Seq(Nat) /\ PostedOnce
  BY DEF Init, PostedOnce, IsInjective
<1>3. scenario \in Scenarios /\ activities = scenario.past
  BY DEF Init
<1>4. scenario \in ScenarioType /\ activities \in Seq(Happenings)
  BY <1>3, BrokerAssumption DEF ScenarioType
<1>5. ClosedIsQuiet
  BY DEF Init, ClosedIsQuiet
<1> QED
  BY <1>1, <1>2, <1>4, <1>5 DEF BrokerInv

\* The worker lets this pass go on.
IsOpen(p) == life # "closed" /\ (p \in Timed => life # "stopping")

\* What the steps of a pass that leave the ledger and the broker alone must preserve.
LEMMA QuietStep ==
  ASSUME BrokerInv, NEW p \in Passes, passes'[p] \in PassType, ListIsRight(passes'[p], activities),
         passes' = [passes EXCEPT ![p] = passes'[p]], IsOpen(p),
         UNCHANGED <<activities, ledger>>, drift' \subseteq Passes,
         scenario' \in ScenarioType, life' \in {life, "running"}
  PROVE  BrokerInv'
<1>1. passes' \in [Passes -> PassType] /\ \A q \in Passes : ListIsRight(passes'[q], activities')
  BY DEF BrokerInv
<1>2. PostedOnce'
  BY DEF BrokerInv, PostedOnce, IsInjective
<1>3. ClosedIsQuiet'
  <2>1. ASSUME NEW q \in Passes, life' \in {"stopping", "closed"}, life' = "closed" \/ q \in Timed
        PROVE  passes'[q].stage = "idle"
    <3>1. life' = life /\ q # p
      BY <2>1 DEF IsOpen
    <3>2. passes'[q] = passes[q] /\ passes[q].stage = "idle"
      BY <2>1, <3>1 DEF BrokerInv, ClosedIsQuiet
    <3> QED
      BY <3>2
  <2> QED
    BY <2>1, BrokerAssumption DEF ClosedIsQuiet
<1> QED
  BY <1>1, <1>2, <1>3 DEF BrokerInv

LEMMA ScenarioAfterFault ==
  ASSUME BrokerInv, Fault
  PROVE  scenario' \in ScenarioType
<1>1. scenario \in ScenarioType /\ scenario.faults \in Nat /\ scenario.faults > 0
  BY DEF BrokerInv, Fault, ScenarioType
<1>2. scenario' = [scenario EXCEPT !.faults = scenario.faults - 1] /\ scenario.faults - 1 \in Nat
  BY <1>1 DEF Fault
<1>3. [scenario EXCEPT !.faults = scenario.faults - 1] \in ScenarioType
  BY <1>1, <1>2 DEF ScenarioType
<1> QED
  BY <1>2, <1>3

\* A pass under way has a stage, so the worker lets it go on.
LEMMA BusyIsOpen ==
  ASSUME BrokerInv, NEW p \in Passes, passes[p].stage # "idle"
  PROVE  IsOpen(p)
BY DEF BrokerInv, ClosedIsQuiet, IsOpen

LEMMA PassStepKeeps ==
  ASSUME BrokerInv, NEW p \in Passes, PassStep(p) \/ Fail(p)
  PROVE  BrokerInv'
<1>0. /\ passes[p] \in PassType /\ ListIsRight(passes[p], activities)
      /\ IdlePass \in PassType /\ ListIsRight(IdlePass, activities)
  BY IdleIsAPass DEF BrokerInv
<1>a. passes \in [Passes -> PassType] /\ scenario \in ScenarioType /\ drift \subseteq Passes
  BY DEF BrokerInv
<1>1. CASE Begin(p)
  <2> DEFINE pass == [IdlePass EXCEPT !.stage = "ask"]
  <2>1. pass \in PassType /\ ListIsRight(pass, activities)
    BY DEF PassType, IdlePass, Reads, ListIsRight
  <2>2. IsOpen(p)
    BY <1>1, BrokerAssumption DEF Begin, MayBegin, IsOpen
  <2>3. passes' = [passes EXCEPT ![p] = pass] /\ UNCHANGED <<activities, scenario, ledger, drift, life>>
    BY <1>1 DEF Begin, broker
  <2> HIDE DEF pass
  <2>4. passes'[p] = pass
    BY <1>a, <2>3
  <2> QED
    BY <1>a, <2>1, <2>2, <2>3, <2>4, QuietStep
<1>2. ASSUME NEW what \in {"account", "positions"}, Answer(p, what) PROVE BrokerInv'
  <2> DEFINE pass == [passes[p] EXCEPT ![what] = <<Now>>]
  <2>1. Now \in Nat
    BY DEF Now, BrokerInv
  <2>2. pass \in PassType
    BY <1>0, <2>1 DEF PassType, Reads
  <2>3. ListIsRight(pass, activities)
    BY <1>0 DEF PassType, ListIsRight
  <2>4. /\ passes' = [passes EXCEPT ![p] = pass] /\ passes[p].stage = "ask"
        /\ UNCHANGED <<activities, scenario, ledger, drift, life>>
    BY <1>2 DEF Answer, broker
  <2> HIDE DEF pass
  <2>5. passes'[p] = pass
    BY <1>a, <2>4
  <2> QED
    BY <1>a, <2>2, <2>3, <2>4, <2>5, QuietStep, BusyIsOpen
<1>3. CASE ListPage(p)
  <2> DEFINE page == PageOf(After(passes[p].listed))
             paged == Cardinality(After(passes[p].listed)) < PageSize
             pass == [passes[p] EXCEPT !.listed = passes[p].listed \union page, !.paged = paged]
  <2>1. page \subseteq 1..Len(activities) /\ 1..Len(activities) \subseteq Nat
    BY DEF PageOf, After, Now, BrokerInv
  <2>2. paged \in BOOLEAN
    OBVIOUS
  <2>3. /\ passes' = [passes EXCEPT ![p] = pass] /\ passes[p].stage = "ask"
        /\ UNCHANGED <<activities, scenario, ledger, drift, life>>
    BY <1>3, <1>a DEF ListPage, broker
  <2> HIDE DEF page, paged
  <2>4. pass \in PassType
    BY <1>0, <2>1, <2>2 DEF PassType, ListIsRight
  <2>5. ListIsRight(pass, activities)
    BY <1>0, <2>1, <2>3 DEF PassType, ListIsRight
  <2> HIDE DEF pass
  <2>6. passes'[p] = pass
    BY <1>a, <2>3
  <2> QED
    BY <1>a, <2>3, <2>4, <2>5, <2>6, QuietStep, BusyIsOpen
<1>4. ASSUME NEW stage \in {"ingest", "post"}, stage = "post" => passes[p].done # passes[p].listed,
             passes[p].stage # "idle", Goes(p, stage), UNCHANGED <<activities, scenario, ledger, drift, life>>
      PROVE  BrokerInv'
  <2> DEFINE pass == [passes[p] EXCEPT !.stage = stage]
  <2>1. pass \in PassType /\ ListIsRight(pass, activities)
    BY <1>0, <1>4 DEF PassType, ListIsRight
  <2>2. passes' = [passes EXCEPT ![p] = pass]
    BY <1>4 DEF Goes
  <2> HIDE DEF pass
  <2>3. passes'[p] = pass
    BY <1>a, <2>2
  <2> QED
    BY <1>4, <1>a, <2>1, <2>2, <2>3, QuietStep, BusyIsOpen
<1>5. CASE Observe(p)
  BY <1>4, <1>5 DEF Observe, broker
<1>6. CASE StoreActivity(p)
  BY <1>4, <1>6 DEF StoreActivity, HasMore, broker
<1>7. CASE Post(p)
  <2> DEFINE done == passes[p].done \union {Upcoming(p)}
             pass == [passes[p] EXCEPT !.stage = "ingest", !.done = done]
  <2>1. passes[p].stage = "post" /\ passes[p].listed # passes[p].done
    BY <1>0, <1>7 DEF Post, ListIsRight
  <2>2. Upcoming(p) \in passes[p].listed /\ Upcoming(p) \in Nat
    <3>1. Upcoming(p) \in passes[p].listed \ passes[p].done /\ Upcoming(p) \in 1..Len(activities)
      BY <2>1, UpcomingIsListed
    <3>2. Len(activities) \in Nat
      BY DEF BrokerInv
    <3> QED
      BY <3>1, <3>2
  <2>3. done \subseteq Nat /\ done \subseteq passes[p].listed
    BY <1>0, <2>2 DEF PassType, ListIsRight
  <2>4. passes' = [passes EXCEPT ![p] = pass] /\ UNCHANGED <<activities, scenario, drift, life>>
    BY <1>7, <1>a DEF Post, broker
  <2> HIDE DEF done
  <2>5. pass \in PassType /\ ListIsRight(pass, activities)
    BY <1>0, <2>3 DEF PassType, ListIsRight
  <2> HIDE DEF pass
  <2>6. passes' \in [Passes -> PassType] /\ \A q \in Passes : ListIsRight(passes'[q], activities')
    BY <2>4, <2>5 DEF BrokerInv
  <2>7. ledger' \in Seq(Nat) /\ PostedOnce'
    BY <1>7, <2>2, PostingIsOnce DEF Post, PostedOnce, BrokerInv
  <2>8. ClosedIsQuiet'
    BY <1>a, <2>1, <2>4, BusyIsOpen DEF ClosedIsQuiet, IsOpen, BrokerInv
  <2> QED
    BY <2>4, <2>6, <2>7, <2>8 DEF BrokerInv
<1>8. ASSUME NEW ok \in BOOLEAN, Ended(p, ok), passes[p].stage # "idle", UNCHANGED <<activities, ledger>>,
             drift' \subseteq Passes, scenario' \in ScenarioType
      PROVE  BrokerInv'
  <2>1. passes' = [passes EXCEPT ![p] = IdlePass] /\ life' \in {life, "running"}
    BY <1>8 DEF Ended
  <2> HIDE DEF IdlePass
  <2>2. passes'[p] = IdlePass
    BY <1>a, <2>1
  <2> QED
    BY <1>0, <1>8, <2>1, <2>2, QuietStep, BusyIsOpen
<1>9. CASE Choke(p)
  BY <1>8, <1>9, <1>a DEF Choke, HasMore, broker
<1>10. CASE Replay(p)
  <2>1. PICK order \in ByTime(ledger) :
          passes' = [passes EXCEPT ![p] = [IdlePass EXCEPT !.stage = "decide", !.quiet = passes[p].quiet,
                                                          !.differs = Differs(p, Replayed(order))]]
    BY <1>10 DEF Replay
  <2> DEFINE differs == Differs(p, Replayed(order))
             pass == [IdlePass EXCEPT !.stage = "decide", !.quiet = passes[p].quiet, !.differs = differs]
  <2>2. differs \in BOOLEAN
    BY DEF Differs
  <2>3. passes[p].stage = "ingest" /\ UNCHANGED <<activities, scenario, life, ledger, drift>>
    BY <1>10 DEF Replay, broker
  <2>4. passes' = [passes EXCEPT ![p] = pass]
    BY <2>1
  <2> HIDE DEF differs
  <2>5. pass \in PassType /\ ListIsRight(pass, activities)
    BY <1>0, <2>2 DEF PassType, IdlePass, Reads, ListIsRight
  <2> HIDE DEF pass
  <2>6. passes'[p] = pass
    BY <1>a, <2>4
  <2> QED
    BY <1>a, <2>3, <2>4, <2>5, <2>6, QuietStep, BusyIsOpen
<1>11. CASE Clear(p)
  BY <1>8, <1>11, <1>a DEF Clear, ClearedBy, broker
<1>12. CASE Sweep(p)
  <2> DEFINE swept == drift \ Locked(p)
             pass == [passes[p] EXCEPT !.stage = "insert", !.swept = swept]
  <2>1. swept \subseteq Passes
    BY <1>a
  <2>2. /\ passes' = [passes EXCEPT ![p] = pass] /\ passes[p].stage = "decide"
        /\ UNCHANGED <<activities, scenario, life, ledger, drift>>
    BY <1>a, <1>12 DEF Sweep, broker
  <2> HIDE DEF swept
  <2>3. pass \in PassType /\ ListIsRight(pass, activities)
    BY <1>0, <2>1 DEF PassType, ListIsRight
  <2> HIDE DEF pass
  <2>4. passes'[p] = pass
    BY <1>a, <2>2
  <2> QED
    BY <1>a, <2>2, <2>3, <2>4, QuietStep, BusyIsOpen
<1>13. CASE Insert(p)
  <2>1. drift' \subseteq Passes
    BY <1>13, <1>a DEF Insert
  <2> QED
    BY <1>8, <1>13, <1>a, <2>1 DEF Insert, broker
<1>14. CASE Fail(p)
  BY <1>8, <1>14, <1>a, ScenarioAfterFault DEF Fail
<1> QED
  BY <1>1, <1>2, <1>3, <1>5, <1>6, <1>7, <1>9, <1>10, <1>11, <1>12, <1>13, <1>14 DEF PassStep

LEMMA HappenKeeps ==
  ASSUME BrokerInv, Happen
  PROVE  BrokerInv'
<1>1. /\ activities' = Append(activities, Head(scenario.events)) /\ scenario.events # <<>>
      /\ scenario' = [scenario EXCEPT !.events = Tail(scenario.events)]
      /\ UNCHANGED <<life, ledger, drift>>
  BY DEF Happen
<1>2. scenario \in ScenarioType /\ activities \in Seq(Happenings)
  BY DEF BrokerInv
<1>3. /\ Head(scenario.events) \in Happenings /\ Tail(scenario.events) \in Seq(Happenings)
      /\ activities' \in Seq(Happenings) /\ Len(activities') = Len(activities) + 1
  BY <1>1, <1>2 DEF ScenarioType
<1>4. scenario' \in ScenarioType
  BY <1>1, <1>2, <1>3 DEF ScenarioType
<1>5. ASSUME NEW p \in Passes
      PROVE  passes'[p] \in PassType /\ ListIsRight(passes'[p], activities') /\ passes'[p].stage = passes[p].stage
  <2> DEFINE quiet == passes[p].stage = "idle"
             pass == [passes[p] EXCEPT !.quiet = quiet]
  <2>1. passes[p] \in PassType /\ ListIsRight(passes[p], activities) /\ passes'[p] = pass
    BY DEF Happen, BrokerInv
  <2>2. quiet \in BOOLEAN
    OBVIOUS
  <2> HIDE DEF quiet
  <2>3. pass \in PassType /\ pass.stage = passes[p].stage
    BY <2>1, <2>2 DEF PassType
  <2>4. 1..Len(activities) \subseteq 1..Len(activities')
    BY <1>2, <1>3
  <2>5. ListIsRight(pass, activities')
    BY <2>1, <2>4 DEF PassType, ListIsRight
  <2> QED
    BY <2>1, <2>3, <2>5
<1>6. passes' \in [Passes -> PassType]
  BY <1>5 DEF Happen
<1>7. ClosedIsQuiet'
  BY <1>1, <1>5, BrokerAssumption DEF BrokerInv, ClosedIsQuiet
<1>8. PostedOnce'
  BY <1>1 DEF BrokerInv, PostedOnce
<1> QED
  BY <1>1, <1>3, <1>4, <1>5, <1>6, <1>7, <1>8 DEF BrokerInv

\* Whatever leaves the broker and the passes alone, and closes only what is idle.
LEMMA LifeStep ==
  ASSUME BrokerInv, UNCHANGED <<activities, passes, ledger, drift>>, scenario' \in ScenarioType, ClosedIsQuiet'
  PROVE  BrokerInv'
BY DEF BrokerInv, PostedOnce

LEMMA BrokerStep == BrokerInv /\ [Next]_vars => BrokerInv'
<1> SUFFICES ASSUME BrokerInv, [Next]_vars PROVE BrokerInv'
  OBVIOUS
<1>0. scenario \in ScenarioType
  BY DEF BrokerInv
<1>1. CASE Happen
  BY <1>1, HappenKeeps
<1>2. ASSUME NEW p \in Passes, PassStep(p) \/ Fail(p) PROVE BrokerInv'
  BY <1>2, PassStepKeeps
<1>3. CASE Crash
  <2>1. /\ passes' = [p \in Passes |-> IdlePass] /\ life' = "starting"
        /\ UNCHANGED <<activities, ledger, drift>> /\ scenario' \in ScenarioType
    BY <1>3, ScenarioAfterFault DEF Crash
  <2>2. \A p \in Passes : passes'[p] \in PassType /\ ListIsRight(passes'[p], activities)
    BY <2>1, IdleIsAPass
  <2> QED
    BY <2>1, <2>2 DEF BrokerInv, PostedOnce, ClosedIsQuiet
<1>4. CASE Close
  BY <1>4, LifeStep, ScenarioAfterFault DEF Close, ClosedIsQuiet
<1>5. CASE Closed
  BY <1>0, <1>5, LifeStep DEF Closed, broker, ClosedIsQuiet
<1>6. CASE WorkerClosed
  BY <1>0, <1>6, LifeStep, BrokerAssumption DEF WorkerClosed, broker, ClosedIsQuiet
<1>7. CASE Restart
  BY <1>0, <1>7, LifeStep DEF Restart, broker, ClosedIsQuiet
<1>8. ASSUME UNCHANGED <<activities, account, worker>>, scenario' \in ScenarioType PROVE BrokerInv'
  BY <1>8, LifeStep DEF worker, BrokerInv, ClosedIsQuiet
<1>9. ASSUME NEW d \in Drafts, NEW asset \in Assets, NEW quote \in Quotes, IssuePreview(d, asset, quote)
      PROVE  BrokerInv'
  BY <1>0, <1>8, <1>9 DEF IssuePreview, broker
<1>10. CASE Expire
  BY <1>0, <1>8, <1>10 DEF Expire, broker
<1>11. ASSUME NEW k \in Requests, PassGate(k) \/ Confirm(k) \/ Abandon(k) PROVE BrokerInv'
  BY <1>0, <1>8, <1>11 DEF PassGate, Confirm, Abandon, broker
<1>12. CASE UNCHANGED vars
  BY <1>0, <1>8, <1>12 DEF vars, broker
<1> QED
  BY <1>1, <1>2, <1>3, <1>4, <1>5, <1>6, <1>7, <1>9, <1>10, <1>11, <1>12 DEF Next

\* However many passes ingest the same listing at once, and wherever the worker dies
\* between the two inserts, an activity is posted to the ledger once.
THEOREM LedgerIsSafe == Spec => []PostedOnce
<1>1. BrokerInv => PostedOnce
  BY DEF BrokerInv
<1> QED
  BY BrokerInitially, BrokerStep, <1>1, PTL DEF Spec

\* After the lifecycle's close has resolved no pass of its timer is left that still writes,
\* and after BullMQ's worker is closed none that a job began.
THEOREM CloseIsSafe == Spec => []ClosedIsQuiet
<1>1. BrokerInv => ClosedIsQuiet
  BY DEF BrokerInv
<1> QED
  BY BrokerInitially, BrokerStep, <1>1, PTL DEF Spec

-----------------------------------------------------------------------------
(* The broker's account, after any activities.                                  *)

Books == [cash : Int, positions : [Symbols -> Int]]

\* Induction up to a bound, for a set of numbers.
LEMMA UpTo ==
  ASSUME NEW bound \in Nat, NEW T, 0 \in T,
         \A m \in 0..bound : m \in T /\ m < bound => m + 1 \in T
  PROVE  0..bound \subseteq T
<1> DEFINE rest == (0..bound) \ T
           under(n) == {m \in rest : m < n}
           family == {under(n) : n \in rest}
           smaller == StrictSubsetOrdering(rest)
<1> HIDE DEF rest, family, smaller
<1>1. SUFFICES ASSUME rest # {} PROVE FALSE
  BY DEF rest
<1>2. IsFiniteSet(rest)
  <2>1. IsFiniteSet(0..bound)
    BY FS_Interval
  <2> QED
    BY <2>1, FS_Subset DEF rest
<1>3. IsWellFoundedOn(smaller, FiniteSubsetsOf(rest)) /\ FiniteSubsetsOf(rest) = SUBSET rest
  BY <1>2, FS_StrictSubsetOrderingWellFounded, FS_FiniteSubsetsOfFinite DEF smaller
<1>4. family \subseteq SUBSET rest /\ family # {}
  <2>1. \A n \in rest : under(n) \in SUBSET rest /\ under(n) \in family
    BY DEF family
  <2> QED
    BY <1>1, <2>1 DEF family
<1>5. PICK least \in family : \A a \in family : ~(<<a, least>> \in smaller)
  BY <1>3, <1>4, WFMin
<1>6. PICK n \in rest : least = under(n)
  BY <1>5 DEF family
<1>7. n \in 1..bound /\ n - 1 \in rest
  <2>1. n \in 0..bound /\ n \notin T /\ n # 0
    BY DEF rest
  <2>2. n - 1 \in 0..bound /\ n - 1 < bound /\ (n - 1) + 1 = n
    BY <2>1
  <2>3. n - 1 \notin T
    BY <2>1, <2>2
  <2> QED
    BY <2>1, <2>2, <2>3 DEF rest
<1>8. under(n - 1) \subseteq under(n) /\ n - 1 \in under(n) /\ n - 1 \notin under(n - 1)
  <2>1. rest \subseteq Nat
    BY DEF rest
  <2>2. \A m \in rest : m < n - 1 => m < n
    BY <1>7, <2>1
  <2>3. n - 1 < n /\ ~(n - 1 < n - 1)
    BY <1>7
  <2> QED
    BY <1>7, <2>2, <2>3, Zenon
<1>9. <<under(n - 1), least>> \in smaller /\ under(n - 1) \in family
  <2>1. under(n - 1) \in SUBSET rest /\ under(n) \in SUBSET rest
    OBVIOUS
  <2>2. under(n - 1) \in family
    BY <1>7 DEF family
  <2> HIDE DEF under
  <2> QED
    BY <1>6, <1>8, <2>1, <2>2 DEF smaller, StrictSubsetOrdering
<1> QED
  BY <1>5, <1>9

TenMoney == 10 ^ MONEY_DECIMAL_SCALE
TenQuantity == 10 ^ QUANTITY_DECIMAL_SCALE

LEMMA TensAreInts == TenMoney \in Int /\ TenQuantity \in Int /\ TenQuantity > 0
BY ScaleAssumption, PowerAssumption DEF TenMoney, TenQuantity

\* The quotient is the one whose multiple is below, by less than the divisor.
LEMMA QuotientIsOne ==
  ASSUME NEW x \in Int, NEW d \in Int, d > 0, NEW q \in Int, q * d <= x, x < q * d + d
  PROVE  x \div d = q
<1> DEFINE r == x \div d
<1>1. r \in Int /\ r * d <= x /\ x < r * d + d
  BY SMTT(30)
<1> HIDE DEF r
<1>2. (r - q) * d < d /\ (q - r) * d < d
  BY <1>1, SMTT(30)
<1>3. ASSUME NEW k \in Int, k * d < d PROVE k < 1
  <2>1. SUFFICES ASSUME k >= 1 PROVE FALSE
    BY <1>3
  <2>2. k * d >= d
    BY <2>1, SMTT(30)
  <2> QED
    BY <1>3, <2>2
<1>4. r - q < 1 /\ q - r < 1
  BY <1>1, <1>2, <1>3
<1>5. r = q
  BY <1>1, <1>4
<1> QED
  BY <1>5 DEF r

\* To be the nearest, in terms of the multiple m of r.
Closest(r, m, n, d) ==
  /\ \/ Magnitude(m - n) < Magnitude(m - d - n)
     \/ Magnitude(m - n) = Magnitude(m - d - n) /\ Magnitude(r) > Magnitude(r - 1)
  /\ \/ Magnitude(m - n) < Magnitude(m + d - n)
     \/ Magnitude(m - n) = Magnitude(m + d - n) /\ Magnitude(r) > Magnitude(r + 1)

LEMMA NearestOfMultiple ==
  ASSUME NEW r \in Int, NEW n \in Int, NEW d \in Int, NEW m \in Int, r * d = m
  PROVE  IsNearest(r, n, d) <=> Closest(r, m, n, d)
<1>1. (r - 1) * d = m - d /\ (r + 1) * d = m + d
  BY SMTT(30)
<1> QED
  BY <1>1 DEF IsNearest, Closest

\* Of the two multiples next to a number one is the nearest.
LEMMA NearestOfTwo ==
  ASSUME NEW n \in Int, NEW d \in Int, d > 0
  PROVE  LET q == n \div d
             rest == n - q * d
         IN  /\ q \in Int /\ q * d \in Int /\ 0 <= rest /\ rest < d
             /\ Nearest(n, d) = IF 2 * rest < d \/ (2 * rest = d /\ n < 0) THEN q ELSE q + 1
<1> DEFINE q == n \div d
           m == q * d
<1>1. q \in Int /\ m \in Int /\ m <= n /\ n < m + d
  BY SMTT(30)
<1>2. (q + 1) * d = m + d
  BY <1>1, SMTT(30)
<1>3. n < 0 <=> q < 0
  <2>1. ASSUME q < 0 PROVE n < 0
    <3>1. (q + 1) * d <= 0
      BY <1>1, <2>1, SMTT(30)
    <3> QED
      BY <1>1, <1>2, <3>1
  <2>2. ASSUME q >= 0 PROVE n >= 0
    <3>1. q * d >= 0
      BY <1>1, <2>2, SMTT(30)
    <3> QED
      BY <1>1, <3>1
  <2> QED
    BY <1>1, <2>1, <2>2
<1> DEFINE below == 2 * (n - m) < d \/ (2 * (n - m) = d /\ n < 0)
<1> HIDE DEF q, m
<1>4. IsNearest(q, n, d) <=> below
  <2>1. q * d = m
    BY DEF m
  <2>2. IsNearest(q, n, d) <=> Closest(q, m, n, d)
    BY <1>1, <2>1, NearestOfMultiple
  <2> QED
    BY <1>1, <1>3, <2>2 DEF Magnitude, Closest, below
<1>5. IsNearest(q + 1, n, d) <=> ~below
  <2>1. m + d \in Int /\ q + 1 \in Int
    BY <1>1
  <2>2. IsNearest(q + 1, n, d) <=> Closest(q + 1, m + d, n, d)
    BY <1>2, <2>1, NearestOfMultiple
  <2> QED
    BY <1>1, <1>3, <2>2 DEF Magnitude, Closest, below
<1>6. Nearest(n, d) = IF below THEN q ELSE q + 1
  <2>1. Nearest(n, d) = CHOOSE r \in {q, q + 1} : IsNearest(r, n, d)
    BY DEF Nearest, q
  <2> HIDE DEF below
  <2> QED
    BY <1>4, <1>5, <2>1
<1> QED
  BY <1>1, <1>6 DEF q, m

\* The ledger rounds to what is nearest, and halves away from zero.
LEMMA NearestIsRounded ==
  ASSUME NEW n \in Int, NEW d \in Int, d > 0, d = 1 \/ d % 2 = 0
  PROVE  Nearest(n, d) \in Int /\ Nearest(n, d) = RoundedQuotient(n, d)
<1> DEFINE q == n \div d
           m == q * d
           half == d \div 2
           nearest == Nearest(n, d)
<1>1. /\ q \in Int /\ m \in Int /\ 0 <= n - m /\ n - m < d
      /\ nearest = IF 2 * (n - m) < d \/ (2 * (n - m) = d /\ n < 0) THEN q ELSE q + 1
  BY NearestOfTwo
<1>2. half \in Int /\ (d = 1 => half = 0) /\ (d # 1 => d = 2 * half)
  OBVIOUS
<1>3. (q + 1) * d = m + d /\ (-q) * d = -m /\ (-q - 1) * d = -m - d
  <2>1. q * d = m
    OBVIOUS
  <2> HIDE DEF q, m
  <2> QED
    BY <1>1, <2>1, SMTT(30)
<1>4. q * d = m
  OBVIOUS
<1> HIDE DEF q, m, half, nearest
<1>5. CASE n >= 0
  <2>1. RoundedQuotient(n, d) = (n + half) \div d
    BY <1>5 DEF RoundedQuotient, half
  <2>2. nearest \in Int /\ nearest * d <= n + half /\ n + half < nearest * d + d
    BY <1>1, <1>2, <1>3, <1>4, <1>5
  <2>3. (n + half) \div d = nearest
    BY <1>2, <2>2, QuotientIsOne
  <2> QED
    BY <2>1, <2>2, <2>3 DEF nearest
<1>6. CASE n < 0
  <2>1. RoundedQuotient(n, d) = -((-n + half) \div d)
    BY <1>6 DEF RoundedQuotient, half
  <2>2. nearest \in Int /\ -nearest \in Int /\ -n + half \in Int
    BY <1>1, <1>2
  <2>3. (-nearest) * d <= -n + half /\ -n + half < (-nearest) * d + d
    <3>1. CASE nearest = q
      BY <1>1, <1>2, <1>3, <1>6, <3>1
    <3>2. CASE nearest = q + 1
      <4>1. -nearest = -q - 1
        BY <1>1, <3>2
      <4> QED
        BY <1>1, <1>2, <1>3, <1>6, <3>2, <4>1
    <3> QED
      BY <1>1, <3>1, <3>2
  <2>4. (-n + half) \div d = -nearest
    BY <2>2, <2>3, QuotientIsOne
  <2> QED
    BY <2>1, <2>2, <2>4 DEF nearest
<1> QED
  BY <1>5, <1>6

\* The scale of quantities is a divisor of that kind.
LEMMA TenQuantityDivides == TenQuantity \in Int /\ TenQuantity > 0 /\ (TenQuantity = 1 \/ TenQuantity % 2 = 0)
<1>1. CASE QUANTITY_DECIMAL_SCALE > 0
  BY <1>1, TensAreInts, PowerAssumption DEF TenQuantity
<1>2. CASE QUANTITY_DECIMAL_SCALE = 0
  <2>1. 10 ^ 0 = 1
    OBVIOUS
  <2> QED
    BY <1>2, <2>1, TensAreInts DEF TenQuantity
<1> QED
  BY <1>1, <1>2, ScaleAssumption

\* The units of a decimal are a number of them, and those that the parser reads.
LEMMA UnitsAreInts ==
  ASSUME NEW value, NEW scale \in {MONEY_DECIMAL_SCALE, QUANTITY_DECIMAL_SCALE}, IsDecimal(value, scale)
  PROVE  UnitsOf(value, scale) \in Int
<1>1. scale \in Nat /\ 10 ^ scale \in Int /\ 10 ^ value.places \in Int /\ 10 ^ value.places > 0 /\ value.units \in Int
  BY ScaleAssumption DEF IsDecimal
<1> DEFINE ten == 10 ^ value.places
           product == value.units * 10 ^ scale
<1>2. ten \in Int /\ ten > 0 /\ product \in Int
  BY <1>1
<1> HIDE DEF ten, product
<1>3. product \div ten \in Int
  BY <1>2, SMTT(30)
<1> QED
  BY <1>3 DEF UnitsOf, ten, product

LEMMA UnitsAreParsed ==
  ASSUME NEW value, NEW scale \in {MONEY_DECIMAL_SCALE, QUANTITY_DECIMAL_SCALE}, IsDecimal(value, scale),
         IsFixedDecimal(value, scale)
  PROVE  parseFixedDecimal(value, scale) = UnitsOf(value, scale)
<1> DEFINE ten == 10 ^ value.places
           more == 10 ^ (scale - value.places)
           units == value.units
           all == 10 ^ scale
           parsed == units * more
<1>1. units \in Int /\ ten \in Int /\ ten > 0
  BY DEF IsDecimal
<1>2. value.places \in 0..scale /\ scale \in Nat /\ scale - value.places \in Nat
  BY ScaleAssumption DEF IsDecimal, IsFixedDecimal
<1>3. more \in Int /\ all \in Int
  BY <1>2
<1>4. ten * more = all
  BY <1>2, PowerAssumption
<1>5. parseFixedDecimal(value, scale) = parsed /\ UnitsOf(value, scale) = (units * all) \div ten
  BY DEF parseFixedDecimal, UnitsOf
<1> HIDE DEF ten, more, units, all
<1>6. parsed \in Int /\ units * all \in Int
  BY <1>1, <1>3
<1>7. parsed * ten = units * all
  <2>1. (units * more) * ten = units * (ten * more)
    BY <1>1, <1>3, SMTT(30)
  <2> QED
    BY <1>4, <2>1
<1> HIDE DEF parsed
<1>8. (units * all) \div ten = parsed
  BY <1>1, <1>6, <1>7, QuotientIsOne
<1> QED
  BY <1>5, <1>8

\* What an activity does to cash, and to a position.
PostsCash(a) ==
  LET worth == Nearest(UnitsOf(a.quantity[1], QUANTITY_DECIMAL_SCALE) * UnitsOf(a.price[1], MONEY_DECIMAL_SCALE),
                       TenQuantity)
  IN  IF a.amount # None THEN UnitsOf(a.amount[1], MONEY_DECIMAL_SCALE)
      ELSE IF a.type # "FILL" THEN 0
      ELSE IF a.side = <<"buy">> THEN -worth ELSE worth

PostsHeld(a, held) ==
  LET q == UnitsOf(a.quantity[1], QUANTITY_DECIMAL_SCALE)
  IN  IF a.type = "SPLIT" THEN Nearest(held * q, TenQuantity)
      ELSE IF a.side = <<"buy">> THEN held + q ELSE held - q

\* It moves a position when it is a fill or a split.
Moves(a) == a.type \in {"FILL", "SPLIT"}

BooksAfter(b, a) ==
  [cash |-> b.cash + PostsCash(a),
   positions |-> IF Moves(a)
                 THEN [b.positions EXCEPT ![a.symbol[1]] = PostsHeld(a, b.positions[a.symbol[1]])]
                 ELSE b.positions]

\* The values of an activity are numbers of units.
LEMMA ActivityValues ==
  ASSUME NEW a \in Happenings
  PROVE  /\ Moves(a) => /\ a.symbol # None /\ a.symbol = <<a.symbol[1]>> /\ a.symbol[1] \in Symbols
                        /\ a.quantity # None /\ UnitsOf(a.quantity[1], QUANTITY_DECIMAL_SCALE) \in Int
         /\ a.type = "FILL" => /\ a.side = <<"buy">> \/ a.side = <<"sell">>
                               /\ a.price # None /\ UnitsOf(a.price[1], MONEY_DECIMAL_SCALE) \in Int
         /\ a.amount # None => UnitsOf(a.amount[1], MONEY_DECIMAL_SCALE) \in Int
<1>1. ASSUME Moves(a)
      PROVE  /\ a.symbol # None /\ a.symbol = <<a.symbol[1]>> /\ a.symbol[1] \in Symbols
             /\ a.quantity # None /\ UnitsOf(a.quantity[1], QUANTITY_DECIMAL_SCALE) \in Int
  <2>1. a.symbol # None /\ a.quantity # None /\ IsDecimal(a.quantity[1], QUANTITY_DECIMAL_SCALE)
    BY <1>1, ActivityAssumption DEF Moves
  <2>2. PICK s \in Symbols : a.symbol = <<s>>
    BY <2>1, ActivityAssumption
  <2> QED
    BY <2>1, <2>2, UnitsAreInts
<1>2. ASSUME a.type = "FILL"
      PROVE  /\ a.side = <<"buy">> \/ a.side = <<"sell">>
             /\ a.price # None /\ UnitsOf(a.price[1], MONEY_DECIMAL_SCALE) \in Int
  <2>1. (a.side = <<"buy">> \/ a.side = <<"sell">>) /\ a.price # None /\ IsDecimal(a.price[1], MONEY_DECIMAL_SCALE)
    BY <1>2, ActivityAssumption
  <2> QED
    BY <2>1, UnitsAreInts
<1>3. ASSUME a.amount # None PROVE UnitsOf(a.amount[1], MONEY_DECIMAL_SCALE) \in Int
  <2>1. IsDecimal(a.amount[1], MONEY_DECIMAL_SCALE)
    BY <1>3, ActivityAssumption
  <2> QED
    BY <2>1, UnitsAreInts
<1> QED
  BY <1>1, <1>2, <1>3

LEMMA PostsAreInts ==
  ASSUME NEW a \in Happenings
  PROVE  /\ PostsCash(a) \in Int
         /\ Moves(a) => \A held \in Int : PostsHeld(a, held) \in Int
<1> DEFINE q == UnitsOf(a.quantity[1], QUANTITY_DECIMAL_SCALE)
           p == UnitsOf(a.price[1], MONEY_DECIMAL_SCALE)
           w == UnitsOf(a.amount[1], MONEY_DECIMAL_SCALE)
<1>1. /\ Moves(a) => q \in Int
      /\ a.type = "FILL" => Moves(a) /\ p \in Int
      /\ a.amount # None => w \in Int
  BY ActivityValues DEF Moves
<1>2. ASSUME NEW m \in Int, NEW n \in Int PROVE Nearest(m * n, TenQuantity) \in Int
  <2> DEFINE product == m * n
  <2>1. product \in Int
    OBVIOUS
  <2> HIDE DEF product
  <2>2. Nearest(product, TenQuantity) \in Int
    BY <2>1, TenQuantityDivides, NearestIsRounded
  <2> QED
    BY <2>2 DEF product
<1>3. PostsCash(a) \in Int
  <2> DEFINE worth == Nearest(q * p, TenQuantity)
  <2>1. a.type = "FILL" => worth \in Int
    <3> HIDE DEF q, p
    <3> QED
      BY <1>1, <1>2
  <2>2. PostsCash(a) = IF a.amount # None THEN w ELSE IF a.type # "FILL" THEN 0
                       ELSE IF a.side = <<"buy">> THEN -worth ELSE worth
    BY DEF PostsCash
  <2> HIDE DEF worth, w
  <2> QED
    BY <1>1, <2>1, <2>2
<1>4. ASSUME Moves(a), NEW held \in Int PROVE PostsHeld(a, held) \in Int
  <2>1. PostsHeld(a, held) = IF a.type = "SPLIT" THEN Nearest(held * q, TenQuantity)
                             ELSE IF a.side = <<"buy">> THEN held + q ELSE held - q
    BY DEF PostsHeld
  <2> HIDE DEF q
  <2>2. q \in Int /\ Nearest(held * q, TenQuantity) \in Int
    BY <1>1, <1>2, <1>4
  <2> QED
    BY <2>1, <2>2
<1> QED
  BY <1>3, <1>4

LEMMA BrokerPostsIs ==
  ASSUME NEW b \in Books, NEW a \in Happenings
  PROVE  BrokerPosts(b, a) = BooksAfter(b, a)
<1>1. CASE a.type = "FILL" /\ a.side = <<"buy">>
  <2>1. a.type # "SPLIT" /\ <<"buy">> # <<"sell">>
    BY <1>1
  <2> QED
    BY <1>1, <2>1 DEF BrokerPosts, BooksAfter, PostsCash, PostsHeld, Moves, TenQuantity
<1>2. CASE a.type = "FILL" /\ a.side = <<"sell">>
  <2>1. a.type # "SPLIT" /\ <<"buy">> # <<"sell">>
    BY <1>2
  <2> QED
    BY <1>2, <2>1 DEF BrokerPosts, BooksAfter, PostsCash, PostsHeld, Moves, TenQuantity
<1>3. CASE a.type = "SPLIT"
  BY <1>3 DEF BrokerPosts, BooksAfter, PostsCash, PostsHeld, Moves, TenQuantity
<1>4. CASE a.type \notin {"FILL", "SPLIT"}
  BY <1>4 DEF BrokerPosts, BooksAfter, PostsCash, PostsHeld, Moves
<1> QED
  BY <1>1, <1>2, <1>3, <1>4, ActivityValues

\* The broker's bookkeeping is of whole units.
LEMMA BrokerPostsBooks ==
  ASSUME NEW b \in Books, NEW a \in Happenings
  PROVE  BrokerPosts(b, a) \in Books
<1>1. b.cash \in Int /\ b.positions \in [Symbols -> Int] /\ PostsCash(a) \in Int
  BY PostsAreInts DEF Books
<1>2. ASSUME Moves(a)
      PROVE  [b.positions EXCEPT ![a.symbol[1]] = PostsHeld(a, b.positions[a.symbol[1]])] \in [Symbols -> Int]
  <2>1. a.symbol[1] \in Symbols
    BY <1>2, ActivityValues
  <2>2. b.positions[a.symbol[1]] \in Int
    BY <1>1, <2>1
  <2>3. PostsHeld(a, b.positions[a.symbol[1]]) \in Int
    BY <1>2, <2>2, PostsAreInts
  <2> QED
    BY <1>1, <2>1, <2>3
<1>3. BooksAfter(b, a) \in Books
  BY <1>1, <1>2 DEF BooksAfter, Books
<1> QED
  BY <1>3, BrokerPostsIs

\* The account before the first and after each of some activities.
IsAccountOf(books, log) ==
  /\ books \in Seq(Books) /\ Len(books) = Len(log) + 1
  /\ books[1] = EmptyAccount
  /\ \A n \in 1..Len(log) : books[n + 1] = BrokerPosts(books[n], log[n])

LEMMA AccountIsBooks ==
  ASSUME NEW log \in Seq(Happenings)
  PROVE  IsAccountOf(AccountLog(log), log)
<1> DEFINE bound == Len(log)
           Rule(f, m) == f = [n \in 0..m |-> IF n = 0 THEN EmptyAccount ELSE BrokerPosts(f[n - 1], log[n])]
           known == {m \in 0..bound : \E f : Rule(f, m)}
<1>1. bound \in Nat /\ \A n \in 1..bound : log[n] \in Happenings
  OBVIOUS
<1>2. EmptyAccount \in Books
  BY DEF EmptyAccount, Books
<1>3. bound \in known
  <2>1. 0 \in known
    <3> DEFINE f == [n \in 0..0 |-> EmptyAccount]
    <3>1. \A n \in 0..0 : n = 0
      OBVIOUS
    <3>2. Rule(f, 0)
      BY <3>1, Zenon
    <3>3. 0 \in 0..bound
      BY <1>1
    <3> HIDE DEF Rule, f
    <3> QED
      BY <3>2, <3>3
  <2>2. ASSUME NEW m \in 0..bound, m \in known, m < bound PROVE m + 1 \in known
    <3>1. PICK f : Rule(f, m)
      BY <2>2
    <3> DEFINE g == [n \in 0..(m + 1) |-> IF n = m + 1 THEN BrokerPosts(f[m], log[m + 1]) ELSE f[n]]
               step(h, n) == IF n = 0 THEN EmptyAccount ELSE BrokerPosts(h[n - 1], log[n])
    <3>2. ASSUME NEW n \in 0..(m + 1) PROVE g[n] = step(g, n)
      <4>1. CASE n = m + 1
        <5>1. n # 0 /\ n - 1 = m /\ m \in 0..(m + 1) /\ m # m + 1
          BY <1>1, <4>1
        <5>2. g[m] = f[m] /\ g[n] = BrokerPosts(f[m], log[n])
          BY <4>1, <5>1
        <5> HIDE DEF g
        <5> QED
          BY <5>1, <5>2
      <4>2. CASE n # m + 1
        <5>1. n \in 0..m /\ (n # 0 => n - 1 \in 0..(m + 1) /\ n - 1 # m + 1)
          BY <1>1, <4>2
        <5>2. g[n] = f[n] /\ (n # 0 => g[n - 1] = f[n - 1])
          BY <4>2, <5>1
        <5>3. f[n] = step(f, n)
          BY <3>1, <5>1
        <5> HIDE DEF g
        <5> QED
          BY <5>2, <5>3
      <4> QED
        BY <4>1, <4>2
    <3>3. g = [n \in 0..(m + 1) |-> g[n]]
      OBVIOUS
    <3>4. g = [n \in 0..(m + 1) |-> step(g, n)]
      <4> HIDE DEF g, step
      <4> QED
        BY <3>2, <3>3
    <3>5. Rule(g, m + 1)
      <4> HIDE DEF g
      <4> QED
        BY <3>4
    <3>6. m + 1 \in 0..bound
      BY <1>1, <2>2
    <3> HIDE DEF Rule, g
    <3> QED
      BY <3>5, <3>6
  <2> HIDE DEF known, bound
  <2>3. 0..bound \subseteq known
    BY <1>1, <2>1, <2>2, UpTo
  <2> QED
    BY <1>1, <2>3
<1> DEFINE books == CHOOSE f : Rule(f, bound)
<1>4. Rule(books, bound)
  <2>1. \E f : Rule(f, bound)
    BY <1>3
  <2> HIDE DEF Rule
  <2> QED
    BY <2>1
<1>5. AccountLog(log) = [n \in 1..(bound + 1) |-> books[n - 1]]
  BY DEF AccountLog
<1> DEFINE typed == {n \in 0..bound : books[n] \in Books}
<1> HIDE DEF books
<1>6. 0..bound \subseteq typed
  <2>1. 0 \in typed
    <3>1. 0 \in 0..bound
      BY <1>1
    <3> QED
      BY <1>2, <1>4, <3>1
  <2>2. ASSUME NEW m \in 0..bound, m \in typed, m < bound PROVE m + 1 \in typed
    <3>1. m + 1 \in 0..bound /\ m + 1 # 0 /\ (m + 1) - 1 = m /\ m + 1 \in 1..bound
      BY <1>1, <2>2
    <3>2. books[m + 1] = BrokerPosts(books[m], log[m + 1])
      BY <1>4, <3>1
    <3>3. log[m + 1] \in Happenings /\ books[m] \in Books
      BY <1>1, <2>2, <3>1
    <3> QED
      BY <3>1, <3>2, <3>3, BrokerPostsBooks
  <2> HIDE DEF typed, bound
  <2> QED
    BY <1>1, <2>1, <2>2, UpTo
<1>7. \A n \in 1..(bound + 1) : books[n - 1] \in Books
  <2> TAKE n \in 1..(bound + 1)
  <2>1. n - 1 \in 0..bound
    BY <1>1
  <2> QED
    BY <1>6, <2>1
<1>8. bound + 1 \in Nat /\ bound + 1 # 0
  BY <1>1
<1> HIDE DEF bound
<1>9. AccountLog(log) \in [1..(bound + 1) -> Books]
  BY <1>5, <1>7
<1>10. AccountLog(log) \in Seq(Books) /\ Len(AccountLog(log)) = bound + 1
  BY <1>8, <1>9, SeqDef, LenProperties
<1>11. AccountLog(log)[1] = EmptyAccount
  <2>1. 1 \in 1..(bound + 1) /\ 1 - 1 = 0 /\ 0 \in 0..bound
    BY <1>1, <1>8
  <2>2. books[0] = EmptyAccount
    BY <1>4, <2>1
  <2> QED
    BY <1>5, <2>1, <2>2
<1>12. ASSUME NEW n \in 1..bound PROVE AccountLog(log)[n + 1] = BrokerPosts(AccountLog(log)[n], log[n])
  <2>1. /\ n \in 1..(bound + 1) /\ n + 1 \in 1..(bound + 1) /\ (n + 1) - 1 = n
        /\ n \in 0..bound /\ n # 0
    BY <1>1
  <2>2. books[n] = BrokerPosts(books[n - 1], log[n])
    BY <1>4, <2>1
  <2> QED
    BY <1>5, <2>1, <2>2
<1> QED
  BY <1>10, <1>11, <1>12 DEF IsAccountOf, bound


-----------------------------------------------------------------------------
(* The ledger's replay and the broker's account.                                *)

\* The product with a quantity, in the other factor's scale, is what is nearest.
LEMMA ProductIsNearest ==
  ASSUME NEW x \in Int, NEW y \in Int, NEW scale \in Nat
  PROVE  multiplyFixedDecimalValues(x, y, QUANTITY_DECIMAL_SCALE, scale, scale) = Nearest(x * y, TenQuantity)
<1> DEFINE product == x * y
<1>0. product \in Int
  OBVIOUS
<1>1. CASE QUANTITY_DECIMAL_SCALE = 0
  <2>1. multiplyFixedDecimalValues(x, y, QUANTITY_DECIMAL_SCALE, scale, scale) =
          product * 10 ^ (scale - 0 - scale)
    BY <1>1 DEF multiplyFixedDecimalValues
  <2>2. scale - 0 - scale = 0 /\ 10 ^ 0 = 1 /\ TenQuantity = 1
    BY <1>1 DEF TenQuantity
  <2> HIDE DEF product
  <2>3. product * 10 ^ (scale - 0 - scale) = product
    BY <1>0, <2>2
  <2>4. Nearest(product, 1) = RoundedQuotient(product, 1) /\ RoundedQuotient(product, 1) = product
    <3>1. Nearest(product, 1) = RoundedQuotient(product, 1)
      BY <1>0, NearestIsRounded
    <3>2. RoundedQuotient(product, 1) = product
      BY <1>0 DEF RoundedQuotient
    <3> QED
      BY <3>1, <3>2
  <2> QED
    BY <2>1, <2>2, <2>3, <2>4 DEF product
<1>2. CASE QUANTITY_DECIMAL_SCALE > 0
  <2>1. QUANTITY_DECIMAL_SCALE + scale - scale = QUANTITY_DECIMAL_SCALE
        /\ ~(QUANTITY_DECIMAL_SCALE + scale <= scale)
    BY <1>2, ScaleAssumption
  <2>2. multiplyFixedDecimalValues(x, y, QUANTITY_DECIMAL_SCALE, scale, scale) =
          RoundedQuotient(product, TenQuantity)
    BY <2>1 DEF multiplyFixedDecimalValues, TenQuantity
  <2> HIDE DEF product
  <2>3. Nearest(product, TenQuantity) = RoundedQuotient(product, TenQuantity)
    BY <1>0, TenQuantityDivides, NearestIsRounded
  <2> QED
    BY <2>2, <2>3 DEF product
<1> QED
  BY <1>1, <1>2, ScaleAssumption

\* What the mapper reads of an activity that it can map are its values in full.
LEMMA ValuesAreParsed ==
  ASSUME NEW a \in Happenings, IsMappable(a)
  PROVE  /\ a.quantity # None =>
              normalize(a.quantity, QUANTITY_DECIMAL_SCALE) = <<UnitsOf(a.quantity[1], QUANTITY_DECIMAL_SCALE)>>
         /\ \A value \in {a.price, a.amount} :
              value # None => normalize(value, MONEY_DECIMAL_SCALE) = <<UnitsOf(value[1], MONEY_DECIMAL_SCALE)>>
<1>1. ASSUME a.quantity # None
      PROVE  normalize(a.quantity, QUANTITY_DECIMAL_SCALE) = <<UnitsOf(a.quantity[1], QUANTITY_DECIMAL_SCALE)>>
  <2>1. IsDecimal(a.quantity[1], QUANTITY_DECIMAL_SCALE) /\ IsFixedDecimal(a.quantity[1], QUANTITY_DECIMAL_SCALE)
    BY <1>1, ActivityAssumption DEF IsMappable
  <2> QED
    BY <1>1, <2>1, UnitsAreParsed DEF normalize
<1>2. ASSUME NEW value \in {a.price, a.amount}, value # None
      PROVE  normalize(value, MONEY_DECIMAL_SCALE) = <<UnitsOf(value[1], MONEY_DECIMAL_SCALE)>>
  <2>1. IsDecimal(value[1], MONEY_DECIMAL_SCALE) /\ IsFixedDecimal(value[1], MONEY_DECIMAL_SCALE)
    BY <1>2, ActivityAssumption DEF IsMappable
  <2> QED
    BY <1>2, <2>1, UnitsAreParsed DEF normalize
<1> QED
  BY <1>1, <1>2

\* The ledger's kinds of event are the broker's.
LEMMA KindsOfEvent ==
  ASSUME NEW a \in Happenings
  PROVE  /\ a.type = "FILL" => /\ IsTrade(a)
                               /\ eventType(a) = IF a.side = <<"buy">> THEN "buy" ELSE "sell"
         /\ a.type = "SPLIT" => ~IsTrade(a) /\ eventType(a) = "split"
         /\ ~Moves(a) => ~IsTrade(a) /\ eventType(a) \notin {"buy", "sell", "split"}
<1>1. CASE a.type = "FILL"
  <2>1. a.side = <<"buy">> \/ a.side = <<"sell">>
    BY <1>1, ActivityValues
  <2>2. <<"buy">> # <<>> /\ <<"sell">> # <<>> /\ <<"buy">>[1] = "buy" /\ <<"sell">>[1] = "sell" /\ "buy" # "sell"
    OBVIOUS
  <2>3. eventType(a) = a.side[1]
    BY <1>1, <2>1, <2>2 DEF eventType, None
  <2> QED
    BY <1>1, <2>1, <2>2, <2>3 DEF IsTrade, Moves
<1>2. CASE a.type = "SPLIT"
  BY <1>2 DEF eventType, IsTrade, Moves
<1>3. CASE ~Moves(a)
  <2>1. a.type # "FILL" /\ a.type # "SPLIT"
    BY <1>3 DEF Moves
  <2>2. eventType(a) \in {"dividend", "fee", "deposit", "withdrawal", "unknown"}
    BY <2>1 DEF eventType
  <2> QED
    BY <1>3, <2>1, <2>2 DEF IsTrade
<1> QED
  BY <1>1, <1>2, <1>3 DEF Moves

\* What the ledger makes of an activity is what the broker made of it.
LEMMA PostedAlike ==
  ASSUME NEW b \in Books, NEW a \in Happenings, IsMappable(a)
  PROVE  Posted(b, mapBrokerActivity(a)) = BrokerPosts(b, a)
<1> DEFINE event == mapBrokerActivity(a)
           s == a.symbol[1]
           q == UnitsOf(a.quantity[1], QUANTITY_DECIMAL_SCALE)
           p == UnitsOf(a.price[1], MONEY_DECIMAL_SCALE)
           w == UnitsOf(a.amount[1], MONEY_DECIMAL_SCALE)
           worth == Nearest(q * p, TenQuantity)
<1>0. b.cash \in Int /\ b.positions \in [Symbols -> Int] /\ PostsCash(a) \in Int
  BY PostsAreInts DEF Books
<1>1. /\ event.eventType = eventType(a) /\ event.symbol = a.symbol
      /\ event.quantity = normalize(a.quantity, QUANTITY_DECIMAL_SCALE)
      /\ event.amount = IF IsTrade(a) /\ normalize(a.amount, MONEY_DECIMAL_SCALE) = None
                        THEN <<fillAmount(normalize(a.quantity, QUANTITY_DECIMAL_SCALE)[1],
                                          normalize(a.price, MONEY_DECIMAL_SCALE)[1], eventType(a))>>
                        ELSE normalize(a.amount, MONEY_DECIMAL_SCALE)
  BY DEF mapBrokerActivity
<1>2. ASSUME NEW v PROVE <<v>> # None /\ <<v>>[1] = v
  BY DEF None
<1>3. /\ a.amount # None => normalize(a.amount, MONEY_DECIMAL_SCALE) = <<w>>
      /\ a.amount = None => normalize(a.amount, MONEY_DECIMAL_SCALE) = None
      /\ Moves(a) => normalize(a.quantity, QUANTITY_DECIMAL_SCALE) = <<q>>
      /\ a.type = "FILL" => normalize(a.price, MONEY_DECIMAL_SCALE) = <<p>>
  BY ValuesAreParsed, ActivityValues DEF normalize
<1>4. /\ Moves(a) => s \in Symbols /\ a.symbol # None /\ q \in Int
      /\ a.type = "FILL" => Moves(a) /\ p \in Int
      /\ a.symbol # None => s \in Symbols
  <2>1. a.symbol # None => s \in Symbols
    <3>1. SUFFICES ASSUME a.symbol # None PROVE s \in Symbols
      OBVIOUS
    <3>2. PICK r \in Symbols : a.symbol = <<r>>
      BY <3>1, ActivityAssumption
    <3> QED
      BY <3>2
  <2> QED
    BY <2>1, ActivityValues DEF Moves
<1>5. a.type = "FILL" => Notional(q, p) = worth
  BY <1>4, ProductIsNearest, ScaleAssumption DEF Notional
<1> DEFINE cash == IF event.amount = None THEN 0 ELSE event.amount[1]
<1>6. cash = PostsCash(a)
  <2>1. PostsCash(a) = IF a.amount # None THEN w ELSE IF a.type # "FILL" THEN 0
                       ELSE IF a.side = <<"buy">> THEN -worth ELSE worth
    BY DEF PostsCash
  <2> HIDE DEF event, q, p, w, worth
  <2>2. CASE a.amount # None
    BY <1>1, <1>2, <1>3, <2>1, <2>2
  <2>3. CASE a.amount = None /\ a.type = "FILL"
    <3>1. event.amount = <<fillAmount(q, p, eventType(a))>>
      BY <1>1, <1>2, <1>3, <1>4, <2>3, KindsOfEvent
    <3>2. fillAmount(q, p, eventType(a)) = IF a.side = <<"buy">> THEN -worth ELSE worth
      BY <1>5, <2>3, KindsOfEvent DEF fillAmount
    <3> QED
      BY <1>2, <2>1, <2>3, <3>1, <3>2
  <2>4. CASE a.amount = None /\ a.type # "FILL"
    <3>1. ~IsTrade(a)
      BY <2>4, KindsOfEvent DEF Moves
    <3> QED
      BY <1>1, <1>3, <2>1, <2>4, <3>1
  <2> QED
    BY <2>2, <2>3, <2>4
<1> DEFINE quantity == IF event.quantity = None THEN 0 ELSE event.quantity[1]
           held == IF event.symbol = None THEN 0 ELSE b.positions[event.symbol[1]]
           after == CASE event.eventType = "buy" -> held + quantity
                      [] event.eventType = "sell" -> held - quantity
                      [] event.eventType = "split" ->
                           multiplyFixedDecimalValues(held, quantity, QUANTITY_DECIMAL_SCALE,
                             QUANTITY_DECIMAL_SCALE, QUANTITY_DECIMAL_SCALE)
                      [] OTHER -> held
           moved == IF event.symbol = None THEN b.positions ELSE [b.positions EXCEPT ![event.symbol[1]] = after]
<1>7. Posted(b, event) = [cash |-> b.cash + cash, positions |-> moved]
  <2> HIDE DEF event
  <2> QED
    BY DEF Posted
<1>8. moved = BooksAfter(b, a).positions
  <2>1. CASE Moves(a)
    <3>1. quantity = q /\ held = b.positions[s] /\ held \in Int /\ event.symbol # None
      <4> HIDE DEF event, q
      <4> QED
        BY <1>0, <1>1, <1>2, <1>3, <1>4, <2>1
    <3> HIDE DEF quantity, held, event, q
    <3>2. after = PostsHeld(a, b.positions[s])
      <4>1. CASE a.type = "FILL"
        <5>1. "buy" # "sell" /\ a.type # "SPLIT"
          BY <4>1
        <5> QED
          BY <1>1, <3>1, <4>1, <5>1, KindsOfEvent DEF PostsHeld, q
      <4>2. CASE a.type = "SPLIT"
        <5>1. after = multiplyFixedDecimalValues(held, quantity, QUANTITY_DECIMAL_SCALE,
                        QUANTITY_DECIMAL_SCALE, QUANTITY_DECIMAL_SCALE)
          BY <1>1, <4>2, KindsOfEvent
        <5>2. after = Nearest(held * q, TenQuantity)
          BY <1>4, <2>1, <3>1, <5>1, ProductIsNearest, ScaleAssumption
        <5> QED
          BY <3>1, <4>2, <5>2 DEF PostsHeld, q
      <4> QED
        BY <2>1, <4>1, <4>2 DEF Moves
    <3> HIDE DEF after
    <3>3. moved = [b.positions EXCEPT ![s] = PostsHeld(a, b.positions[s])]
      BY <1>1, <3>1, <3>2
    <3> QED
      BY <2>1, <3>3 DEF BooksAfter
  <2>2. CASE ~Moves(a)
    <3>1. after = held
      <4> HIDE DEF event, held, quantity
      <4> QED
        BY <1>1, <2>2, KindsOfEvent
    <3>2. event.symbol # None => held = b.positions[s] /\ s \in Symbols
      <4> HIDE DEF event
      <4> QED
        BY <1>1, <1>4
    <3> HIDE DEF event, held, after
    <3>3. moved = b.positions
      BY <1>0, <1>1, <3>1, <3>2
    <3> QED
      BY <2>2, <3>3 DEF BooksAfter
  <2> QED
    BY <2>1, <2>2
<1>9. Posted(b, event) = BooksAfter(b, a)
  <2> HIDE DEF event, cash, moved
  <2> QED
    BY <1>6, <1>7, <1>8 DEF BooksAfter
<1> QED
  BY <1>9, BrokerPostsIs

\* Of two activities that do not meet, the order does not matter.
LEMMA OrderOfTwo ==
  ASSUME NEW b \in Books, NEW a \in Happenings, NEW c \in Happenings, ~Meet(a, c)
  PROVE  BrokerPosts(BrokerPosts(b, a), c) = BrokerPosts(BrokerPosts(b, c), a)
<1> DEFINE s == a.symbol[1]
           r == c.symbol[1]
           f == b.positions
<1>1. /\ b.cash \in Int /\ f \in [Symbols -> Int] /\ PostsCash(a) \in Int /\ PostsCash(c) \in Int
      /\ Moves(a) => s \in Symbols /\ a.symbol = <<s>> /\ \A held \in Int : PostsHeld(a, held) \in Int
      /\ Moves(c) => r \in Symbols /\ c.symbol = <<r>> /\ \A held \in Int : PostsHeld(c, held) \in Int
  BY PostsAreInts, ActivityValues DEF Books
<1>2. /\ BrokerPosts(b, a) \in Books /\ BrokerPosts(b, c) \in Books
      /\ BrokerPosts(b, a) = BooksAfter(b, a) /\ BrokerPosts(b, c) = BooksAfter(b, c)
  BY BrokerPostsBooks, BrokerPostsIs
<1>3. /\ BrokerPosts(BrokerPosts(b, a), c) = BooksAfter(BooksAfter(b, a), c)
      /\ BrokerPosts(BrokerPosts(b, c), a) = BooksAfter(BooksAfter(b, c), a)
  BY <1>2, BrokerPostsIs
<1> DEFINE fa == IF Moves(a) THEN [f EXCEPT ![s] = PostsHeld(a, f[s])] ELSE f
           fc == IF Moves(c) THEN [f EXCEPT ![r] = PostsHeld(c, f[r])] ELSE f
           fac == IF Moves(c) THEN [fa EXCEPT ![r] = PostsHeld(c, fa[r])] ELSE fa
           fca == IF Moves(a) THEN [fc EXCEPT ![s] = PostsHeld(a, fc[s])] ELSE fc
<1>4. /\ BooksAfter(BooksAfter(b, a), c) = [cash |-> b.cash + PostsCash(a) + PostsCash(c), positions |-> fac]
      /\ BooksAfter(BooksAfter(b, c), a) = [cash |-> b.cash + PostsCash(c) + PostsCash(a), positions |-> fca]
  BY DEF BooksAfter
<1>5. b.cash + PostsCash(a) + PostsCash(c) = b.cash + PostsCash(c) + PostsCash(a)
  BY <1>1
<1>6. fac = fca
  <2>1. CASE ~Moves(a) \/ ~Moves(c)
    BY <2>1
  <2>2. CASE Moves(a) /\ Moves(c) /\ s # r
    <3> HIDE DEF s, r, f
    <3>1. fa \in [Symbols -> Int] /\ fc \in [Symbols -> Int] /\ fa[r] = f[r] /\ fc[s] = f[s]
      BY <1>1, <2>2
    <3> QED
      BY <1>1, <2>2, <3>1
  <2>3. CASE Moves(a) /\ Moves(c) /\ s = r
    <3>1. a.symbol = c.symbol
      BY <1>1, <2>3
    <3>2. a.type # "SPLIT" /\ c.type # "SPLIT"
      BY <2>3, <3>1 DEF Meet, Moves
    <3>3. f[s] \in Int
      BY <1>1, <2>3
    <3> DEFINE qa == UnitsOf(a.quantity[1], QUANTITY_DECIMAL_SCALE)
               qc == UnitsOf(c.quantity[1], QUANTITY_DECIMAL_SCALE)
    <3>4. qa \in Int /\ qc \in Int
      BY <2>3, ActivityValues
    <3>5. /\ \A held \in Int : PostsHeld(a, held) = IF a.side = <<"buy">> THEN held + qa ELSE held - qa
          /\ \A held \in Int : PostsHeld(c, held) = IF c.side = <<"buy">> THEN held + qc ELSE held - qc
      BY <3>2 DEF PostsHeld
    <3> HIDE DEF qa, qc
    <3>6. PostsHeld(c, PostsHeld(a, f[s])) = PostsHeld(a, PostsHeld(c, f[s]))
      <4>1. PostsHeld(a, f[s]) \in Int /\ PostsHeld(c, f[s]) \in Int
        BY <1>1, <2>3, <3>3
      <4> QED
        BY <3>3, <3>4, <3>5, <4>1
    <3>7. fa[s] = PostsHeld(a, f[s]) /\ fc[s] = PostsHeld(c, f[s])
      <4> HIDE DEF s, r, f
      <4> QED
        BY <1>1, <2>3
    <3>8. /\ fac = [f EXCEPT ![s] = PostsHeld(c, fa[s])]
          /\ fca = [f EXCEPT ![s] = PostsHeld(a, fc[s])]
      <4> HIDE DEF s, r, f
      <4> QED
        BY <1>1, <2>3
    <3> HIDE DEF fac, fca, fa, fc, s, f
    <3> QED
      BY <3>6, <3>7, <3>8
  <2> QED
    BY <2>1, <2>2, <2>3
<1> HIDE DEF fac, fca
<1> QED
  BY <1>3, <1>4, <1>5, <1>6

\* The books after some of the activities, in the order of the log.
BooksOfSome(f, some, log) ==
  /\ f \in [0..Len(log) -> Books] /\ f[0] = EmptyAccount
  /\ \A n \in 1..Len(log) : f[n] = IF n \in some THEN BrokerPosts(f[n - 1], log[n]) ELSE f[n - 1]

\* An activity that is not among these, and dated no earlier than they are.
IsLater(x, some, log) == x \notin some /\ \A y \in some : log[y].time <= log[x].time

\* The same with one more, x: the books at the end are as if it had been the last.
IsExtended(h, f, x, some, log) ==
  BooksOfSome(h, some \union {x}, log) /\ h[Len(log)] = BrokerPosts(f[Len(log)], log[x])

\* One more activity, dated no earlier than these, goes to its place in the log as if it
\* were the last: whatever is after it there does not meet it.
LEMMA OneMoreOfSome ==
  ASSUME NEW log \in Seq(Happenings), DatedInOrder(log), NEW some \in SUBSET (1..Len(log)),
         NEW x \in 1..Len(log), IsLater(x, some, log),
         NEW f, BooksOfSome(f, some, log)
  PROVE  \E h : IsExtended(h, f, x, some, log)
<1> DEFINE bound == Len(log)
           g == [n \in 0..bound |-> IF n < x THEN f[n] ELSE BrokerPosts(f[n], log[x])]
<1>1. bound \in Nat /\ x \in 1..bound /\ \A n \in 1..bound : log[n] \in Happenings
  OBVIOUS
<1>2. \A n \in 0..bound : f[n] \in Books
  BY DEF BooksOfSome
<1>3. \A n \in 1..bound : f[n] = IF n \in some THEN BrokerPosts(f[n - 1], log[n]) ELSE f[n - 1]
  BY DEF BooksOfSome
<1>4. \A n \in 0..bound : BrokerPosts(f[n], log[x]) \in Books
  BY <1>1, <1>2, BrokerPostsBooks
<1>5. g \in [0..bound -> Books]
  BY <1>2, <1>4
<1>6. g[0] = EmptyAccount
  <2>1. 0 \in 0..bound /\ 0 < x
    BY <1>1
  <2> QED
    BY <2>1 DEF BooksOfSome
<1>7. ASSUME NEW n \in 1..bound
      PROVE  g[n] = IF n \in some \union {x} THEN BrokerPosts(g[n - 1], log[n]) ELSE g[n - 1]
  <2>1. n \in 0..bound /\ n - 1 \in 0..bound
    BY <1>1
  <2>2. /\ g[n] = IF n < x THEN f[n] ELSE BrokerPosts(f[n], log[x])
        /\ g[n - 1] = IF n - 1 < x THEN f[n - 1] ELSE BrokerPosts(f[n - 1], log[x])
    BY <2>1
  <2> HIDE DEF g, bound
  <2>3. CASE n < x
    <3>1. n # x /\ n - 1 < x
      BY <1>1, <2>1, <2>3
    <3> QED
      BY <1>3, <2>2, <2>3, <3>1
  <2>4. CASE n = x
    <3>1. ~(n < x) /\ n - 1 < x /\ n \notin some
      BY <1>1, <2>1, <2>4 DEF IsLater
    <3>2. f[n] = f[n - 1]
      BY <1>3, <3>1
    <3> QED
      BY <2>2, <2>4, <3>1, <3>2
  <2>5. CASE n > x
    <3>1. ~(n < x) /\ ~(n - 1 < x) /\ n # x
      BY <1>1, <2>1, <2>5
    <3>2. CASE n \notin some
      BY <1>3, <2>2, <3>1, <3>2
    <3>3. CASE n \in some
      <4>1. f[n] = BrokerPosts(f[n - 1], log[n])
        BY <1>3, <3>3
      <4>2. ~Meet(log[n], log[x])
        <5>1. log[n].time <= log[x].time
          BY <3>3 DEF IsLater
        <5>2. log[n].time \in Nat /\ log[x].time \in Nat
          BY <1>1, ActivityAssumption
        <5>3. x \in DOMAIN log /\ n \in DOMAIN log
          BY <1>1 DEF bound
        <5>4. ~Meet(log[x], log[n])
          BY <2>5, <5>1, <5>2, <5>3 DEF DatedInOrder
        <5> QED
          BY <5>4 DEF Meet
      <4>3. f[n - 1] \in Books /\ log[n] \in Happenings /\ log[x] \in Happenings
        BY <1>1, <1>2, <2>1
      <4>4. BrokerPosts(BrokerPosts(f[n - 1], log[n]), log[x]) = BrokerPosts(BrokerPosts(f[n - 1], log[x]), log[n])
        BY <4>2, <4>3, OrderOfTwo
      <4> QED
        BY <2>2, <3>1, <3>3, <4>1, <4>4
    <3> QED
      BY <3>2, <3>3
  <2> QED
    BY <1>1, <2>1, <2>3, <2>4, <2>5
<1>8. g[bound] = BrokerPosts(f[bound], log[x])
  <2>1. bound \in 0..bound /\ ~(bound < x)
    BY <1>1
  <2> QED
    BY <2>1
<1>9. BooksOfSome(g, some \union {x}, log)
  <2> HIDE DEF g
  <2> QED
    BY <1>5, <1>6, <1>7 DEF BooksOfSome
<1>10. IsExtended(g, f, x, some, log)
  <2> HIDE DEF g
  <2> QED
    BY <1>8, <1>9 DEF IsExtended
<1> HIDE DEF g
<1> QED
  BY <1>10

\* The replay is a run of the ledger's events from empty books.
IsRun(f, bound, events) ==
  /\ f[0] = EmptyAccount
  /\ \A n \in 1..bound : f[n] = Posted(f[n - 1], events[n])
  /\ replayBrokerPortfolio(events, Symbols) = f[bound]

LEMMA ReplayRuns ==
  ASSUME NEW bound \in Nat, NEW events, Len(events) = bound
  PROVE  \E f : IsRun(f, bound, events)
<1> DEFINE Rule(f, m) == f = [n \in 0..m |-> IF n = 0 THEN EmptyAccount ELSE Posted(f[n - 1], events[n])]
           known == {m \in 0..bound : \E f : Rule(f, m)}
<1>1. bound \in known
  <2>1. 0 \in known
    <3> DEFINE f == [n \in 0..0 |-> EmptyAccount]
    <3>1. \A n \in 0..0 : n = 0
      OBVIOUS
    <3>2. Rule(f, 0)
      BY <3>1, Zenon
    <3>3. 0 \in 0..bound
      OBVIOUS
    <3> HIDE DEF Rule, f
    <3> QED
      BY <3>2, <3>3
  <2>2. ASSUME NEW m \in 0..bound, m \in known, m < bound PROVE m + 1 \in known
    <3>1. PICK f : Rule(f, m)
      BY <2>2
    <3> DEFINE g == [n \in 0..(m + 1) |-> IF n = m + 1 THEN Posted(f[m], events[m + 1]) ELSE f[n]]
               step(h, n) == IF n = 0 THEN EmptyAccount ELSE Posted(h[n - 1], events[n])
    <3>2. ASSUME NEW n \in 0..(m + 1) PROVE g[n] = step(g, n)
      <4>1. CASE n = m + 1
        <5>1. n # 0 /\ n - 1 = m /\ m \in 0..(m + 1) /\ m # m + 1
          BY <4>1
        <5>2. g[m] = f[m] /\ g[n] = Posted(f[m], events[n])
          BY <4>1, <5>1
        <5> HIDE DEF g
        <5> QED
          BY <5>1, <5>2
      <4>2. CASE n # m + 1
        <5>1. n \in 0..m /\ (n # 0 => n - 1 \in 0..(m + 1) /\ n - 1 # m + 1)
          BY <4>2
        <5>2. g[n] = f[n] /\ (n # 0 => g[n - 1] = f[n - 1])
          BY <4>2, <5>1
        <5>3. f[n] = step(f, n)
          BY <3>1, <5>1
        <5> HIDE DEF g
        <5> QED
          BY <5>2, <5>3
      <4> QED
        BY <4>1, <4>2
    <3>3. g = [n \in 0..(m + 1) |-> g[n]]
      OBVIOUS
    <3>4. g = [n \in 0..(m + 1) |-> step(g, n)]
      <4> HIDE DEF g, step
      <4> QED
        BY <3>2, <3>3
    <3>5. Rule(g, m + 1)
      <4> HIDE DEF g
      <4> QED
        BY <3>4
    <3>6. m + 1 \in 0..bound
      BY <2>2
    <3> HIDE DEF Rule, g
    <3> QED
      BY <3>5, <3>6
  <2> HIDE DEF known
  <2>3. 0..bound \subseteq known
    BY <2>1, <2>2, UpTo
  <2> QED
    BY <2>3
<1> DEFINE books == CHOOSE f : Rule(f, bound)
<1>2. Rule(books, bound)
  <2>1. \E f : Rule(f, bound)
    BY <1>1
  <2> HIDE DEF Rule
  <2> QED
    BY <2>1
<1>3. replayBrokerPortfolio(events, Symbols) = books[bound]
  BY DEF replayBrokerPortfolio, EmptyAccount
<1> HIDE DEF books
<1>4. books[0] = EmptyAccount /\ \A n \in 1..bound : books[n] = Posted(books[n - 1], events[n])
  <2>1. 0 \in 0..bound /\ \A n \in 1..bound : n \in 0..bound /\ n # 0
    OBVIOUS
  <2> QED
    BY <1>2, <2>1
<1> QED
  BY <1>3, <1>4 DEF IsRun

\* Whatever order the ledger is read in by the times in it, its replay is the account.
LEMMA ReplayIsAccount ==
  ASSUME NEW log \in Seq(Happenings), DatedInOrder(log), \A n \in 1..Len(log) : IsMappable(log[n]),
         NEW books, IsAccountOf(books, log), NEW size \in Nat, NEW order \in [1..size -> 1..Len(log)],
         \A i, j \in 1..size : i < j => order[i] # order[j] /\ log[order[i]].time <= log[order[j]].time,
         \A x \in 1..Len(log) : \E i \in 1..size : order[i] = x
  PROVE  replayBrokerPortfolio([i \in 1..size |-> mapBrokerActivity(log[order[i]])], Symbols) = books[Len(log) + 1]
<1> DEFINE bound == Len(log)
           events == [i \in 1..size |-> mapBrokerActivity(log[order[i]])]
           among(m) == {order[i] : i \in 1..m}
<1>1. bound \in Nat /\ \A n \in 1..bound : log[n] \in Happenings /\ IsMappable(log[n])
  OBVIOUS
<1>2. Len(events) = size
  <2>1. events = [i \in 1..size |-> events[i]]
    OBVIOUS
  <2> HIDE DEF events
  <2>2. events \in [1..size -> {events[i] : i \in 1..size}] /\ DOMAIN events = 1..size
    BY <2>1
  <2>3. events \in Seq({events[i] : i \in 1..size})
    BY <2>2, SeqDef
  <2> QED
    BY <2>2, <2>3, LenProperties
<1>3. PICK f : IsRun(f, size, events)
  <2> HIDE DEF events
  <2> QED
    BY <1>2, ReplayRuns
<1> DEFINE done == {m \in 0..size : \E g : BooksOfSome(g, among(m), log) /\ g[bound] = f[m]}
<1>4. 0 \in done
  <2> DEFINE g == [n \in 0..bound |-> EmptyAccount]
  <2>1. EmptyAccount \in Books
    BY DEF EmptyAccount, Books
  <2>2. among(0) = {}
    OBVIOUS
  <2>3. \A n \in 1..bound : n \in 0..bound /\ n - 1 \in 0..bound
    BY <1>1
  <2>4. 0 \in 0..bound /\ bound \in 0..bound /\ 0 \in 0..size
    BY <1>1
  <2>5. BooksOfSome(g, among(0), log)
    <3> HIDE DEF among
    <3> QED
      BY <2>1, <2>2, <2>3, <2>4 DEF BooksOfSome
  <2>6. g[bound] = f[0]
    BY <1>3, <2>4 DEF IsRun
  <2> HIDE DEF g, among
  <2> QED
    BY <2>4, <2>5, <2>6
<1>5. ASSUME NEW m \in 0..size, m \in done, m < size PROVE m + 1 \in done
  <2>1. PICK g : BooksOfSome(g, among(m), log) /\ g[bound] = f[m]
    BY <1>5
  <2>2. m + 1 \in 1..size /\ m + 1 \in 0..size /\ (m + 1) - 1 = m /\ \A i \in 1..m : i \in 1..size /\ i < m + 1
    BY <1>5
  <2> DEFINE x == order[m + 1]
  <2>3. x \in 1..bound /\ x \notin among(m) /\ \A y \in among(m) : y \in 1..bound /\ log[y].time <= log[x].time
    BY <2>2
  <2>4. among(m + 1) = among(m) \union {x}
    <3>1. 1..(m + 1) = 1..m \union {m + 1}
      BY <2>2
    <3> QED
      BY <3>1
  <2> HIDE DEF among
  <2>5. PICK h : BooksOfSome(h, among(m) \union {x}, log) /\ h[bound] = BrokerPosts(g[bound], log[x])
    <3> DEFINE some == among(m)
    <3>1. /\ some \in SUBSET (1..Len(log)) /\ x \in 1..Len(log)
          /\ IsLater(x, some, log) /\ BooksOfSome(g, some, log)
      BY <2>1, <2>3 DEF IsLater
    <3> HIDE DEF x, some
    <3>2. \E h : IsExtended(h, g, x, some, log)
      BY <3>1, OneMoreOfSome
    <3> QED
      BY <3>2 DEF some, IsExtended
  <2>6. f[m + 1] = Posted(f[m], mapBrokerActivity(log[x]))
    BY <1>3, <2>2 DEF IsRun
  <2>7. g[bound] \in Books
    <3>1. bound \in 0..bound
      BY <1>1
    <3> QED
      BY <2>1, <3>1 DEF BooksOfSome
  <2>8. f[m + 1] = BrokerPosts(g[bound], log[x])
    <3> HIDE DEF x
    <3> QED
      BY <1>1, <2>1, <2>3, <2>6, <2>7, PostedAlike
  <2> QED
    BY <2>2, <2>4, <2>5, <2>8
<1>6. size \in done
  <2> HIDE DEF done
  <2>1. 0..size \subseteq done
    BY <1>4, <1>5, UpTo
  <2> QED
    BY <2>1
<1>7. PICK g : BooksOfSome(g, among(size), log) /\ g[bound] = f[size]
  BY <1>6
<1>8. among(size) = 1..bound
  OBVIOUS
<1> DEFINE same == {n \in 0..bound : g[n] = books[n + 1]}
<1>9. 0..bound \subseteq same
  <2>1. 0 \in same
    <3>1. 0 \in 0..bound
      BY <1>1
    <3> QED
      BY <1>7, <3>1 DEF BooksOfSome, IsAccountOf
  <2>2. ASSUME NEW n \in 0..bound, n \in same, n < bound PROVE n + 1 \in same
    <3>1. n + 1 \in 1..bound /\ n + 1 \in 0..bound /\ (n + 1) - 1 = n
      BY <1>1, <2>2
    <3>2. g[n + 1] = BrokerPosts(g[n], log[n + 1])
      <4> HIDE DEF among, bound
      <4> QED
        BY <1>7, <1>8, <3>1 DEF BooksOfSome, bound
    <3>3. books[n + 1 + 1] = BrokerPosts(books[n + 1], log[n + 1])
      BY <3>1 DEF IsAccountOf
    <3> QED
      BY <2>2, <3>1, <3>2, <3>3
  <2> HIDE DEF same, bound
  <2> QED
    BY <1>1, <2>1, <2>2, UpTo
<1>10. g[bound] = books[bound + 1]
  <2>1. bound \in 0..bound
    BY <1>1
  <2> QED
    BY <1>9, <2>1
<1> QED
  BY <1>3, <1>7, <1>10 DEF IsRun

\* A reading of the ledger has each of its events, once.
LEMMA ReadingIsOfAll ==
  ASSUME NEW sources \in Seq(Nat), IsInjective(sources), NEW order \in ByTime(sources)
  PROVE  /\ order \in [1..Len(sources) -> Range(sources)] /\ Len(sources) \in Nat
         /\ \A i, j \in 1..Len(sources) :
              i < j => order[i] # order[j] /\ activities[order[i]].time <= activities[order[j]].time
         /\ \A x \in Range(sources) : \E i \in 1..Len(sources) : order[i] = x
<1> DEFINE D == 1..Len(sources)
           R == Range(sources)
<1>1. Len(sources) \in Nat /\ DOMAIN sources = D /\ sources \in [D -> R]
  BY DEF Range
<1>2. /\ order \in [D -> R]
      /\ \A i, j \in D : i < j => order[i] # order[j] /\ activities[order[i]].time <= activities[order[j]].time
  BY <1>1 DEF ByTime
<1>3. IsFiniteSet(D)
  BY <1>1, FS_Interval
<1>4. sources \in Bijection(D, R)
  <2>1. \A x \in R : \E n \in D : sources[n] = x
    BY <1>1 DEF Range
  <2>2. \A m, n \in D : sources[m] = sources[n] => m = n
    BY <1>1 DEF IsInjective
  <2> QED
    BY <1>1, <2>1, <2>2 DEF Bijection, Injection, Surjection, IsInjective
<1>5. IsFiniteSet(R) /\ Cardinality(D) = Cardinality(R)
  <2>1. ExistsBijection(D, R)
    BY <1>4 DEF ExistsBijection
  <2> QED
    BY <1>3, <2>1, FS_Bijection
<1>6. order \in Injection(D, R)
  <2>1. \A i, j \in D : order[i] = order[j] => i = j
    <3> SUFFICES ASSUME NEW i \in D, NEW j \in D, order[i] = order[j], i # j PROVE FALSE
      OBVIOUS
    <3>1. i < j \/ j < i
      BY <1>1
    <3> QED
      BY <1>2, <3>1
  <2> QED
    BY <1>2, <2>1 DEF Injection, IsInjective
<1>7. order \in Surjection(D, R)
  BY <1>5, <1>6, FS_Injection
<1> QED
  BY <1>1, <1>2, <1>7 DEF Surjection

-----------------------------------------------------------------------------
(* Previews and confirmations.                                                  *)

Token ==
  [draft : Drafts, asset : Assets, price : Int, account : [buyingPower : Int], position : Int,
   fresh : BOOLEAN]

\* A token that may be confirmed.
Covered(t) ==
  /\ t.draft.side = "buy" =>
       2 * t.draft.quantity * t.price <= (2 * t.account.buyingPower + 1) * 10 ^ QUANTITY_DECIMAL_SCALE
  /\ t.draft.side = "sell" => t.draft.quantity <= t.position
  /\ t.draft.quantity % 10 ^ QUANTITY_DECIMAL_SCALE # 0 => t.asset.fractionable /\ t.draft.type = "market"

\* The books of the account are integers of the ledger's scales, and what a token saw covered its order
\* from the preview to the order that was written with it.
OrderInv ==
  /\ account \in Seq(Books) /\ account # <<>>
  /\ activities \in Seq(Happenings)
  /\ scenario.events \in Seq(Happenings)
  /\ tokens = <<>> \/ \E t \in Token : tokens = <<t>> /\ Covered(t)
  /\ api = [k \in Requests |-> api[k]]
  /\ \A k \in Requests : api[k] # None => \E t \in Token : api[k] = <<t>> /\ Covered(t)
  /\ orders \in Seq(Token) /\ \A i \in DOMAIN orders : Covered(orders[i])

\* A notional that does not exceed the buying power exceeds it by at most half a unit
\* before it is rounded.
LEMMA NotionalIsNear ==
  ASSUME NEW quantity \in Int, NEW price \in Int, NEW power \in Int,
         ~(Notional(quantity, price) > power)
  PROVE  2 * quantity * price <= (2 * power + 1) * 10 ^ QUANTITY_DECIMAL_SCALE
<1> DEFINE ten == 10 ^ QUANTITY_DECIMAL_SCALE
           product == quantity * price
<1>1. product \in Int /\ ten \in Int /\ ten > 0
  BY ScaleAssumption, PowerAssumption
<1>2. CASE QUANTITY_DECIMAL_SCALE = 0
  <2>1. Notional(quantity, price) = product * 10 ^ (MONEY_DECIMAL_SCALE - 0 - MONEY_DECIMAL_SCALE)
    BY <1>2, ScaleAssumption DEF Notional, multiplyFixedDecimalValues
  <2>2. MONEY_DECIMAL_SCALE - 0 - MONEY_DECIMAL_SCALE = 0 /\ 10 ^ 0 = 1
    BY ScaleAssumption
  <2>3. Notional(quantity, price) = product
    <3>1. Notional(quantity, price) = product * 1
      BY <2>1, <2>2
    <3> HIDE DEF product
    <3> QED
      BY <1>1, <3>1
  <2> QED
    BY <1>1, <1>2, <2>2, <2>3
<1>3. CASE QUANTITY_DECIMAL_SCALE > 0
  <2>1. PICK half \in Nat : half > 0 /\ ten = 2 * half
    <3>1. ten % 2 = 0
      BY <1>3, PowerAssumption
    <3>2. ten = 2 * (ten \div 2) /\ ten \div 2 \in Nat /\ ten \div 2 > 0
      <4> HIDE DEF ten
      <4> QED
        BY <1>1, <3>1
    <3> QED
      BY <3>2
  <2>2. Notional(quantity, price) = RoundedQuotient(product, ten)
    <3>1. QUANTITY_DECIMAL_SCALE + MONEY_DECIMAL_SCALE - MONEY_DECIMAL_SCALE = QUANTITY_DECIMAL_SCALE
      BY ScaleAssumption
    <3>2. ~(QUANTITY_DECIMAL_SCALE + MONEY_DECIMAL_SCALE <= MONEY_DECIMAL_SCALE)
      BY <1>3, ScaleAssumption
    <3> QED
      BY <3>1, <3>2 DEF Notional, multiplyFixedDecimalValues
  <2> DEFINE r == RoundedQuotient(product, 2 * half)
  <2> HIDE DEF ten, product
  <2>3. r \in Int /\ product - r * (2 * half) <= half
    BY <1>1, <2>1, RoundingIsNearest
  <2>4. r <= power
    BY <2>1, <2>2, <2>3
  <2>5. r * (2 * half) <= power * (2 * half)
    <3> HIDE DEF r
    <3> QED
      BY <2>1, <2>3, <2>4, SMTT(30)
  <2>6. 2 * product <= (2 * power + 1) * (2 * half)
    <3> HIDE DEF r
    <3> QED
      BY <1>1, <2>1, <2>3, <2>5, SMTT(30)
  <2>7. 2 * product = 2 * quantity * price
    BY DEF product
  <2> QED
    BY <2>1, <2>6, <2>7 DEF ten
<1> QED
  BY <1>2, <1>3, ScaleAssumption

LEMMA NotMore ==
  ASSUME NEW m \in Int, NEW n \in Int, ~(m > n)
  PROVE  m <= n
OBVIOUS

\* A preview that refuses nothing covers its order.
LEMMA PreviewCovers ==
  ASSUME NEW d \in Drafts, NEW asset \in Assets, NEW quote \in Quotes,
         NEW power \in Int, NEW position \in Int,
         PreviewError(d, asset, quote, [buyingPower |-> power], position) = ""
  PROVE  LET t == [draft |-> d, asset |-> asset, price |-> ExecutionReference(d, quote),
                   account |-> [buyingPower |-> power], position |-> position, fresh |-> TRUE]
         IN  t \in Token /\ Covered(t)
<1> DEFINE price == ExecutionReference(d, quote)
           funds == [buyingPower |-> power]
           t == [draft |-> d, asset |-> asset, price |-> price, account |-> funds,
                 position |-> position, fresh |-> TRUE]
<1>1. d.quantity \in Int /\ price \in Int
  BY DraftAssumption DEF ExecutionReference, None
<1>2. /\ IsFractional(d.quantity) => asset.fractionable /\ d.type = "market"
      /\ ~Oversells(d, position)
      /\ ~Overspends(d, quote, funds)
  BY DEF PreviewError
<1>3. d.side = "buy" => 2 * d.quantity * price <= (2 * power + 1) * 10 ^ QUANTITY_DECIMAL_SCALE
  <2> HAVE d.side = "buy"
  <2>1. ~(Notional(d.quantity, price) > power)
    BY <1>2 DEF Overspends
  <2> HIDE DEF price
  <2> QED
    BY <1>1, <2>1, NotionalIsNear
<1>4. d.side = "sell" => d.quantity <= position
  <2> HAVE d.side = "sell"
  <2>1. ~(d.quantity > position)
    BY <1>2 DEF Oversells
  <2>2. d.quantity \in Int
    BY <1>1
  <2> HIDE DEF price, t
  <2> QED
    BY <2>1, <2>2, NotMore
<1>5. d.quantity % 10 ^ QUANTITY_DECIMAL_SCALE # 0 => asset.fractionable /\ d.type = "market"
  BY <1>2 DEF IsFractional, QuantityFactor
<1>6. t \in Token
  BY <1>1 DEF Token
<1>7. /\ t.draft = d /\ t.asset = asset /\ t.price = price
      /\ t.account.buyingPower = power /\ t.position = position
  OBVIOUS
<1>8. Covered(t)
  <2> HIDE DEF t, price
  <2> QED
    BY <1>3, <1>4, <1>5, <1>7 DEF Covered
<1> QED
  BY <1>6, <1>8

LEMMA OrdersInitially == Init => OrderInv
<1> SUFFICES ASSUME Init PROVE OrderInv
  OBVIOUS
<1>1. scenario \in [past : Seq(Happenings), events : Seq(Happenings), faults : Nat, orders : Nat]
  BY BrokerAssumption DEF Init
<1>2. activities \in Seq(Happenings) /\ account = AccountLog(activities)
  BY <1>1 DEF Init
<1> QED
  BY <1>1, <1>2, AccountIsBooks DEF Init, OrderInv, IsAccountOf

\* A step that leaves the orders alone.
LEMMA OrdersStay ==
  ASSUME OrderInv, UNCHANGED <<activities, account, tokens, api, orders>>, scenario'.events = scenario.events
  PROVE  OrderInv'
BY DEF OrderInv

LEMMA OrderStep == OrderInv /\ [Next]_vars => OrderInv'
<1> SUFFICES ASSUME OrderInv, [Next]_vars PROVE OrderInv'
  OBVIOUS
<1>1. CASE Happen
  <2>1. Last(account) \in Books
    BY DEF OrderInv, Last
  <2>2. Head(scenario.events) \in Happenings /\ Tail(scenario.events) \in Seq(Happenings)
    BY <1>1 DEF Happen, OrderInv
  <2>3. BrokerPosts(Last(account), Head(scenario.events)) \in Books
    BY <2>1, <2>2, BrokerPostsBooks
  <2>4. account' \in Seq(Books) /\ account' # <<>>
    BY <1>1, <2>3, AppendProperties DEF Happen, OrderInv
  <2>5. scenario'.events = Tail(scenario.events)
    BY <1>1 DEF Happen
  <2>6. activities' \in Seq(Happenings)
    BY <1>1, <2>2 DEF Happen, OrderInv
  <2>7. UNCHANGED <<tokens, api, orders>>
    BY <1>1 DEF Happen, confirming
  <2> QED
    BY <2>2, <2>4, <2>5, <2>6, <2>7 DEF OrderInv
<1>2. ASSUME Fault PROVE scenario'.events = scenario.events
  BY <1>2 DEF Fault
<1>3. ASSUME NEW p \in Passes, PassStep(p) PROVE OrderInv'
  <2>1. UNCHANGED <<scenario, activities, account, tokens, api, orders>>
    BY <1>3 DEF PassStep, Begin, Answer, ListPage, Observe, StoreActivity, Post, Choke, Replay, Clear, Sweep,
                Insert, broker, confirming
  <2> QED
    BY <2>1, OrdersStay
<1>4. ASSUME NEW p \in Passes, Fail(p) PROVE OrderInv'
  BY <1>2, <1>4, OrdersStay DEF Fail, confirming
<1>5. CASE Crash \/ Close
  BY <1>2, <1>5, OrdersStay DEF Crash, Close, confirming
<1>6. CASE Closed \/ WorkerClosed \/ Restart
  BY <1>6, OrdersStay DEF Closed, WorkerClosed, Restart, broker, confirming
<1>7. ASSUME NEW d \in Drafts, NEW asset \in Assets, NEW quote \in Quotes, IssuePreview(d, asset, quote)
      PROVE  OrderInv'
  <2> DEFINE power == Last(account).cash
             position == Last(account).positions[d.symbol]
             t == [draft |-> d, asset |-> asset, price |-> ExecutionReference(d, quote),
                   account |-> [buyingPower |-> power], position |-> position, fresh |-> TRUE]
  <2>1. power \in Int /\ position \in Int
    <3>1. Last(account) \in Books /\ d.symbol \in Symbols
      BY DraftAssumption DEF OrderInv, Last
    <3> QED
      BY <3>1 DEF Books
  <2>2. /\ PreviewError(d, asset, quote, [buyingPower |-> power], position) = ""
        /\ tokens' = <<t>>
    BY <1>7 DEF IssuePreview
  <2>3. UNCHANGED <<scenario, activities, account, api, orders>>
    BY <1>7 DEF IssuePreview, broker
  <2> HIDE DEF power, position
  <2>4. t \in Token /\ Covered(t)
    BY <2>1, <2>2, PreviewCovers
  <2> HIDE DEF t
  <2> QED
    BY <2>2, <2>3, <2>4 DEF OrderInv
<1>8. CASE Expire
  <2>1. PICK t \in Token : tokens = <<t>> /\ Covered(t)
    BY <1>8 DEF Expire, OrderInv
  <2> DEFINE old == [t EXCEPT !.fresh = FALSE]
  <2>2. tokens' = <<old>>
    <3>1. tokens' = [tokens EXCEPT ![1] = [tokens[1] EXCEPT !.fresh = FALSE]]
      BY <1>8 DEF Expire
    <3>2. tokens' = [<<t>> EXCEPT ![1] = old]
      BY <2>1, <3>1
    <3> HIDE DEF old
    <3> QED
      BY <3>2
  <2>3. old \in Token /\ Covered(old)
    BY <2>1 DEF Token, Covered
  <2>4. UNCHANGED <<scenario, activities, account, api, orders>>
    BY <1>8 DEF Expire, broker
  <2> HIDE DEF old
  <2> QED
    BY <2>2, <2>3, <2>4 DEF OrderInv
<1>9. ASSUME NEW k \in Requests, PassGate(k) PROVE OrderInv'
  <2>1. PICK t \in Token : tokens = <<t>> /\ Covered(t)
    BY <1>9 DEF PassGate, OrderInv
  <2>2. api' = [api EXCEPT ![k] = <<t>>] /\ UNCHANGED <<scenario, activities, account, tokens, orders>>
    BY <1>9, <2>1 DEF PassGate, broker
  <2>3. \A r \in Requests : api'[r] = IF r = k THEN <<t>> ELSE api[r]
    BY <2>2 DEF OrderInv
  <2>4. \A r \in Requests : api'[r] # None => \E u \in Token : api'[r] = <<u>> /\ Covered(u)
    BY <2>1, <2>3 DEF OrderInv
  <2>5. api' = [r \in Requests |-> api'[r]]
    BY <2>2 DEF OrderInv
  <2> QED
    BY <2>2, <2>4, <2>5 DEF OrderInv
<1>10. ASSUME NEW k \in Requests, api[k] # None, api' = [api EXCEPT ![k] = None]
       PROVE  /\ api' = [r \in Requests |-> api'[r]]
              /\ \A r \in Requests : api'[r] # None => \E t \in Token : api'[r] = <<t>> /\ Covered(t)
  <2>1. \A r \in Requests : api'[r] = IF r = k THEN None ELSE api[r]
    BY <1>10 DEF OrderInv
  <2>2. api' = [r \in Requests |-> api'[r]]
    BY <1>10 DEF OrderInv
  <2> QED
    BY <2>1, <2>2 DEF OrderInv
<1>11. ASSUME NEW k \in Requests, Confirm(k) PROVE OrderInv'
  <2>1. PICK t \in Token : api[k] = <<t>> /\ Covered(t)
    BY <1>11 DEF Confirm, OrderInv
  <2>2. orders' = Append(orders, t) /\ api[k] # None /\ api' = [api EXCEPT ![k] = None]
    BY <1>11, <2>1 DEF Confirm
  <2>3. orders' \in Seq(Token) /\ \A i \in DOMAIN orders' : Covered(orders'[i])
    <3>1. orders \in Seq(Token) /\ \A i \in 1..Len(orders) : Covered(orders[i])
      BY DEF OrderInv
    <3> QED
      BY <2>1, <2>2, <3>1, AppendProperties
  <2>4. UNCHANGED <<scenario, activities, account, tokens>>
    BY <1>11 DEF Confirm, broker
  <2> QED
    BY <1>10, <2>2, <2>3, <2>4 DEF OrderInv
<1>12. ASSUME NEW k \in Requests, Abandon(k) PROVE OrderInv'
  BY <1>10, <1>12 DEF Abandon, broker, OrderInv
<1>13. CASE UNCHANGED vars
  BY <1>13, OrdersStay DEF vars, broker, confirming
<1> QED
  BY <1>1, <1>3, <1>4, <1>5, <1>6, <1>7, <1>8, <1>9, <1>11, <1>12, <1>13 DEF Next

\* What an order was confirmed with covered it, for all scenarios, drafts, assets, quotes
\* and scales: a purchase to within the rounding of its notional, a sale by the position,
\* and a fraction only where the broker takes it (OrderPreviewService.preview).
THEOREM OrdersAreCovered == Spec => []OrdersWereCovered
<1>1. OrderInv => OrdersWereCovered
  BY DEF OrderInv, OrdersWereCovered, Covered
<1> QED
  BY OrdersInitially, OrderStep, <1>1, PTL DEF Spec

-----------------------------------------------------------------------------
(* A quiet pass.                                                                *)

Asked == {"account", "positions"}

\* What is listed comes before everything that is not.
IsClosed(listed, log) == \A j \in listed : \A i \in (1..Len(log)) \ listed : Before(log, j, i)

\* What a pass has read is of the log, and of its present end while nothing happens; its
\* pages are then the beginning of the list, and in the end all of it; what it has done is
\* in the ledger.
PassIsRight(pass, log, sources) ==
  /\ \A what \in Asked : pass[what] # None =>
       /\ pass[what][1] \in 0..Len(log)
       /\ pass.quiet => pass[what][1] = Len(log)
  /\ pass.quiet => IsClosed(pass.listed, log) /\ (pass.paged => pass.listed = 1..Len(log))
  /\ pass.done \subseteq Range(sources)
  /\ pass.stage = "idle" => pass = IdlePass
  /\ pass.stage \in {"ingest", "post"} => pass.paged /\ \A what \in Asked : pass[what] # None
  /\ pass.stage = "post" => IsMappable(log[FirstOf(log, pass.listed \ pass.done)])
  /\ pass.stage \in {"decide", "insert"} /\ pass.quiet => ~pass.differs

\* The ledger is of activities that have happened and can be mapped.
QuietInv ==
  /\ IsAccountOf(account, activities)
  /\ Range(ledger) \subseteq 1..Len(activities)
  /\ \A i \in Range(ledger) : IsMappable(activities[i])
  /\ DatedInOrder(activities \o scenario.events)
  /\ \A p \in Passes : PassIsRight(passes[p], activities, ledger)

LEMMA IdleIsRight ==
  ASSUME NEW log \in Seq(Happenings), NEW sources, NEW stage \in {"idle", "ask"}
  PROVE  PassIsRight([IdlePass EXCEPT !.stage = stage], log, sources)
<1> DEFINE new == [IdlePass EXCEPT !.stage = stage]
<1>1. /\ new.stage = stage /\ new.listed = {} /\ new.done = {} /\ new.paged = FALSE
      /\ \A what \in Asked : new[what] = None
  BY DEF IdlePass, Asked
<1>2. stage = "idle" => new = IdlePass
  <2>1. IdlePass \in PassType /\ IdlePass.stage = "idle"
    BY IdleIsAPass DEF IdlePass
  <2> HIDE DEF IdlePass
  <2> QED
    BY <2>1 DEF PassType
<1> HIDE DEF new
<1>3. IsClosed(new.listed, log)
  BY <1>1 DEF IsClosed
<1>4. new.stage \notin {"ingest", "post", "decide", "insert"} /\ new.done \subseteq Range(sources)
  BY <1>1
<1>5. new.stage = "idle" => new = IdlePass
  BY <1>1, <1>2
<1> HIDE DEF IdlePass, IsClosed
<1>6. PassIsRight(new, log, sources)
  BY <1>1, <1>3, <1>4, <1>5 DEF PassIsRight
<1> QED
  BY <1>6 DEF new

LEMMA IdleStays ==
  ASSUME NEW log \in Seq(Happenings), NEW sources
  PROVE  PassIsRight(IdlePass, log, sources)
<1>1. [IdlePass EXCEPT !.stage = "idle"] = IdlePass
  <2>1. IdlePass \in PassType /\ IdlePass.stage = "idle"
    BY IdleIsAPass DEF IdlePass
  <2> HIDE DEF IdlePass
  <2> QED
    BY <2>1 DEF PassType
<1>2. PassIsRight([IdlePass EXCEPT !.stage = "idle"], log, sources)
  BY IdleIsRight
<1> QED
  BY <1>1, <1>2

LEMMA QuietInitially == Init => QuietInv
<1> SUFFICES ASSUME Init PROVE QuietInv
  OBVIOUS
<1>1. scenario \in Scenarios /\ scenario \in [past : Seq(Happenings), events : Seq(Happenings), faults : Nat, orders : Nat]
  BY BrokerAssumption DEF Init
<1>2. activities = scenario.past /\ activities \in Seq(Happenings) /\ account = AccountLog(activities)
  BY <1>1 DEF Init
<1>3. IsAccountOf(account, activities)
  BY <1>2, AccountIsBooks
<1>4. Range(ledger) = {}
  BY DEF Init, Range
<1>5. \A p \in Passes : PassIsRight(passes[p], activities, ledger)
  BY <1>2, IdleStays DEF Init
<1>6. DatedInOrder(activities \o scenario.events)
  BY <1>1, <1>2, DateAssumption
<1> QED
  BY <1>3, <1>4, <1>5, <1>6 DEF QuietInv

\* What is dated in order is so from its beginning on.
LEMMA DatedFromTheStart ==
  ASSUME NEW log \in Seq(Happenings), NEW more \in Seq(Happenings), DatedInOrder(log \o more)
  PROVE  DatedInOrder(log)
<1>1. /\ Len(log \o more) = Len(log) + Len(more) /\ Len(log) \in Nat /\ Len(more) \in Nat
      /\ \A n \in 1..Len(log) + Len(more) : (log \o more)[n] = IF n <= Len(log) THEN log[n] ELSE more[n - Len(log)]
  BY ConcatProperties
<1>2. DOMAIN log = 1..Len(log) /\ DOMAIN (log \o more) = 1..(Len(log) + Len(more))
  <2>1. log \o more \in Seq(Happenings)
    BY ConcatProperties
  <2> QED
    BY <1>1, <2>1
<1> DEFINE all == log \o more
<1> HIDE DEF all
<1>3. \A n \in DOMAIN log : n \in DOMAIN all /\ all[n] = log[n]
  BY <1>1, <1>2 DEF all
<1>4. \A i, j \in DOMAIN all : i < j /\ Meet(all[i], all[j]) => all[i].time < all[j].time
  BY DEF DatedInOrder, all
<1> QED
  BY <1>3, <1>4 DEF DatedInOrder

\* What happens next was to happen: nothing is added to past and future together.
LEMMA SameInTheEnd ==
  ASSUME NEW log \in Seq(Happenings), NEW events \in Seq(Happenings), events # <<>>
  PROVE  Append(log, Head(events)) \o Tail(events) = log \o events
<1> DEFINE a == Head(events)
           rest == Tail(events)
<1>1. a \in Happenings /\ rest \in Seq(Happenings) /\ <<a>> \in Seq(Happenings)
  BY HeadTailProperties
<1>2. Append(log, a) = log \o <<a>>
  BY <1>1, AppendIsConcat
<1>3. <<a>> \o rest = events
  OBVIOUS
<1> HIDE DEF a, rest
<1>4. (log \o <<a>>) \o rest = log \o (<<a>> \o rest)
  BY <1>1, ConcatAssociative
<1> QED
  BY <1>2, <1>3, <1>4 DEF a, rest

\* A page is the beginning of what is left of the list, and all of it if it is not full.
LEMMA PageIsNext ==
  ASSUME BrokerInv, NEW listed \in SUBSET (1..Len(activities)), IsClosed(listed, activities)
  PROVE  LET page == PageOf(After(listed)) IN
         /\ IsClosed(listed \union page, activities)
         /\ Cardinality(After(listed)) < PageSize => listed \union page = 1..Len(activities)
<1> DEFINE all == 1..Len(activities)
           rest == After(listed)
           before(i) == {j \in rest : Earlier(j, i)}
           page == PageOf(rest)
<1>1. activities \in Seq(Happenings) /\ Len(activities) \in Nat
  BY DEF BrokerInv
<1>2. \A i, j : Earlier(i, j) <=> Before(activities, i, j)
  BY DEF Earlier, Before
<1>3. rest = all \ listed
  <2>1. \A i \in listed : ~Before(activities, i, i)
    BY <1>1, BeforeIsAnOrder
  <2> QED
    BY <1>2, <2>1 DEF After, Now, IsClosed
<1>4. rest \in SUBSET all /\ IsFiniteSet(rest)
  <2>1. IsFiniteSet(all)
    BY <1>1, FS_Interval
  <2> QED
    BY <1>3, <2>1, FS_Subset
<1>5. page = {i \in rest : Cardinality(before(i)) < PageSize}
  BY DEF PageOf
<1> HIDE DEF rest, page, all
<1>6. \A i \in rest : /\ IsFiniteSet(before(i)) /\ Cardinality(before(i)) \in Nat
                      /\ Cardinality(before(i)) <= Cardinality(rest) /\ Cardinality(rest) \in Nat
  <2> TAKE i \in rest
  <2>1. before(i) \in SUBSET rest
    OBVIOUS
  <2> HIDE DEF before
  <2> QED
    BY <1>4, <2>1, FS_Subset, FS_CardinalityType
<1>7. ASSUME NEW j \in page, NEW i \in rest \ page PROVE Before(activities, j, i)
  <2> SUFFICES ASSUME ~Before(activities, j, i) PROVE FALSE
    OBVIOUS
  <2>1. i \in all /\ j \in all /\ i # j /\ j \in rest
    BY <1>4, <1>5, <1>7
  <2>2. Before(activities, i, j)
    BY <1>1, <2>1, BeforeIsAnOrder DEF all
  <2>3. before(i) \in SUBSET before(j)
    <3>1. ASSUME NEW k \in rest, Before(activities, k, i) PROVE Before(activities, k, j)
      <4>1. k \in all
        BY <1>4
      <4> QED
        BY <1>1, <2>1, <2>2, <3>1, <4>1, BeforeIsAnOrder DEF all
    <3> QED
      BY <1>2, <3>1
  <2>4. Cardinality(before(i)) <= Cardinality(before(j)) /\ Cardinality(before(j)) < PageSize
    <3>1. Cardinality(before(j)) < PageSize
      BY <1>5
    <3>2. IsFiniteSet(before(j))
      BY <1>6, <2>1
    <3> HIDE DEF before
    <3> QED
      BY <2>3, <3>1, <3>2, FS_Subset
  <2>5. Cardinality(before(i)) \in Nat /\ Cardinality(before(j)) \in Nat /\ PageSize \in Nat
    BY <1>6, <2>1, BrokerAssumption
  <2>6. Cardinality(before(i)) < PageSize
    <3> HIDE DEF before
    <3> QED
      BY <2>4, <2>5
  <2> QED
    BY <1>5, <2>6
<1>8. IsClosed(listed \union page, activities)
  <2> SUFFICES ASSUME NEW j \in listed \union page, NEW i \in all \ (listed \union page)
               PROVE  Before(activities, j, i)
    BY DEF IsClosed, all
  <2>1. CASE j \in listed
    BY <2>1 DEF IsClosed, all
  <2>2. CASE j \in page
    BY <1>3, <1>7, <2>2
  <2> QED
    BY <2>1, <2>2
<1>9. ASSUME Cardinality(rest) < PageSize PROVE listed \union page = all
  <2>1. \A i \in rest : Cardinality(before(i)) < PageSize
    <3> TAKE i \in rest
    <3>1. /\ Cardinality(before(i)) \in Nat /\ Cardinality(rest) \in Nat /\ PageSize \in Nat
          /\ Cardinality(before(i)) <= Cardinality(rest)
      BY <1>6, BrokerAssumption
    <3> HIDE DEF before
    <3> QED
      BY <1>9, <3>1
  <2>2. page = rest
    BY <1>5, <2>1
  <2>3. listed \in SUBSET all
    BY DEF all
  <2> QED
    BY <1>3, <2>2, <2>3
<1> QED
  BY <1>8, <1>9 DEF page, rest, all

\* A step of a pass that leaves the broker and the ledger alone.
LEMMA OnePassMoves ==
  ASSUME BrokerInv, QuietInv, NEW p \in Passes, UNCHANGED <<activities, account, ledger>>,
         scenario'.events = scenario.events,
         passes' = [passes EXCEPT ![p] = passes'[p]], PassIsRight(passes'[p], activities, ledger)
  PROVE  QuietInv'
<1>1. \A r \in Passes : passes'[r] = IF r = p THEN passes'[p] ELSE passes[r]
  BY DEF BrokerInv
<1>2. \A r \in Passes : PassIsRight(passes'[r], activities', ledger')
  BY <1>1 DEF QuietInv
<1> QED
  BY <1>2 DEF QuietInv

\* The books that a quiet pass compares are of the same moment, and the ledger is complete.
LEMMA QuietPassAgrees ==
  ASSUME BrokerInv, QuietInv, NEW p \in Passes, NEW order \in ByTime(ledger),
         passes[p].stage = "ingest", ~HasMore(p), passes[p].quiet
  PROVE  ~Differs(p, Replayed(order))
<1> DEFINE bound == Len(activities)
           size == Len(ledger)
<1>1. bound \in Nat /\ activities \in Seq(Happenings) /\ ledger \in Seq(Nat) /\ IsInjective(ledger)
      /\ scenario \in ScenarioType
  BY DEF BrokerInv, PostedOnce
<1>2. /\ passes[p].account[1] = bound /\ passes[p].positions[1] = bound
      /\ passes[p].listed = 1..bound /\ passes[p].done \subseteq Range(ledger)
  BY DEF QuietInv, PassIsRight, Asked
<1>3. Range(ledger) = 1..bound
  <2>1. passes[p].listed = passes[p].done
    BY DEF HasMore
  <2> QED
    BY <1>2, <2>1 DEF QuietInv
<1>4. /\ order \in [1..size -> 1..bound] /\ size \in Nat
      /\ \A i, j \in 1..size : i < j => order[i] # order[j] /\ activities[order[i]].time <= activities[order[j]].time
      /\ \A x \in 1..bound : \E i \in 1..size : order[i] = x
  <2>1. /\ order \in [1..size -> Range(ledger)] /\ size \in Nat
        /\ \A i, j \in 1..size : i < j => order[i] # order[j] /\ activities[order[i]].time <= activities[order[j]].time
        /\ \A x \in Range(ledger) : \E i \in 1..size : order[i] = x
    BY <1>1, ReadingIsOfAll
  <2> QED
    BY <1>3, <2>1
<1>5. DatedInOrder(activities)
  <2>1. scenario.events \in Seq(Happenings) /\ DatedInOrder(activities \o scenario.events)
    BY <1>1 DEF QuietInv, ScenarioType
  <2> QED
    BY <1>1, <2>1, DatedFromTheStart
<1>6. IsAccountOf(account, activities) /\ \A n \in 1..bound : IsMappable(activities[n])
  BY <1>3 DEF QuietInv
<1>7. replayBrokerPortfolio([i \in 1..size |-> mapBrokerActivity(activities[order[i]])], Symbols) = account[bound + 1]
  BY <1>1, <1>4, <1>5, <1>6, ReplayIsAccount
<1>8. Replayed(order) = account[bound + 1]
  <2>1. DOMAIN order = 1..size
    BY <1>4
  <2> HIDE DEF size
  <2> QED
    BY <1>7, <2>1 DEF Replayed
<1> HIDE DEF bound
<1> QED
  BY <1>2, <1>8 DEF Differs

LEMMA QuietPassStep ==
  ASSUME BrokerInv, QuietInv, NEW p \in Passes, PassStep(p) \/ Fail(p)
  PROVE  QuietInv'
<1>0. /\ passes[p] \in PassType /\ PassIsRight(passes[p], activities, ledger)
      /\ ListIsRight(passes[p], activities) /\ passes \in [Passes -> PassType]
      /\ activities \in Seq(Happenings) /\ Now = Len(activities) /\ Now \in Nat
  BY DEF BrokerInv, QuietInv, Now
<1>1. CASE Begin(p)
  <2> DEFINE new == [IdlePass EXCEPT !.stage = "ask"]
  <2>1. PassIsRight(new, activities, ledger)
    BY <1>0, IdleIsRight
  <2>2. passes' = [passes EXCEPT ![p] = new] /\ UNCHANGED <<activities, account, ledger, scenario>>
    BY <1>1 DEF Begin, broker
  <2> HIDE DEF new
  <2> QED
    BY <1>0, <2>1, <2>2, OnePassMoves
<1>2. ASSUME NEW what \in Asked, Answer(p, what) PROVE QuietInv'
  <2> DEFINE new == [passes[p] EXCEPT ![what] = <<Now>>]
  <2>1. /\ passes' = [passes EXCEPT ![p] = new] /\ passes[p].stage = "ask"
        /\ UNCHANGED <<activities, account, ledger, scenario>>
    BY <1>0, <1>2 DEF Answer, broker
  <2>2. /\ new.stage = "ask" /\ new.done = passes[p].done /\ new.quiet = passes[p].quiet
        /\ new.listed = passes[p].listed /\ new.paged = passes[p].paged
        /\ \A w \in Asked : new[w] = IF w = what THEN <<Now>> ELSE passes[p][w]
    BY <1>0, <2>1 DEF PassType, Asked
  <2>3. PassIsRight(new, activities, ledger)
    <3> HIDE DEF new, IdlePass, IsClosed
    <3> QED
      BY <1>0, <2>1, <2>2 DEF PassIsRight
  <2> HIDE DEF new
  <2> QED
    BY <1>0, <2>1, <2>3, OnePassMoves
<1>3. CASE ListPage(p)
  <2> DEFINE listed == passes[p].listed \union PageOf(After(passes[p].listed))
             paged == Cardinality(After(passes[p].listed)) < PageSize
             new == [passes[p] EXCEPT !.listed = listed, !.paged = paged]
  <2>1. /\ passes' = [passes EXCEPT ![p] = new] /\ passes[p].stage = "ask"
        /\ UNCHANGED <<activities, account, ledger, scenario>>
    BY <1>0, <1>3 DEF ListPage, broker
  <2>2. passes[p].quiet => IsClosed(listed, activities) /\ (paged => listed = 1..Len(activities))
    <3> HAVE passes[p].quiet
    <3>1. IsClosed(passes[p].listed, activities) /\ passes[p].listed \in SUBSET (1..Len(activities))
      BY <1>0 DEF PassIsRight, ListIsRight
    <3> QED
      BY <3>1, PageIsNext
  <2> HIDE DEF listed, paged
  <2>3. /\ new.stage = "ask" /\ new.done = passes[p].done /\ new.quiet = passes[p].quiet
        /\ new.listed = listed /\ new.paged = paged
        /\ \A w \in Asked : new[w] = passes[p][w]
    BY <1>0, <2>1 DEF PassType, Asked
  <2>4. PassIsRight(new, activities, ledger)
    <3> HIDE DEF new, IdlePass, IsClosed
    <3> QED
      BY <1>0, <2>2, <2>3 DEF PassIsRight
  <2> HIDE DEF new
  <2> QED
    BY <1>0, <2>1, <2>4, OnePassMoves
<1>4. CASE Observe(p)
  <2> DEFINE new == [passes[p] EXCEPT !.stage = "ingest"]
  <2>1. /\ passes' = [passes EXCEPT ![p] = new] /\ passes[p].paged
        /\ \A w \in Asked : passes[p][w] # None
        /\ UNCHANGED <<activities, account, ledger, scenario>>
    BY <1>0, <1>4 DEF Observe, Goes, broker, Asked
  <2>2. /\ new.stage = "ingest" /\ new.done = passes[p].done /\ new.quiet = passes[p].quiet
        /\ new.listed = passes[p].listed /\ new.paged = passes[p].paged
        /\ \A w \in Asked : new[w] = passes[p][w]
    BY <1>0 DEF PassType, Asked
  <2>3. PassIsRight(new, activities, ledger)
    <3> HIDE DEF new, IdlePass, IsClosed
    <3> QED
      BY <1>0, <2>1, <2>2 DEF PassIsRight
  <2> HIDE DEF new
  <2> QED
    BY <1>0, <2>1, <2>3, OnePassMoves
<1>5. CASE StoreActivity(p)
  <2> DEFINE new == [passes[p] EXCEPT !.stage = "post"]
  <2>1. /\ passes' = [passes EXCEPT ![p] = new] /\ passes[p].stage = "ingest"
        /\ passes[p].listed # passes[p].done /\ IsMappable(activities[Upcoming(p)])
        /\ UNCHANGED <<activities, account, ledger, scenario>>
    BY <1>0, <1>5 DEF StoreActivity, HasMore, Goes, broker
  <2>2. /\ new.stage = "post" /\ new.done = passes[p].done /\ new.quiet = passes[p].quiet
        /\ new.listed = passes[p].listed /\ new.paged = passes[p].paged
        /\ \A w \in Asked : new[w] = passes[p][w]
    BY <1>0, <2>1 DEF PassType, Asked
  <2>3. Upcoming(p) = FirstOf(activities, new.listed \ new.done)
    BY <2>1, <2>2, UpcomingIsListed
  <2>4. PassIsRight(new, activities, ledger)
    <3> HIDE DEF new, IdlePass, IsClosed
    <3> QED
      BY <1>0, <2>1, <2>2, <2>3 DEF PassIsRight
  <2> HIDE DEF new
  <2> QED
    BY <1>0, <2>1, <2>4, OnePassMoves
<1>6. CASE Post(p)
  <2> DEFINE x == Upcoming(p)
             new == [passes[p] EXCEPT !.stage = "ingest", !.done = passes[p].done \union {x}]
  <2>1. /\ passes' = [passes EXCEPT ![p] = new] /\ passes[p].stage = "post"
        /\ ledger' = Posting(x) /\ UNCHANGED <<activities, account, scenario>>
    BY <1>0, <1>6 DEF Post, broker
  <2>2. x \in 1..Len(activities) /\ IsMappable(activities[x])
    <3>1. passes[p].listed # passes[p].done
      BY <1>0, <2>1 DEF ListIsRight
    <3> QED
      BY <1>0, <2>1, <3>1, UpcomingIsListed DEF PassIsRight
  <2> HIDE DEF x
  <2>3. Range(ledger') = Range(ledger) \union {x}
    <3>1. CASE x \in Range(ledger)
      BY <2>1, <3>1 DEF Posting
    <3>2. CASE x \notin Range(ledger)
      <4> DEFINE longer == Append(ledger, x)
      <4>1. ledger' = longer /\ ledger \in Seq(Nat) /\ x \in Nat
        BY <1>0, <2>1, <2>2, <3>2 DEF Posting, BrokerInv
      <4>2. /\ DOMAIN longer = 1..(Len(ledger) + 1) /\ DOMAIN ledger = 1..Len(ledger) /\ Len(ledger) \in Nat
            /\ longer[Len(ledger) + 1] = x
            /\ \A n \in 1..Len(ledger) : longer[n] = ledger[n]
        BY <4>1, AppendProperties
      <4>3. 1..(Len(ledger) + 1) = 1..Len(ledger) \union {Len(ledger) + 1}
        BY <4>2
      <4> HIDE DEF longer
      <4>4. Range(longer) = Range(ledger) \union {x}
        BY <4>2, <4>3 DEF Range
      <4> QED
        BY <4>1, <4>4
    <3> QED
      BY <3>1, <3>2
  <2>4. /\ new.stage = "ingest" /\ new.done = passes[p].done \union {x} /\ new.quiet = passes[p].quiet
        /\ new.listed = passes[p].listed /\ new.paged = passes[p].paged
        /\ \A w \in Asked : new[w] = passes[p][w]
    BY <1>0 DEF PassType, Asked
  <2>5. PassIsRight(new, activities, ledger')
    <3> HIDE DEF new, IdlePass, IsClosed
    <3> QED
      BY <1>0, <2>1, <2>3, <2>4 DEF PassIsRight
  <2>6. \A r \in Passes : PassIsRight(passes[r], activities, ledger')
    <3>1. Range(ledger) \subseteq Range(ledger')
      BY <2>3
    <3> QED
      BY <3>1 DEF QuietInv, PassIsRight
  <2> HIDE DEF new
  <2>7. \A r \in Passes : PassIsRight(passes'[r], activities', ledger')
    <3>1. \A r \in Passes : passes'[r] = IF r = p THEN new ELSE passes[r]
      BY <1>0, <2>1
    <3> QED
      BY <2>1, <2>5, <2>6, <3>1
  <2> QED
    BY <2>1, <2>2, <2>3, <2>7 DEF QuietInv
<1>7. CASE Choke(p) \/ Fail(p) \/ Clear(p) \/ Insert(p)
  <2>1. /\ UNCHANGED <<activities, account, ledger>> /\ passes' = [passes EXCEPT ![p] = IdlePass]
        /\ scenario'.events = scenario.events
    <3> HIDE DEF IdlePass
    <3>1. CASE Fail(p)
      <4>1. Fault /\ UNCHANGED <<activities, account, ledger>> /\ passes' = [passes EXCEPT ![p] = IdlePass]
        BY <3>1 DEF Fail, Ended
      <4>2. scenario'.events = scenario.events
        <5>1. scenario \in ScenarioType /\ scenario' = [scenario EXCEPT !.faults = scenario.faults - 1]
          BY <4>1 DEF Fault, BrokerInv
        <5> QED
          BY <5>1 DEF ScenarioType
      <4> QED
        BY <4>1, <4>2
    <3>2. CASE Choke(p) \/ Clear(p) \/ Insert(p)
      BY <3>2 DEF Choke, Clear, Insert, Ended, broker
    <3> QED
      BY <1>7, <3>1, <3>2
  <2>2. passes'[p] = IdlePass
    BY <1>0, <2>1
  <2> HIDE DEF IdlePass
  <2> QED
    BY <1>0, <2>1, <2>2, IdleStays, OnePassMoves
<1>8. CASE Replay(p)
  <2>1. PICK order \in ByTime(ledger) :
          passes' = [passes EXCEPT ![p] = [IdlePass EXCEPT !.stage = "decide", !.quiet = passes[p].quiet,
                                                          !.differs = Differs(p, Replayed(order))]]
    BY <1>8 DEF Replay
  <2> DEFINE differs == Differs(p, Replayed(order))
             new == [IdlePass EXCEPT !.stage = "decide", !.quiet = passes[p].quiet, !.differs = differs]
  <2>2. passes[p].quiet => ~differs
    BY <1>8, QuietPassAgrees DEF Replay
  <2>3. passes' = [passes EXCEPT ![p] = new] /\ UNCHANGED <<activities, account, ledger, scenario>>
    BY <1>8, <2>1 DEF Replay, broker
  <2> HIDE DEF differs
  <2>4. /\ new.stage = "decide" /\ new.quiet = passes[p].quiet /\ new.differs = differs
        /\ new.listed = {} /\ new.done = {} /\ new.paged = FALSE
        /\ \A w \in Asked : new[w] = None
    BY DEF IdlePass, Asked
  <2>5. PassIsRight(new, activities, ledger)
    <3> HIDE DEF new
    <3>1. IsClosed(new.listed, activities) /\ new.done \subseteq Range(ledger)
      BY <2>4 DEF IsClosed
    <3> HIDE DEF IdlePass, IsClosed
    <3> QED
      BY <2>2, <2>4, <3>1 DEF PassIsRight
  <2> HIDE DEF new
  <2> QED
    BY <1>0, <2>3, <2>5, OnePassMoves
<1>9. CASE Sweep(p)
  <2> DEFINE new == [passes[p] EXCEPT !.stage = "insert", !.swept = drift \ Locked(p)]
  <2>1. /\ passes' = [passes EXCEPT ![p] = new] /\ passes[p].stage = "decide"
        /\ UNCHANGED <<activities, account, ledger, scenario>>
    BY <1>0, <1>9 DEF Sweep, broker
  <2>2. /\ new.stage = "insert" /\ new.quiet = passes[p].quiet /\ new.differs = passes[p].differs
        /\ new.listed = passes[p].listed /\ new.paged = passes[p].paged /\ new.done = passes[p].done
        /\ \A w \in Asked : new[w] = passes[p][w]
    BY <1>0 DEF PassType, Asked
  <2>3. PassIsRight(new, activities, ledger)
    <3> HIDE DEF new, IdlePass, IsClosed
    <3> QED
      BY <1>0, <2>1, <2>2 DEF PassIsRight
  <2> HIDE DEF new
  <2> QED
    BY <1>0, <2>1, <2>3, OnePassMoves
<1> QED
  BY <1>1, <1>2, <1>3, <1>4, <1>5, <1>6, <1>7, <1>8, <1>9 DEF PassStep, Asked

\* The first of what has happened is so whatever happens next.
LEMMA FirstStays ==
  ASSUME NEW log \in Seq(Happenings), NEW more \in Seq(Happenings), Len(log) <= Len(more),
         \A n \in 1..Len(log) : more[n] = log[n],
         NEW S \in SUBSET (1..Len(log)), S # {}
  PROVE  FirstOf(more, S) = FirstOf(log, S)
<1> DEFINE i == FirstOf(log, S)
<1>1. i \in S /\ \A j \in S : j = i \/ Before(log, i, j)
  BY OneIsFirst
<1>2. \A j \in S : j \in 1..Len(log) /\ more[j] = log[j]
  OBVIOUS
<1>3. \A j \in S : j = i \/ Before(more, i, j)
  BY <1>1, <1>2 DEF Before
<1>4. S \in SUBSET (1..Len(more))
  OBVIOUS
<1> HIDE DEF i
<1> QED
  BY <1>1, <1>3, <1>4, FirstIsOne DEF i

\* The account goes on as its log does.
LEMMA AccountGoesOn ==
  ASSUME NEW log \in Seq(Happenings), NEW books, IsAccountOf(books, log), NEW a \in Happenings
  PROVE  IsAccountOf(Append(books, BrokerPosts(Last(books), a)), Append(log, a))
<1> DEFINE end == Len(log)
           more == Append(log, a)
           after == Append(books, BrokerPosts(Last(books), a))
<1>1. /\ end \in Nat /\ Len(more) = end + 1 /\ more[end + 1] = a
      /\ \A n \in 1..end : more[n] = log[n]
  BY AppendProperties
<1>2. books \in Seq(Books) /\ Len(books) = end + 1 /\ books[1] = EmptyAccount
      /\ \A n \in 1..end : books[n + 1] = BrokerPosts(books[n], log[n])
  BY DEF IsAccountOf
<1>3. Last(books) = books[end + 1] /\ books[end + 1] \in Books
  BY <1>1, <1>2 DEF Last
<1>4. BrokerPosts(Last(books), a) \in Books
  BY <1>3, BrokerPostsBooks
<1> HIDE DEF end, more
<1>5. /\ after \in Seq(Books) /\ Len(after) = end + 2
      /\ after[end + 2] = BrokerPosts(books[end + 1], a)
      /\ \A n \in 1..(end + 1) : after[n] = books[n]
  BY <1>1, <1>2, <1>3, <1>4, AppendProperties
<1> HIDE DEF after
<1>6. ASSUME NEW n \in 1..(end + 1) PROVE after[n + 1] = BrokerPosts(after[n], more[n])
  <2>1. CASE n = end + 1
    <3>1. n + 1 = end + 2 /\ after[n] = books[n]
      BY <1>1, <1>5, <2>1
    <3> QED
      BY <1>1, <1>5, <2>1, <3>1
  <2>2. CASE n \in 1..end
    <3>1. n + 1 \in 1..(end + 1)
      BY <1>1, <2>2
    <3>2. after[n] = books[n] /\ after[n + 1] = books[n + 1]
      BY <1>5, <3>1
    <3> QED
      BY <1>1, <1>2, <2>2, <3>2
  <2> QED
    BY <1>1, <2>1, <2>2
<1>7. after[1] = EmptyAccount
  <2>1. 1 \in 1..(end + 1)
    BY <1>1
  <2> QED
    BY <1>2, <1>5, <2>1
<1>8. Len(after) = Len(more) + 1
  BY <1>1, <1>5
<1>9. IsAccountOf(after, more)
  BY <1>1, <1>5, <1>6, <1>7, <1>8 DEF IsAccountOf
<1> QED
  BY <1>9 DEF after, more

LEMMA HappenIsQuiet ==
  ASSUME BrokerInv, QuietInv, Happen
  PROVE  QuietInv'
<1> DEFINE a == Head(scenario.events)
           end == Len(activities)
<1>0. /\ activities \in Seq(Happenings) /\ end \in Nat
      /\ scenario \in ScenarioType /\ scenario.events \in Seq(Happenings) /\ scenario.events # <<>>
  BY DEF BrokerInv, Happen, ScenarioType
<1>1. a \in Happenings
  BY <1>0, HeadTailProperties
<1>2. /\ activities' = Append(activities, a) /\ account' = Append(account, BrokerPosts(Last(account), a))
      /\ ledger' = ledger
  BY DEF Happen
<1>3. /\ Len(activities') = end + 1 /\ activities' \in Seq(Happenings)
      /\ \A n \in 1..end : activities'[n] = activities[n]
  <2> HIDE DEF a
  <2> QED
    BY <1>0, <1>1, <1>2, AppendProperties
<1>4. IsAccountOf(account', activities')
  BY <1>0, <1>1, <1>2, AccountGoesOn DEF QuietInv
<1>5. /\ Range(ledger') \subseteq 1..Len(activities')
      /\ \A i \in Range(ledger') : IsMappable(activities'[i])
  <2>1. 1..end \subseteq 1..(end + 1)
    BY <1>0
  <2> HIDE DEF a
  <2> QED
    BY <1>2, <1>3, <2>1 DEF QuietInv
<1>6. DatedInOrder(activities' \o scenario'.events)
  <2>1. scenario'.events = Tail(scenario.events)
    BY <1>0 DEF Happen, ScenarioType
  <2>2. activities' \o scenario'.events = activities \o scenario.events
    BY <1>0, <1>2, <2>1, SameInTheEnd
  <2> QED
    BY <2>2 DEF QuietInv
<1> HIDE DEF a
<1>7. ASSUME NEW p \in Passes PROVE PassIsRight(passes'[p], activities', ledger')
  <2> DEFINE quiet == passes[p].stage = "idle"
             new == [passes[p] EXCEPT !.quiet = quiet]
  <2>1. /\ passes'[p] = new /\ passes[p] \in PassType /\ PassIsRight(passes[p], activities, ledger)
        /\ ListIsRight(passes[p], activities)
    BY DEF Happen, BrokerInv, QuietInv
  <2>2. CASE passes[p].stage = "idle"
    <3>1. passes[p] = IdlePass
      BY <2>1, <2>2 DEF PassIsRight
    <3>2. IdlePass \in PassType /\ IdlePass.quiet = TRUE
      BY IdleIsAPass DEF IdlePass
    <3>3. quiet = TRUE
      BY <2>2
    <3> HIDE DEF IdlePass, quiet
    <3>4. new = IdlePass
      BY <3>1, <3>2, <3>3 DEF PassType
    <3> QED
      BY <1>3, <2>1, <3>4, IdleStays
  <2>3. CASE passes[p].stage # "idle"
    <3>1. /\ new.quiet = FALSE /\ new.stage = passes[p].stage /\ new.done = passes[p].done
          /\ new.listed = passes[p].listed /\ new.paged = passes[p].paged
          /\ \A w \in Asked : new[w] = passes[p][w]
      BY <2>1, <2>3 DEF PassType, Asked
    <3>2. \A w \in Asked : new[w] # None => new[w][1] \in 0..Len(activities')
      <4>1. 0..end \subseteq 0..Len(activities')
        BY <1>0, <1>3
      <4> HIDE DEF new
      <4> QED
        BY <2>1, <3>1, <4>1 DEF PassIsRight
    <3>3. passes[p].stage = "post" => IsMappable(activities'[FirstOf(activities', passes[p].listed \ passes[p].done)])
      <4> HAVE passes[p].stage = "post"
      <4> DEFINE S == passes[p].listed \ passes[p].done
      <4>1. S \in SUBSET (1..end) /\ S # {}
        BY <2>1 DEF ListIsRight
      <4>2. FirstOf(activities', S) = FirstOf(activities, S) /\ FirstOf(activities, S) \in 1..end
        <5>1. Len(activities) <= Len(activities')
          BY <1>0, <1>3
        <5> HIDE DEF S
        <5> QED
          BY <1>0, <1>3, <4>1, <5>1, FirstStays, OneIsFirst
      <4> QED
        BY <1>3, <2>1, <4>2 DEF PassIsRight
    <3> HIDE DEF new, end, IdlePass, IsClosed
    <3>4. PassIsRight(new, activities', ledger')
      BY <1>2, <2>1, <2>3, <3>1, <3>2, <3>3 DEF PassIsRight
    <3> QED
      BY <2>1, <3>4
  <2> QED
    BY <2>2, <2>3
<1> QED
  BY <1>4, <1>5, <1>6, <1>7 DEF QuietInv

LEMMA QuietSteps == BrokerInv /\ QuietInv /\ [Next]_vars => QuietInv'
<1> SUFFICES ASSUME BrokerInv, QuietInv, [Next]_vars PROVE QuietInv'
  OBVIOUS
<1>0. scenario \in ScenarioType /\ activities \in Seq(Happenings)
  BY DEF BrokerInv
<1>1. CASE Happen
  BY <1>1, HappenIsQuiet
<1>2. ASSUME NEW p \in Passes, PassStep(p) \/ Fail(p) PROVE QuietInv'
  BY <1>2, QuietPassStep
<1>3. ASSUME Fault PROVE scenario'.events = scenario.events
  <2>1. scenario' = [scenario EXCEPT !.faults = scenario.faults - 1]
    BY <1>3 DEF Fault
  <2> QED
    BY <1>0, <2>1 DEF ScenarioType
<1>4. CASE Crash
  <2>1. /\ passes' = [p \in Passes |-> IdlePass] /\ UNCHANGED <<activities, account, ledger>>
        /\ scenario'.events = scenario.events
    BY <1>3, <1>4 DEF Crash
  <2> HIDE DEF IdlePass
  <2>2. \A p \in Passes : PassIsRight(passes'[p], activities', ledger')
    BY <1>0, <2>1, IdleStays
  <2> QED
    BY <2>1, <2>2 DEF QuietInv
<1>5. ASSUME UNCHANGED <<activities, account, passes, ledger>>, scenario'.events = scenario.events PROVE QuietInv'
  BY <1>5 DEF QuietInv
<1>6. CASE Close
  BY <1>3, <1>5, <1>6 DEF Close
<1>7. CASE Closed \/ WorkerClosed \/ Restart
  BY <1>5, <1>7 DEF Closed, WorkerClosed, Restart, broker
<1>8. ASSUME NEW d \in Drafts, NEW asset \in Assets, NEW quote \in Quotes, IssuePreview(d, asset, quote)
      PROVE  QuietInv'
  BY <1>5, <1>8 DEF IssuePreview, broker, worker
<1>9. CASE Expire
  BY <1>5, <1>9 DEF Expire, broker, worker
<1>10. ASSUME NEW k \in Requests, PassGate(k) \/ Confirm(k) \/ Abandon(k) PROVE QuietInv'
  BY <1>5, <1>10 DEF PassGate, Confirm, Abandon, broker, worker
<1>11. CASE UNCHANGED vars
  BY <1>5, <1>11 DEF vars, broker, worker
<1> QED
  BY <1>1, <1>2, <1>4, <1>6, <1>7, <1>8, <1>9, <1>10, <1>11 DEF Next

\* A pass during which nothing happened at the broker finds no difference (reconcileAll),
\* whatever was bought, sold and split in fractions of whatever scale, as long as a split
\* and another change of its position are dated in the order in which they were booked:
\* however late the rest is dated, in whatever order passes that overlap, fail and miss
\* it on their pages write the ledger, and however events of one time are read back.
THEOREM QuietPassesAgree == Spec => []QuietPassFindsNoDifference
<1>1. BrokerInv /\ QuietInv => QuietPassFindsNoDifference
  BY DEF QuietInv, PassIsRight, QuietPassFindsNoDifference
<1> QED
  BY BrokerInitially, BrokerStep, QuietInitially, QuietSteps, <1>1, PTL DEF Spec

=============================================================================
