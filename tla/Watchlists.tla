----------------------------- MODULE Watchlists -----------------------------
(* watchlists/watchlistRepository.ts: groups with an order, a version and a    *)
(* mark of removal, and the symbols of each with their order.                  *)
EXTENDS Integers, FiniteSets, SequencesExt

WatchlistKinds ==
  {"group.create", "group.rename", "group.remove", "group.restore", "group.move",
   "symbol.add", "symbol.remove"}

With(rows, id, row) == [k \in DOMAIN rows \union {id} |-> IF k \in DOMAIN rows THEN rows[k] ELSE row]

Live(groups) == {g \in DOMAIN groups : ~groups[g].deleted}
NextOrder(orders) == IF orders = {} THEN 0 ELSE Max(orders) + 1
Before(groups, g, h) ==
  \/ groups[g].order < groups[h].order
  \/ groups[g].order = groups[h].order /\ g < h
InOrder(groups, among) ==
  [i \in 1..Cardinality(among) |->
     CHOOSE g \in among : Cardinality({h \in among : Before(groups, h, g)}) = i - 1]

\* Mutated form: a move locks only the rows it writes, one by one.
WatchlistLocksOfRows(c, db) ==
  CASE c.kind = "group.create" -> <<<<"groups">>>>
    [] c.kind = "group.move" -> <<>>
    [] OTHER -> <<<<"group", c.group>>>>

\* pg_advisory_xact_lock(19370301), or the row of the group.
WatchlistLocks(c, db) ==
  IF c.kind \in {"group.create", "group.move"} THEN <<<<"groups">>>> ELSE <<<<"group", c.group>>>>

\* WATCHLIST_NOT_FOUND and VERSION_CONFLICT.
WatchlistRefuses(c, seen) ==
  /\ c.kind # "group.create"
  /\ \/ c.group \notin DOMAIN seen.groups
     \/ c.kind = "group.rename" /\ seen.groups[c.group].version # c.version
     \/ c.kind = "group.move" /\ c.group \notin Live(seen.groups)

Moved(c, seen) ==
  LET others == InOrder(seen.groups, Live(seen.groups) \ {c.group})
  IN  InsertAt(others, Min({c.target, Len(others)}) + 1, c.group)

\* moveGroup updates the rows it has read, one by one in their new order.
RowsToWrite(c, seen) ==
  IF c.kind # "group.move" THEN <<>>
  ELSE [i \in DOMAIN Moved(c, seen) |-> <<"group", Moved(c, seen)[i]>>]

GroupAfter(c, g) ==
  [g EXCEPT !.version = @ + 1,
            !.name = IF c.kind = "group.rename" THEN c.name ELSE @,
            !.deleted = IF c.kind = "group.rename" THEN @ ELSE c.kind = "group.remove",
            !.removed = @ \/ c.kind = "group.remove"]

MembersAfter(c, seen, members) ==
  IF c.kind = "symbol.remove" THEN [s \in DOMAIN members \ {c.symbol} |-> members[s]]
  ELSE IF c.symbol \in DOMAIN members THEN members
  ELSE With(members, c.symbol, NextOrder({seen.groups[c.group].members[s] : s \in DOMAIN seen.groups[c.group].members}))

WatchlistAfter(c, seen, db, id) ==
  CASE c.kind = "group.create" ->
         [db EXCEPT !.groups = With(@, id,
            [name |-> c.name, order |-> NextOrder({seen.groups[g].order : g \in Live(seen.groups)}),
             version |-> 1, deleted |-> FALSE, removed |-> FALSE, members |-> <<>>])]
    [] c.kind = "group.move" ->
         [db EXCEPT !.groups = [g \in DOMAIN @ |->
            IF \E i \in DOMAIN Moved(c, seen) : Moved(c, seen)[i] = g
            THEN [@[g] EXCEPT !.order = (CHOOSE i \in DOMAIN Moved(c, seen) : Moved(c, seen)[i] = g) - 1]
            ELSE @[g]]]
    [] c.kind \in {"symbol.add", "symbol.remove"} ->
         [db EXCEPT !.groups[c.group].members = MembersAfter(c, seen, @)]
    [] OTHER -> [db EXCEPT !.groups[c.group] = GroupAfter(c, @)]

\* No two groups share a place, but for those that were removed once and keep the place
\* they had, and no two symbols of one.
PlacesAreDistinct(groups) ==
  /\ \A g, h \in DOMAIN groups :
       (g # h /\ groups[g].order = groups[h].order) => groups[g].removed \/ groups[h].removed
  /\ \A g \in DOMAIN groups : \A s, t \in DOMAIN groups[g].members :
       s # t => groups[g].members[s] # groups[g].members[t]
=============================================================================
