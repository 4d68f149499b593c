--------------------------- MODULE DiscoveryState ---------------------------
(* discovery/discoveryStateRepository.ts: saved screens, each with a version,  *)
(* and the user's changes of the universe under one version of their own.      *)
EXTENDS Integers, SequencesExt

DiscoveryKinds ==
  {"screen.create", "screen.rename", "screen.duplicate", "screen.remove",
   "universe.add", "universe.remove", "universe.restore"}
IsUniverse(c) == c.kind \in {"universe.add", "universe.remove", "universe.restore"}

\* The row that an UPDATE or a SELECT FOR UPDATE waits for.
DiscoveryLocks(c, db) ==
  IF IsUniverse(c) THEN <<<<"universe">>>>
  ELSE IF c.kind \in {"screen.rename", "screen.remove"} THEN <<<<"screen", c.screen>>>> ELSE <<>>

\* Mutated form: the version of the universe is not compared.
DiscoveryRefusesUnknown(c, seen) ==
  ~IsUniverse(c) /\ c.kind # "screen.create" /\ c.screen \notin DOMAIN seen.screens

\* SAVED_SCREEN_NOT_FOUND and VERSION_CONFLICT: a removed screen has neither name nor copy.
DiscoveryRefuses(c, seen) ==
  \/ IsUniverse(c) /\ seen.universe.version # c.version
  \/ /\ c.kind \in {"screen.rename", "screen.duplicate", "screen.remove"}
     /\ \/ c.screen \notin DOMAIN seen.screens
        \/ seen.screens[c.screen].deleted
        \/ c.kind # "screen.duplicate" /\ seen.screens[c.screen].version # c.version

\* The suffix that marks the name of a copy is left out.
WithScreen(screens, id, name) ==
  [n \in DOMAIN screens \union {id} |->
     IF n \in DOMAIN screens THEN screens[n] ELSE [name |-> name, version |-> 1, deleted |-> FALSE]]

DiscoveryAfter(c, seen, db, id) ==
  CASE c.kind = "screen.create" -> [db EXCEPT !.screens = WithScreen(@, id, c.name)]
    [] c.kind = "screen.duplicate" -> [db EXCEPT !.screens = WithScreen(@, id, seen.screens[c.screen].name)]
    [] c.kind = "screen.rename" -> [db EXCEPT !.screens[c.screen].name = c.name, !.screens[c.screen].version = @ + 1]
    [] c.kind = "screen.remove" -> [db EXCEPT !.screens[c.screen].deleted = TRUE, !.screens[c.screen].version = @ + 1]
    [] OTHER ->
         [db EXCEPT !.universe =
            [version |-> c.version + 1,
             changed |->
               IF c.kind = "universe.restore" THEN [s \in DOMAIN @.changed \ {c.symbol} |-> @.changed[s]]
               ELSE [s \in DOMAIN @.changed \union {c.symbol} |->
                       IF s = c.symbol THEN c.kind ELSE @.changed[s]]]]
=============================================================================
