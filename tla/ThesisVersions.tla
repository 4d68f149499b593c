--------------------------- MODULE ThesisVersions ---------------------------
(* thesis/thesisRepository.ts: versions of the thesis of a symbol and their    *)
(* monitored conditions. A command reads the tables it has locked (seen) and   *)
(* then writes, to tables that may have changed elsewhere.                     *)
EXTENDS Integers, SequencesExt

ThesisKinds == {"thesis.create", "conditions.create", "conditions.copy", "condition.delete"}

LatestVersion(theses, symbol) == Max({0} \union {t.version : t \in {u \in theses : u.symbol = symbol}})
IsCurrent(theses, symbol, id) ==
  \E t \in theses : t.id = id /\ t.symbol = symbol /\ t.version = LatestVersion(theses, symbol)
\* A thesis and its symbol are never changed: which symbol an id belongs to needs no lock.
SymbolOf(theses, id) == (CHOOSE t \in theses : t.id = id).symbol
ConditionOf(conditions, id) == CHOOSE c \in conditions : c.id = id
Listed(conditions, thesis) == {c \in conditions : c.thesis = thesis /\ ~c.deleted}

\* Mutated form: conditions are added without the lock of assertCurrent.
ThesisLocksOfVersions(c, db) ==
  IF c.kind = "thesis.create" THEN <<<<"symbol", c.symbol>>>> ELSE <<>>

\* THESIS_NOT_FOUND and CONDITION_NOT_FOUND, before any lock of the symbol.
ThesisIsUnknown(c, db) ==
  \/ c.kind = "conditions.copy" /\ ~\E t \in db.theses : t.id = c.thesis
  \/ c.kind = "condition.delete" /\ ~\E d \in db.conditions : d.id = c.condition

\* pg_advisory_xact_lock(hashtext(symbol)), and the row of a condition before it.
ThesisLocks(c, db) ==
  CASE c.kind = "condition.delete" ->
         <<<<"condition", c.condition>>,
           <<"symbol", SymbolOf(db.theses, ConditionOf(db.conditions, c.condition).thesis)>>>>
    [] c.kind = "conditions.copy" -> <<<<"symbol", SymbolOf(db.theses, c.thesis)>>>>
    [] OTHER -> <<<<"symbol", c.symbol>>>>

\* THESIS_VERSION_NOT_CURRENT.
ThesisRefuses(c, seen) ==
  CASE c.kind = "thesis.create" -> FALSE
    [] c.kind = "conditions.create" -> ~IsCurrent(seen.theses, c.symbol, c.thesis)
    [] c.kind = "conditions.copy" -> ~IsCurrent(seen.theses, SymbolOf(seen.theses, c.thesis), c.thesis)
    [] c.kind = "condition.delete" ->
         LET thesis == ConditionOf(seen.conditions, c.condition).thesis
         IN  ~IsCurrent(seen.theses, SymbolOf(seen.theses, thesis), thesis)

NewVersion(c, seen, id) == [id |-> id, symbol |-> c.symbol, version |-> LatestVersion(seen.theses, c.symbol) + 1]
NewConditions(c, seen, id) ==
  IF c.kind = "conditions.create"
  THEN {[id |-> d, thesis |-> c.thesis, deleted |-> FALSE] : d \in c.conditions}
  ELSE {[id |-> <<id, d.id>>, thesis |-> c.thesis, deleted |-> FALSE] : d \in Listed(seen.conditions, c.source)}

ThesisAfter(c, seen, db, id) ==
  CASE c.kind = "thesis.create" -> [db EXCEPT !.theses = @ \union {NewVersion(c, seen, id)}]
    [] c.kind = "condition.delete" ->
         [db EXCEPT !.conditions = {IF d.id = c.condition THEN [d EXCEPT !.deleted = TRUE] ELSE d : d \in @}]
    [] OTHER -> [db EXCEPT !.conditions = @ \union NewConditions(c, seen, id)]

\* unique (symbol, version) and the primary key of conditions.
ThesisViolates(c, seen, db, id) ==
  CASE c.kind = "thesis.create" ->
         \E t \in db.theses : t.symbol = c.symbol /\ t.version = NewVersion(c, seen, id).version
    [] c.kind = "condition.delete" -> FALSE
    [] OTHER -> \E d \in db.conditions, e \in NewConditions(c, seen, id) : d.id = e.id
=============================================================================
