--------------------------- MODULE SchemaMigrations ---------------------------
(* db/migrate.ts: processes of different builds start at the same time, and each   *)
(* brings the schema to what its build knows in one transaction before it serves;  *)
(* migrations are named by their place in the list, which is the order of their    *)
(* names, too. platform/healthService.ts tells the last name.                      *)
EXTENDS FiniteSetsExt, SequencesExt

CONSTANTS
  Starters,   \* processes that migrate
  Known       \* Starters -> the number of migrations its build has

ASSUME MigrationsAssumption == Known \in [Starters -> Nat \ {0}]

VARIABLES
  schema,     \* the migrations that made the schema, in the order they ran
  names,      \* platform.schema_migration
  starter     \* Starters -> [pc, names, ran]: as read, and run in the open transaction

schemaVars == <<schema, names, starter>>

NotStarted == [pc |-> "down", names |-> {}, ran |-> <<>>]

SchemaInit ==
  /\ schema = <<>> /\ names = {}
  /\ starter = [s \in Starters |-> NotStarted]

Migrating(s) == starter[s].pc \in {"locked", "migrating"}

\* pg_advisory_xact_lock, until the transaction ends.
LockIsFree(s) == ~\E other \in Starters \ {s} : Migrating(other)

TakeLock(s) ==
  /\ starter[s].pc = "down" /\ LockIsFree(s)
  /\ starter' = [starter EXCEPT ![s].pc = "locked"]
  /\ UNCHANGED <<schema, names>>

ReadNames(s) ==
  /\ starter[s].pc = "locked"
  /\ starter' = [starter EXCEPT ![s].pc = "migrating", ![s].names = names]
  /\ UNCHANGED <<schema, names>>

\* The migrations of the build that are neither recorded nor run.
Missing(s) == {m \in 1..Known[s] : m \notin starter[s].names \union Range(starter[s].ran)}

RunNext(s) ==
  /\ starter[s].pc = "migrating" /\ Missing(s) # {}
  /\ starter' = [starter EXCEPT ![s].ran = Append(@, Min(Missing(s)))]
  /\ UNCHANGED <<schema, names>>

CommitMigrations(s) ==
  /\ starter[s].pc = "migrating" /\ Missing(s) = {}
  /\ schema' = schema \o starter[s].ran
  /\ names' = names \union Range(starter[s].ran)
  /\ starter' = [starter EXCEPT ![s] = [NotStarted EXCEPT !.pc = "serving"]]

\* The process ends, or a statement throws: nothing of its transaction stays.
StarterDies(s) ==
  /\ starter[s].pc # "down"
  /\ starter' = [starter EXCEPT ![s] = NotStarted]
  /\ UNCHANGED <<schema, names>>

SchemaNext ==
  \E s \in Starters :
    TakeLock(s) \/ ReadNames(s) \/ RunNext(s) \/ CommitMigrations(s) \/ StarterDies(s)

\* The last name, 0 for "none".
MigrationVersion == Max({0} \union names)

\* What the program says with --check, and an operator before a start.
UpToDate(s) == MigrationVersion = Known[s]

\* Every migration has run once and in order, however many processes started together
\* and wherever one died; who serves has the whole schema of its build; and the last
\* name alone, which --check and the health answer go by, is enough to know all of this.
SchemaIsWhole ==
  /\ schema = [i \in 1..Len(schema) |-> i]
  /\ \A s \in Starters :
       starter[s].pc = "serving" \/ UpToDate(s) => 1..Known[s] \subseteq Range(schema) \intersect names
=============================================================================
