----------------------------- MODULE Migrations ----------------------------
(***************************************************************************)
(* The SQL migrations (src/migrations): run_migrations                     *)
(* (src/src/db/migration.rs) runs the pending ones when a process starts,  *)
(* and their down scripts are for diesel's command line.                   *)
(*                                                                         *)
(* The harness lists what is pending once; then each script and the record *)
(* of its version are one transaction.  Nothing keeps two processes from   *)
(* starting on one database, one with a list that is out of date.          *)
(*                                                                         *)
(* Of a table the model keeps which definition it has, and of the rows     *)
(* those of dyndns, by whether their interval is the default one.          *)
(***************************************************************************)
EXTENDS Naturals, Sequences

CONSTANTS
  Processes,
  MaxRows      \* bound of the table dyndns

ASSUME MaxRowsAssumption == MaxRows \in Nat

VARIABLES
  applied,     \* how many migrations have their version recorded
  schema,      \* the definition each table has, "none" without the table
  intervals,   \* the rows of dyndns in the order of their ids
  at,          \* "down", "migrate" or "serve"
  next,        \* the migration a process runs next
  reverted     \* history variable: a down script was run

vars == <<applied, schema, intervals, at, next, reverted>>

Tables == {"dyndns", "history", "refresh_tokens", "auth_secrets"}

\* The migrations in the order of their directories.  One that does not create
\* its table renames it, creates it anew, copies the rows and drops the old
\* one; its down script is empty.
Scripts == <<
  [table |-> "dyndns",         makes |-> "plain",       creates |-> TRUE],
  [table |-> "history",        makes |-> "old_ip",      creates |-> TRUE],
  [table |-> "dyndns",         makes |-> "checked_ip",  creates |-> FALSE],
  [table |-> "history",        makes |-> "null_old_ip", creates |-> FALSE],
  [table |-> "dyndns",         makes |-> "interval",    creates |-> FALSE],
  [table |-> "refresh_tokens", makes |-> "tokens",      creates |-> TRUE],
  [table |-> "auth_secrets",   makes |-> "secret",      creates |-> TRUE] >>

\* schema.rs
Current == [t \in Tables |-> CASE t = "dyndns" -> "interval"
                               [] t = "history" -> "null_old_ip"
                               [] t = "refresh_tokens" -> "tokens"
                               [] t = "auth_secrets" -> "secret"]

Init ==
  /\ applied = 0
  /\ schema = [t \in Tables |-> "none"]
  /\ intervals = <<>>
  /\ at = [p \in Processes |-> "down"]
  /\ next = [p \in Processes |-> 1]
  /\ reverted = FALSE

\* What a script needs: CREATE TABLE that there is none, RENAME that there is one.
Runs(s) == s.creates <=> schema[s.table] = "none"

\* The rows a script leaves in dyndns: no INSERT ... SELECT copies an interval.
Migrated(s) == IF s.table = "dyndns" THEN [i \in DOMAIN intervals |-> "default"] ELSE intervals

-----------------------------------------------------------------------------
ListPending(p) ==
  /\ at[p] = "down"
  /\ at' = [at EXCEPT ![p] = "migrate"]
  /\ next' = [next EXCEPT ![p] = applied + 1]
  /\ UNCHANGED <<applied, schema, intervals, reverted>>

\* MUTANT of RunScript: the version is not recorded with the script.
RunScriptAgain(p) ==
  /\ at[p] = "migrate" /\ next[p] <= Len(Scripts)
  /\ LET s == Scripts[next[p]]
     IN  /\ Runs(s)
         /\ schema' = [schema EXCEPT ![s.table] = s.makes]
         /\ intervals' = Migrated(s)
  /\ applied' = IF next[p] > applied THEN next[p] ELSE applied
  /\ next' = [next EXCEPT ![p] = @ + 1]
  /\ UNCHANGED <<at, reverted>>

\* A script runs, and its version is not recorded yet.
RunScript(p) ==
  /\ at[p] = "migrate" /\ next[p] <= Len(Scripts)
  /\ next[p] > applied
  /\ LET s == Scripts[next[p]]
     IN  /\ Runs(s)
         /\ schema' = [schema EXCEPT ![s.table] = s.makes]
         /\ intervals' = Migrated(s)
  /\ applied' = next[p]
  /\ next' = [next EXCEPT ![p] = @ + 1]
  /\ UNCHANGED <<at, reverted>>

\* MUTANT of ScriptFails: the process goes on without the script.
ScriptSkipped(p) ==
  /\ at[p] = "migrate" /\ next[p] <= Len(Scripts)
  /\ next' = [next EXCEPT ![p] = @ + 1]
  /\ UNCHANGED <<applied, schema, intervals, at, reverted>>

\* The transaction is rolled back, since another process has recorded the
\* version or for any other reason: main panics.
ScriptFails(p) ==
  /\ at[p] = "migrate" /\ next[p] <= Len(Scripts)
  /\ at' = [at EXCEPT ![p] = "down"]
  /\ UNCHANGED <<applied, schema, intervals, next, reverted>>

Serve(p) ==
  /\ at[p] = "migrate" /\ next[p] > Len(Scripts)
  /\ at' = [at EXCEPT ![p] = "serve"]
  /\ UNCHANGED <<applied, schema, intervals, next, reverted>>

\* DynDNS::create, of a POST: a row with an id of its own.
Create(p) ==
  /\ at[p] = "serve"
  /\ Len(intervals) < MaxRows
  /\ \E i \in {"default", "own"} : intervals' = Append(intervals, i)
  /\ UNCHANGED <<applied, schema, at, next, reverted>>

\* DynDNS::update, of a PUT: the row with id 1 is overwritten.
Update(p) ==
  /\ at[p] = "serve"
  /\ intervals # <<>>
  /\ \E i \in {"default", "own"} : intervals' = [intervals EXCEPT ![1] = i]
  /\ UNCHANGED <<applied, schema, at, next, reverted>>

Stop(p) ==
  /\ at[p] = "serve"
  /\ at' = [at EXCEPT ![p] = "down"]
  /\ UNCHANGED <<applied, schema, intervals, next, reverted>>

\* MUTANT of Revert: the down script of a rebuilt table drops it as well.
RevertDropping ==
  /\ \A p \in Processes : at[p] = "down"
  /\ applied > 0
  /\ schema' = [schema EXCEPT ![Scripts[applied].table] = "none"]
  /\ intervals' = <<>>
  /\ applied' = applied - 1
  /\ reverted' = TRUE
  /\ UNCHANGED <<at, next>>

\* diesel migration revert runs the last down.sql while no process runs.
Revert ==
  /\ \A p \in Processes : at[p] = "down"
  /\ applied > 0
  /\ LET s == Scripts[applied]
     IN  /\ schema' = IF s.creates THEN [schema EXCEPT ![s.table] = "none"] ELSE schema
         /\ intervals' = IF s.creates /\ s.table = "dyndns" THEN <<>> ELSE intervals
  /\ applied' = applied - 1
  /\ reverted' = TRUE
  /\ UNCHANGED <<at, next>>

Next ==
  \/ Revert
  \/ \E p \in Processes : ListPending(p) \/ RunScript(p) \/ ScriptFails(p) \/ Serve(p)
                            \/ Create(p) \/ Update(p) \/ Stop(p)

Spec == Init /\ [][Next]_vars

-----------------------------------------------------------------------------
(* Properties. *)

\* However far the database was taken down before, the next migration runs:
\* a process that starts alone gets to serve.
StartsAnywhere ==
  applied < Len(Scripts) => Runs(Scripts[applied + 1])

\* A process serves only with the tables of schema.rs.
ServesCurrent ==
  \A p \in Processes : at[p] = "serve" => schema = Current

\* A process that starts late with an old list of pending migrations never
\* rebuilds a table that another one writes to: unless a migration was
\* reverted, no step of a process that goes through its list lets a configured
\* interval fall back to the default.  A PUT may.
IntervalsKept ==
  [][~ reverted /\ next' # next =>
       \A i \in DOMAIN intervals : intervals[i] = "own" => intervals'[i] = "own"]_vars

\* The definition of a table after n migrations.
Defined(t, n) ==
  LET on == {i \in 1..n : Scripts[i].table = t}
  IN  IF on = {} THEN "none" ELSE Scripts[CHOOSE i \in on : \A j \in on : j <= i].makes

\* "This file should undo anything in `up.sql`", says the down script of every
\* migration of 2023.
DownUndoesUp ==
  [][applied' < applied => \A t \in Tables : schema'[t] = Defined(t, applied')]_vars

-----------------------------------------------------------------------------
(* The inductive invariant behind them. *)

TypeOK ==
  /\ applied \in 0..Len(Scripts)
  /\ schema \in [Tables -> {"none"} \cup {Scripts[i].makes : i \in 1..Len(Scripts)}]
  /\ intervals \in Seq({"default", "own"})
  /\ at \in [Processes -> {"down", "migrate", "serve"}]
  /\ next \in [Processes -> Nat]
  /\ reverted \in BOOLEAN

\* A table is there from the migration that creates it on.  Until the one that
\* gives it its last definition it may have any of them, since the down scripts
\* of those that rebuild it are empty.
SchemaOK ==
  \A t \in Tables :
    LET on == {i \in 1..Len(Scripts) : Scripts[i].table = t}
    IN  /\ schema[t] = "none" <=> \A i \in on : i > applied
        /\ (\A i \in on : i <= applied) => schema[t] = Current[t]

\* A list of pending migrations begins with the next one or is out of date, and
\* who serves has found or made the last one.
ListOK ==
  \A p \in Processes :
    /\ at[p] = "migrate" => next[p] \in 1..(applied + 1)
    /\ at[p] = "serve" => applied = Len(Scripts)

\* Rows are written when every migration was run.
RowsLast == intervals # <<>> /\ ~ reverted => applied = Len(Scripts)

IInv == TypeOK /\ SchemaOK /\ ListOK /\ RowsLast
=============================================================================
