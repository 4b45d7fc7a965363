-------------------------- MODULE MigrationsProofs --------------------------
(***************************************************************************)
(* Proofs about Migrations, for any number of processes and of rows.       *)
(***************************************************************************)
EXTENDS Migrations, TLAPS

-----------------------------------------------------------------------------
(* What the scripts say. *)

LEMMA ScriptTables ==
  /\ Len(Scripts) = 7
  /\ \A i \in 1..7 : /\ Scripts[i].table \in Tables
                     /\ Scripts[i].table = "dyndns" <=> i \in {1, 3, 5}
                     /\ Scripts[i].table = "history" <=> i \in {2, 4}
                     /\ Scripts[i].table = "refresh_tokens" <=> i = 6
                     /\ Scripts[i].table = "auth_secrets" <=> i = 7
                     /\ Scripts[i].creates <=> i \in {1, 2, 6, 7}
                     /\ Scripts[i].makes # "none"
<1>1. /\ Len(Scripts) = 7
      /\ Scripts[1] = [table |-> "dyndns", makes |-> "plain", creates |-> TRUE]
      /\ Scripts[2] = [table |-> "history", makes |-> "old_ip", creates |-> TRUE]
      /\ Scripts[3] = [table |-> "dyndns", makes |-> "checked_ip", creates |-> FALSE]
      /\ Scripts[4] = [table |-> "history", makes |-> "null_old_ip", creates |-> FALSE]
      /\ Scripts[5] = [table |-> "dyndns", makes |-> "interval", creates |-> FALSE]
      /\ Scripts[6] = [table |-> "refresh_tokens", makes |-> "tokens", creates |-> TRUE]
      /\ Scripts[7] = [table |-> "auth_secrets", makes |-> "secret", creates |-> TRUE]
  BY DEF Scripts
<1>2. \A i \in 1..7 : i = 1 \/ i = 2 \/ i = 3 \/ i = 4 \/ i = 5 \/ i = 6 \/ i = 7
  OBVIOUS
<1>. QED
  BY <1>1, <1>2 DEF Tables

LEMMA CurrentScripts ==
  /\ Current["dyndns"] = Scripts[5].makes
  /\ Current["history"] = Scripts[4].makes
  /\ Current["refresh_tokens"] = Scripts[6].makes
  /\ Current["auth_secrets"] = Scripts[7].makes
  /\ Current = [t \in Tables |-> Current[t]]
BY DEF Current, Scripts, Tables

-----------------------------------------------------------------------------
(* SchemaOK, table by table: which migration creates it and which one gives it *)
(* its last definition.                                                        *)

Created == [dyndns |-> 1, history |-> 2, refresh_tokens |-> 6, auth_secrets |-> 7]
Finished == [dyndns |-> 5, history |-> 4, refresh_tokens |-> 6, auth_secrets |-> 7]

LEMMA SchemaByTable ==
  ASSUME NEW n \in 0..7, NEW t \in Tables
  PROVE  /\ (\A i \in {i \in 1..Len(Scripts) : Scripts[i].table = t} : i > n) <=> n < Created[t]
         /\ (\A i \in {i \in 1..Len(Scripts) : Scripts[i].table = t} : i <= n) <=> n >= Finished[t]
         /\ Created[t] \in 1..7 /\ Finished[t] \in 1..7
<1>1. CASE t = "dyndns"
  <2>1. \A i : i \in {j \in 1..Len(Scripts) : Scripts[j].table = t} <=> i \in {1, 3, 5}
    BY <1>1, ScriptTables
  <2>. QED
    BY <1>1, <2>1 DEF Created, Finished
<1>2. CASE t = "history"
  <2>1. \A i : i \in {j \in 1..Len(Scripts) : Scripts[j].table = t} <=> i \in {2, 4}
    BY <1>2, ScriptTables
  <2>. QED
    BY <1>2, <2>1 DEF Created, Finished
<1>3. CASE t = "refresh_tokens"
  <2>1. \A i : i \in {j \in 1..Len(Scripts) : Scripts[j].table = t} <=> i \in {6}
    BY <1>3, ScriptTables
  <2>. QED
    BY <1>3, <2>1 DEF Created, Finished
<1>4. CASE t = "auth_secrets"
  <2>1. \A i : i \in {j \in 1..Len(Scripts) : Scripts[j].table = t} <=> i \in {7}
    BY <1>4, ScriptTables
  <2>. QED
    BY <1>4, <2>1 DEF Created, Finished
<1>. QED
  BY <1>1, <1>2, <1>3, <1>4 DEF Tables

\* What SchemaOK says, in those terms.
SchemaShape(s, n) ==
  \A t \in Tables : /\ s[t] = "none" <=> n < Created[t]
                    /\ n >= Finished[t] => s[t] = Current[t]

LEMMA SchemaIsShape ==
  ASSUME NEW n \in 0..7, n = applied
  PROVE  SchemaOK <=> SchemaShape(schema, n)
BY SchemaByTable DEF SchemaOK, SchemaShape

LEMMA NextSchemaIsShape ==
  ASSUME NEW n \in 0..7, n = applied'
  PROVE  SchemaOK' <=> SchemaShape(schema', n)
BY SchemaByTable DEF SchemaOK, SchemaShape

\* The next script runs, on whatever a revert left.
LEMMA NextRuns ==
  ASSUME TypeOK, SchemaOK, applied < Len(Scripts)
  PROVE  Runs(Scripts[applied + 1])
<1>1. applied \in 0..7 /\ applied + 1 \in 1..7 /\ SchemaShape(schema, applied)
  BY ScriptTables, SchemaIsShape DEF TypeOK
<1>2. applied + 1 \in {1, 2, 6, 7} <=> schema[Scripts[applied + 1].table] = "none"
  BY <1>1, ScriptTables DEF SchemaShape, Created, Tables
<1>. QED
  BY <1>1, <1>2, ScriptTables DEF Runs

\* It makes the table what it is to be after it.
LEMMA ScriptMakes ==
  ASSUME NEW n \in 0..6, NEW S, NEW s \in [Tables -> S], SchemaShape(s, n)
  PROVE  SchemaShape([s EXCEPT ![Scripts[n + 1].table] = Scripts[n + 1].makes], n + 1)
<1>. DEFINE k == n + 1
            next_s == [s EXCEPT ![Scripts[k].table] = Scripts[k].makes]
<1>1. k \in 1..7 /\ Scripts[k].table \in Tables /\ Scripts[k].makes # "none"
  BY ScriptTables
<1>2. SUFFICES ASSUME NEW t \in Tables
               PROVE  /\ next_s[t] = "none" <=> k < Created[t]
                      /\ k >= Finished[t] => next_s[t] = Current[t]
  BY DEF SchemaShape
<1>3. CASE t = Scripts[k].table
  <2>1. next_s[t] = Scripts[k].makes
    BY <1>3
  <2>2. k >= Created[t]
    BY <1>1, <1>3, ScriptTables DEF Created, Tables
  <2>3. k >= Finished[t] => k = Finished[t]
    BY <1>1, <1>3, ScriptTables DEF Finished, Tables
  <2>4. Current[t] = Scripts[Finished[t]].makes
    BY CurrentScripts DEF Finished, Tables
  <2>5. Created[t] \in 1..7
    BY DEF Created, Tables
  <2>. QED
    BY <1>1, <2>1, <2>2, <2>3, <2>4, <2>5
<1>4. CASE t # Scripts[k].table
  <2>1. next_s[t] = s[t]
    BY <1>4
  <2>2. k # Created[t] /\ k # Finished[t]
    BY <1>1, <1>4, ScriptTables DEF Created, Finished, Tables
  <2>3. Created[t] \in 1..7 /\ Finished[t] \in 1..7
    BY SchemaByTable
  <2>. QED
    BY <1>1, <2>1, <2>2, <2>3 DEF SchemaShape
<1>. QED
  BY <1>3, <1>4

\* Reverting a script leaves the shape it had before, or a later one.
LEMMA RevertMakes ==
  ASSUME NEW n \in 1..7, NEW S, NEW s \in [Tables -> S], SchemaShape(s, n)
  PROVE  SchemaShape(IF Scripts[n].creates THEN [s EXCEPT ![Scripts[n].table] = "none"] ELSE s, n - 1)
<1>. DEFINE next_s == IF Scripts[n].creates THEN [s EXCEPT ![Scripts[n].table] = "none"] ELSE s
<1>1. Scripts[n].table \in Tables
  BY ScriptTables
<1>2. SUFFICES ASSUME NEW t \in Tables
               PROVE  /\ next_s[t] = "none" <=> n - 1 < Created[t]
                      /\ n - 1 >= Finished[t] => next_s[t] = Current[t]
  BY DEF SchemaShape
<1>3. /\ Created[t] \in 1..7 /\ Finished[t] \in 1..7 /\ Created[t] <= Finished[t]
      /\ s[t] = "none" <=> n < Created[t]
      /\ n >= Finished[t] => s[t] = Current[t]
  BY DEF SchemaShape, Created, Finished, Tables
<1>4. CASE t = Scripts[n].table /\ Scripts[n].creates
  <2>1. n = Created[t]
    BY <1>4, ScriptTables DEF Created, Tables
  <2>2. next_s[t] = "none"
    BY <1>1, <1>4
  <2>. QED
    BY <1>3, <2>1, <2>2
<1>5. CASE t = Scripts[n].table /\ ~ Scripts[n].creates
  <2>1. n > Created[t]
    BY <1>5, ScriptTables DEF Created, Tables
  <2>2. next_s[t] = s[t]
    BY <1>5
  <2>. QED
    BY <1>3, <2>1, <2>2
<1>6. CASE t # Scripts[n].table
  <2>1. n # Created[t]
    BY <1>6, ScriptTables DEF Created, Tables
  <2>2. next_s[t] = s[t]
    BY <1>6
  <2>. QED
    BY <1>3, <2>1, <2>2
<1>. QED
  BY <1>4, <1>5, <1>6

-----------------------------------------------------------------------------
(* The inductive invariant. *)

LEMMA InitIInv == Init => IInv
<1>. SUFFICES ASSUME Init PROVE IInv
  OBVIOUS
<1>1. /\ applied = 0 /\ applied \in 0..7 /\ schema = [t \in Tables |-> "none"]
      /\ intervals = <<>> /\ reverted = FALSE
      /\ at = [p \in Processes |-> "down"] /\ next = [p \in Processes |-> 1]
  BY DEF Init
<1>2. TypeOK
  <2>1. applied \in 0..Len(Scripts)
    BY <1>1, ScriptTables
  <2>2. intervals \in Seq({"default", "own"})
    BY <1>1
  <2>3. schema \in [Tables -> {"none"} \cup {Scripts[i].makes : i \in 1..Len(Scripts)}]
    BY <1>1
  <2>. QED
    BY <1>1, <2>1, <2>2, <2>3 DEF TypeOK
<1>3. SchemaShape(schema, applied)
  BY <1>1 DEF SchemaShape, Created, Finished, Tables
<1>. QED
  BY <1>1, <1>2, <1>3, SchemaIsShape DEF IInv, ListOK, RowsLast

\* A process that runs a script runs the next one.
LEMMA ScriptRun ==
  ASSUME IInv, NEW p \in Processes, RunScript(p)
  PROVE  /\ applied \in 0..6 /\ applied' = applied + 1 /\ next[p] = applied + 1
         /\ schema' = [schema EXCEPT ![Scripts[applied + 1].table] = Scripts[applied + 1].makes]
         /\ intervals' = Migrated(Scripts[applied + 1])
         /\ next' = [next EXCEPT ![p] = applied + 2] /\ UNCHANGED <<at, reverted>>
<1>1. applied \in 0..7 /\ next \in [Processes -> Nat] /\ next[p] \in 1..(applied + 1)
  BY ScriptTables DEF IInv, TypeOK, ListOK, RunScript
<1>2. next[p] = applied + 1 /\ applied \in 0..6
  BY <1>1, ScriptTables DEF RunScript
<1>. QED
  BY <1>1, <1>2 DEF RunScript

LEMMA Step == IInv /\ [Next]_vars => IInv'
<1>. SUFFICES ASSUME IInv, [Next]_vars PROVE IInv'
  OBVIOUS
<1>t. /\ TypeOK /\ SchemaOK /\ ListOK /\ RowsLast
      /\ applied \in 0..7 /\ Len(Scripts) = 7
      /\ schema \in [Tables -> {"none"} \cup {Scripts[i].makes : i \in 1..Len(Scripts)}]
      /\ intervals \in Seq({"default", "own"})
      /\ at \in [Processes -> {"down", "migrate", "serve"}]
      /\ next \in [Processes -> Nat]
      /\ reverted \in BOOLEAN
      /\ SchemaShape(schema, applied)
  BY ScriptTables, SchemaIsShape DEF IInv, TypeOK
<1>1. CASE Revert
  <2>1. applied \in 1..7 /\ applied' = applied - 1 /\ applied' \in 0..7
    BY <1>1, <1>t DEF Revert
  <2>2. SchemaOK'
    <3>1. SchemaShape(schema', applied')
      BY <1>1, <1>t, <2>1, RevertMakes DEF Revert
    <3>. QED
      BY <2>1, <3>1, NextSchemaIsShape
  <2>3. TypeOK'
    <3>1. schema' \in [Tables -> {"none"} \cup {Scripts[i].makes : i \in 1..Len(Scripts)}]
      BY <1>1, <1>t DEF Revert
    <3>2. intervals' \in Seq({"default", "own"})
      BY <1>1, <1>t DEF Revert
    <3>. QED
      BY <1>1, <1>t, <2>1, <3>1, <3>2 DEF Revert, TypeOK
  <2>. QED
    BY <1>1, <1>t, <2>2, <2>3 DEF Revert, IInv, ListOK, RowsLast
<1>2. ASSUME NEW p \in Processes, RunScript(p)
      PROVE  IInv'
  <2>1. /\ applied \in 0..6 /\ applied' = applied + 1 /\ next[p] = applied + 1
        /\ schema' = [schema EXCEPT ![Scripts[applied + 1].table] = Scripts[applied + 1].makes]
        /\ intervals' = Migrated(Scripts[applied + 1])
        /\ next' = [next EXCEPT ![p] = applied + 2] /\ UNCHANGED <<at, reverted>>
    BY <1>2, ScriptRun
  <2>2. SchemaOK'
    <3>1. SchemaShape(schema', applied + 1)
      BY <1>t, <2>1, ScriptMakes
    <3>. QED
      BY <2>1, <3>1, NextSchemaIsShape
  <2>3. intervals' \in Seq({"default", "own"}) /\ (intervals = <<>> => intervals' = <<>>)
    <3>1. DOMAIN intervals = 1..Len(intervals) /\ Len(intervals) \in Nat
      BY <1>t
    <3>2. [i \in DOMAIN intervals |-> "default"] \in Seq({"default", "own"})
      BY <3>1
    <3>3. intervals = <<>> => [i \in DOMAIN intervals |-> "default"] = <<>>
      BY <3>1
    <3>. QED
      BY <1>t, <2>1, <3>2, <3>3 DEF Migrated
  <2>4. TypeOK'
    <3>1. applied + 1 \in 1..Len(Scripts) /\ applied + 2 \in Nat
      BY <1>t, <2>1
    <3>2. schema' \in [Tables -> {"none"} \cup {Scripts[i].makes : i \in 1..Len(Scripts)}]
      BY <1>t, <2>1, <3>1
    <3>. QED
      BY <1>t, <2>1, <2>3, <3>1, <3>2 DEF TypeOK
  <2>5. ListOK'
    <3>1. ASSUME NEW q \in Processes
          PROVE  /\ at[q] = "migrate" => next'[q] \in 1..(applied + 2)
                 /\ at[q] # "serve"
      BY <1>t, <2>1 DEF ListOK
    <3>. QED
      BY <2>1, <3>1 DEF ListOK
  <2>6. RowsLast'
    BY <1>t, <2>1, <2>3 DEF RowsLast
  <2>. QED
    BY <2>2, <2>4, <2>5, <2>6 DEF IInv
<1>3. ASSUME NEW p \in Processes, ListPending(p) \/ ScriptFails(p) \/ Serve(p) \/ Stop(p)
      PROVE  IInv'
  <2>1. /\ UNCHANGED <<applied, schema, intervals, reverted>>
        /\ at' \in [Processes -> {"down", "migrate", "serve"}] /\ next' \in [Processes -> Nat]
        /\ \A q \in Processes : q # p => at'[q] = at[q] /\ next'[q] = next[q]
        /\ at'[p] = "migrate" => next'[p] = applied + 1
        /\ at'[p] = "serve" => at[p] = "migrate" /\ next[p] > 7
    <3>1. CASE ListPending(p)
      BY <1>t, <3>1 DEF ListPending
    <3>2. CASE ScriptFails(p) \/ Serve(p) \/ Stop(p)
      BY <1>t, <3>2 DEF ScriptFails, Serve, Stop
    <3>. QED
      BY <1>3, <3>1, <3>2
  <2>2. ListOK'
    <3>1. SUFFICES ASSUME NEW q \in Processes
                   PROVE  /\ at'[q] = "migrate" => next'[q] \in 1..(applied + 1)
                          /\ at'[q] = "serve" => applied = Len(Scripts)
      BY <2>1 DEF ListOK
    <3>2. /\ at[q] = "migrate" => next[q] \in 1..(applied + 1)
          /\ at[q] = "serve" => applied = Len(Scripts)
      BY <1>t DEF ListOK
    <3>. QED
      BY <1>t, <2>1, <3>2
  <2>3. SchemaOK' /\ RowsLast'
    BY <1>t, <2>1 DEF SchemaOK, RowsLast
  <2>. QED
    BY <1>t, <2>1, <2>2, <2>3 DEF IInv, TypeOK
<1>4. ASSUME NEW p \in Processes, Create(p) \/ Update(p)
      PROVE  IInv'
  <2>1. UNCHANGED <<applied, schema, at, next, reverted>> /\ applied = Len(Scripts)
    BY <1>4, <1>t DEF Create, Update, ListOK
  <2>2. intervals' \in Seq({"default", "own"})
    <3>1. CASE Create(p)
      BY <1>t, <3>1 DEF Create
    <3>2. CASE Update(p)
      BY <1>t, <3>2 DEF Update
    <3>. QED
      BY <1>4, <3>1, <3>2
  <2>. QED
    BY <1>t, <2>1, <2>2 DEF IInv, TypeOK, SchemaOK, ListOK, RowsLast
<1>5. CASE UNCHANGED vars
  BY <1>5, <1>t DEF vars, IInv, TypeOK, SchemaOK, ListOK, RowsLast
<1>. QED
  BY <1>1, <1>2, <1>3, <1>4, <1>5 DEF Next

-----------------------------------------------------------------------------
(* The theorems. *)

\* What run_migrations and the down scripts leave of every table, and where each
\* process is in its list of pending scripts.
THEOREM Inductive == Spec => []IInv
<1>. QED
  BY InitIInv, Step, PTL DEF Spec

\* Whatever was reverted before, the next migration runs.
THEOREM EveryStartMigrates == Spec => []StartsAnywhere
<1>1. IInv => StartsAnywhere
  BY NextRuns DEF IInv, StartsAnywhere
<1>. QED
  BY <1>1, Inductive, PTL

\* Who serves does so with the tables of schema.rs.
THEOREM SchemaIsCurrent == Spec => []ServesCurrent
<1>1. IInv => ServesCurrent
  <2>1. SUFFICES ASSUME IInv, NEW p \in Processes, at[p] = "serve"
                 PROVE  schema = Current
    BY DEF ServesCurrent
  <2>2. applied = 7 /\ SchemaShape(schema, applied)
    BY <2>1, ScriptTables, SchemaIsShape DEF IInv, ListOK, TypeOK
  <2>3. \A t \in Tables : schema[t] = Current[t]
    BY <2>2 DEF SchemaShape, Finished, Tables
  <2>4. schema = [t \in Tables |-> schema[t]]
    BY <2>1 DEF IInv, TypeOK
  <2>. QED
    BY <2>3, <2>4, CurrentScripts
<1>. QED
  BY <1>1, Inductive, PTL

\* No process that migrates resets a configured interval, unless a migration
\* was reverted.
THEOREM OwnIntervalsStay == Spec => IntervalsKept
<1>1. IInv /\ [Next]_vars =>
        [~ reverted /\ next' # next =>
           \A i \in DOMAIN intervals : intervals[i] = "own" => intervals'[i] = "own"]_vars
  <2>. SUFFICES ASSUME IInv, Next, ~ reverted, next' # next,
                       NEW i \in DOMAIN intervals, intervals[i] = "own"
                PROVE  intervals'[i] = "own"
    OBVIOUS
  <2>1. applied = 7 /\ intervals # <<>>
    BY ScriptTables DEF IInv, TypeOK, RowsLast
  <2>2. \A p \in Processes : ~ RunScript(p)
    BY <2>1, ScriptRun
  <2>3. PICK p \in Processes : ListPending(p)
    BY <2>2 DEF Next, Revert, ScriptFails, Serve, Create, Update, Stop
  <2>. QED
    BY <2>3 DEF ListPending
<1>. QED
  BY <1>1, Inductive, PTL DEF Spec, IntervalsKept
=============================================================================
