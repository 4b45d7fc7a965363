----------------------------- MODULE AuthSecret ----------------------------
(***************************************************************************)
(* How processes that start on one database come by the secret that signs  *)
(* access tokens: AuthSecretRecord::load_or_create (src/src/db/models.rs)  *)
(* from AuthManager::new (auth/manager.rs), with main's way to the server  *)
(* (main.rs).  The check and the insert are two statements, a process may  *)
(* die anywhere, and any number of them may start at once: a container and *)
(* its successor, say, on one volume.                                      *)
(***************************************************************************)
EXTENDS Naturals, FiniteSets

CONSTANTS
  Processes,
  Secrets,      \* random_urlsafe_string(64) never draws one of them twice
  None          \* no secret

ASSUME NoneAssumption == None \notin Secrets

VARIABLES
  auth_secrets,   \* the row with id 1 of the table, or None
  at,             \* "down", "get", "insert", "bind", "serve"
  secret,         \* what load_or_create has in hand, then what the keys are of
  drawn,          \* the secrets that were drawn
  signed          \* history variable: the secrets tokens were signed with

vars == <<auth_secrets, at, secret, drawn, signed>>

Init ==
  /\ auth_secrets = None
  /\ at = [p \in Processes |-> "down"]
  /\ secret = [p \in Processes |-> None]
  /\ drawn = {}
  /\ signed = {}

Goto(p, phase) == at' = [at EXCEPT ![p] = phase]

\* run_migrations and init_dbpool are done.
Start(p) ==
  /\ at[p] = "down"
  /\ Goto(p, "get")
  /\ UNCHANGED <<auth_secrets, secret, drawn, signed>>

\* get: the row that is there.
LoadSecret(p) ==
  /\ at[p] = "get"
  /\ auth_secrets # None
  /\ secret' = [secret EXCEPT ![p] = auth_secrets]
  /\ Goto(p, "bind")
  /\ UNCHANGED <<auth_secrets, drawn, signed>>

\* get: no row, so that a secret is drawn.
DrawSecret(p) ==
  /\ at[p] = "get"
  /\ auth_secrets = None
  /\ \E s \in Secrets \ drawn :
       secret' = [secret EXCEPT ![p] = s] /\ drawn' = drawn \cup {s}
  /\ Goto(p, "insert")
  /\ UNCHANGED <<auth_secrets, signed>>

\* MUTANT of InsertSecret: replace_into instead of insert_into.
ReplaceSecret(p) ==
  /\ at[p] = "insert"
  /\ auth_secrets' = secret[p]
  /\ Goto(p, "bind")
  /\ UNCHANGED <<secret, drawn, signed>>

\* MUTANT of InsertSecret: a unique violation counts as created.
InsertSecretOrGoOn(p) ==
  /\ at[p] = "insert"
  /\ auth_secrets' = IF auth_secrets = None THEN secret[p] ELSE auth_secrets
  /\ Goto(p, "bind")
  /\ UNCHANGED <<secret, drawn, signed>>

\* insert with id 1.
InsertSecret(p) ==
  /\ at[p] = "insert"
  /\ auth_secrets = None
  /\ auth_secrets' = secret[p]
  /\ Goto(p, "bind")
  /\ UNCHANGED <<secret, drawn, signed>>

\* The insert comes second: a unique violation, at which main panics.
InsertConflicts(p) ==
  /\ at[p] = "insert"
  /\ auth_secrets # None
  /\ Goto(p, "down")
  /\ secret' = [secret EXCEPT ![p] = None]
  /\ UNCHANGED <<auth_secrets, drawn, signed>>

\* The listener is bound, and tokens are signed with the keys of AuthManager.
Serve(p) ==
  /\ at[p] = "bind"
  /\ Goto(p, "serve")
  /\ UNCHANGED <<auth_secrets, secret, drawn, signed>>

Sign(p) ==
  /\ at[p] = "serve"
  /\ signed' = signed \cup {secret[p]}
  /\ UNCHANGED <<auth_secrets, at, secret, drawn>>

\* The process dies or is stopped; an error of a step above is a panic.
Die(p) ==
  /\ at[p] # "down"
  /\ Goto(p, "down")
  /\ secret' = [secret EXCEPT ![p] = None]
  /\ UNCHANGED <<auth_secrets, drawn, signed>>

Next == \E p \in Processes : Start(p) \/ LoadSecret(p) \/ DrawSecret(p) \/ InsertSecret(p)
                               \/ InsertConflicts(p) \/ Serve(p) \/ Sign(p) \/ Die(p)

Spec == Init /\ [][Next]_vars

-----------------------------------------------------------------------------
(* Properties. *)

\* The type invariant of the row and the processes.
TypeOK ==
  /\ auth_secrets \in Secrets \cup {None}
  /\ at \in [Processes -> {"down", "get", "insert", "bind", "serve"}]
  /\ secret \in [Processes -> Secrets \cup {None}]
  /\ drawn \subseteq Secrets
  /\ signed \subseteq Secrets

\* Every access token ever signed, by this process, by one before it or by one
\* beside it, has a signature that every serving process accepts.
SignaturesLast ==
  \A p \in Processes : at[p] = "serve" => signed \subseteq {secret[p]}

\* The secret in the database never changes, however many processes start.
SecretKept ==
  [][auth_secrets # None => auth_secrets' = auth_secrets]_vars

\* The inductive invariant: past load_or_create a process has the stored secret.
IInv ==
  /\ TypeOK
  /\ \A p \in Processes : at[p] \in {"bind", "serve"} => auth_secrets # None /\ secret[p] = auth_secrets
  /\ \A p \in Processes : at[p] = "insert" => secret[p] # None
  /\ signed \subseteq {auth_secrets}
=============================================================================
