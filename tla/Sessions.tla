------------------------------ MODULE Sessions ------------------------------
(***************************************************************************)
(* What login, refresh and logout promise of a session, the chain of       *)
(* refresh tokens that descend from one login: a token at a time, each     *)
(* given for the one before it, which is gone by then, and none any more   *)
(* once the last is gone with no other due for it.                         *)
(*                                                                         *)
(* A session is named by its first token.  RefreshTokens implements this   *)
(* specification with a table, the statements of concurrent handlers,      *)
(* failures and expiry.                                                    *)
(***************************************************************************)
CONSTANT Tokens

VARIABLES
  stored,   \* the tokens that can be presented, each with its session
  due,      \* the tokens that are to be stored next
  used,     \* the tokens that were ever due
  raced     \* sessions of which nothing more is said

vars == <<stored, due, used, raced>>

Init == stored = {} /\ due = {} /\ used = {} /\ raced = {}

Of(s, T) == {k \in T : k.session = s}
Fresh(t) == t \notin used /\ used' = used \cup {t}

\* A login.
Open(s) ==
  /\ s \notin raced /\ Fresh(s)
  /\ due' = due \cup {[session |-> s, token |-> s]}
  /\ UNCHANGED <<stored, raced>>

\* A stored token was presented, and another one is to take its place.
Take(k, t) ==
  /\ Of(k.session, due) = {} /\ Fresh(t)
  /\ due' = due \cup {[session |-> k.session, token |-> t]}
  /\ UNCHANGED <<stored, raced>>

\* The token that is due is stored, when the one before it is gone.
Store(k) ==
  /\ Of(k.session, stored) = {}
  /\ stored' = stored \cup {k} /\ due' = due \ {k}
  /\ UNCHANGED <<used, raced>>

\* Tokens are exchanged, given up or expired.
Delete(K) ==
  /\ stored' = stored \ K
  /\ UNCHANGED <<due, used, raced>>

\* The exchange has failed.
Fail(k) ==
  /\ due' = due \ {k}
  /\ UNCHANGED <<stored, used, raced>>

\* Two requests of a session are made at once.
Race(s) ==
  /\ raced' = raced \cup {s}
  /\ stored' = stored \ Of(s, stored) /\ due' = due \ Of(s, due)
  /\ UNCHANGED used

\* A token is due in a session of which nothing is said.
Elsewhere(t) ==
  /\ raced # {} /\ Fresh(t)
  /\ UNCHANGED <<stored, due, raced>>

Next ==
  \/ \E k \in due : Store(k) \/ Fail(k)
  \/ \E k \in stored, t \in Tokens : Take(k, t)
  \/ \E K \in SUBSET stored : Delete(K)
  \/ \E s \in Tokens : Open(s) \/ Race(s) \/ Elsewhere(s)

Spec == Init /\ [][Next]_vars

\* A session that is over, with no token that is stored or due, does not come back.
Over(s) == s \in used /\ Of(s, stored \cup due) = {}
StaysOver == [][\A s \in Tokens : Over(s) => Over(s)']_vars
=============================================================================
