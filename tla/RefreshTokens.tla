--------------------------- MODULE RefreshTokens ---------------------------
(***************************************************************************)
(* POST /api/auth/login, refresh and logout (src/src/api/auth.rs) on the   *)
(* refresh_tokens table: AuthManager (auth/manager.rs),                    *)
(* RefreshTokenService (auth/token/refresh.rs), RefreshTokenRecord         *)
(* (db/models.rs), and how long an access token is accepted                *)
(* (auth/token/access.rs, middleware/auth.rs).                             *)
(*                                                                         *)
(* A handler reads the clock once, then awaits one statement after the     *)
(* other, with no transaction over them.  Every statement is a step;       *)
(* handlers interleave between them, a statement may fail, a client that   *)
(* disconnects has its handler dropped; the statement it awaited is with a *)
(* blocking thread already and may run much later.                         *)
(*                                                                         *)
(* A refresh token is a selector, drawn at random, and a verifier, of      *)
(* which the table has a hash.  Verifiers do not repeat: the one of a      *)
(* token is the request that made it.  Selectors may be drawn again.       *)
(***************************************************************************)
EXTENDS Naturals, FiniteSets

CONSTANTS
  Requests,         \* the requests that are made, each once
  Selectors,
  None,             \* no selector, verifier or session
  TokenTTL,         \* token_ttl_seconds
  RefreshTTL,       \* refresh_token_ttl_seconds
  TicksPerSecond,   \* the clock is finer than the seconds of a JWT
  MaxTime,          \* bound of the clock
  MaxFailures       \* bound: statements that fail, clients that disconnect

ASSUME NoneAssumption == None \notin Requests \cup Selectors
\* Auth::validate: a process with any other lives does not start.
Valid == TokenTTL # 0 /\ RefreshTTL # 0 /\ RefreshTTL > TokenTTL

ASSUME TimeAssumption ==
  /\ TokenTTL \in Nat /\ RefreshTTL \in Nat /\ Valid
  /\ TicksPerSecond \in Nat \ {0}
  /\ MaxTime \in Nat /\ MaxFailures \in Nat

VARIABLES
  clock,
  refresh_tokens,   \* the table; its primary key is the selector
  req,              \* the handlers: where they are, and their locals
  failures,         \* counter of the bound
  spent,            \* history variable: tokens whose row a refresh or a
                    \* logout deleted after it had verified them
  overlapped        \* history variable: sessions of which two requests were
                    \* under way at once

vars == <<clock, refresh_tokens, req, failures, spent, overlapped>>

Token == [selector : Selectors \cup {None}, verifier : Requests \cup {None}]
Record == [selector : Selectors, verifier : Requests, expires_at : Nat]
NoToken == [selector |-> None, verifier |-> None]

Kinds == {"login", "refresh", "logout"}
Running == {"find", "drop", "delete", "clean", "sweep", "insert"}
Phases == Running \cup {"new", "ok", "failed"}

\* `token` is what the client presented, `session` the login it descends from,
\* `found` whether its row was there and verified, `issued` the selector of the
\* token in the answer, whose verifier is the request itself; `gone` is a handler
\* that was dropped and has left a statement.
Handler == [at : Phases, kind : Kinds, now : Nat, token : Token,
            session : Requests \cup {None}, found : BOOLEAN,
            issued : Selectors \cup {None}, gone : BOOLEAN]

Init ==
  /\ clock = 0
  /\ refresh_tokens = {}
  /\ req = [r \in Requests |->
              [at |-> "new", kind |-> "login", now |-> 0, token |-> NoToken,
               session |-> None, found |-> FALSE, issued |-> None, gone |-> FALSE]]
  /\ failures = 0
  /\ spent = {}
  /\ overlapped = {}

At(r, phase) == req[r].at = phase
InFlight(r) == req[r].at \in Running /\ ~ req[r].gone
Answered(r) == At(r, "ok") /\ req[r].kind \in {"login", "refresh"}

\* Where a handler is once its statement ran; one that is gone awaits no more.
Goto(r, phase) ==
  req' = [req EXCEPT ![r] = [@ EXCEPT !.at = IF req[r].gone THEN "failed" ELSE phase,
                                      !.gone = FALSE]]

-----------------------------------------------------------------------------
(* The table's statements. *)

\* MUTANT of Expired: the column created_at is compared.
ExpiredOrOlder(now) == {k \in refresh_tokens : k.expires_at <= now + RefreshTTL * TicksPerSecond}

\* RefreshTokenRecord::delete_expired, with the handler's own `now`.
Expired(now) == {k \in refresh_tokens : k.expires_at <= now}

\* RefreshTokenRecord::find and delete.
Rows(selector) == {k \in refresh_tokens : k.selector = selector}

\* MUTANT of RefreshExpiry: milliseconds for seconds.
RefreshExpiryMillis(now) == now + RefreshTTL * 1000 * TicksPerSecond

RefreshExpiry(now) == now + RefreshTTL * TicksPerSecond

-----------------------------------------------------------------------------
(* The requests. *)

\* authenticate, with the credentials that are right.
Login(r) ==
  /\ At(r, "new")
  /\ req' = [req EXCEPT ![r] = [@ EXCEPT !.at = "sweep", !.now = clock, !.session = r]]
  /\ UNCHANGED <<clock, refresh_tokens, failures, spent, overlapped>>

\* refresh or revoke: any token that was ever in an answer is presented.
Present(r, kind) ==
  /\ At(r, "new")
  /\ \E q \in Requests :
       /\ Answered(q)
       /\ req' = [req EXCEPT ![r] =
            [@ EXCEPT !.at = "find", !.kind = kind, !.now = clock,
                      !.token = [selector |-> req[q].issued, verifier |-> q],
                      !.session = req[q].session]]
       /\ overlapped' = IF \E p \in Requests : InFlight(p) /\ req[p].session = req[q].session
                        THEN overlapped \cup {req[q].session} ELSE overlapped
  /\ UNCHANGED <<clock, refresh_tokens, failures, spent>>

-----------------------------------------------------------------------------
(* RefreshTokenService::rotate and revoke. *)

\* verify_hash
Verified(r, k) == k.verifier = req[r].token.verifier

FoundVerified(r, phase) ==
  req' = [req EXCEPT ![r] = [@ EXCEPT !.at = phase, !.found = TRUE]]

\* MUTANT of FindToRotate: the verifier is not compared.
FindSelectorToRotate(r) ==
  /\ At(r, "find") /\ req[r].kind = "refresh"
  /\ \/ Rows(req[r].token.selector) = {} /\ Goto(r, "failed")
     \/ \E k \in Rows(req[r].token.selector) :
          \/ k.expires_at <= req[r].now /\ Goto(r, "drop")
          \/ k.expires_at > req[r].now /\ FoundVerified(r, "delete")
  /\ UNCHANGED <<clock, refresh_tokens, failures, spent, overlapped>>

\* rotate: not found, expired, or verified.
FindToRotate(r) ==
  /\ At(r, "find") /\ req[r].kind = "refresh"
  /\ \/ Rows(req[r].token.selector) = {} /\ Goto(r, "failed")
     \/ \E k \in Rows(req[r].token.selector) :
          \/ k.expires_at <= req[r].now /\ Goto(r, "drop")
          \/ k.expires_at > req[r].now /\ ~ Verified(r, k) /\ Goto(r, "failed")
          \/ k.expires_at > req[r].now /\ Verified(r, k) /\ FoundVerified(r, "delete")
  /\ UNCHANGED <<clock, refresh_tokens, failures, spent, overlapped>>

\* revoke: a token that is not there is as good as revoked; expiry is not
\* looked at.
FindToRevoke(r) ==
  /\ At(r, "find") /\ req[r].kind = "logout"
  /\ \/ Rows(req[r].token.selector) = {} /\ Goto(r, "clean")
     \/ \E k \in Rows(req[r].token.selector) :
          \/ ~ Verified(r, k) /\ Goto(r, "failed")
          \/ Verified(r, k) /\ FoundVerified(r, "delete")
  /\ UNCHANGED <<clock, refresh_tokens, failures, spent, overlapped>>

\* rotate deletes the expired token and answers 401.
DropExpired(r) ==
  /\ At(r, "drop")
  /\ refresh_tokens' = refresh_tokens \ Rows(req[r].token.selector)
  /\ Goto(r, "failed")
  /\ UNCHANGED <<clock, failures, spent, overlapped>>

\* MUTANT of DeleteToken: only a logout deletes the token.
DeleteRevokedToken(r) ==
  /\ At(r, "delete")
  /\ refresh_tokens' = IF req[r].kind = "logout"
                       THEN refresh_tokens \ Rows(req[r].token.selector) ELSE refresh_tokens
  /\ spent' = spent \cup {req[r].token.verifier}
  /\ Goto(r, "clean")
  /\ UNCHANGED <<clock, failures, overlapped>>

\* MUTANT of DeleteToken: only a refresh deletes the token.
DeleteRotatedToken(r) ==
  /\ At(r, "delete")
  /\ refresh_tokens' = IF req[r].kind = "refresh"
                       THEN refresh_tokens \ Rows(req[r].token.selector) ELSE refresh_tokens
  /\ spent' = spent \cup {req[r].token.verifier}
  /\ Goto(r, "clean")
  /\ UNCHANGED <<clock, failures, overlapped>>

\* rotate and revoke delete by the selector, and do not ask whether a row was
\* deleted.
DeleteToken(r) ==
  /\ At(r, "delete")
  /\ refresh_tokens' = refresh_tokens \ Rows(req[r].token.selector)
  /\ spent' = spent \cup {req[r].token.verifier}
  /\ Goto(r, "clean")
  /\ UNCHANGED <<clock, failures, overlapped>>

\* The delete_expired both end with; refresh goes on to generate_auth_token.
Clean(r) ==
  /\ At(r, "clean")
  /\ refresh_tokens' = refresh_tokens \ Expired(req[r].now)
  /\ Goto(r, IF req[r].kind = "refresh" THEN "sweep" ELSE "ok")
  /\ UNCHANGED <<clock, failures, spent, overlapped>>

-----------------------------------------------------------------------------
(* RefreshTokenService::create *)

Sweep(r) ==
  /\ At(r, "sweep")
  /\ refresh_tokens' = refresh_tokens \ Expired(req[r].now)
  /\ Goto(r, "insert")
  /\ UNCHANGED <<clock, failures, spent, overlapped>>

\* The row the loop inserts: a selector that is taken is a UniqueViolation and
\* another one is drawn.  The answer has the access token and the refresh token;
\* for a client that is gone the row is inserted and there is no answer.
Insert(r) ==
  /\ At(r, "insert")
  /\ \E s \in Selectors :
       /\ Rows(s) = {}
       /\ refresh_tokens' = refresh_tokens \cup
            {[selector |-> s, verifier |-> r, expires_at |-> RefreshExpiry(req[r].now)]}
       /\ \/ req[r].gone /\ Goto(r, "failed")
          \/ ~ req[r].gone /\ req' = [req EXCEPT ![r] = [@ EXCEPT !.at = "ok", !.issued = s]]
  /\ UNCHANGED <<clock, failures, spent, overlapped>>

-----------------------------------------------------------------------------
Fail == failures < MaxFailures /\ failures' = failures + 1

\* The client is gone while its handler awaits a statement that writes.
Leave(r) ==
  /\ InFlight(r) /\ ~ At(r, "find")
  /\ Fail
  /\ req' = [req EXCEPT ![r].gone = TRUE]
  /\ UNCHANGED <<clock, refresh_tokens, spent, overlapped>>

\* MUTANT of Abort: that the token could not be deleted is ignored.
AbortUnlessDeleting(r) ==
  /\ req[r].at \in Running
  /\ Fail
  /\ Goto(r, IF At(r, "delete") THEN "clean" ELSE "failed")
  /\ UNCHANGED <<clock, refresh_tokens, spent, overlapped>>

\* The statement a handler awaits fails, or its client is gone and it never runs.
Abort(r) ==
  /\ req[r].at \in Running
  /\ Fail
  /\ Goto(r, "failed")
  /\ UNCHANGED <<clock, refresh_tokens, spent, overlapped>>

Tick ==
  /\ clock < MaxTime
  /\ clock' = clock + 1
  /\ UNCHANGED <<refresh_tokens, req, failures, spent, overlapped>>

Begin(r) == Login(r) \/ Present(r, "refresh") \/ Present(r, "logout")
Handle(r) == FindToRotate(r) \/ FindToRevoke(r) \/ DropExpired(r) \/ DeleteToken(r)
               \/ Clean(r) \/ Sweep(r) \/ Insert(r)

Next == Tick \/ \E r \in Requests : Begin(r) \/ Handle(r) \/ Leave(r) \/ Abort(r)

Spec == Init /\ [][Next]_vars

-----------------------------------------------------------------------------
(* Access tokens: generate truncates the expiry to a second. *)

AccessExpiresAt(r) == req[r].now + TokenTTL * TicksPerSecond
Exp(r) == AccessExpiresAt(r) \div TicksPerSecond

\* MUTANT of Accepts: jsonwebtoken's default leeway of 60 seconds.
AcceptsWithLeeway(r) == clock \div TicksPerSecond <= Exp(r) + 60

\* verify_access_token with a leeway of 0: a token is expired when its exp is
\* smaller than the current second.
Accepts(r) == clock \div TicksPerSecond <= Exp(r)

-----------------------------------------------------------------------------
(* Properties. *)

\* The type invariant of the table and the handlers.
TypeOK ==
  /\ clock \in 0..MaxTime
  /\ refresh_tokens \subseteq Record
  /\ \A k \in refresh_tokens : k.expires_at <= clock + RefreshTTL * TicksPerSecond
  /\ req \in [Requests -> Handler]
  /\ failures \in 0..MaxFailures
  /\ spent \subseteq Requests
  /\ overlapped \subseteq Requests

\* A token is spent at most once, unless the requests that present it race: no
\* refresh or logout finds a token after another one has deleted it, not even
\* when its selector has been drawn again.
UsedOnlyWhileStored ==
  [][\A r \in Requests : req'[r].found /\ ~ req[r].found => req[r].token.verifier \notin spent]_vars

\* A session has at most one refresh token in the table, whatever failed in
\* it, as long as its requests do not overlap.
OneTokenPerSession ==
  \A j, k \in refresh_tokens :
    req[j.verifier].session = req[k.verifier].session
      => j = k \/ req[k.verifier].session \in overlapped

\* A logout that found its token ends the session: no refresh token of it is
\* left or comes back, and its access tokens expire within their time to live
\* and the second an expiry is truncated to.
LogoutEnds ==
  \A r \in Requests :
    At(r, "ok") /\ req[r].kind = "logout" /\ req[r].found /\ req[r].session \notin overlapped =>
      /\ \A k \in refresh_tokens : req[k.verifier].session # req[r].session
      /\ \A q \in Requests :
           Answered(q) /\ req[q].session = req[r].session
             /\ clock >= req[r].now + (TokenTTL + 1) * TicksPerSecond => ~ Accepts(q)

\* The clean-up never takes a token that is still valid, though its `now` is
\* older than the clock and other handlers insert meanwhile: such a row is only
\* deleted by a request that presented its selector and found a row with it.
ValidRowsKept ==
  [][\A k \in refresh_tokens \ refresh_tokens' :
       k.expires_at > clock =>
         \E r \in Requests : /\ req[r].at \in {"drop", "delete"} /\ req'[r].at # req[r].at
                             /\ req[r].token.selector = k.selector]_vars

\* An access token is accepted until the expiry its answer names, never a
\* whole second longer, and never longer than the refresh token beside it.
AccessLife ==
  \A r \in Requests : Answered(r) =>
    /\ clock < AccessExpiresAt(r) => Accepts(r)
    /\ clock >= AccessExpiresAt(r) + TicksPerSecond => ~ Accepts(r)
    /\ Accepts(r) => clock < RefreshExpiry(req[r].now)

-----------------------------------------------------------------------------
(* The abstract specification. *)

\* Whether a request goes on to store a token: also when it is the insert that
\* was left behind.
Owes(r) ==
  /\ req[r].kind # "logout"
  /\ At(r, "insert") \/ (req[r].at \in {"delete", "clean", "sweep"} /\ ~ req[r].gone)

Stored == {k.verifier : k \in refresh_tokens}
Owing == {r \in Requests : Owes(r)}
LoggedIn(r) == req[r].kind = "login" /\ ~ At(r, "new")
Exchanged(r) == req[r].kind = "refresh" /\ req[r].found
Used == {r \in Requests : LoggedIn(r) \/ Exchanged(r)}

\* The tokens with their sessions, those that are promised anything.
OfSessions(T) ==
  {[session |-> req[r].session, token |-> r] : r \in {q \in T : req[q].session \notin overlapped}}

S == INSTANCE Sessions WITH
       Tokens <- Requests, stored <- OfSessions(Stored), due <- OfSessions(Owing),
       used <- Used, raced <- overlapped

\* The handlers implement Sessions: whatever fails, expires or is left behind, a
\* session whose requests do not overlap is a chain of tokens, one at a time, that
\* does not go on once its last token was deleted with none due in exchange.
ChainOfTokens == S!Spec

-----------------------------------------------------------------------------
(* The inductive invariant behind them. *)

\* How far a handler of each kind gets, and which locals are set by then.
HandlerOK ==
  \A r \in Requests :
    /\ At(r, "new") => req[r].kind = "login" /\ ~ req[r].found /\ req[r].session = None
    /\ ~ At(r, "new") => /\ req[r].now <= clock
                        /\ req[r].session \in Requests
                        /\ req[req[r].session].kind = "login" /\ ~ At(req[r].session, "new")
    /\ req[r].kind = "login" /\ ~ At(r, "new") =>
         /\ req[r].at \in {"sweep", "insert", "ok", "failed"}
         /\ req[r].session = r
    /\ req[r].kind = "refresh" /\ ~ At(r, "failed") =>
         (req[r].found <=> req[r].at \notin {"find", "drop"})
    /\ req[r].kind = "logout" =>
         /\ req[r].at \in {"find", "delete", "clean", "ok", "failed"}
         /\ At(r, "find") => ~ req[r].found
         /\ At(r, "delete") => req[r].found
    /\ Answered(r) => req[r].issued \in Selectors

\* A handler leaves no statement behind but one that writes.
GoneOK == \A r \in Requests : req[r].gone => req[r].at \in Running \ {"find"}

\* A token that is presented was in an answer of its session.
TokenOK ==
  \A r \in Requests : req[r].kind # "login" =>
    /\ req[r].token.verifier \in Requests
    /\ Answered(req[r].token.verifier)
    /\ req[r].token.selector = req[req[r].token.verifier].issued
    /\ req[r].session = req[req[r].token.verifier].session

\* A row is the one its request inserted last of all it did.
RowsOK ==
  \A k \in refresh_tokens :
    /\ req[k.verifier].kind # "logout" /\ req[k.verifier].at \in {"ok", "failed"}
    /\ k.expires_at = RefreshExpiry(req[k.verifier].now)
    /\ At(k.verifier, "ok") => req[k.verifier].issued = k.selector
    /\ \A j \in refresh_tokens : j.selector = k.selector \/ j.verifier = k.verifier => j = k

\* The row of a token that was spent is gone and does not come back.
SpentOK ==
  \A v \in spent : Answered(v) /\ \A k \in refresh_tokens : k.verifier # v

\* Requests of a session that does not overlap follow each other, and read the
\* clock in that order.
OneAtATime ==
  \A p, q \in Requests :
    InFlight(p) /\ req[q].session = req[p].session /\ req[p].session \notin overlapped =>
      /\ InFlight(q) => p = q
      /\ req[q].now <= req[p].now

\* Where a request is that has deleted the token it found, or that logged in, as
\* long as it may insert one or has ended the session.
Issues(r) ==
  /\ req[r].kind # "logout" /\ req[r].at \in {"clean", "sweep", "insert"}
Ends(r) ==
  /\ req[r].kind = "logout" /\ req[r].found /\ req[r].at \in {"clean", "ok"}

\* From then on the session has no row, and nobody else is about to insert one.
PastOK ==
  \A r \in Requests :
    (Issues(r) \/ Ends(r)) /\ req[r].session \notin overlapped =>
      /\ \A k \in refresh_tokens : req[k.verifier].session # req[r].session
      /\ \A q \in Requests : Issues(q) /\ req[q].session = req[r].session => q = r

\* Until then the session has no row but the one that was found.
HeldOK ==
  \A r \in Requests :
    At(r, "delete") /\ InFlight(r) /\ req[r].session \notin overlapped =>
      /\ \A k \in refresh_tokens :
           req[k.verifier].session = req[r].session => k.verifier = req[r].token.verifier
      /\ \A q \in Requests : Issues(q) \/ Ends(q) => req[q].session # req[r].session

\* Whoever presents a token of a session after its logout does not find it.
LogoutLast ==
  \A r, q \in Requests :
    At(r, "ok") /\ Ends(r) /\ req[r].session \notin overlapped
      /\ req[q].session = req[r].session /\ req[q].now > req[r].now =>
      req[q].kind # "login" /\ ~ req[q].found

IInv ==
  /\ TypeOK
  /\ HandlerOK
  /\ GoneOK
  /\ TokenOK
  /\ RowsOK
  /\ SpentOK
  /\ OneTokenPerSession
  /\ OneAtATime
  /\ PastOK
  /\ HeldOK
  /\ LogoutLast
=============================================================================
