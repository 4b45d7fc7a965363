------------------------ MODULE RefreshTokensProofs ------------------------
(***************************************************************************)
(* Proofs about RefreshTokens, for every number of requests and selectors, *)
(* every time to live and every bound on failures.                         *)
(***************************************************************************)
EXTENDS RefreshTokens, TLAPS

-----------------------------------------------------------------------------
(* What a step does to the handlers. *)

\* A step of r moves r, and no other handler, and leaves its locals alone.
Moved(r) ==
  /\ req' \in [Requests -> Handler]
  /\ \A q \in Requests \ {r} : req'[q] = req[q]
  /\ \A q \in Requests : /\ req'[q].kind = req[q].kind /\ req'[q].now = req[q].now
                         /\ req'[q].token = req[q].token /\ req'[q].session = req[q].session
                         /\ req'[q].issued = req[q].issued

\* The locals of a handler have their types.
LEMMA HandlerTypes ==
  ASSUME TypeOK, NEW r \in Requests
  PROVE  /\ req[r] \in Handler
         /\ req[r].at \in Phases /\ req[r].kind \in Kinds /\ req[r].now \in Nat
         /\ req[r].token \in Token
         /\ req[r].token.selector \in Selectors \cup {None}
         /\ req[r].token.verifier \in Requests \cup {None}
         /\ req[r].session \in Requests \cup {None}
         /\ req[r].found \in BOOLEAN /\ req[r].gone \in BOOLEAN
         /\ req[r].issued \in Selectors \cup {None}
BY DEF TypeOK, Handler, Token

\* Goto changes where a handler is, and takes back that it is gone.
LEMMA GotoMoves ==
  ASSUME TypeOK, NEW r \in Requests, NEW phase \in Phases, Goto(r, phase)
  PROVE  /\ Moved(r)
         /\ req'[r].at = IF req[r].gone THEN "failed" ELSE phase
         /\ req'[r].gone = FALSE
         /\ req'[r].found = req[r].found
<1>1. req[r] \in Handler /\ req \in [Requests -> Handler]
  BY DEF TypeOK
<1>2. "failed" \in Phases
  BY DEF Phases
<1>3. [req[r] EXCEPT !.at = IF req[r].gone THEN "failed" ELSE phase, !.gone = FALSE] \in Handler
  BY <1>1, <1>2 DEF Handler
<1>. QED
  BY <1>1, <1>3 DEF Goto, Moved, Handler

LEMMA FoundMoves ==
  ASSUME TypeOK, NEW r \in Requests, FoundVerified(r, "delete")
  PROVE  /\ Moved(r)
         /\ req'[r].at = "delete" /\ req'[r].gone = req[r].gone
         /\ req'[r].found = TRUE
<1>1. req[r] \in Handler /\ req \in [Requests -> Handler]
  BY DEF TypeOK
<1>2. [req[r] EXCEPT !.at = "delete", !.found = TRUE] \in Handler
  BY <1>1 DEF Handler, Phases, Running
<1>. QED
  BY <1>1, <1>2 DEF FoundVerified, Moved, Handler

-----------------------------------------------------------------------------
(* Steps after which a handler is further along, or a row is lost, and no  *)
(* more: of a session that has ended or is about to have its next token,   *)
(* or of one that is under way, there is none it did not have before.      *)

Quiet ==
  /\ clock \in Nat /\ clock' \in Nat /\ clock <= clock'
  /\ refresh_tokens' \subseteq refresh_tokens
  /\ UNCHANGED <<spent, overlapped>>
  /\ \A q \in Requests :
       /\ req'[q].kind = req[q].kind /\ req'[q].now = req[q].now
       /\ req'[q].token = req[q].token /\ req'[q].session = req[q].session
       /\ req'[q].issued = req[q].issued /\ req'[q].found = req[q].found
       /\ At(q, "new")' <=> At(q, "new")
       /\ At(q, "delete")' => At(q, "delete")
       /\ At(q, "ok")' => At(q, "ok") \/ InFlight(q)
       /\ req[q].at \in {"ok", "failed"} => req'[q].at = req[q].at
       /\ Answered(q)' <=> Answered(q)
       /\ InFlight(q)' => InFlight(q)
       /\ Issues(q)' => Issues(q)
       /\ Ends(q)' => Ends(q)

\* Where a handler gets to from where it is, while it is not gone.
Onward(r, phase) ==
  \/ phase = "failed"
  \/ At(r, "find") /\ phase = "drop" /\ req[r].kind = "refresh"
  \/ At(r, "find") /\ phase = "clean" /\ req[r].kind = "logout"
  \/ At(r, "delete") /\ phase = "clean"
  \/ At(r, "clean") /\ phase = IF req[r].kind = "refresh" THEN "sweep" ELSE "ok"
  \/ At(r, "sweep") /\ phase = "insert"

LEMMA QuietGoto ==
  ASSUME TypeOK, HandlerOK, NEW r \in Requests, NEW phase \in Phases, Goto(r, phase),
         clock' = clock, refresh_tokens' \subseteq refresh_tokens, UNCHANGED <<spent, overlapped>>,
         req[r].at \in Running, Onward(r, phase), At(r, "delete") => phase = "failed"
  PROVE  Quiet
<1>1. /\ Moved(r)
      /\ req'[r].at = IF req[r].gone THEN "failed" ELSE phase
      /\ req'[r].gone = FALSE
      /\ req'[r].found = req[r].found
  BY GotoMoves
<1>2. clock \in Nat /\ req[r].at \in Running /\ req[r].kind \in Kinds /\ req[r].gone \in BOOLEAN
  BY HandlerTypes DEF TypeOK
<1>3. /\ At(r, "clean") => req[r].kind # "login"
      /\ At(r, "find") /\ req[r].kind = "logout" => ~ req[r].found
      /\ At(r, "sweep") => req[r].kind # "logout"
  BY DEF HandlerOK, At
<1>4. ASSUME NEW q \in Requests, q # r
      PROVE  req'[q] = req[q]
  BY <1>1, <1>4 DEF Moved
<1>5. /\ ~ At(r, "new") /\ ~ At(r, "new")' /\ ~ At(r, "delete")' /\ ~ At(r, "ok")
      /\ ~ At(r, "failed")
      /\ At(r, "ok")' => InFlight(r) /\ req[r].kind = "logout"
  BY <1>1, <1>2, <1>3 DEF At, Running, InFlight, Kinds, Onward
<1>6. ~ Answered(r) /\ ~ Answered(r)'
  BY <1>1, <1>5 DEF Answered, Moved
<1>7. InFlight(r)' => InFlight(r)
  BY <1>1, <1>2 DEF InFlight, Running
<1>8. Issues(r)' => Issues(r)
  BY <1>1, <1>2, <1>3 DEF Issues, Moved, At, Onward
<1>9. Ends(r)' => Ends(r)
  BY <1>1, <1>2, <1>3 DEF Ends, Moved, At, Onward
<1>. QED
  BY <1>1, <1>2, <1>4, <1>5, <1>6, <1>7, <1>8, <1>9
     DEF Quiet, Moved, At, Answered, InFlight, Issues, Ends

LEMMA QuietStep ==
  ASSUME TypeOK, HandlerOK, NEW r \in Requests,
         \/ FindToRotate(r) /\ UNCHANGED req[r].found
         \/ FindToRevoke(r) /\ UNCHANGED req[r].found
         \/ DropExpired(r) \/ Clean(r) \/ Sweep(r) \/ Leave(r) \/ Abort(r)
  PROVE  Quiet
<1>t. /\ {"failed", "clean", "drop", "sweep", "ok", "insert"} \subseteq Phases
      /\ {"find", "clean", "drop", "sweep"} \subseteq Running
  BY DEF Phases, Running
<1>1. CASE FindToRotate(r) /\ UNCHANGED req[r].found
  <2>1. CASE Goto(r, "failed")
    BY <1>t, <1>1, <2>1, QuietGoto DEF FindToRotate, At, Onward
  <2>2. CASE Goto(r, "drop")
    BY <1>t, <1>1, <2>2, QuietGoto DEF FindToRotate, At, Onward
  <2>3. CASE FoundVerified(r, "delete")
    <3>1. ~ req[r].found
      BY <1>1 DEF FindToRotate, HandlerOK, At
    <3>. QED
      BY <1>1, <2>3, <3>1, FoundMoves
  <2>. QED
    BY <1>1, <2>1, <2>2, <2>3 DEF FindToRotate
<1>2. CASE FindToRevoke(r) /\ UNCHANGED req[r].found
  <2>1. CASE Goto(r, "failed")
    BY <1>t, <1>2, <2>1, QuietGoto DEF FindToRevoke, At, Onward
  <2>2. CASE Goto(r, "clean")
    BY <1>t, <1>2, <2>2, QuietGoto DEF FindToRevoke, At, Onward
  <2>3. CASE FoundVerified(r, "delete")
    <3>1. ~ req[r].found
      BY <1>2 DEF FindToRevoke, HandlerOK, At
    <3>. QED
      BY <1>2, <2>3, <3>1, FoundMoves
  <2>. QED
    BY <1>2, <2>1, <2>2, <2>3 DEF FindToRevoke
<1>3. CASE DropExpired(r)
  BY <1>t, <1>3, QuietGoto DEF DropExpired, At, Onward
<1>4. CASE Clean(r)
  BY <1>t, <1>4, QuietGoto DEF Clean, At, Onward
<1>5. CASE Sweep(r)
  BY <1>t, <1>5, QuietGoto DEF Sweep, At, Onward
<1>6. CASE Abort(r)
  BY <1>t, <1>6, QuietGoto DEF Abort, At, Onward
<1>7. CASE Leave(r)
  <2>1. /\ req \in [Requests -> Handler] /\ req' = [req EXCEPT ![r].gone = TRUE]
        /\ clock' = clock /\ clock \in Nat
        /\ UNCHANGED <<refresh_tokens, spent, overlapped>>
    BY <1>7 DEF Leave, TypeOK
  <2>2. ASSUME NEW q \in Requests
        PROVE  /\ req'[q].at = req[q].at /\ req'[q].kind = req[q].kind
               /\ req'[q].now = req[q].now /\ req'[q].token = req[q].token
               /\ req'[q].session = req[q].session /\ req'[q].issued = req[q].issued
               /\ req'[q].found = req[q].found
               /\ req'[q].gone = IF q = r THEN TRUE ELSE req[q].gone
    BY <2>1 DEF Handler
  <2>. QED
    BY <2>1, <2>2 DEF Quiet, At, Answered, InFlight, Issues, Ends
<1>. QED
  BY <1>1, <1>2, <1>3, <1>4, <1>5, <1>6, <1>7

LEMMA QuietTick ==
  ASSUME TypeOK, Tick \/ UNCHANGED vars
  PROVE  Quiet
<1>1. clock \in Nat /\ clock' \in Nat /\ clock <= clock'
  BY TimeAssumption DEF TypeOK, Tick, vars
<1>. QED
  BY <1>1 DEF Tick, vars, Quiet, At, Answered, InFlight, Issues, Ends

\* A quiet step keeps all that is said of rows and sessions.
LEMMA QuietKeeps ==
  ASSUME IInv, Quiet
  PROVE  /\ TokenOK' /\ RowsOK' /\ SpentOK'
         /\ OneTokenPerSession' /\ OneAtATime' /\ PastOK' /\ HeldOK' /\ LogoutLast'
<1>t. /\ TypeOK /\ HandlerOK /\ TokenOK /\ RowsOK /\ SpentOK
      /\ OneTokenPerSession /\ OneAtATime /\ PastOK /\ HeldOK /\ LogoutLast
  BY DEF IInv
<1>q. /\ refresh_tokens' \subseteq refresh_tokens /\ spent' = spent /\ overlapped' = overlapped
      /\ \A k \in refresh_tokens : k.verifier \in Requests
      /\ spent \subseteq Requests
  BY <1>t DEF Quiet, TypeOK, Record
<1>1. TokenOK'
  BY <1>t DEF Quiet, TokenOK
<1>2. RowsOK'
  BY <1>t, <1>q DEF Quiet, RowsOK, At, RefreshExpiry
<1>3. SpentOK'
  BY <1>t, <1>q DEF Quiet, SpentOK
<1>4. OneTokenPerSession'
  BY <1>t, <1>q DEF Quiet, OneTokenPerSession
<1>5. OneAtATime'
  BY <1>t, <1>q DEF Quiet, OneAtATime
<1>6. PastOK'
  BY <1>t, <1>q DEF Quiet, PastOK
<1>7. HeldOK'
  BY <1>t, <1>q DEF Quiet, HeldOK
<1>8. LogoutLast'
  <2>1. SUFFICES ASSUME NEW r \in Requests, NEW q \in Requests,
                        At(r, "ok")', Ends(r)', (req[r].session)' \notin overlapped',
                        (req[q].session)' = (req[r].session)', (req[q].now)' > (req[r].now)'
                 PROVE  (req[q].kind)' # "login" /\ ~ (req[q].found)'
    BY DEF LogoutLast
  <2>2. /\ Ends(r) /\ req[r].session \notin overlapped
        /\ req[q].session = req[r].session /\ req[q].now > req[r].now
        /\ req'[q].kind = req[q].kind /\ req'[q].found = req[q].found
        /\ req[q].now \in Nat /\ req[r].now \in Nat
        /\ At(r, "ok") \/ InFlight(r)
    BY <1>t, <1>q, <2>1, HandlerTypes DEF Quiet
  <2>3. ~ InFlight(r)
    BY <1>t, <2>2 DEF OneAtATime
  <2>. QED
    BY <1>t, <2>2, <2>3 DEF LogoutLast
<1>. QED
  BY <1>1, <1>2, <1>3, <1>4, <1>5, <1>6, <1>7, <1>8

-----------------------------------------------------------------------------
(* The steps that are not quiet. *)

\* A request begins: it was in no session and is in flight now.
Begun(r) ==
  /\ req' \in [Requests -> Handler]
  /\ \A q \in Requests \ {r} : req'[q] = req[q]
  /\ At(r, "new") /\ req'[r].at \in {"find", "sweep"}
  /\ req'[r].now = clock /\ ~ req'[r].found
  /\ UNCHANGED <<clock, refresh_tokens, failures, spent>>

LEMMA LoginBegins ==
  ASSUME TypeOK, HandlerOK, NEW r \in Requests, Login(r)
  PROVE  /\ Begun(r) /\ req'[r].at = "sweep" /\ req'[r].kind = "login"
         /\ req'[r].session = r /\ UNCHANGED overlapped
<1>1. req[r] \in Handler /\ req \in [Requests -> Handler] /\ clock \in Nat
  BY DEF TypeOK
<1>2. At(r, "new") /\ req[r].kind = "login" /\ ~ req[r].found
  BY DEF Login, HandlerOK
<1>3. [req[r] EXCEPT !.at = "sweep", !.now = clock, !.session = r] \in Handler
  BY <1>1 DEF Handler, Phases, Running
<1>. QED
  BY <1>1, <1>2, <1>3 DEF Login, Begun, Handler

LEMMA PresentBegins ==
  ASSUME TypeOK, HandlerOK, NEW r \in Requests, NEW kind \in {"refresh", "logout"},
         Present(r, kind)
  PROVE  /\ Begun(r) /\ req'[r].at = "find" /\ req'[r].kind = kind
         /\ \E q \in Requests :
              /\ q # r /\ Answered(q)
              /\ req'[r].token.selector = req[q].issued /\ req'[r].token.verifier = q
              /\ req'[r].session = req[q].session
              /\ overlapped \subseteq overlapped'
              /\ overlapped' \subseteq overlapped \cup {req[q].session}
              /\ \A p \in Requests : InFlight(p) /\ req[p].session = req[q].session
                                       => req[q].session \in overlapped'
<1>1. req[r] \in Handler /\ req \in [Requests -> Handler] /\ clock \in Nat
  BY DEF TypeOK
<1>2. At(r, "new") /\ ~ req[r].found
  BY DEF Present, HandlerOK
<1>3. PICK q \in Requests :
        /\ Answered(q)
        /\ req' = [req EXCEPT ![r] =
             [@ EXCEPT !.at = "find", !.kind = kind, !.now = clock,
                       !.token = [selector |-> req[q].issued, verifier |-> q],
                       !.session = req[q].session]]
        /\ overlapped' = IF \E p \in Requests : InFlight(p) /\ req[p].session = req[q].session
                         THEN overlapped \cup {req[q].session} ELSE overlapped
  BY DEF Present
<1>4. req[q].issued \in Selectors \cup {None} /\ req[q].session \in Requests \cup {None}
  BY HandlerTypes
<1>5. [selector |-> req[q].issued, verifier |-> q] \in Token
  BY <1>4 DEF Token
<1>6. [req[r] EXCEPT !.at = "find", !.kind = kind, !.now = clock,
                     !.token = [selector |-> req[q].issued, verifier |-> q],
                     !.session = req[q].session] \in Handler
  BY <1>1, <1>4, <1>5 DEF Handler, Phases, Running, Kinds
<1>7. /\ req' \in [Requests -> Handler]
      /\ \A p \in Requests \ {r} : req'[p] = req[p]
      /\ req'[r].at = "find" /\ req'[r].kind = kind /\ req'[r].now = clock
      /\ req'[r].token = [selector |-> req[q].issued, verifier |-> q]
      /\ req'[r].session = req[q].session /\ req'[r].found = req[r].found
  BY <1>1, <1>3, <1>6 DEF Handler
<1>8. Begun(r)
  BY <1>2, <1>7 DEF Begun, Present
<1>9. q # r
  BY <1>2, <1>3 DEF At, Answered
<1>. QED
  BY <1>3, <1>7, <1>8, <1>9


\* What is said of the handlers other than r is as it was.
OthersStay(r) ==
  \A q \in Requests \ {r} :
    /\ req'[q] = req[q]
    /\ At(q, "new")' <=> At(q, "new")
    /\ At(q, "ok")' <=> At(q, "ok")
    /\ At(q, "delete")' <=> At(q, "delete")
    /\ InFlight(q)' <=> InFlight(q)
    /\ Issues(q)' <=> Issues(q)
    /\ Ends(q)' <=> Ends(q)
    /\ Answered(q)' <=> Answered(q)

LEMMA StayAsTheyWere ==
  ASSUME NEW r \in Requests, \A q \in Requests \ {r} : req'[q] = req[q]
  PROVE  OthersStay(r)
BY DEF OthersStay, At, InFlight, Issues, Ends, Answered

\* A request that begins was nowhere before.
LEMMA BegunOthers ==
  ASSUME IInv, NEW r \in Requests, Begun(r)
  PROVE  /\ OthersStay(r)
         /\ ~ Answered(r) /\ ~ Answered(r)'
         /\ ~ At(r, "new")' /\ ~ At(r, "ok")' /\ ~ At(r, "delete")' /\ ~ Ends(r)'
         /\ \A k \in refresh_tokens : k.verifier \in Requests \ {r}
         /\ \A q \in Requests : ~ At(q, "new") => req[q].session \in Requests \ {r}
         /\ \A q \in Requests : req[q].session # r
         /\ \A q \in Requests : req[q].session \in Requests => req[q].now <= clock
<1>t. TypeOK /\ HandlerOK /\ RowsOK
  BY DEF IInv
<1>1. OthersStay(r)
  BY StayAsTheyWere DEF Begun
<1>2. /\ ~ At(r, "new")' /\ ~ At(r, "ok")' /\ ~ At(r, "delete")' /\ ~ Ends(r)'
      /\ At(r, "new")
  BY DEF Begun, At, Ends
<1>3. ~ Answered(r) /\ ~ Answered(r)'
  BY <1>2 DEF At, Answered
<1>4. \A k \in refresh_tokens : k.verifier \in Requests \ {r}
  BY <1>t, <1>2 DEF RowsOK, At, TypeOK, Record
<1>5. \A q \in Requests : ~ At(q, "new") => req[q].session \in Requests \ {r}
  BY <1>t, <1>2 DEF HandlerOK
<1>6. \A q \in Requests : At(q, "new") => req[q].session = None
  BY <1>t DEF HandlerOK
<1>7. \A q \in Requests : ~ At(q, "new") => req[q].now <= clock
  BY <1>t DEF HandlerOK
<1>. QED
  BY <1>1, <1>2, <1>3, <1>4, <1>5, <1>6, <1>7, NoneAssumption

\* Beginning a request keeps what is said of the handlers one by one.
LEMMA BegunKeepsHandlers ==
  ASSUME IInv, NEW r \in Requests, Begun(r),
         req'[r].session \in Requests, req'[r].kind \in {"login", "refresh", "logout"},
         req'[r].at = IF req'[r].kind = "login" THEN "sweep" ELSE "find",
         IF req'[r].kind = "login" THEN req'[r].session = r
         ELSE req[req'[r].session].kind = "login" /\ req[req'[r].session].at # "new"
  PROVE  HandlerOK'
<1>t. HandlerOK /\ TypeOK
  BY DEF IInv
<1>o. /\ OthersStay(r) /\ ~ Answered(r)'
      /\ \A q \in Requests : ~ At(q, "new") => req[q].session \in Requests \ {r}
  BY BegunOthers
<1>u. clock' = clock /\ clock \in Nat /\ req'[r].now = clock /\ ~ req'[r].found /\ At(r, "new")
  BY <1>t DEF Begun, TypeOK
<1>1. SUFFICES ASSUME NEW q \in Requests
      PROVE  /\ At(q, "new")' => (req[q].kind = "login" /\ ~ req[q].found /\ req[q].session = None)'
             /\ ~ At(q, "new")' =>
                  (/\ req[q].now <= clock
                   /\ req[q].session \in Requests
                   /\ req[req[q].session].kind = "login" /\ ~ At(req[q].session, "new"))'
             /\ (req[q].kind = "login" /\ ~ At(q, "new"))' =>
                  (req[q].at \in {"sweep", "insert", "ok", "failed"} /\ req[q].session = q)'
             /\ (req[q].kind = "refresh" /\ ~ At(q, "failed"))' =>
                  (req[q].found <=> req[q].at \notin {"find", "drop"})'
             /\ (req[q].kind = "logout")' =>
                  (/\ req[q].at \in {"find", "delete", "clean", "ok", "failed"}
                   /\ At(q, "find") => ~ req[q].found
                   /\ At(q, "delete") => req[q].found)'
             /\ Answered(q)' => (req[q].issued \in Selectors)'
  BY DEF HandlerOK
<1>2. CASE q # r
  <2>1. req'[q] = req[q] /\ (At(q, "new")' <=> At(q, "new")) /\ (Answered(q)' <=> Answered(q))
    BY <1>2, <1>o DEF OthersStay
  <2>2. ~ At(q, "new") =>
          /\ req[q].now <= clock
          /\ req[q].session \in Requests \ {r}
          /\ req[req[q].session].kind = "login" /\ ~ At(req[q].session, "new")
    BY <1>t, <1>o DEF HandlerOK
  <2>3. ~ At(q, "new") =>
          req'[req[q].session].kind = "login" /\ ~ At(req[q].session, "new")'
    BY <2>2, <1>o DEF OthersStay, At
  <2>. QED
    BY <1>t, <1>u, <2>1, <2>2, <2>3 DEF HandlerOK, At
<1>3. CASE q = r
  <2>1. ~ At(r, "new")' /\ ~ Answered(r)'
    BY <1>o DEF At
  <2>2. req'[req'[r].session].kind = "login" /\ req'[req'[r].session].at # "new"
    <3>1. CASE req'[r].kind = "login"
      BY <2>1, <3>1 DEF At
    <3>2. CASE req'[r].kind # "login"
      <4>1. req'[r].session \in Requests \ {r}
        BY <3>2, <1>u DEF At
      <4>2. req'[req'[r].session] = req[req'[r].session]
        BY <4>1, <1>o DEF OthersStay
      <4>. QED
        BY <3>2, <4>2
    <3>. QED
      BY <3>1, <3>2
  <2>. QED
    BY <1>3, <1>u, <2>1, <2>2 DEF At
<1>. QED
  BY <1>2, <1>3

LEMMA LoginKeeps ==
  ASSUME IInv, NEW r \in Requests, Login(r)
  PROVE  /\ HandlerOK' /\ TokenOK' /\ RowsOK' /\ SpentOK'
         /\ OneTokenPerSession' /\ OneAtATime' /\ PastOK' /\ HeldOK' /\ LogoutLast'
<1>t. /\ TypeOK /\ HandlerOK /\ TokenOK /\ RowsOK /\ SpentOK
      /\ OneTokenPerSession /\ OneAtATime /\ PastOK /\ HeldOK /\ LogoutLast
  BY DEF IInv
<1>b. /\ Begun(r) /\ req'[r].at = "sweep" /\ req'[r].kind = "login"
      /\ req'[r].session = r /\ overlapped' = overlapped
  BY <1>t, LoginBegins
<1>o. /\ OthersStay(r)
      /\ ~ Answered(r) /\ ~ Answered(r)'
      /\ ~ At(r, "ok")' /\ ~ At(r, "delete")' /\ ~ Ends(r)'
      /\ \A k \in refresh_tokens : k.verifier \in Requests \ {r}
      /\ \A q \in Requests : req[q].session # r
  BY <1>b, BegunOthers
<1>u. /\ refresh_tokens' = refresh_tokens /\ spent' = spent /\ clock' = clock
      /\ req'[r].now = clock /\ clock \in Nat /\ spent \subseteq Requests
  BY <1>b, <1>t DEF Begun, TypeOK
<1>s. /\ \A q \in Requests : q # r => req'[q].session = req[q].session /\ req'[q].session # r
      /\ \A k \in refresh_tokens : req'[k.verifier].session = req[k.verifier].session
  BY <1>o DEF OthersStay
<1>1. HandlerOK'
  BY <1>b, BegunKeepsHandlers
<1>2. TokenOK'
  BY <1>t, <1>b, <1>o DEF TokenOK, OthersStay
<1>3. RowsOK'
  BY <1>t, <1>o, <1>u DEF RowsOK, At, RefreshExpiry, OthersStay
<1>4. SpentOK'
  BY <1>t, <1>o, <1>u DEF SpentOK, OthersStay
<1>5. OneTokenPerSession'
  BY <1>t, <1>s, <1>u, <1>b DEF OneTokenPerSession
<1>6. OneAtATime'
  <2>1. SUFFICES ASSUME NEW p \in Requests, NEW q \in Requests, InFlight(p)',
                        req'[q].session = req'[p].session, req'[p].session \notin overlapped
                 PROVE  /\ InFlight(q)' => p = q
                        /\ req'[q].now <= req'[p].now
    BY <1>b DEF OneAtATime
  <2>2. CASE p = r
    BY <2>1, <2>2, <1>s, <1>b, <1>u
  <2>3. CASE p # r
    <3>1. q # r
      BY <2>1, <2>3, <1>s, <1>b
    <3>2. req'[p] = req[p] /\ req'[q] = req[q] /\ InFlight(p) /\ (InFlight(q)' <=> InFlight(q))
      BY <2>1, <2>3, <3>1, <1>o DEF OthersStay
    <3>. QED
      BY <1>t, <2>1, <3>2 DEF OneAtATime
  <2>. QED
    BY <2>2, <2>3
<1>7. PastOK'
  <2>1. SUFFICES ASSUME NEW p \in Requests, Issues(p)' \/ Ends(p)', req'[p].session \notin overlapped
                 PROVE  /\ \A k \in refresh_tokens : req'[k.verifier].session # req'[p].session
                        /\ \A q \in Requests : Issues(q)' /\ req'[q].session = req'[p].session => q = p
    BY <1>b, <1>u DEF PastOK
  <2>2. CASE p = r
    BY <2>2, <1>s, <1>b, <1>o
  <2>3. CASE p # r
    <3>1. req'[p] = req[p] /\ (Issues(p) \/ Ends(p))
      BY <2>1, <2>3, <1>o DEF OthersStay
    <3>2. \A k \in refresh_tokens : req'[k.verifier].session # req'[p].session
      BY <1>t, <2>1, <3>1, <1>s DEF PastOK
    <3>3. \A q \in Requests : Issues(q)' /\ req'[q].session = req'[p].session => q # r /\ Issues(q)
      BY <2>3, <1>s, <1>b, <1>o DEF OthersStay
    <3>. QED
      BY <1>t, <2>1, <3>1, <3>2, <3>3, <1>s DEF PastOK
  <2>. QED
    BY <2>2, <2>3
<1>8. HeldOK'
  <2>1. SUFFICES ASSUME NEW p \in Requests, At(p, "delete")', InFlight(p)',
                        req'[p].session \notin overlapped
                 PROVE  /\ \A k \in refresh_tokens :
                             req'[k.verifier].session = req'[p].session
                               => k.verifier = req'[p].token.verifier
                        /\ \A q \in Requests : Issues(q)' \/ Ends(q)' => req'[q].session # req'[p].session
    BY <1>b, <1>u DEF HeldOK
  <2>2. p # r
    BY <2>1, <1>o
  <2>3. req'[p] = req[p] /\ At(p, "delete") /\ InFlight(p)
    BY <2>1, <2>2, <1>o DEF OthersStay
  <2>4. \A q \in Requests : (Issues(q)' \/ Ends(q)') /\ req'[q].session = req'[p].session
                              => q # r /\ (Issues(q) \/ Ends(q))
    BY <2>2, <1>s, <1>b, <1>o DEF OthersStay
  <2>. QED
    BY <1>t, <2>1, <2>3, <2>4, <1>s DEF HeldOK
<1>9. LogoutLast'
  <2>1. SUFFICES ASSUME NEW p \in Requests, NEW q \in Requests, At(p, "ok")', Ends(p)',
                        req'[p].session \notin overlapped,
                        req'[q].session = req'[p].session, req'[q].now > req'[p].now
                 PROVE  req'[q].kind # "login" /\ ~ req'[q].found
    BY <1>b DEF LogoutLast
  <2>2. p # r /\ q # r
    BY <2>1, <1>o, <1>s, <1>b
  <2>3. req'[p] = req[p] /\ req'[q] = req[q] /\ At(p, "ok") /\ Ends(p)
    BY <2>1, <2>2, <1>o DEF OthersStay
  <2>. QED
    BY <1>t, <2>1, <2>3 DEF LogoutLast
<1>. QED
  BY <1>1, <1>2, <1>3, <1>4, <1>5, <1>6, <1>7, <1>8, <1>9

LEMMA PresentKeeps ==
  ASSUME IInv, NEW r \in Requests, NEW kind \in {"refresh", "logout"}, Present(r, kind)
  PROVE  /\ HandlerOK' /\ TokenOK' /\ RowsOK' /\ SpentOK'
         /\ OneTokenPerSession' /\ OneAtATime' /\ PastOK' /\ HeldOK' /\ LogoutLast'
<1>t. /\ TypeOK /\ HandlerOK /\ TokenOK /\ RowsOK /\ SpentOK
      /\ OneTokenPerSession /\ OneAtATime /\ PastOK /\ HeldOK /\ LogoutLast
  BY DEF IInv
<1>b. Begun(r) /\ req'[r].at = "find" /\ req'[r].kind = kind
  BY <1>t, PresentBegins
<1>p. PICK a \in Requests :
        /\ a # r /\ Answered(a)
        /\ req'[r].token.selector = req[a].issued /\ req'[r].token.verifier = a
        /\ req'[r].session = req[a].session
        /\ overlapped \subseteq overlapped'
        /\ overlapped' \subseteq overlapped \cup {req[a].session}
        /\ \A p \in Requests : InFlight(p) /\ req[p].session = req[a].session
                                 => req[a].session \in overlapped'
  BY <1>t, PresentBegins
<1>o. /\ OthersStay(r)
      /\ ~ Answered(r) /\ ~ Answered(r)'
      /\ ~ At(r, "ok")' /\ ~ At(r, "delete")' /\ ~ Ends(r)'
      /\ \A k \in refresh_tokens : k.verifier \in Requests \ {r}
      /\ \A q \in Requests : ~ At(q, "new") => req[q].session \in Requests \ {r}
      /\ \A q \in Requests : req[q].session \in Requests => req[q].now <= clock
  BY <1>b, BegunOthers
<1>u. /\ refresh_tokens' = refresh_tokens /\ spent' = spent /\ clock' = clock
      /\ req'[r].now = clock /\ clock \in Nat /\ spent \subseteq Requests
      /\ ~ req'[r].found
  BY <1>b, <1>t DEF Begun, TypeOK
<1>i. ~ Issues(r)'
  BY <1>b DEF Issues
<1>a. ~ At(a, "new") /\ req[a].session \in Requests
  BY <1>p, <1>o DEF Answered, At
<1>s. /\ \A q \in Requests : q # r => req'[q].session = req[q].session
      /\ \A k \in refresh_tokens : req'[k.verifier].session = req[k.verifier].session
  BY <1>o DEF OthersStay
<1>1. HandlerOK'
  <2>1. req[req[a].session].kind = "login" /\ req[req[a].session].at # "new"
    BY <1>t, <1>a DEF HandlerOK, At
  <2>. QED
    BY <1>a, <1>b, <1>p, <2>1, BegunKeepsHandlers
<1>2. TokenOK'
  BY <1>t, <1>b, <1>o, <1>p DEF TokenOK, OthersStay
<1>3. RowsOK'
  BY <1>t, <1>o, <1>u DEF RowsOK, At, RefreshExpiry, OthersStay
<1>4. SpentOK'
  BY <1>t, <1>o, <1>u DEF SpentOK, OthersStay
<1>5. OneTokenPerSession'
  BY <1>t, <1>s, <1>u, <1>p DEF OneTokenPerSession
<1>6. OneAtATime'
  <2>1. SUFFICES ASSUME NEW p \in Requests, NEW q \in Requests, InFlight(p)',
                        req'[q].session = req'[p].session, req'[p].session \notin overlapped'
                 PROVE  /\ InFlight(q)' => p = q
                        /\ req'[q].now <= req'[p].now
    BY DEF OneAtATime
  <2>2. CASE p = r
    <3>1. CASE q = r
      BY <2>2, <3>1, <1>u
    <3>2. CASE q # r
      <4>1. req'[q] = req[q] /\ (InFlight(q)' <=> InFlight(q))
        BY <3>2, <1>o DEF OthersStay
      <4>2. req[q].session = req[a].session
        BY <2>1, <2>2, <4>1, <1>p
      <4>. QED
        BY <2>1, <2>2, <4>1, <4>2, <1>p, <1>o, <1>u, <1>a
    <3>. QED
      BY <3>1, <3>2
  <2>3. CASE p # r
    <3>1. req'[p] = req[p] /\ InFlight(p)
      BY <2>1, <2>3, <1>o DEF OthersStay
    <3>2. q # r
      BY <2>1, <3>1, <1>p
    <3>3. req'[q] = req[q] /\ (InFlight(q)' <=> InFlight(q))
      BY <3>2, <1>o DEF OthersStay
    <3>. QED
      BY <1>t, <2>1, <3>1, <3>3, <1>p DEF OneAtATime
  <2>. QED
    BY <2>2, <2>3
<1>7. PastOK'
  <2>1. SUFFICES ASSUME NEW p \in Requests, Issues(p)' \/ Ends(p)', req'[p].session \notin overlapped'
                 PROVE  /\ \A k \in refresh_tokens : req'[k.verifier].session # req'[p].session
                        /\ \A q \in Requests : Issues(q)' /\ req'[q].session = req'[p].session => q = p
    BY <1>u DEF PastOK
  <2>2. p # r
    BY <2>1, <1>i, <1>o
  <2>3. req'[p] = req[p] /\ (Issues(p) \/ Ends(p)) /\ req[p].session \notin overlapped
    BY <2>1, <2>2, <1>o, <1>p DEF OthersStay
  <2>4. \A q \in Requests : Issues(q)' => req'[q] = req[q] /\ Issues(q)
    BY <1>i, <1>o DEF OthersStay
  <2>. QED
    BY <1>t, <2>3, <2>4, <1>s DEF PastOK
<1>8. HeldOK'
  <2>1. SUFFICES ASSUME NEW p \in Requests, At(p, "delete")', InFlight(p)',
                        req'[p].session \notin overlapped'
                 PROVE  /\ \A k \in refresh_tokens :
                             req'[k.verifier].session = req'[p].session
                               => k.verifier = req'[p].token.verifier
                        /\ \A q \in Requests : Issues(q)' \/ Ends(q)' => req'[q].session # req'[p].session
    BY <1>u DEF HeldOK
  <2>2. p # r
    BY <2>1, <1>o
  <2>3. /\ req'[p] = req[p] /\ At(p, "delete") /\ InFlight(p)
        /\ req[p].session \notin overlapped
    BY <2>1, <2>2, <1>o, <1>p DEF OthersStay
  <2>4. \A q \in Requests : Issues(q)' \/ Ends(q)' => req'[q] = req[q] /\ (Issues(q) \/ Ends(q))
    BY <1>i, <1>o DEF OthersStay
  <2>. QED
    BY <1>t, <2>3, <2>4, <1>s DEF HeldOK
<1>9. LogoutLast'
  <2>1. SUFFICES ASSUME NEW p \in Requests, NEW q \in Requests, At(p, "ok")', Ends(p)',
                        req'[p].session \notin overlapped',
                        req'[q].session = req'[p].session, req'[q].now > req'[p].now
                 PROVE  req'[q].kind # "login" /\ ~ req'[q].found
    BY DEF LogoutLast
  <2>2. /\ p # r
        /\ req'[p] = req[p] /\ At(p, "ok") /\ Ends(p) /\ req[p].session \notin overlapped
    BY <2>1, <1>o, <1>p DEF OthersStay
  <2>3. CASE q = r
    BY <2>3, <1>b, <1>u
  <2>4. CASE q # r
    <3>1. req'[q] = req[q]
      BY <2>4, <1>o DEF OthersStay
    <3>. QED
      BY <1>t, <2>1, <2>2, <3>1 DEF LogoutLast
  <2>. QED
    BY <2>3, <2>4
<1>. QED
  BY <1>1, <1>2, <1>3, <1>4, <1>5, <1>6, <1>7, <1>8, <1>9

-----------------------------------------------------------------------------
(* What is said of the handlers one by one is kept by every step. *)

LEMMA KeepsHandlers ==
  ASSUME IInv, NEW r \in Requests, ~ At(r, "new"),
         clock' \in Nat, clock <= clock',
         \A q \in Requests \ {r} : req'[q] = req[q],
         req'[r].kind = req[r].kind, req'[r].now = req[r].now, req'[r].session = req[r].session,
         req'[r].at # "new",
         req[r].kind = "login" => req'[r].at \in {"sweep", "insert", "ok", "failed"},
         req[r].kind = "refresh" /\ req'[r].at # "failed" =>
           (req'[r].found <=> req'[r].at \notin {"find", "drop"}),
         req[r].kind = "logout" =>
           /\ req'[r].at \in {"find", "delete", "clean", "ok", "failed"}
           /\ req'[r].at = "find" => ~ req'[r].found
           /\ req'[r].at = "delete" => req'[r].found,
         req'[r].at = "ok" /\ req[r].kind # "logout" => req'[r].issued \in Selectors
  PROVE  HandlerOK'
<1>t. HandlerOK /\ TypeOK /\ OthersStay(r)
  BY StayAsTheyWere DEF IInv
<1>1. SUFFICES ASSUME NEW q \in Requests
      PROVE  /\ At(q, "new")' => (req[q].kind = "login" /\ ~ req[q].found /\ req[q].session = None)'
             /\ ~ At(q, "new")' =>
                  (/\ req[q].now <= clock
                   /\ req[q].session \in Requests
                   /\ req[req[q].session].kind = "login" /\ ~ At(req[q].session, "new"))'
             /\ (req[q].kind = "login" /\ ~ At(q, "new"))' =>
                  (req[q].at \in {"sweep", "insert", "ok", "failed"} /\ req[q].session = q)'
             /\ (req[q].kind = "refresh" /\ ~ At(q, "failed"))' =>
                  (req[q].found <=> req[q].at \notin {"find", "drop"})'
             /\ (req[q].kind = "logout")' =>
                  (/\ req[q].at \in {"find", "delete", "clean", "ok", "failed"}
                   /\ At(q, "find") => ~ req[q].found
                   /\ At(q, "delete") => req[q].found)'
             /\ Answered(q)' => (req[q].issued \in Selectors)'
  BY DEF HandlerOK
<1>2. /\ At(q, "new")' <=> At(q, "new")
      /\ req'[q].session = req[q].session /\ req'[q].now = req[q].now
      /\ req'[q].kind = req[q].kind
  BY <1>t DEF OthersStay, At
<1>3. ~ At(q, "new") =>
        /\ req[q].now <= clock' /\ req[q].session \in Requests
        /\ req'[req[q].session].kind = "login" /\ req'[req[q].session].at # "new"
  <2>1. ~ At(q, "new") =>
          /\ req[q].now <= clock
          /\ req[q].session \in Requests
          /\ req[req[q].session].kind = "login" /\ req[req[q].session].at # "new"
    BY <1>t DEF HandlerOK, At
  <2>2. ASSUME NEW p \in Requests, req[p].at # "new"
        PROVE  req'[p].kind = req[p].kind /\ req'[p].at # "new"
    BY <1>t, <2>2 DEF OthersStay
  <2>3. req[q].now \in Nat /\ clock \in Nat
    BY <1>t, HandlerTypes DEF TypeOK
  <2>. QED
    BY <2>1, <2>2, <2>3
<1>4. CASE q = r
  BY <1>t, <1>2, <1>3, <1>4 DEF HandlerOK, At, Answered
<1>5. CASE q # r
  <2>1. req'[q] = req[q] /\ (Answered(q)' <=> Answered(q))
    BY <1>5, <1>t DEF OthersStay
  <2>. QED
    BY <1>t, <1>2, <1>3, <2>1 DEF HandlerOK, At
<1>. QED
  BY <1>4, <1>5

LEMMA GotoKeepsHandlers ==
  ASSUME IInv, NEW r \in Requests, NEW phase \in Phases, Goto(r, phase),
         req[r].at \in Running, clock' = clock, Onward(r, phase)
  PROVE  HandlerOK'
<1>t. TypeOK /\ HandlerOK
  BY DEF IInv
<1>1. /\ Moved(r)
      /\ req'[r].at = IF req[r].gone THEN "failed" ELSE phase
      /\ req'[r].found = req[r].found
  BY <1>t, GotoMoves
<1>2. ~ At(r, "new") /\ clock \in Nat /\ req[r].found \in BOOLEAN /\ req[r].kind \in Kinds
  BY <1>t, HandlerTypes DEF At, Running, TypeOK
<1>3. /\ \A q \in Requests \ {r} : req'[q] = req[q]
      /\ req'[r].kind = req[r].kind /\ req'[r].now = req[r].now /\ req'[r].session = req[r].session
  BY <1>1 DEF Moved
<1>4. /\ req[r].kind = "login" => req[r].at \in {"sweep", "insert", "ok", "failed"}
      /\ req[r].kind = "refresh" /\ ~ At(r, "failed") =>
           (req[r].found <=> req[r].at \notin {"find", "drop"})
      /\ req[r].kind = "logout" =>
           /\ req[r].at \in {"find", "delete", "clean", "ok", "failed"}
           /\ At(r, "find") => ~ req[r].found
           /\ At(r, "delete") => req[r].found
  BY <1>t, <1>2 DEF HandlerOK
<1>5. req'[r].at # "new" /\ (req'[r].at = "ok" => req[r].kind = "logout")
  BY <1>1, <1>2, <1>4 DEF Onward, At, Kinds
<1>6. req[r].kind = "login" => req'[r].at \in {"sweep", "insert", "ok", "failed"}
  BY <1>1, <1>4 DEF Onward, At, Running
<1>7. req[r].kind = "refresh" /\ req'[r].at # "failed" =>
        (req'[r].found <=> req'[r].at \notin {"find", "drop"})
  BY <1>1, <1>2, <1>4 DEF Onward, At, Running
<1>8. req[r].kind = "logout" =>
        /\ req'[r].at \in {"find", "delete", "clean", "ok", "failed"}
        /\ req'[r].at = "find" => ~ req'[r].found
        /\ req'[r].at = "delete" => req'[r].found
  BY <1>1, <1>4 DEF Onward, At, Running
<1>. QED
  BY <1>2, <1>3, <1>5, <1>6, <1>7, <1>8, KeepsHandlers

-----------------------------------------------------------------------------
(* A request finds its token. *)

Finds(r) == (FindToRotate(r) \/ FindToRevoke(r)) /\ ~ UNCHANGED req[r].found

\* It was there and not spent, and nobody else of a session that does not
\* overlap is about to insert one.
LEMMA FindEffect ==
  ASSUME TypeOK, HandlerOK, NEW r \in Requests, Finds(r)
  PROVE  /\ Moved(r)
         /\ At(r, "find") /\ req'[r].at = "delete" /\ req'[r].gone = req[r].gone
         /\ req[r].kind # "login" /\ ~ req[r].found /\ req'[r].found = TRUE
         /\ UNCHANGED <<clock, refresh_tokens, failures, spent, overlapped>>
         /\ \E k \in refresh_tokens :
              k.selector = req[r].token.selector /\ k.verifier = req[r].token.verifier
<1>1. /\ At(r, "find") /\ req[r].kind # "login"
      /\ UNCHANGED <<clock, refresh_tokens, failures, spent, overlapped>>
  BY DEF Finds, FindToRotate, FindToRevoke
<1>2. /\ FoundVerified(r, "delete")
      /\ \E k \in Rows(req[r].token.selector) : Verified(r, k)
  <2>1. {"failed", "drop", "clean"} \subseteq Phases
    BY DEF Phases, Running
  <2>2. \A phase \in Phases : Goto(r, phase) => UNCHANGED req[r].found
    BY GotoMoves
  <2>. QED
    BY <2>1, <2>2 DEF Finds, FindToRotate, FindToRevoke
<1>3. \E k \in refresh_tokens :
        k.selector = req[r].token.selector /\ k.verifier = req[r].token.verifier
  BY <1>2 DEF Rows, Verified
<1>4. Moved(r) /\ req'[r].at = "delete" /\ req'[r].gone = req[r].gone /\ req'[r].found = TRUE
  BY <1>2, FoundMoves
<1>5. req[r].found \in BOOLEAN
  BY HandlerTypes
<1>. QED
  BY <1>1, <1>3, <1>4, <1>5 DEF Finds

LEMMA FindKeeps ==
  ASSUME IInv, NEW r \in Requests, Finds(r)
  PROVE  /\ HandlerOK' /\ TokenOK' /\ RowsOK' /\ SpentOK'
         /\ OneTokenPerSession' /\ OneAtATime' /\ PastOK' /\ HeldOK' /\ LogoutLast'
<1>t. /\ TypeOK /\ HandlerOK /\ TokenOK /\ RowsOK /\ SpentOK
      /\ OneTokenPerSession /\ OneAtATime /\ PastOK /\ HeldOK /\ LogoutLast
  BY DEF IInv
<1>f. /\ Moved(r)
      /\ At(r, "find") /\ req'[r].at = "delete" /\ req'[r].gone = req[r].gone
      /\ req[r].kind # "login" /\ req'[r].found = TRUE
      /\ UNCHANGED <<clock, refresh_tokens, failures, spent, overlapped>>
  BY <1>t, FindEffect
<1>k. PICK k \in refresh_tokens :
        k.selector = req[r].token.selector /\ k.verifier = req[r].token.verifier
  BY <1>t, FindEffect
<1>o. /\ OthersStay(r)
      /\ \A q \in Requests : /\ req'[q].kind = req[q].kind /\ req'[q].now = req[q].now
                             /\ req'[q].token = req[q].token /\ req'[q].session = req[q].session
                             /\ req'[q].issued = req[q].issued
      /\ \A j \in refresh_tokens : j.verifier \in Requests
      /\ clock \in Nat /\ spent \subseteq Requests
  BY <1>t, <1>f, StayAsTheyWere DEF Moved, TypeOK, Record
<1>r. /\ ~ Answered(r) /\ ~ Answered(r)' /\ ~ Issues(r)' /\ ~ Ends(r)'
      /\ InFlight(r)' <=> InFlight(r)
      /\ ~ At(r, "ok")' /\ ~ At(r, "new")
      /\ \A j \in refresh_tokens : j.verifier # r
  BY <1>t, <1>f DEF Answered, At, Issues, Ends, InFlight, Running, RowsOK
<1>s. req[k.verifier].session = req[r].session
  BY <1>t, <1>f, <1>k DEF TokenOK
<1>1. HandlerOK'
  BY <1>f, <1>o, <1>r, KeepsHandlers DEF Moved
<1>2. TokenOK'
  BY <1>t, <1>o, <1>r DEF TokenOK, OthersStay
<1>3. RowsOK'
  BY <1>t, <1>f, <1>o, <1>r DEF RowsOK, At, RefreshExpiry, OthersStay
<1>4. SpentOK'
  BY <1>t, <1>f, <1>o, <1>r DEF SpentOK, OthersStay
<1>5. OneTokenPerSession'
  BY <1>t, <1>f, <1>o DEF OneTokenPerSession
<1>6. OneAtATime'
  <2>1. \A q \in Requests : InFlight(q)' <=> InFlight(q)
    BY <1>o, <1>r DEF OthersStay
  <2>. QED
    BY <1>t, <1>f, <1>o, <2>1 DEF OneAtATime
<1>i. \A q \in Requests : (Issues(q)' => Issues(q)) /\ (Ends(q)' => Ends(q))
  BY <1>o, <1>r DEF OthersStay
<1>7. PastOK'
  BY <1>t, <1>f, <1>o, <1>i DEF PastOK
<1>8. HeldOK'
  <2>1. SUFFICES ASSUME NEW p \in Requests, At(p, "delete")', InFlight(p)',
                        req[p].session \notin overlapped
                 PROVE  /\ \A j \in refresh_tokens :
                             req[j.verifier].session = req[p].session
                               => j.verifier = req[p].token.verifier
                        /\ \A q \in Requests : Issues(q)' \/ Ends(q)' => req[q].session # req[p].session
    BY <1>f, <1>o DEF HeldOK
  <2>2. CASE p = r
    <3>1. \A j \in refresh_tokens : req[j.verifier].session = req[r].session => j = k
      BY <1>t, <1>s, <2>1, <2>2 DEF OneTokenPerSession
    <3>2. \A q \in Requests : Issues(q) \/ Ends(q) => req[q].session # req[r].session
      BY <1>t, <1>s, <2>1, <2>2 DEF PastOK
    <3>. QED
      BY <1>i, <1>k, <2>2, <3>1, <3>2
  <2>3. CASE p # r
    <3>1. At(p, "delete") /\ InFlight(p)
      BY <2>1, <2>3, <1>o DEF OthersStay
    <3>. QED
      BY <1>t, <1>i, <2>1, <3>1 DEF HeldOK
  <2>. QED
    BY <2>2, <2>3
<1>9. LogoutLast'
  <2>1. SUFFICES ASSUME NEW p \in Requests, NEW q \in Requests, At(p, "ok")', Ends(p)',
                        req[p].session \notin overlapped,
                        req[q].session = req[p].session, req[q].now > req[p].now
                 PROVE  req[q].kind # "login" /\ ~ req'[q].found
    BY <1>f, <1>o DEF LogoutLast
  <2>2. At(p, "ok") /\ Ends(p)
    BY <2>1, <1>o, <1>r DEF OthersStay
  <2>3. req[k.verifier].session # req[p].session
    BY <1>t, <2>1, <2>2 DEF PastOK
  <2>4. q # r
    BY <2>1, <2>3, <1>s
  <2>. QED
    BY <1>t, <1>o, <2>1, <2>2, <2>4 DEF LogoutLast, OthersStay
<1>. QED
  BY <1>1, <1>2, <1>3, <1>4, <1>5, <1>6, <1>7, <1>8, <1>9

-----------------------------------------------------------------------------
(* A token that was found is deleted. *)

LEMMA DeleteKeeps ==
  ASSUME IInv, NEW r \in Requests, DeleteToken(r)
  PROVE  /\ HandlerOK' /\ TokenOK' /\ RowsOK' /\ SpentOK'
         /\ OneTokenPerSession' /\ OneAtATime' /\ PastOK' /\ HeldOK' /\ LogoutLast'
<1>t. /\ TypeOK /\ HandlerOK /\ TokenOK /\ RowsOK /\ SpentOK
      /\ OneTokenPerSession /\ OneAtATime /\ PastOK /\ HeldOK /\ LogoutLast
  BY DEF IInv
<1>v. PICK v : v = req[r].token.verifier
  OBVIOUS
<1>d. /\ At(r, "delete") /\ Goto(r, "clean")
      /\ refresh_tokens' = refresh_tokens \ Rows(req[r].token.selector)
      /\ spent' = spent \cup {v}
      /\ UNCHANGED <<clock, failures, overlapped>>
  BY <1>v DEF DeleteToken
<1>p. "clean" \in Phases /\ req[r].at \in Running
  BY <1>d DEF Phases, Running, At
<1>m. /\ Moved(r)
      /\ req'[r].at = IF req[r].gone THEN "failed" ELSE "clean"
      /\ req'[r].gone = FALSE /\ req'[r].found = req[r].found
      /\ req[r].gone \in BOOLEAN
  BY <1>t, <1>d, <1>p, GotoMoves, HandlerTypes
<1>o. /\ OthersStay(r)
      /\ \A q \in Requests : /\ req'[q].kind = req[q].kind /\ req'[q].now = req[q].now
                             /\ req'[q].token = req[q].token /\ req'[q].session = req[q].session
                             /\ req'[q].issued = req[q].issued /\ req'[q].found = req[q].found
      /\ refresh_tokens' \subseteq refresh_tokens
      /\ \A k \in refresh_tokens : k.verifier \in Requests
      /\ clock \in Nat /\ spent \subseteq Requests
  BY <1>t, <1>d, <1>m, StayAsTheyWere DEF Moved, TypeOK, Record
<1>r. /\ ~ Answered(r) /\ ~ Answered(r)'
      /\ ~ At(r, "ok")' /\ ~ At(r, "delete")'
      /\ InFlight(r)' => InFlight(r)
      /\ Issues(r)' \/ Ends(r)' => InFlight(r)
      /\ ~ Issues(r) /\ ~ Ends(r)
      /\ \A k \in refresh_tokens : k.verifier # r
  BY <1>t, <1>d, <1>m DEF Answered, At, Issues, Ends, InFlight, Running, RowsOK
<1>a. /\ v \in Requests /\ Answered(v)
      /\ req[r].token.selector = req[v].issued
  BY <1>t, <1>d, <1>v DEF TokenOK, HandlerOK, At
<1>g. \A k \in refresh_tokens' : k.verifier # v
  BY <1>t, <1>d, <1>a DEF RowsOK, Rows, Answered
<1>1. HandlerOK'
  BY <1>d, <1>p, GotoKeepsHandlers DEF Onward
<1>2. TokenOK'
  BY <1>t, <1>o, <1>r DEF TokenOK, OthersStay
<1>3. RowsOK'
  BY <1>t, <1>o, <1>r DEF RowsOK, At, RefreshExpiry, OthersStay
<1>4. SpentOK'
  BY <1>t, <1>d, <1>o, <1>r, <1>a, <1>g DEF SpentOK, OthersStay
<1>5. OneTokenPerSession'
  BY <1>t, <1>d, <1>o DEF OneTokenPerSession
<1>6. OneAtATime'
  <2>1. \A q \in Requests : InFlight(q)' => InFlight(q)
    BY <1>o, <1>r DEF OthersStay
  <2>. QED
    BY <1>t, <1>d, <1>o, <2>1 DEF OneAtATime
<1>h. InFlight(r) /\ req[r].session \notin overlapped =>
        /\ \A k \in refresh_tokens' : req[k.verifier].session # req[r].session
        /\ \A q \in Requests : Issues(q) \/ Ends(q) => req[q].session # req[r].session
  BY <1>t, <1>d, <1>v, <1>o, <1>g DEF HeldOK
<1>7. PastOK'
  <2>1. SUFFICES ASSUME NEW p \in Requests, Issues(p)' \/ Ends(p)', req[p].session \notin overlapped
                 PROVE  /\ \A k \in refresh_tokens' : req[k.verifier].session # req[p].session
                        /\ \A q \in Requests : Issues(q)' /\ req[q].session = req[p].session => q = p
    BY <1>d, <1>o DEF PastOK
  <2>2. \A q \in Requests : q # r => (Issues(q)' => Issues(q)) /\ (Ends(q)' => Ends(q))
    BY <1>o DEF OthersStay
  <2>3. CASE p = r
    BY <1>r, <1>h, <2>1, <2>2, <2>3
  <2>4. CASE p # r
    <3>1. Issues(p) \/ Ends(p)
      BY <2>1, <2>2, <2>4
    <3>2. Issues(r)' => req[r].session # req[p].session
      BY <1>r, <1>h, <2>1, <3>1
    <3>. QED
      BY <1>t, <1>o, <2>1, <2>2, <3>1, <3>2 DEF PastOK
  <2>. QED
    BY <2>3, <2>4
<1>8. HeldOK'
  <2>1. SUFFICES ASSUME NEW p \in Requests, At(p, "delete")', InFlight(p)',
                        req[p].session \notin overlapped
                 PROVE  /\ \A j \in refresh_tokens' :
                             req[j.verifier].session = req[p].session
                               => j.verifier = req[p].token.verifier
                        /\ \A q \in Requests : Issues(q)' \/ Ends(q)' => req[q].session # req[p].session
    BY <1>d, <1>o DEF HeldOK
  <2>2. p # r /\ At(p, "delete") /\ InFlight(p)
    BY <2>1, <1>o, <1>r DEF OthersStay
  <2>3. Issues(r)' \/ Ends(r)' => req[r].session # req[p].session
    BY <1>t, <1>r, <2>1, <2>2 DEF OneAtATime
  <2>4. \A q \in Requests : q # r => (Issues(q)' => Issues(q)) /\ (Ends(q)' => Ends(q))
    BY <1>o DEF OthersStay
  <2>. QED
    BY <1>t, <1>o, <2>1, <2>2, <2>3, <2>4 DEF HeldOK
<1>9. LogoutLast'
  <2>1. \A p \in Requests : At(p, "ok")' /\ Ends(p)' => At(p, "ok") /\ Ends(p)
    BY <1>o, <1>r DEF OthersStay
  <2>. QED
    BY <1>t, <1>d, <1>o, <2>1 DEF LogoutLast
<1>. QED
  BY <1>1, <1>2, <1>3, <1>4, <1>5, <1>6, <1>7, <1>8, <1>9

-----------------------------------------------------------------------------
(* A row is inserted. *)

LEMMA InsertEffect ==
  ASSUME TypeOK, HandlerOK, NEW r \in Requests, Insert(r)
  PROVE  /\ At(r, "insert") /\ req[r].kind # "logout"
         /\ UNCHANGED <<clock, failures, spent, overlapped>>
         /\ req' \in [Requests -> Handler]
         /\ \A q \in Requests \ {r} : req'[q] = req[q]
         /\ req'[r].kind = req[r].kind /\ req'[r].now = req[r].now
         /\ req'[r].token = req[r].token /\ req'[r].session = req[r].session
         /\ req'[r].found = req[r].found
         /\ \E k \in Record :
              /\ refresh_tokens' = refresh_tokens \cup {k}
              /\ k.verifier = r /\ k.expires_at = RefreshExpiry(req[r].now)
              /\ \A j \in refresh_tokens : j.selector # k.selector
              /\ \/ req'[r].at = "failed"
                 \/ req'[r].at = "ok" /\ req'[r].issued = k.selector
<1>1. /\ At(r, "insert") /\ UNCHANGED <<clock, failures, spent, overlapped>>
      /\ req[r] \in Handler /\ req \in [Requests -> Handler] /\ req[r].now \in Nat
  BY HandlerTypes DEF Insert, TypeOK
<1>2. req[r].kind # "logout"
  BY <1>1 DEF HandlerOK, At
<1>3. PICK s \in Selectors :
        /\ Rows(s) = {}
        /\ refresh_tokens' = refresh_tokens \cup
             {[selector |-> s, verifier |-> r, expires_at |-> RefreshExpiry(req[r].now)]}
        /\ \/ req[r].gone /\ Goto(r, "failed")
           \/ ~ req[r].gone /\ req' = [req EXCEPT ![r] = [@ EXCEPT !.at = "ok", !.issued = s]]
  BY DEF Insert
<1>4. RefreshExpiry(req[r].now) \in Nat
  BY <1>1, TimeAssumption DEF RefreshExpiry
<1>5. [selector |-> s, verifier |-> r, expires_at |-> RefreshExpiry(req[r].now)] \in Record
  BY <1>4 DEF Record
<1>6. \A j \in refresh_tokens : j.selector # s
  BY <1>3 DEF Rows
<1>7. /\ req' \in [Requests -> Handler]
      /\ \A q \in Requests \ {r} : req'[q] = req[q]
      /\ req'[r].kind = req[r].kind /\ req'[r].now = req[r].now
      /\ req'[r].token = req[r].token /\ req'[r].session = req[r].session
      /\ req'[r].found = req[r].found
      /\ req'[r].at = "failed" \/ (req'[r].at = "ok" /\ req'[r].issued = s)
  <2>1. CASE Goto(r, "failed")
    <3>1. "failed" \in Phases
      BY DEF Phases
    <3>. QED
      BY <2>1, <3>1, GotoMoves DEF Moved
  <2>2. CASE req' = [req EXCEPT ![r] = [@ EXCEPT !.at = "ok", !.issued = s]]
    <3>1. [req[r] EXCEPT !.at = "ok", !.issued = s] \in Handler
      BY <1>1 DEF Handler, Phases
    <3>. QED
      BY <1>1, <2>2, <3>1 DEF Handler
  <2>. QED
    BY <1>3, <2>1, <2>2
<1>. QED
  BY <1>1, <1>2, <1>3, <1>5, <1>6, <1>7

LEMMA InsertKeeps ==
  ASSUME IInv, NEW r \in Requests, Insert(r)
  PROVE  /\ HandlerOK' /\ TokenOK' /\ RowsOK' /\ SpentOK'
         /\ OneTokenPerSession' /\ OneAtATime' /\ PastOK' /\ HeldOK' /\ LogoutLast'
<1>t. /\ TypeOK /\ HandlerOK /\ TokenOK /\ RowsOK /\ SpentOK
      /\ OneTokenPerSession /\ OneAtATime /\ PastOK /\ HeldOK /\ LogoutLast
  BY DEF IInv
<1>i. /\ At(r, "insert") /\ req[r].kind # "logout"
      /\ UNCHANGED <<clock, failures, spent, overlapped>>
      /\ \A q \in Requests \ {r} : req'[q] = req[q]
      /\ req'[r].kind = req[r].kind /\ req'[r].now = req[r].now
      /\ req'[r].token = req[r].token /\ req'[r].session = req[r].session
      /\ req'[r].found = req[r].found
  BY <1>t, InsertEffect
<1>k. PICK k \in Record :
        /\ refresh_tokens' = refresh_tokens \cup {k}
        /\ k.verifier = r /\ k.expires_at = RefreshExpiry(req[r].now)
        /\ \A j \in refresh_tokens : j.selector # k.selector
        /\ \/ req'[r].at = "failed"
           \/ req'[r].at = "ok" /\ req'[r].issued = k.selector
  BY <1>t, InsertEffect
<1>o. /\ OthersStay(r)
      /\ \A q \in Requests : /\ req'[q].kind = req[q].kind /\ req'[q].now = req[q].now
                             /\ req'[q].token = req[q].token /\ req'[q].session = req[q].session
                             /\ req'[q].found = req[q].found
      /\ \A j \in refresh_tokens : j.verifier \in Requests
      /\ clock \in Nat /\ spent \subseteq Requests
  BY <1>t, <1>i, StayAsTheyWere DEF TypeOK, Record
<1>r. /\ ~ Answered(r) /\ ~ At(r, "new") /\ Issues(r)
      /\ ~ At(r, "delete")' /\ ~ InFlight(r)' /\ ~ Issues(r)' /\ ~ Ends(r)'
      /\ \A j \in refresh_tokens : j.verifier # r
  BY <1>t, <1>i, <1>k DEF Answered, At, Issues, Ends, InFlight, Running, RowsOK
<1>1. HandlerOK'
  <2>1. k.selector \in Selectors /\ req'[r].at # "new" /\ req[r].found \in BOOLEAN
    BY <1>t, <1>k, HandlerTypes DEF Record
  <2>2. req[r].kind = "refresh" => req[r].found
    BY <1>t, <1>i DEF HandlerOK, At
  <2>. QED
    BY <1>i, <1>k, <1>o, <1>r, <2>1, <2>2, KeepsHandlers
<1>a. \A q \in Requests : Answered(q) => q # r /\ req'[q] = req[q] /\ Answered(q)'
  BY <1>r, <1>o DEF OthersStay
<1>2. TokenOK'
  BY <1>t, <1>o, <1>a DEF TokenOK
<1>3. RowsOK'
  <2>1. /\ req'[k.verifier].kind # "logout" /\ req'[k.verifier].at \in {"ok", "failed"}
        /\ k.expires_at = RefreshExpiry(req'[k.verifier].now)
        /\ req'[k.verifier].at = "ok" => req'[k.verifier].issued = k.selector
    BY <1>i, <1>k
  <2>2. ASSUME NEW j \in refresh_tokens
        PROVE  /\ req'[j.verifier].kind # "logout" /\ req'[j.verifier].at \in {"ok", "failed"}
               /\ j.expires_at = RefreshExpiry(req'[j.verifier].now)
               /\ req'[j.verifier].at = "ok" => req'[j.verifier].issued = j.selector
    <3>1. req'[j.verifier] = req[j.verifier]
      BY <1>i, <1>o, <1>r
    <3>. QED
      BY <1>t, <3>1 DEF RowsOK, At
  <2>3. \A i, j \in refresh_tokens' : i.selector = j.selector \/ i.verifier = j.verifier => i = j
    BY <1>t, <1>k, <1>r DEF RowsOK
  <2>. QED
    BY <1>k, <2>1, <2>2, <2>3 DEF RowsOK, At, RefreshExpiry
<1>4. SpentOK'
  <2>1. r \notin spent
    BY <1>t, <1>r DEF SpentOK
  <2>. QED
    BY <1>t, <1>i, <1>k, <1>o, <1>a, <2>1 DEF SpentOK
<1>n. req[r].session \notin overlapped =>
        \A j \in refresh_tokens : req[j.verifier].session # req[r].session
  BY <1>t, <1>r DEF PastOK
<1>s. \A j \in refresh_tokens' : j.verifier \in Requests
  BY <1>k, <1>o
<1>5. OneTokenPerSession'
  <2>1. \A i, j \in refresh_tokens' :
          req[i.verifier].session = req[j.verifier].session
            => i = j \/ req[j.verifier].session \in overlapped
    BY <1>t, <1>k, <1>n DEF OneTokenPerSession
  <2>. QED
    BY <1>i, <1>o, <1>s, <2>1 DEF OneTokenPerSession
<1>6. OneAtATime'
  <2>1. \A q \in Requests : InFlight(q)' => InFlight(q)
    BY <1>o, <1>r DEF OthersStay
  <2>. QED
    BY <1>t, <1>i, <1>o, <2>1 DEF OneAtATime
<1>p. \A q \in Requests : /\ Issues(q)' => q # r /\ Issues(q)
                          /\ Ends(q)' => q # r /\ Ends(q)
  BY <1>o, <1>r DEF OthersStay
<1>7. PastOK'
  <2>1. SUFFICES ASSUME NEW p \in Requests, Issues(p)' \/ Ends(p)', req[p].session \notin overlapped
                 PROVE  /\ \A j \in refresh_tokens' : req[j.verifier].session # req[p].session
                        /\ \A q \in Requests : Issues(q)' /\ req[q].session = req[p].session => q = p
    BY <1>i, <1>o, <1>s DEF PastOK
  <2>2. p # r /\ (Issues(p) \/ Ends(p))
    BY <1>p, <2>1
  <2>3. req[r].session # req[p].session
    BY <1>t, <1>r, <2>1, <2>2 DEF PastOK
  <2>. QED
    BY <1>t, <1>k, <1>p, <2>1, <2>2, <2>3 DEF PastOK
<1>8. HeldOK'
  <2>1. SUFFICES ASSUME NEW p \in Requests, At(p, "delete")', InFlight(p)',
                        req[p].session \notin overlapped
                 PROVE  /\ \A j \in refresh_tokens' :
                             req[j.verifier].session = req[p].session
                               => j.verifier = req[p].token.verifier
                        /\ \A q \in Requests : Issues(q)' \/ Ends(q)' => req[q].session # req[p].session
    BY <1>i, <1>o, <1>s DEF HeldOK
  <2>2. p # r /\ At(p, "delete") /\ InFlight(p)
    BY <2>1, <1>o, <1>r DEF OthersStay
  <2>3. req[r].session # req[p].session
    BY <1>t, <1>r, <2>1, <2>2 DEF HeldOK
  <2>. QED
    BY <1>t, <1>k, <1>p, <2>1, <2>2, <2>3 DEF HeldOK
<1>9. LogoutLast'
  <2>1. \A p \in Requests : At(p, "ok")' /\ Ends(p)' => At(p, "ok") /\ Ends(p)
    BY <1>o, <1>p DEF OthersStay
  <2>. QED
    BY <1>t, <1>i, <1>o, <2>1 DEF LogoutLast
<1>. QED
  BY <1>1, <1>2, <1>3, <1>4, <1>5, <1>6, <1>7, <1>8, <1>9

-----------------------------------------------------------------------------
(* The invariant. *)

LEMMA InitIInv == Init => IInv
<1>. SUFFICES ASSUME Init PROVE IInv
  OBVIOUS
<1>1. \A r \in Requests : /\ req[r].at = "new" /\ req[r].kind = "login" /\ req[r].session = None
                          /\ req[r].found = FALSE
  BY DEF Init
<1>2. TypeOK
  <2>1. [at |-> "new", kind |-> "login", now |-> 0, token |-> NoToken,
         session |-> None, found |-> FALSE, issued |-> None, gone |-> FALSE] \in Handler
    BY DEF Handler, Phases, Kinds, Token, NoToken
  <2>. QED
    BY <2>1, TimeAssumption DEF Init, TypeOK
<1>3. HandlerOK /\ GoneOK /\ TokenOK
  BY <1>1 DEF Init, HandlerOK, GoneOK, TokenOK, At, Answered
<1>4. RowsOK /\ SpentOK /\ OneTokenPerSession
  BY DEF Init, RowsOK, SpentOK, OneTokenPerSession
<1>5. OneAtATime /\ PastOK /\ HeldOK /\ LogoutLast
  BY <1>1 DEF OneAtATime, PastOK, HeldOK, LogoutLast, InFlight, Running, Issues, Ends, At
<1>. QED
  BY <1>2, <1>3, <1>4, <1>5 DEF IInv

\* Every step has its types.
LEMMA TypeStep ==
  ASSUME IInv, [Next]_vars
  PROVE  TypeOK'
<1>t. /\ TypeOK /\ HandlerOK
      /\ clock \in 0..MaxTime /\ clock \in Nat
      /\ refresh_tokens \subseteq Record
      /\ \A k \in refresh_tokens :
           k.expires_at \in Nat /\ k.expires_at <= clock + RefreshTTL * TicksPerSecond
      /\ RefreshTTL * TicksPerSecond \in Nat
      /\ failures \in 0..MaxFailures /\ spent \subseteq Requests /\ overlapped \subseteq Requests
  BY TimeAssumption DEF IInv, TypeOK, Record
<1>g. ASSUME NEW r \in Requests, NEW phase \in Phases, Goto(r, phase)
      PROVE  req' \in [Requests -> Handler]
  BY <1>t, <1>g, GotoMoves DEF Moved
<1>p. {"failed", "clean", "drop", "sweep", "ok", "insert"} \subseteq Phases
  BY DEF Phases, Running
<1>1. CASE Tick \/ UNCHANGED vars
  <2>1. clock' \in 0..MaxTime /\ clock <= clock'
    BY <1>1, <1>t, TimeAssumption DEF Tick, vars
  <2>2. \A k \in refresh_tokens : k.expires_at <= clock' + RefreshTTL * TicksPerSecond
    BY <1>t, <2>1
  <2>. QED
    BY <1>1, <1>t, <2>1, <2>2 DEF Tick, vars, TypeOK
<1>2. ASSUME NEW r \in Requests, Login(r)
      PROVE  TypeOK'
  BY <1>2, <1>t, LoginBegins DEF Begun, TypeOK
<1>3. ASSUME NEW r \in Requests, NEW kind \in {"refresh", "logout"}, Present(r, kind)
      PROVE  TypeOK'
  <2>1. Begun(r)
    BY <1>3, <1>t, PresentBegins
  <2>2. overlapped' \subseteq Requests
    <3>1. PICK q \in Requests :
            Answered(q) /\ overlapped' \subseteq overlapped \cup {req[q].session}
      BY <1>3, <1>t, PresentBegins
    <3>2. req[q].session \in Requests
      BY <1>t, <3>1 DEF HandlerOK, Answered, At
    <3>. QED
      BY <1>t, <3>1, <3>2
  <2>. QED
    BY <1>t, <2>1, <2>2 DEF Begun, TypeOK
<1>4. ASSUME NEW r \in Requests,
             FindToRotate(r) \/ FindToRevoke(r) \/ DropExpired(r) \/ DeleteToken(r)
               \/ Clean(r) \/ Sweep(r)
      PROVE  TypeOK'
  <2>1. req' \in [Requests -> Handler]
    <3>1. ASSUME FoundVerified(r, "delete")
          PROVE  req' \in [Requests -> Handler]
      BY <1>t, <3>1, FoundMoves DEF Moved
    <3>. QED
      BY <1>4, <1>g, <1>p, <3>1
         DEF FindToRotate, FindToRevoke, DropExpired, DeleteToken, Clean, Sweep
  <2>2. spent' \subseteq Requests
    <3>1. CASE DeleteToken(r)
      <4>1. req[r].token.verifier \in Requests
        BY <3>1 DEF DeleteToken, IInv, HandlerOK, TokenOK, At
      <4>. QED
        BY <1>t, <3>1, <4>1 DEF DeleteToken
    <3>. QED
      BY <1>4, <1>t, <3>1 DEF FindToRotate, FindToRevoke, DropExpired, Clean, Sweep
  <2>3. /\ refresh_tokens' \subseteq refresh_tokens
        /\ UNCHANGED <<clock, failures, overlapped>>
    BY <1>4 DEF FindToRotate, FindToRevoke, DropExpired, DeleteToken, Clean, Sweep
  <2>. QED
    BY <1>t, <2>1, <2>2, <2>3 DEF TypeOK
<1>5. ASSUME NEW r \in Requests, Insert(r)
      PROVE  TypeOK'
  <2>1. /\ req' \in [Requests -> Handler] /\ At(r, "insert")
        /\ UNCHANGED <<clock, failures, spent, overlapped>>
    BY <1>t, <1>5, InsertEffect
  <2>2. PICK k \in Record : /\ refresh_tokens' = refresh_tokens \cup {k}
                            /\ k.expires_at = RefreshExpiry(req[r].now)
    BY <1>t, <1>5, InsertEffect
  <2>3. req[r].now \in Nat /\ req[r].now <= clock
    BY <1>t, <2>1, HandlerTypes DEF HandlerOK, At
  <2>4. k.expires_at <= clock + RefreshTTL * TicksPerSecond
    BY <1>t, <2>2, <2>3 DEF RefreshExpiry
  <2>. QED
    BY <1>t, <2>1, <2>2, <2>4 DEF TypeOK
<1>6. ASSUME NEW r \in Requests, Leave(r) \/ Abort(r)
      PROVE  TypeOK'
  <2>1. req' \in [Requests -> Handler]
    <3>1. ASSUME Leave(r)
          PROVE  req' \in [Requests -> Handler]
      BY <1>t, <3>1 DEF Leave, TypeOK, Handler
    <3>. QED
      BY <1>6, <1>g, <1>p, <3>1 DEF Abort
  <2>2. failures' \in 0..MaxFailures /\ UNCHANGED <<clock, refresh_tokens, spent, overlapped>>
    BY <1>t, <1>6, TimeAssumption DEF Leave, Abort, Fail
  <2>. QED
    BY <1>t, <2>1, <2>2 DEF TypeOK
<1>. QED
  BY <1>1, <1>2, <1>3, <1>4, <1>5, <1>6 DEF Next, Begin, Handle

LEMMA QuietHandlers ==
  ASSUME IInv, NEW r \in Requests,
         FindToRotate(r) \/ FindToRevoke(r) \/ DropExpired(r) \/ Clean(r) \/ Sweep(r)
           \/ Leave(r) \/ Abort(r),
         ~ Finds(r)
  PROVE  HandlerOK'
<1>t. TypeOK /\ HandlerOK
  BY DEF IInv
<1>p. /\ {"failed", "clean", "drop", "sweep", "ok", "insert"} \subseteq Phases
      /\ {"find", "clean", "drop", "sweep"} \subseteq Running
  BY DEF Phases, Running
<1>1. CASE Leave(r)
  <2>1. /\ \A q \in Requests \ {r} : req'[q] = req[q]
        /\ req'[r].kind = req[r].kind /\ req'[r].now = req[r].now
        /\ req'[r].session = req[r].session /\ req'[r].at = req[r].at
        /\ req'[r].found = req[r].found /\ req'[r].issued = req[r].issued
        /\ clock' = clock /\ clock \in Nat
        /\ req[r].at \in Running
    BY <1>1, <1>t DEF Leave, TypeOK, Handler, InFlight
  <2>2. /\ ~ At(r, "new") /\ req[r].at # "ok" /\ ~ At(r, "failed")
    BY <2>1 DEF At, Running
  <2>3. /\ req[r].kind = "login" => req[r].at \in {"sweep", "insert", "ok", "failed"}
        /\ req[r].kind = "refresh" => (req[r].found <=> req[r].at \notin {"find", "drop"})
        /\ req[r].kind = "logout" =>
             /\ req[r].at \in {"find", "delete", "clean", "ok", "failed"}
             /\ req[r].at = "find" => ~ req[r].found
             /\ req[r].at = "delete" => req[r].found
    BY <1>t, <2>2 DEF HandlerOK, At
  <2>. QED
    BY <2>1, <2>2, <2>3, KeepsHandlers DEF At
<1>2. CASE ~ Leave(r)
  <2>1. req[r].at \in Running /\ clock' = clock
    BY <1>2, <1>p DEF FindToRotate, FindToRevoke, DropExpired, Clean, Sweep, Abort, At
  <2>2. \E phase \in Phases : Goto(r, phase) /\ Onward(r, phase)
    <3>1. ~ FoundVerified(r, "delete")
          \/ ~ (FindToRotate(r) \/ FindToRevoke(r))
      <4>1. SUFFICES ASSUME FoundVerified(r, "delete"), FindToRotate(r) \/ FindToRevoke(r)
                     PROVE  FALSE
        OBVIOUS
      <4>2. ~ req[r].found
        BY <1>t, <4>1 DEF FindToRotate, FindToRevoke, HandlerOK, At
      <4>3. req'[r].found = TRUE
        BY <1>t, <4>1, FoundMoves
      <4>. QED
        BY <4>1, <4>2, <4>3 DEF Finds
    <3>2. CASE FindToRotate(r)
      BY <1>p, <3>1, <3>2 DEF FindToRotate, Onward, At
    <3>3. CASE FindToRevoke(r)
      BY <1>p, <3>1, <3>3 DEF FindToRevoke, Onward, At
    <3>4. CASE DropExpired(r) \/ Abort(r)
      BY <1>p, <3>4 DEF DropExpired, Abort, Onward
    <3>5. CASE Clean(r)
      BY <1>p, <3>5 DEF Clean, Onward, At
    <3>6. CASE Sweep(r)
      BY <1>p, <3>6 DEF Sweep, Onward, At
    <3>. QED
      BY <1>2, <3>2, <3>3, <3>4, <3>5, <3>6
  <2>. QED
    BY <2>1, <2>2, GotoKeepsHandlers
<1>. QED
  BY <1>1, <1>2

\* Goto takes a handler back, and of those that begin or find a token none is gone.
LEMMA GoneStep ==
  ASSUME IInv, [Next]_vars
  PROVE  GoneOK'
<1>t. TypeOK /\ HandlerOK /\ GoneOK /\ req \in [Requests -> Handler]
  BY DEF IInv, TypeOK
<1>p. {"failed", "clean", "drop", "sweep", "ok", "insert"} \subseteq Phases
  BY DEF Phases, Running
<1>1. CASE Tick \/ UNCHANGED vars
  BY <1>1, <1>t DEF Tick, vars, GoneOK
<1>2. ASSUME NEW r \in Requests, \A q \in Requests \ {r} : req'[q] = req[q],
             req'[r].gone => req'[r].at \in Running \ {"find"}
      PROVE  GoneOK'
  BY <1>2, <1>t DEF GoneOK
<1>3. ASSUME NEW r \in Requests, NEW phase \in Phases, Goto(r, phase)
      PROVE  GoneOK'
  BY <1>2, <1>3, <1>t, GotoMoves DEF Moved
<1>4. ASSUME NEW r \in Requests, Begin(r)
      PROVE  GoneOK'
  <2>1. At(r, "new") /\ ~ req[r].gone
    BY <1>4, <1>t DEF Begin, Login, Present, GoneOK, At, Running
  <2>2. (\A q \in Requests \ {r} : req'[q] = req[q]) /\ req'[r].gone = req[r].gone
    BY <1>4, <1>t DEF Begin, Login, Present, Handler
  <2>. QED
    BY <1>2, <2>1, <2>2
<1>5. ASSUME NEW r \in Requests, FoundVerified(r, "delete")
      PROVE  GoneOK'
  BY <1>2, <1>5, <1>t, FoundMoves DEF Moved, Running
<1>6. ASSUME NEW r \in Requests, Insert(r)
      PROVE  GoneOK'
  <2>1. PICK s \in Selectors :
          \/ Goto(r, "failed")
          \/ ~ req[r].gone /\ req' = [req EXCEPT ![r] = [@ EXCEPT !.at = "ok", !.issued = s]]
    BY <1>6 DEF Insert
  <2>2. CASE Goto(r, "failed")
    BY <1>3, <1>p, <2>2
  <2>3. CASE ~ req[r].gone /\ req' = [req EXCEPT ![r] = [@ EXCEPT !.at = "ok", !.issued = s]]
    BY <1>2, <1>t, <2>3 DEF Handler
  <2>. QED
    BY <2>1, <2>2, <2>3
<1>7. ASSUME NEW r \in Requests, Leave(r)
      PROVE  GoneOK'
  <2>1. req[r].at \in Running \ {"find"} /\ req' = [req EXCEPT ![r].gone = TRUE]
    BY <1>7 DEF Leave, InFlight, At
  <2>. QED
    BY <1>2, <1>t, <2>1 DEF Handler
<1>8. ASSUME NEW r \in Requests,
             FindToRotate(r) \/ FindToRevoke(r) \/ DropExpired(r) \/ DeleteToken(r)
               \/ Clean(r) \/ Sweep(r) \/ Abort(r)
      PROVE  GoneOK'
  BY <1>3, <1>5, <1>8, <1>p
     DEF FindToRotate, FindToRevoke, DropExpired, DeleteToken, Clean, Sweep, Abort
<1>. QED
  BY <1>1, <1>4, <1>6, <1>7, <1>8 DEF Next, Handle

LEMMA Step == IInv /\ [Next]_vars => IInv'
<1>. SUFFICES ASSUME IInv, [Next]_vars PROVE IInv'
  OBVIOUS
<1>t. TypeOK' /\ GoneOK' /\ TypeOK /\ HandlerOK
  BY TypeStep, GoneStep DEF IInv
<1>1. CASE Tick \/ UNCHANGED vars
  <2>1. Quiet
    BY <1>1, <1>t, QuietTick
  <2>2. HandlerOK'
    <3>1. req' = req
      BY <1>1 DEF Tick, vars
    <3>2. \A q \in Requests : req[q].now <= clock => req[q].now <= clock'
      BY <1>t, <2>1, HandlerTypes DEF Quiet
    <3>. QED
      BY <1>t, <3>1, <3>2 DEF HandlerOK, At, Answered
  <2>. QED
    BY <1>t, <2>1, <2>2, QuietKeeps DEF IInv
<1>2. ASSUME NEW r \in Requests, Login(r)
      PROVE  IInv'
  BY <1>2, <1>t, LoginKeeps DEF IInv
<1>3. ASSUME NEW r \in Requests, Present(r, "refresh") \/ Present(r, "logout")
      PROVE  IInv'
  BY <1>3, <1>t, PresentKeeps DEF IInv
<1>4. ASSUME NEW r \in Requests, Finds(r)
      PROVE  IInv'
  BY <1>4, <1>t, FindKeeps DEF IInv
<1>5. ASSUME NEW r \in Requests, DeleteToken(r)
      PROVE  IInv'
  BY <1>5, <1>t, DeleteKeeps DEF IInv
<1>6. ASSUME NEW r \in Requests, Insert(r)
      PROVE  IInv'
  BY <1>6, <1>t, InsertKeeps DEF IInv
<1>7. ASSUME NEW r \in Requests,
             FindToRotate(r) \/ FindToRevoke(r) \/ DropExpired(r) \/ Clean(r) \/ Sweep(r)
               \/ Leave(r) \/ Abort(r),
             ~ Finds(r)
      PROVE  IInv'
  <2>1. Quiet
    BY <1>7, <1>t, QuietStep DEF Finds
  <2>2. HandlerOK'
    BY <1>7, QuietHandlers
  <2>. QED
    BY <1>t, <2>1, <2>2, QuietKeeps DEF IInv
<1>. QED
  BY <1>1, <1>2, <1>3, <1>4, <1>5, <1>6, <1>7 DEF Next, Begin, Handle

-----------------------------------------------------------------------------
(* The theorems. *)

\* The inductive invariant of the table, its handlers and what they have done so
\* far, whatever they race with, fail in or leave behind.
THEOREM Inductive == Spec => []IInv
<1>. QED
  BY InitIInv, Step, PTL DEF Spec

\* The table and the handlers keep their types.
THEOREM TypeCorrect == Spec => []TypeOK
<1>1. IInv => TypeOK
  BY DEF IInv
<1>. QED
  BY <1>1, Inductive, PTL

\* A session whose requests do not overlap has one refresh token at most.
THEOREM SessionHasOneToken == Spec => []OneTokenPerSession
<1>1. IInv => OneTokenPerSession
  BY DEF IInv
<1>. QED
  BY <1>1, Inductive, PTL

\* The row of a token that is found again is one that nobody has deleted.
THEOREM SpentTokensStaySpent == Spec => UsedOnlyWhileStored
<1>1. IInv /\ [Next]_vars =>
        [\A r \in Requests : req'[r].found /\ ~ req[r].found => req[r].token.verifier \notin spent]_vars
  <2>. SUFFICES ASSUME IInv, Next
                PROVE  \A r \in Requests :
                         req'[r].found /\ ~ req[r].found => req[r].token.verifier \notin spent
    OBVIOUS
  <2>1. SUFFICES ASSUME NEW r \in Requests, req'[r].found, ~ req[r].found
                 PROVE  req[r].token.verifier \notin spent
    OBVIOUS
  <2>t. TypeOK /\ HandlerOK /\ SpentOK
    BY DEF IInv
  <2>2. Finds(r)
    <3>1. ASSUME Quiet
          PROVE  FALSE
      BY <2>1, <3>1 DEF Quiet
    <3>2. ASSUME NEW q \in Requests, req'[q].found = req[q].found \/ ~ req'[q].found,
                 \A p \in Requests \ {q} : req'[p] = req[p]
          PROVE  FALSE
      BY <2>1, <3>2
    <3>3. ASSUME NEW q \in Requests, Finds(q)
          PROVE  Finds(r)
      BY <2>1, <2>t, <3>3, FindEffect DEF Moved
    <3>4. ~ Tick
      BY <2>t, <3>1, QuietTick
    <3>5. ASSUME NEW q \in Requests, Begin(q)
          PROVE  FALSE
      <4>1. Begun(q)
        BY <2>t, <3>5, LoginBegins, PresentBegins DEF Begin
      <4>. QED
        BY <3>2, <4>1 DEF Begun
    <3>6. ASSUME NEW q \in Requests, Handle(q) \/ Leave(q) \/ Abort(q), ~ Finds(q)
          PROVE  FALSE
      <4>1. CASE DeleteToken(q)
        <5>1. "clean" \in Phases
          BY DEF Phases, Running
        <5>. QED
          BY <2>t, <3>2, <4>1, <5>1, GotoMoves DEF DeleteToken, Moved
      <4>2. CASE Insert(q)
        BY <2>t, <3>2, <4>2, InsertEffect
      <4>3. CASE ~ DeleteToken(q) /\ ~ Insert(q)
        BY <2>t, <3>1, <3>6, <4>3, QuietStep DEF Handle, Finds
      <4>. QED
        BY <4>1, <4>2, <4>3
    <3>. QED
      BY <2>1, <3>3, <3>4, <3>5, <3>6 DEF Next
  <2>3. PICK k \in refresh_tokens : k.verifier = req[r].token.verifier
    BY <2>t, <2>2, FindEffect
  <2>. QED
    BY <2>t, <2>3 DEF SpentOK
<1>. QED
  BY <1>1, Inductive, PTL DEF Spec, UsedOnlyWhileStored

\* A row that is valid is only deleted by a request that presented its selector.
THEOREM CleanUpKeepsValidRows == Spec => ValidRowsKept
<1>1. IInv /\ [Next]_vars =>
        [\A k \in refresh_tokens \ refresh_tokens' :
           k.expires_at > clock =>
             \E r \in Requests : /\ req[r].at \in {"drop", "delete"} /\ req'[r].at # req[r].at
                                 /\ req[r].token.selector = k.selector]_vars
  <2>. SUFFICES ASSUME IInv, Next
                PROVE  \A k \in refresh_tokens \ refresh_tokens' :
                         k.expires_at > clock =>
                           \E r \in Requests : /\ req[r].at \in {"drop", "delete"}
                                               /\ req'[r].at # req[r].at
                                               /\ req[r].token.selector = k.selector
    OBVIOUS
  <2>1. SUFFICES ASSUME NEW k \in refresh_tokens, k \notin refresh_tokens',
                        k.expires_at > clock
                 PROVE  \E r \in Requests : /\ req[r].at \in {"drop", "delete"}
                                            /\ req'[r].at # req[r].at
                                            /\ req[r].token.selector = k.selector
    OBVIOUS
  <2>t. /\ TypeOK /\ HandlerOK /\ clock \in Nat /\ k.expires_at \in Nat
        /\ "failed" \in Phases /\ "clean" \in Phases
    BY DEF IInv, TypeOK, Record, Phases, Running
  <2>2. ASSUME NEW r \in Requests, Clean(r) \/ Sweep(r)
        PROVE  FALSE
    <3>1. req[r].now <= clock /\ req[r].now \in Nat
      BY <2>t, <2>2, HandlerTypes DEF Clean, Sweep, HandlerOK, At
    <3>2. k.expires_at <= req[r].now
      BY <2>1, <2>2 DEF Clean, Sweep, Expired
    <3>. QED
      BY <2>1, <2>t, <3>1, <3>2
  <2>3. ASSUME NEW r \in Requests, DropExpired(r) \/ DeleteToken(r)
        PROVE  /\ req[r].at \in {"drop", "delete"} /\ req'[r].at # req[r].at
               /\ req[r].token.selector = k.selector
    <3>1. /\ req[r].at \in {"drop", "delete"}
          /\ k \in Rows(req[r].token.selector)
          /\ Goto(r, "failed") \/ Goto(r, "clean")
      BY <2>1, <2>3 DEF DropExpired, DeleteToken, At
    <3>2. req'[r].at \in {"failed", "clean"}
      BY <2>t, <3>1, GotoMoves
    <3>. QED
      BY <3>1, <3>2 DEF Rows
  <2>. QED
    BY <2>1, <2>2, <2>3
       DEF Next, Begin, Handle, Tick, Login, Present, FindToRotate, FindToRevoke, Insert,
           Leave, Abort
<1>. QED
  BY <1>1, Inductive, PTL DEF Spec, ValidRowsKept

-----------------------------------------------------------------------------
(* Access tokens. *)

\* Truncation to seconds is monotone, and takes away less than a second.
LEMMA Seconds ==
  ASSUME NEW a \in Nat, NEW b \in Nat, NEW t \in Nat \ {0}
  PROVE  /\ a <= b => a \div t <= b \div t
         /\ a + t <= b => a \div t < b \div t
<1>1. ASSUME a <= b
      PROVE  a \div t <= b \div t
  BY <1>1
<1>2. ASSUME a + t <= b
      PROVE  a \div t < b \div t
  BY <1>2
<1>3. a \div t \in Nat /\ b \div t \in Nat
  OBVIOUS
<1>. QED
  BY <1>1, <1>2, <1>3

\* The times of a handler, with the lives of the tokens in ticks.
LEMMA Times ==
  ASSUME TypeOK, NEW r \in Requests
  PROVE  /\ clock \in Nat /\ req[r].now \in Nat
         /\ TicksPerSecond \in Nat \ {0}
         /\ TokenTTL * TicksPerSecond \in Nat /\ RefreshTTL * TicksPerSecond \in Nat
         /\ (TokenTTL + 1) * TicksPerSecond = TokenTTL * TicksPerSecond + TicksPerSecond
         /\ (TokenTTL + 1) * TicksPerSecond <= RefreshTTL * TicksPerSecond
         /\ AccessExpiresAt(r) = req[r].now + TokenTTL * TicksPerSecond
         /\ RefreshExpiry(req[r].now) = req[r].now + RefreshTTL * TicksPerSecond
<1>1. /\ clock \in Nat /\ req[r].now \in Nat
      /\ TicksPerSecond \in Nat \ {0} /\ TokenTTL \in Nat /\ RefreshTTL \in Nat
      /\ TokenTTL + 1 <= RefreshTTL
  BY HandlerTypes, TimeAssumption DEF TypeOK, Valid
<1>2. ASSUME NEW a \in Nat, NEW b \in Nat, NEW t \in Nat, a <= b
      PROVE  a * t <= b * t /\ a * t \in Nat /\ (a + 1) * t = a * t + t
  BY <1>2
<1>3. (TokenTTL + 1) * TicksPerSecond <= RefreshTTL * TicksPerSecond
  BY <1>1, <1>2
<1>4. /\ TokenTTL * TicksPerSecond \in Nat /\ RefreshTTL * TicksPerSecond \in Nat
      /\ (TokenTTL + 1) * TicksPerSecond = TokenTTL * TicksPerSecond + TicksPerSecond
  BY <1>1, <1>2
<1>. QED
  BY <1>1, <1>3, <1>4 DEF AccessExpiresAt, RefreshExpiry

\* An access token is refused a second after its expiry at the latest, and not
\* before.
LEMMA AcceptedUntil ==
  ASSUME TypeOK, NEW r \in Requests
  PROVE  /\ clock <= AccessExpiresAt(r) => Accepts(r)
         /\ clock >= AccessExpiresAt(r) + TicksPerSecond => ~ Accepts(r)
<1>1. /\ clock \in Nat /\ AccessExpiresAt(r) \in Nat /\ TicksPerSecond \in Nat \ {0}
      /\ clock \div TicksPerSecond \in Nat /\ AccessExpiresAt(r) \div TicksPerSecond \in Nat
  BY Times
<1>. QED
  BY <1>1, Seconds DEF Accepts, Exp

\* An access token is accepted until its expiry, no whole second longer and not
\* longer than the refresh token beside it.
THEOREM AccessEnds == Spec => []AccessLife
<1>1. TypeOK => AccessLife
  <2>1. SUFFICES ASSUME TypeOK, NEW r \in Requests
                 PROVE  /\ clock < AccessExpiresAt(r) => Accepts(r)
                        /\ clock >= AccessExpiresAt(r) + TicksPerSecond => ~ Accepts(r)
                        /\ Accepts(r) => clock < RefreshExpiry(req[r].now)
    BY DEF AccessLife
  <2>2. /\ clock \in Nat /\ AccessExpiresAt(r) \in Nat /\ TicksPerSecond \in Nat
        /\ AccessExpiresAt(r) + TicksPerSecond <= RefreshExpiry(req[r].now)
        /\ RefreshExpiry(req[r].now) \in Nat
    BY <2>1, Times
  <2>3. /\ clock <= AccessExpiresAt(r) => Accepts(r)
        /\ clock >= AccessExpiresAt(r) + TicksPerSecond => ~ Accepts(r)
    BY <2>1, AcceptedUntil
  <2>. QED
    BY <2>2, <2>3
<1>. QED
  BY <1>1, TypeCorrect, PTL

\* A logout that found its token leaves the session with no refresh token, and with
\* access tokens that end within their life and a second.
THEOREM LogoutEndsSession == Spec => []LogoutEnds
<1>1. IInv => LogoutEnds
  <2>1. SUFFICES ASSUME IInv, NEW r \in Requests, At(r, "ok"), req[r].kind = "logout",
                        req[r].found, req[r].session \notin overlapped
                 PROVE  /\ \A k \in refresh_tokens : req[k.verifier].session # req[r].session
                        /\ \A q \in Requests :
                             Answered(q) /\ req[q].session = req[r].session
                               /\ clock >= req[r].now + (TokenTTL + 1) * TicksPerSecond
                               => ~ Accepts(q)
    BY DEF LogoutEnds
  <2>t. TypeOK /\ HandlerOK /\ PastOK /\ LogoutLast /\ Ends(r)
    BY <2>1 DEF IInv, Ends, At
  <2>2. \A k \in refresh_tokens : req[k.verifier].session # req[r].session
    BY <2>t, <2>1 DEF PastOK
  <2>3. ASSUME NEW q \in Requests, Answered(q), req[q].session = req[r].session,
               clock >= req[r].now + (TokenTTL + 1) * TicksPerSecond
        PROVE  ~ Accepts(q)
    <3>1. req[q].kind = "login" \/ req[q].found
      BY <2>t, <2>3 DEF HandlerOK, Answered, At
    <3>2. req[q].now <= req[r].now
      <4>1. ~ (req[q].now > req[r].now)
        BY <2>t, <2>1, <2>3, <3>1 DEF LogoutLast
      <4>. QED
        BY <4>1, <2>t, Times
    <3>3. clock >= AccessExpiresAt(q) + TicksPerSecond
      BY <2>t, <2>3, <3>2, Times
    <3>. QED
      BY <2>t, <3>3, AcceptedUntil
  <2>. QED
    BY <2>2, <2>3
<1>. QED
  BY <1>1, Inductive, PTL

-----------------------------------------------------------------------------
(* The handlers implement Sessions. *)

AsToken(r) == [session |-> req[r].session, token |-> r]
Promised(r) == req[r].session \notin overlapped

\* The tokens of a set, with one more or one less.
LEMMA WithSessions ==
  ASSUME NEW T, NEW r
  PROVE  /\ OfSessions(T) = {AsToken(q) : q \in {p \in T : Promised(p)}}
         /\ OfSessions(T \cup {r}) =
              IF Promised(r) THEN OfSessions(T) \cup {AsToken(r)} ELSE OfSessions(T)
         /\ OfSessions(T \ {r}) = OfSessions(T) \ {AsToken(r)}
<1>1. ASSUME NEW U
      PROVE  OfSessions(U) = {AsToken(q) : q \in {p \in U : Promised(p)}}
  BY DEF OfSessions, AsToken, Promised
<1>2. ASSUME NEW q, AsToken(q) = AsToken(r)
      PROVE  q = r
  BY <1>2 DEF AsToken
<1>3. OfSessions(T \cup {r}) =
        IF Promised(r) THEN OfSessions(T) \cup {AsToken(r)} ELSE OfSessions(T)
  BY <1>1
<1>4. OfSessions(T \ {r}) = OfSessions(T) \ {AsToken(r)}
  BY <1>1, <1>2
<1>. QED
  BY <1>1, <1>3, <1>4

\* A smaller set of tokens.
LEMMA FewerSessions ==
  ASSUME NEW T, NEW U, T \subseteq U
  PROVE  OfSessions(T) \subseteq OfSessions(U)
BY DEF OfSessions

\* Whose tokens there are.
LEMMA TokensOfRequests ==
  ASSUME TypeOK
  PROVE  /\ Stored \subseteq Requests /\ Owing \subseteq Requests
         /\ \A k \in refresh_tokens : k.verifier \in Stored
BY DEF TypeOK, Record, Stored, Owing

\* No request is in another session, and none is in one that it was not in before.
Settled ==
  /\ overlapped' = overlapped
  /\ \A q \in Requests : req'[q].session = req[q].session

LEMMA SettledTokens ==
  ASSUME TypeOK, TypeOK', Settled
  PROVE  /\ OfSessions(Stored)' = OfSessions(Stored')
         /\ OfSessions(Owing)' = OfSessions(Owing')
<1>1. Stored' \subseteq Requests /\ Owing' \subseteq Requests
  BY DEF TypeOK, Record, Stored, Owing
<1>2. OfSessions(Stored)' = OfSessions(Stored')
  BY <1>1 DEF Settled, OfSessions
<1>3. OfSessions(Owing)' = OfSessions(Owing')
  BY <1>1 DEF Settled, OfSessions
<1>. QED
  BY <1>2, <1>3

\* Nothing that the variables of Sessions stand for has changed.
LEMMA Stutters ==
  ASSUME OfSessions(Stored)' = OfSessions(Stored), OfSessions(Owing)' = OfSessions(Owing),
         Used' = Used, overlapped' = overlapped
  PROVE  [S!Next]_(S!vars)
BY DEF S!vars, Used

\* Rows are gone, and no more.
LEMMA Deletes ==
  ASSUME TypeOK, TypeOK', Settled, refresh_tokens' \subseteq refresh_tokens,
         Owing' = Owing, Used' = Used
  PROVE  [S!Next]_(S!vars)
<1>1. Stored' \subseteq Stored
  BY DEF Stored
<1>2. /\ OfSessions(Stored)' \subseteq OfSessions(Stored)
      /\ OfSessions(Owing)' = OfSessions(Owing)
  BY <1>1, SettledTokens, FewerSessions
<1>3. PICK K \in SUBSET OfSessions(Stored) : OfSessions(Stored)' = OfSessions(Stored) \ K
  <2>1. OfSessions(Stored)' = OfSessions(Stored) \ (OfSessions(Stored) \ OfSessions(Stored)')
    BY <1>2
  <2>. QED
    BY <2>1
<1>4. S!Delete(K)
  BY <1>2, <1>3 DEF S!Delete, Settled, Used
<1>. QED
  BY <1>4 DEF S!Next

\* A handler does not owe a token any more, and no more.
LEMMA Fails ==
  ASSUME TypeOK, TypeOK', Settled, NEW r \in Requests, refresh_tokens' = refresh_tokens,
         Owing' \in {Owing, Owing \ {r}}, Used' = Used
  PROVE  [S!Next]_(S!vars)
<1>1. /\ OfSessions(Stored)' = OfSessions(Stored)
      /\ OfSessions(Owing)' = OfSessions(Owing')
  BY SettledTokens DEF Stored
<1>2. OfSessions(Owing)' \in {OfSessions(Owing), OfSessions(Owing) \ {AsToken(r)}}
  BY <1>1, WithSessions
<1>3. CASE OfSessions(Owing)' = OfSessions(Owing)
  BY <1>1, <1>3, Stutters DEF Settled
<1>4. CASE AsToken(r) \in OfSessions(Owing) /\ OfSessions(Owing)' # OfSessions(Owing)
  <2>1. S!Fail(AsToken(r))
    BY <1>1, <1>2, <1>4 DEF S!Fail, Settled, Used
  <2>. QED
    BY <1>4, <2>1 DEF S!Next
<1>. QED
  BY <1>2, <1>3, <1>4

\* A handler that goes on owes the token that it owed before, one that fails does not.
LEMMA GotoOwes ==
  ASSUME TypeOK, HandlerOK, NEW r \in Requests, NEW phase \in Phases, Goto(r, phase),
         req[r].at \in Running, Onward(r, phase)
  PROVE  /\ Used' = Used
         /\ Owing' \in {Owing, Owing \ {r}}
         /\ phase # "failed" \/ ~ Owes(r) => Owing' = Owing
<1>1. /\ Moved(r)
      /\ req'[r].at = IF req[r].gone THEN "failed" ELSE phase
      /\ req'[r].gone = FALSE
      /\ req'[r].found = req[r].found
  BY GotoMoves
<1>2. /\ \A q \in Requests \ {r} : req'[q] = req[q]
      /\ req'[r].kind = req[r].kind
      /\ req[r].gone \in BOOLEAN /\ req[r].kind \in Kinds
  BY <1>1, HandlerTypes DEF Moved
<1>3. req[r].at # "new" /\ req'[r].at # "new"
  BY <1>1 DEF Running, Onward
<1>4. \A q \in Requests \ {r} : Owes(q)' <=> Owes(q)
  BY <1>2 DEF Owes, At
<1>5. \A q \in Requests : (LoggedIn(q)' <=> LoggedIn(q)) /\ (Exchanged(q)' <=> Exchanged(q))
  BY <1>1, <1>2, <1>3 DEF LoggedIn, Exchanged, At
<1>6. Owes(r)' => Owes(r)
  BY <1>1, <1>2 DEF Owes, At, Onward
<1>7. Owes(r) /\ phase # "failed" => Owes(r)'
  <2>1. SUFFICES ASSUME Owes(r), phase # "failed"
                 PROVE  Owes(r)'
    OBVIOUS
  <2>2. req[r].kind # "logout" /\ (At(r, "clean") => req[r].kind = "refresh")
    BY <1>2, <2>1 DEF Owes, HandlerOK, At, Kinds
  <2>3. req[r].at \in {"delete", "clean", "sweep"} /\ ~ req[r].gone
    BY <2>1 DEF Owes, At, Onward
  <2>. QED
    BY <1>1, <1>2, <2>1, <2>2, <2>3 DEF Owes, At, Onward
<1>. QED
  BY <1>4, <1>5, <1>6, <1>7 DEF Owing, Used

\* A refresh that finds its token takes it; it is the only one of its session, and
\* nobody else is about to insert one.
LEMMA FindStep ==
  ASSUME IInv, TypeOK', NEW r \in Requests, Finds(r)
  PROVE  [S!Next]_(S!vars)
<1>t. /\ TypeOK /\ HandlerOK /\ GoneOK /\ TokenOK /\ OneAtATime /\ PastOK
      /\ overlapped \subseteq Requests
  BY DEF IInv, TypeOK
<1>f. /\ Moved(r)
      /\ At(r, "find") /\ req'[r].at = "delete" /\ req'[r].gone = req[r].gone
      /\ req[r].kind # "login" /\ ~ req[r].found /\ req'[r].found = TRUE
      /\ UNCHANGED <<refresh_tokens, overlapped>>
  BY <1>t, FindEffect
<1>k. PICK k \in refresh_tokens :
        k.selector = req[r].token.selector /\ k.verifier = req[r].token.verifier
  BY <1>t, FindEffect
<1>1. /\ \A q \in Requests \ {r} : req'[q] = req[q]
      /\ req'[r].kind = req[r].kind /\ ~ req[r].gone /\ InFlight(r)
      /\ req[r].session \in Requests
      /\ Settled
  BY <1>t, <1>f DEF Moved, Settled, GoneOK, HandlerOK, InFlight, Running, At
<1>2. \A q \in Requests \ {r} : /\ Owes(q)' <=> Owes(q)
                                /\ LoggedIn(q)' <=> LoggedIn(q)
                                /\ Exchanged(q)' <=> Exchanged(q)
  BY <1>1 DEF Owes, LoggedIn, Exchanged, At
<1>3. OfSessions(Stored)' = OfSessions(Stored) /\ OfSessions(Owing)' = OfSessions(Owing')
  BY <1>t, <1>1, <1>f, SettledTokens DEF Stored
<1>4. CASE req[r].kind = "logout"
  <2>1. Owing' = Owing /\ Used' = Used
    BY <1>1, <1>2, <1>4 DEF Owing, Used, Owes, LoggedIn, Exchanged
  <2>. QED
    BY <1>1, <1>3, <2>1, Stutters DEF Settled
<1>5. CASE req[r].kind = "refresh"
  <2>1. ~ Owes(r) /\ Owes(r)' /\ r \notin Used /\ Exchanged(r)'
    BY <1>1, <1>5, <1>f DEF Owes, Used, LoggedIn, Exchanged, At
  <2>2. Owing' = Owing \cup {r} /\ Used' = Used \cup {r}
    BY <1>2, <2>1 DEF Owing, Used
  <2>3. S!Fresh(r)
    BY <2>1, <2>2 DEF S!Fresh, Used
  <2>4. CASE ~ Promised(r)
    <3>1. OfSessions(Owing)' = OfSessions(Owing)
      BY <1>3, <2>2, <2>4, WithSessions
    <3>2. S!Elsewhere(r)
      BY <1>1, <1>3, <2>3, <2>4, <3>1 DEF S!Elsewhere, Settled, Promised
    <3>. QED
      BY <3>2 DEF S!Next
  <2>5. CASE Promised(r)
    <3>1. /\ k.verifier \in Stored /\ k.verifier \in Requests
          /\ req[k.verifier].session = req[r].session
      BY <1>t, <1>f, <1>k, TokensOfRequests DEF TokenOK
    <3>2. AsToken(k.verifier) \in OfSessions(Stored)
      <4>1. Promised(k.verifier)
        BY <2>5, <3>1 DEF Promised
      <4>. QED
        BY <3>1, <4>1 DEF OfSessions, Promised, AsToken
    <3>3. ASSUME NEW q \in Owing, req[q].session = req[r].session
          PROVE  FALSE
      <4>1. q \in Requests /\ Owes(q) /\ q # r
        BY <2>1, <3>3 DEF Owing
      <4>2. CASE At(q, "insert")
        <5>1. Issues(q)
          BY <4>1, <4>2 DEF Issues, Owes, At
        <5>. QED
          BY <1>t, <2>5, <3>1, <3>3, <4>1, <5>1 DEF PastOK, Promised
      <4>3. CASE ~ At(q, "insert")
        <5>1. InFlight(q)
          BY <4>1, <4>3 DEF InFlight, Owes, Running
        <5>. QED
          BY <1>t, <1>1, <2>5, <3>3, <4>1, <5>1 DEF OneAtATime, Promised
      <4>. QED
        BY <4>2, <4>3
    <3>4. S!Of(req[r].session, OfSessions(Owing)) = {}
      BY <3>3 DEF S!Of, OfSessions
    <3>5. OfSessions(Owing)' = OfSessions(Owing) \cup {AsToken(r)}
      BY <1>3, <2>2, <2>5, WithSessions
    <3>6. AsToken(k.verifier).session = req[r].session /\ AsToken(r).session = req[r].session
      BY <3>1 DEF AsToken
    <3>7. S!Take(AsToken(k.verifier), r)
      BY <1>1, <1>3, <2>3, <3>4, <3>5, <3>6 DEF S!Take, Settled, AsToken
    <3>. QED
      BY <3>2, <3>7 DEF S!Next
  <2>. QED
    BY <2>4, <2>5
<1>. QED
  BY <1>t, <1>f, <1>4, <1>5, HandlerTypes DEF Kinds

\* The row that is inserted was due, and the one before it is gone.
LEMMA InsertStep ==
  ASSUME IInv, TypeOK', NEW r \in Requests, Insert(r)
  PROVE  [S!Next]_(S!vars)
<1>t. TypeOK /\ HandlerOK /\ PastOK
  BY DEF IInv
<1>i. /\ At(r, "insert") /\ req[r].kind # "logout" /\ overlapped' = overlapped
      /\ \A q \in Requests \ {r} : req'[q] = req[q]
      /\ req'[r].kind = req[r].kind /\ req'[r].session = req[r].session
      /\ req'[r].found = req[r].found
      /\ req'[r].at \in {"ok", "failed"}
  BY <1>t, InsertEffect
<1>k. PICK k \in Record : refresh_tokens' = refresh_tokens \cup {k} /\ k.verifier = r
  BY <1>t, InsertEffect
<1>1. Settled /\ Stored' = Stored \cup {r}
  BY <1>i, <1>k DEF Settled, Stored
<1>2. /\ \A q \in Requests \ {r} : /\ Owes(q)' <=> Owes(q)
                                   /\ LoggedIn(q)' <=> LoggedIn(q)
                                   /\ Exchanged(q)' <=> Exchanged(q)
      /\ Owes(r) /\ ~ Owes(r)'
      /\ LoggedIn(r)' <=> LoggedIn(r)
      /\ Exchanged(r)' <=> Exchanged(r)
  BY <1>i DEF Owes, LoggedIn, Exchanged, At
<1>3. Owing' = Owing \ {r} /\ r \in Owing /\ Used' = Used
  BY <1>2 DEF Owing, Used
<1>4. /\ OfSessions(Stored)' = OfSessions(Stored \cup {r})
      /\ OfSessions(Owing)' = OfSessions(Owing \ {r})
  BY <1>t, <1>1, <1>3, SettledTokens
<1>5. CASE ~ Promised(r)
  <2>1. AsToken(r) \notin OfSessions(Owing)
    BY <1>5 DEF AsToken, OfSessions, Promised
  <2>2. OfSessions(Owing \ {r}) = OfSessions(Owing)
    <3>1. OfSessions(Owing \ {r}) = OfSessions(Owing) \ {AsToken(r)}
      BY WithSessions
    <3>. QED
      BY <2>1, <3>1
  <2>3. OfSessions(Stored \cup {r}) = OfSessions(Stored)
    BY <1>5, WithSessions
  <2>. QED
    BY <1>1, <1>3, <1>4, <2>2, <2>3, Stutters DEF Settled
<1>6. CASE Promised(r)
  <2>1. Issues(r)
    BY <1>i DEF Issues, At
  <2>2. \A q \in Stored : req[q].session # req[r].session
    BY <1>t, <1>6, <2>1 DEF PastOK, Promised, Stored
  <2>3. S!Of(req[r].session, OfSessions(Stored)) = {}
    BY <2>2 DEF S!Of, OfSessions
  <2>4. AsToken(r) \in OfSessions(Owing) /\ AsToken(r).session = req[r].session
    BY <1>3, <1>6 DEF OfSessions, Promised, AsToken
  <2>5. S!Store(AsToken(r))
    BY <1>1, <1>3, <1>4, <1>6, <2>3, <2>4, WithSessions DEF S!Store, Settled, Used
  <2>. QED
    BY <2>4, <2>5 DEF S!Next
<1>. QED
  BY <1>5, <1>6

\* A login opens a session.
LEMMA LoginStep ==
  ASSUME IInv, TypeOK', NEW r \in Requests, Login(r)
  PROVE  [S!Next]_(S!vars)
<1>t. TypeOK /\ HandlerOK /\ GoneOK /\ req \in [Requests -> Handler]
  BY DEF IInv, TypeOK
<1>b. /\ Begun(r) /\ req'[r].at = "sweep" /\ req'[r].kind = "login"
      /\ req'[r].session = r /\ overlapped' = overlapped
  BY <1>t, LoginBegins
<1>1. /\ At(r, "new") /\ req[r].kind = "login" /\ ~ req'[r].gone
      /\ refresh_tokens' = refresh_tokens
      /\ \A q \in Requests \ {r} : req'[q] = req[q]
  <2>1. req'[r].gone = req[r].gone
    BY <1>t DEF Login, Handler
  <2>. QED
    BY <1>t, <1>b, <2>1 DEF Begun, HandlerOK, GoneOK, At, Running
<1>2. \A q \in Requests \ {r} : /\ Owes(q)' <=> Owes(q)
                                /\ LoggedIn(q)' <=> LoggedIn(q)
                                /\ Exchanged(q)' <=> Exchanged(q)
  BY <1>1 DEF Owes, LoggedIn, Exchanged, At
<1>3. ~ Owes(r) /\ Owes(r)' /\ r \notin Used /\ LoggedIn(r)'
  BY <1>1, <1>b DEF Owes, Used, LoggedIn, Exchanged, At
<1>4. Owing' = Owing \cup {r} /\ r \notin Owing /\ Used' = Used \cup {r}
  BY <1>2, <1>3 DEF Owing, Used
<1>5. S!Fresh(r)
  BY <1>3, <1>4 DEF S!Fresh, Used
<1>6. Stored' = Stored /\ Stored \subseteq Requests \ {r} /\ Owing \subseteq Requests
  <2>1. \A k \in refresh_tokens : k.verifier \in Requests \ {r}
    BY <1>b, BegunOthers
  <2>. QED
    BY <1>1, <2>1 DEF Stored, Owing
<1>7. OfSessions(Stored)' = OfSessions(Stored)
  BY <1>1, <1>6, <1>b DEF OfSessions
<1>8. OfSessions(Owing)' = IF r \in overlapped THEN OfSessions(Owing)
                           ELSE OfSessions(Owing) \cup {[session |-> r, token |-> r]}
  BY <1>1, <1>4, <1>6, <1>b DEF OfSessions
<1>9. CASE r \in overlapped
  <2>1. S!Elsewhere(r)
    BY <1>5, <1>7, <1>8, <1>9, <1>b DEF S!Elsewhere
  <2>. QED
    BY <2>1 DEF S!Next
<1>10. CASE r \notin overlapped
  <2>1. S!Open(r)
    BY <1>5, <1>7, <1>8, <1>10, <1>b DEF S!Open
  <2>. QED
    BY <2>1 DEF S!Next
<1>. QED
  BY <1>9, <1>10

\* A token is presented: nothing yet, or its session overlaps from now on.
LEMMA PresentStep ==
  ASSUME IInv, TypeOK', NEW r \in Requests, NEW kind \in {"refresh", "logout"}, Present(r, kind)
  PROVE  [S!Next]_(S!vars)
<1>t. TypeOK /\ HandlerOK
  BY DEF IInv
<1>b. Begun(r) /\ req'[r].at = "find" /\ req'[r].kind = kind
  BY <1>t, PresentBegins
<1>p. PICK a \in Requests :
        /\ a # r /\ Answered(a)
        /\ overlapped \subseteq overlapped'
        /\ overlapped' \subseteq overlapped \cup {req[a].session}
  BY <1>t, PresentBegins
<1>1. /\ At(r, "new") /\ req[r].kind = "login" /\ ~ req'[r].found
      /\ refresh_tokens' = refresh_tokens
      /\ \A q \in Requests \ {r} : req'[q] = req[q]
      /\ req[a].session \in Requests
  BY <1>t, <1>b, <1>p DEF Begun, HandlerOK, Answered, At
<1>2. \A q \in Requests \ {r} : /\ Owes(q)' <=> Owes(q)
                                /\ LoggedIn(q)' <=> LoggedIn(q)
                                /\ Exchanged(q)' <=> Exchanged(q)
  BY <1>1 DEF Owes, LoggedIn, Exchanged, At
<1>3. /\ ~ Owes(r) /\ ~ Owes(r)'
      /\ ~ LoggedIn(r) /\ ~ Exchanged(r) /\ ~ LoggedIn(r)' /\ ~ Exchanged(r)'
  BY <1>1, <1>b DEF Owes, LoggedIn, Exchanged, At
<1>4. Owing' = Owing /\ r \notin Owing /\ Used' = Used
  BY <1>2, <1>3 DEF Owing, Used
<1>6. Stored' = Stored /\ Stored \subseteq Requests \ {r} /\ Owing \subseteq Requests \ {r}
  <2>1. \A k \in refresh_tokens : k.verifier \in Requests \ {r}
    BY <1>b, BegunOthers
  <2>. QED
    BY <1>1, <1>4, <2>1 DEF Stored, Owing
<1>7. \A q \in Stored \cup Owing : req'[q].session = req[q].session
  BY <1>1, <1>6
<1>8. CASE overlapped' = overlapped
  <2>1. OfSessions(Stored)' = OfSessions(Stored) /\ OfSessions(Owing)' = OfSessions(Owing)
    BY <1>4, <1>6, <1>7, <1>8 DEF OfSessions
  <2>. QED
    BY <1>4, <1>8, <2>1, Stutters
<1>9. CASE overlapped' = overlapped \cup {req[a].session}
  <2>1. OfSessions(Stored)' =
          OfSessions(Stored) \ S!Of(req[a].session, OfSessions(Stored))
    BY <1>6, <1>7, <1>9 DEF OfSessions, S!Of
  <2>2. OfSessions(Owing)' = OfSessions(Owing) \ S!Of(req[a].session, OfSessions(Owing))
    BY <1>4, <1>7, <1>9 DEF OfSessions, S!Of
  <2>3. S!Race(req[a].session)
    BY <1>4, <1>9, <2>1, <2>2 DEF S!Race, Used
  <2>. QED
    BY <1>1, <2>3 DEF S!Next
<1>. QED
  BY <1>p, <1>8, <1>9

\* Every other step takes rows away or fails.
LEMMA OtherSteps ==
  ASSUME IInv, TypeOK', NEW r \in Requests,
         FindToRotate(r) \/ FindToRevoke(r) \/ DropExpired(r) \/ DeleteToken(r)
           \/ Clean(r) \/ Sweep(r) \/ Leave(r) \/ Abort(r),
         ~ Finds(r)
  PROVE  [S!Next]_(S!vars)
<1>t. TypeOK /\ HandlerOK /\ req \in [Requests -> Handler]
  BY DEF IInv, TypeOK
<1>p. /\ {"failed", "clean", "drop", "sweep", "ok", "insert"} \subseteq Phases
      /\ {"find", "drop", "delete", "clean", "sweep", "insert"} = Running
  BY DEF Phases, Running
<1>1. ASSUME NEW phase \in Phases, Goto(r, phase), overlapped' = overlapped
      PROVE  Settled
  BY <1>t, <1>1, GotoMoves DEF Moved, Settled
<1>2. ASSUME NEW phase \in Phases, Goto(r, phase), overlapped' = overlapped,
             refresh_tokens' \subseteq refresh_tokens,
             req[r].at \in Running, Onward(r, phase), phase # "failed" \/ ~ Owes(r)
      PROVE  [S!Next]_(S!vars)
  BY <1>t, <1>1, <1>2, GotoOwes, Deletes
<1>3. CASE FindToRotate(r) \/ FindToRevoke(r)
  <2>1. ~ FoundVerified(r, "delete")
    <3>1. SUFFICES ASSUME FoundVerified(r, "delete")
                   PROVE  FALSE
      OBVIOUS
    <3>2. ~ req[r].found
      BY <1>t, <1>3 DEF FindToRotate, FindToRevoke, HandlerOK, At
    <3>3. req'[r].found = TRUE
      BY <1>t, <3>1, FoundMoves
    <3>. QED
      BY <1>3, <3>2, <3>3 DEF Finds
  <2>2. /\ ~ Owes(r) /\ overlapped' = overlapped /\ refresh_tokens' = refresh_tokens
        /\ req[r].at \in Running
    BY <1>3, <1>p DEF FindToRotate, FindToRevoke, Owes, At
  <2>3. \E phase \in Phases : Goto(r, phase) /\ Onward(r, phase)
    <3>1. CASE FindToRotate(r)
      BY <1>p, <2>1, <3>1 DEF FindToRotate, Onward, At
    <3>2. CASE FindToRevoke(r)
      BY <1>p, <2>1, <3>2 DEF FindToRevoke, Onward, At
    <3>. QED
      BY <1>3, <3>1, <3>2
  <2>. QED
    BY <1>2, <2>2, <2>3
<1>4. CASE DropExpired(r)
  BY <1>2, <1>4, <1>p DEF DropExpired, Onward, Owes, At
<1>5. CASE DeleteToken(r)
  BY <1>2, <1>5, <1>p DEF DeleteToken, Onward, At
<1>6. CASE Clean(r)
  BY <1>2, <1>6, <1>p DEF Clean, Onward, At
<1>7. CASE Sweep(r)
  BY <1>2, <1>7, <1>p DEF Sweep, Onward, At
<1>8. CASE Abort(r)
  BY <1>t, <1>1, <1>8, <1>p, GotoOwes, Fails DEF Abort, Onward
<1>9. CASE Leave(r)
  <2>1. /\ \A q \in Requests \ {r} : req'[q] = req[q]
        /\ req'[r].at = req[r].at /\ req'[r].kind = req[r].kind
        /\ req'[r].session = req[r].session /\ req'[r].found = req[r].found
        /\ req'[r].gone = TRUE
        /\ refresh_tokens' = refresh_tokens /\ overlapped' = overlapped
    BY <1>t, <1>9 DEF Leave, Handler
  <2>2. /\ \A q \in Requests \ {r} : Owes(q)' <=> Owes(q)
        /\ Owes(r)' => Owes(r)
        /\ \A q \in Requests : LoggedIn(q)' <=> LoggedIn(q)
        /\ \A q \in Requests : Exchanged(q)' <=> Exchanged(q)
    BY <2>1 DEF Owes, LoggedIn, Exchanged, At
  <2>3. Owing' \in {Owing, Owing \ {r}} /\ Used' = Used /\ Settled
    BY <2>1, <2>2 DEF Owing, Used, Settled
  <2>. QED
    BY <1>t, <2>1, <2>3, Fails
<1>. QED
  BY <1>3, <1>4, <1>5, <1>6, <1>7, <1>8, <1>9

\* The handlers implement Sessions, for every number of requests, every life of a
\* token and every failure: a session whose requests do not overlap is a chain of
\* tokens, one at a time.
THEOREM HandlersImplementSessions == Spec => ChainOfTokens
<1>1. Init => S!Init
  BY DEF Init, S!Init, OfSessions, Stored, Owing, Used, Owes, LoggedIn, Exchanged, At
<1>2. IInv /\ IInv' /\ [Next]_vars => [S!Next]_(S!vars)
  <2>. SUFFICES ASSUME IInv, TypeOK', [Next]_vars
                PROVE  [S!Next]_(S!vars)
    BY DEF IInv
  <2>1. CASE Tick \/ UNCHANGED vars
    BY <2>1 DEF Tick, vars, S!vars, OfSessions, Stored, Owing, Used, Owes, LoggedIn, Exchanged, At
  <2>2. ASSUME NEW r \in Requests, Begin(r)
        PROVE  [S!Next]_(S!vars)
    BY <2>2, LoginStep, PresentStep DEF Begin
  <2>3. ASSUME NEW r \in Requests, Handle(r) \/ Leave(r) \/ Abort(r)
        PROVE  [S!Next]_(S!vars)
    <3>1. CASE Finds(r)
      BY <3>1, FindStep
    <3>2. CASE Insert(r)
      BY <3>2, InsertStep
    <3>3. CASE ~ Finds(r) /\ ~ Insert(r)
      BY <2>3, <3>3, OtherSteps DEF Handle
    <3>. QED
      BY <3>1, <3>2, <3>3
  <2>. QED
    BY <2>1, <2>2, <2>3 DEF Next
<1>. QED
  BY <1>1, <1>2, Inductive, PTL DEF Spec, ChainOfTokens, S!Spec

\* A session whose last token was given up, expired or lost with no other due for it
\* does not come back, whichever request runs late.
THEOREM SessionsStayOver == Spec => S!StaysOver
<1>1. ASSUME [S!Next]_(S!vars)
      PROVE  [\A s \in Requests : S!Over(s) => S!Over(s)']_(S!vars)
  <2>. SUFFICES ASSUME S!Next, NEW s \in Requests, S!Over(s)
                PROVE  S!Over(s)'
    BY <1>1
  <2>. DEFINE Gone(T) == \A k \in T : k.session # s
  <2>1. /\ s \in Used /\ Gone(OfSessions(Stored)) /\ Gone(OfSessions(Owing))
    BY DEF S!Over, S!Of, Used
  <2>2. SUFFICES s \in Used' /\ Gone(OfSessions(Stored)') /\ Gone(OfSessions(Owing)')
    BY DEF S!Over, S!Of, Used
  <2>3. ASSUME NEW k \in OfSessions(Owing), S!Store(k) \/ S!Fail(k)
        PROVE  s \in Used' /\ Gone(OfSessions(Stored)') /\ Gone(OfSessions(Owing)')
    BY <2>1, <2>3 DEF S!Store, S!Fail, Used
  <2>4. ASSUME NEW k \in OfSessions(Stored), NEW t \in Requests, S!Take(k, t)
        PROVE  s \in Used' /\ Gone(OfSessions(Stored)') /\ Gone(OfSessions(Owing)')
    BY <2>1, <2>4 DEF S!Take, S!Fresh, Used
  <2>5. ASSUME NEW K \in SUBSET OfSessions(Stored), S!Delete(K)
        PROVE  s \in Used' /\ Gone(OfSessions(Stored)') /\ Gone(OfSessions(Owing)')
    BY <2>1, <2>5 DEF S!Delete, Used
  <2>6. ASSUME NEW t \in Requests, S!Open(t) \/ S!Race(t) \/ S!Elsewhere(t)
        PROVE  s \in Used' /\ Gone(OfSessions(Stored)') /\ Gone(OfSessions(Owing)')
    BY <2>1, <2>6 DEF S!Open, S!Race, S!Elsewhere, S!Fresh, Used
  <2>. QED
    BY <2>3, <2>4, <2>5, <2>6 DEF S!Next
<1>. QED
  BY <1>1, HandlersImplementSessions, PTL DEF ChainOfTokens, S!Spec, S!StaysOver
=============================================================================
