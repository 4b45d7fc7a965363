------------------------ MODULE SchedulerLoopProofs ------------------------
(***************************************************************************)
(* Proofs about ConfigApi and about SchedulerLoop, which runs its handlers *)
(* beside the worker, for every set of requests and intervals and every    *)
(* bound.  Of the handlers alone: what the table and the channel hold.  Of *)
(* the loop: the handlers keep their invariant beside the worker and       *)
(* across restarts, the worker never makes a timer with a period of zero,  *)
(* and a wait ends when it should.                                         *)
(***************************************************************************)
EXTENDS SchedulerLoop, SequenceTheorems, TLAPS

-----------------------------------------------------------------------------
(* The handlers: lemmas about the table. *)

\* Inserting a row keeps the rows that are there, with their ids.
LEMMA InsertedRow ==
  ASSUME NEW S, NEW s \in Seq(S), NEW e \in S
  PROVE  /\ Append(s, e) \in Seq(S)
         /\ Append(s, e) # <<>>
         /\ Len(Append(s, e)) = Len(s) + 1
         /\ Append(s, e)[Len(s) + 1] = e
         /\ \A i \in 1..Len(s) : Append(s, e)[i] = s[i]
OBVIOUS

\* Updating the row with id 1 keeps the others.
LEMMA UpdatedRow ==
  ASSUME NEW S, NEW s \in Seq(S), NEW e \in S, s # <<>>
  PROVE  /\ [s EXCEPT ![1] = e] \in Seq(S)
         /\ [s EXCEPT ![1] = e] # <<>>
         /\ Len([s EXCEPT ![1] = e]) = Len(s)
         /\ 1 \in 1..Len(s)
         /\ [s EXCEPT ![1] = e][1] = e
         /\ \A i \in 2..Len(s) : [s EXCEPT ![1] = e][i] = s[i]
<1>1. Len(s) \in Nat \ {0} /\ 1 \in 1..Len(s)
  OBVIOUS
<1>. QED
  BY <1>1, ExceptSeq

\* A table that is not empty serves its first row.
LEMMA ServedRow ==
  ASSUME rows \in Seq(Config), rows # <<>>
  PROVE  /\ 1 \in 1..Len(rows)
         /\ Served = {rows[1]}
         /\ rows[1] \in Config
<1>1. Len(rows) \in Nat \ {0} /\ 1 \in 1..Len(rows)
  OBVIOUS
<1>. QED
  BY <1>1 DEF Served

\* Every row was written by a request.
LEMMA WrittenByRequests ==
  ASSUME rows \in Seq(Config)
  PROVE  \A i \in 1..Len(rows) : rows[i].by \in Requests
<1>1. \A i \in 1..Len(rows) : rows[i] \in Config
  OBVIOUS
<1>. QED
  BY <1>1 DEF Config

-----------------------------------------------------------------------------
(* The handlers: their inductive invariant. *)

LEMMA ApiInitIInv == ApiInit => ApiIInv
<1>. SUFFICES ASSUME ApiInit PROVE ApiIInv
  OBVIOUS
<1>1. ApiTypeOK
  BY FailuresAssumption DEF ApiInit, ApiTypeOK, Phases
<1>2. /\ BodyOK /\ RacersKnown /\ WritersGone /\ SentHasRow
      /\ SendersServe /\ ToldOfServed /\ OrphansComeFromRaces
  BY DEF ApiInit, BodyOK, RacersKnown, WritersGone, SentHasRow, SendersServe, ToldOfServed,
         OrphansComeFromRaces, At, Inserting, Sending
<1>. QED
  BY <1>1, <1>2 DEF ApiIInv

\* What a step that only moves a handler leaves as it is.
LEMMA MoveStep ==
  ASSUME ApiIInv, NEW r \in Requests, NEW i \in Intervals \cup {0}, NEW phase \in Phases,
         req' = [req EXCEPT ![r] = [at |-> phase, interval |-> i]],
         UNCHANGED <<rows, chan, racing>>, failures' \in 0..MaxFailures,
         phase \notin {"new", "send"}, i \in Intervals,
         untold \subseteq untold', untold' \subseteq Requests,
         At(r, "send") => r \in untold',
         phase = "insert" => rows = <<>>,
         phase = "insertLeft" => Inserting(r),
         ~ At(r, "send") \/ phase = "done", ~ At(r, "done")
  PROVE  ApiIInv'
<1>1. ApiTypeOK'
  BY DEF ApiIInv, ApiTypeOK
<1>2. \A q \in Requests : req'[q] = IF q = r THEN [at |-> phase, interval |-> i] ELSE req[q]
  BY DEF ApiIInv, ApiTypeOK
<1>a. BodyOK'
  BY <1>2 DEF ApiIInv, BodyOK, At
<1>b. RacersKnown'
  BY <1>2 DEF ApiIInv, RacersKnown, At, Inserting
<1>c. SentHasRow'
  BY DEF ApiIInv, SentHasRow
<1>d. SendersServe'
  <2>. SUFFICES ASSUME NEW q \in Sending'
                PROVE  \E c \in Served' : c = Body(q)' \/ c.by \in untold'
    BY DEF SendersServe
  <2>1. q \in Sending /\ Body(q)' = Body(q) /\ Served' = Served
    BY <1>2 DEF Sending, At, Body, Served
  <2>. QED
    BY <2>1 DEF ApiIInv, SendersServe
<1>e. ToldOfServed'
  <2>. SUFFICES ASSUME chan.version > 0
                PROVE  ToldOfServed'
    BY DEF ToldOfServed
  <2>1. PICK c \in Served : \/ chan.by = c.by /\ chan.value = c.interval
                            \/ At(c.by, "send")
                            \/ c.by \in untold
    BY DEF ApiIInv, ToldOfServed
  <2>2. rows # <<>> /\ c.by \in Requests
    BY ServedRow DEF ApiIInv, ApiTypeOK, Served, Config
  <2>3. At(c.by, "send") => At(c.by, "send")' \/ c.by \in untold'
    BY <1>2, <2>2 DEF At
  <2>. QED
    BY <2>1, <2>3 DEF ToldOfServed, Served
<1>3. BodyOK' /\ RacersKnown' /\ SentHasRow'
  BY <1>a, <1>b, <1>c
<1>4. WritersGone'
  <2>. SUFFICES ASSUME NEW k \in 1..Len(rows)
                PROVE  req'[rows[k].by].at \in {"send", "done"}
    BY DEF WritersGone
  <2>1. rows[k].by \in Requests /\ req[rows[k].by].at \in {"send", "done"}
    BY WrittenByRequests DEF ApiIInv, ApiTypeOK, WritersGone
  <2>. QED
    BY <1>2, <2>1 DEF At
<1>5. OrphansComeFromRaces'
  BY DEF ApiIInv, OrphansComeFromRaces
<1>. QED
  BY <1>1, <1>3, <1>d, <1>e, <1>4, <1>5 DEF ApiIInv

\* Every handler's step keeps the invariant.
LEMMA ApiStep == ApiIInv /\ [ApiNext]_apiVars => ApiIInv'
<1>. SUFFICES ASSUME ApiIInv, [ApiNext]_apiVars PROVE ApiIInv'
  OBVIOUS
<1>. USE DEF Phases
<1>t. /\ rows \in Seq(Config)
      /\ req \in [Requests -> [at : Phases, interval : Intervals \cup {0}]]
      /\ failures \in 0..MaxFailures
      /\ racing \in SUBSET Requests
      /\ untold \in SUBSET Requests
  BY DEF ApiIInv, ApiTypeOK
<1>b. \A r \in Requests : ~ At(r, "new") => req[r].interval \in Intervals
  BY DEF ApiIInv, BodyOK
<1>g. ASSUME NEW r \in Requests, NEW phase \in Phases, Goto(r, phase)
      PROVE  req' = [req EXCEPT ![r] = [at |-> phase, interval |-> req[r].interval]]
  <2>1. [req[r] EXCEPT !.at = phase] = [at |-> phase, interval |-> req[r].interval]
    BY <1>t
  <2>2. req' = [req EXCEPT ![r] = [req[r] EXCEPT !.at = phase]]
    BY <1>t, <1>g DEF Goto
  <2>. QED
    BY <2>1, <2>2
<1>1. ASSUME NEW r \in Requests, Begin(r) PROVE ApiIInv'
  <2>1. PICK i \in Intervals, phase \in {"check", "write"} :
          req' = [req EXCEPT ![r] = [at |-> phase, interval |-> i]]
    BY <1>1 DEF Begin, BeginPost, BeginPut
  <2>2. At(r, "new") /\ UNCHANGED <<rows, chan, failures, racing, untold>>
    BY <1>1 DEF Begin, BeginPost, BeginPut
  <2>. QED
    BY <2>1, <2>2, <1>t, MoveStep DEF At
<1>2. ASSUME NEW r \in Requests, CheckRow(r) PROVE ApiIInv'
  <2>1. CASE rows = <<>>
    BY <1>2, <1>t, <1>b, <1>g, <2>1, MoveStep DEF CheckRow, At, Served
  <2>2. CASE rows # <<>>
    BY <1>2, <1>t, <1>b, <1>g, <2>2, MoveStep DEF CheckRow, At, Served
  <2>. QED
    BY <2>1, <2>2
<1>3. ASSUME NEW r \in Requests, InsertRow(r) PROVE ApiIInv'
  <2>. DEFINE n == Len(rows)
  <2>1. /\ Body(r) \in Config
        /\ Body(r).by = r
        /\ n \in Nat
    BY <1>3, <1>t, <1>b DEF InsertRow, Inserting, Body, Config, At
  <2>2. /\ rows' \in Seq(Config) /\ rows' # <<>>
        /\ Len(rows') = n + 1
        /\ rows'[n + 1] = Body(r)
        /\ \A i \in 1..n : rows'[i] = rows[i]
    BY <1>3, <1>t, <2>1, InsertedRow DEF InsertRow
  <2>3. /\ Inserting(r)
        /\ req' \in [Requests -> [at : Phases, interval : Intervals \cup {0}]]
        /\ req'[r] = [at |-> "done", interval |-> req[r].interval]
        /\ \A q \in Requests \ {r} : req'[q] = req[q]
        /\ UNCHANGED <<chan, failures, untold>>
    BY <1>3, <1>t DEF InsertRow, Goto
  <2>4. /\ racing' \in SUBSET Requests
        /\ rows = <<>> => racing' = {p \in Requests : Inserting(p)}
        /\ rows # <<>> => racing' = racing /\ r \in racing
    BY <1>3, <1>t, <2>3 DEF InsertRow, ApiIInv, RacersKnown
  <2>5. ApiTypeOK'
    BY <2>2, <2>3, <2>4 DEF ApiIInv, ApiTypeOK
  <2>6. BodyOK' /\ SentHasRow'
    BY <1>b, <2>2, <2>3 DEF ApiIInv, BodyOK, SentHasRow, At, Inserting
  <2>a. SendersServe' /\ ToldOfServed'
    <3>1. rows # <<>> => Served' = Served
      BY <1>t, <2>2, ServedRow DEF Served
    <3>2. rows = <<>> => Sending = {} /\ ~ chan.version > 0
      BY DEF ApiIInv, SendersServe, ToldOfServed, Served
    <3>3. Sending' = Sending /\ \A q \in Sending : Body(q)' = Body(q)
      BY <2>3 DEF Sending, At, Inserting, Body
    <3>4. \A c \in Served : At(c.by, "send") /\ rows # <<>> => At(c.by, "send")'
      <4>1. \A c \in Served : rows # <<>> => c.by \in Requests
        BY <1>t, ServedRow DEF Config
      <4>. QED
        BY <2>3, <4>1 DEF At, Inserting
    <3>5. SendersServe'
      BY <2>3, <3>1, <3>2, <3>3 DEF ApiIInv, SendersServe
    <3>6. ToldOfServed'
      BY <2>3, <3>1, <3>2, <3>4 DEF ApiIInv, ToldOfServed
    <3>. QED
      BY <3>5, <3>6
  <2>7. RacersKnown'
    BY <2>3, <2>4 DEF ApiIInv, RacersKnown, Inserting
  <2>8. WritersGone'
    <3>. SUFFICES ASSUME NEW i \in 1..(n + 1)
                  PROVE  req'[rows'[i].by].at \in {"send", "done"}
      BY <2>2 DEF WritersGone
    <3>1. CASE i = n + 1
      BY <2>1, <2>2, <2>3, <3>1
    <3>2. CASE i # n + 1
      <4>1. i \in 1..n /\ rows'[i] = rows[i] /\ rows[i].by \in Requests
        BY <1>t, <2>1, <2>2, <3>2, WrittenByRequests
      <4>. QED
        BY <2>3, <4>1 DEF ApiIInv, WritersGone
    <3>. QED
      BY <3>1, <3>2
  <2>9. OrphansComeFromRaces'
    <3>. SUFFICES ASSUME NEW i \in 2..(n + 1) PROVE rows'[i].by \in racing'
      BY <2>2 DEF OrphansComeFromRaces
    <3>1. rows # <<>>
      BY <2>1, <1>t
    <3>2. CASE i = n + 1
      BY <2>1, <2>2, <2>4, <3>1, <3>2
    <3>3. CASE i # n + 1
      <4>1. i \in 2..n /\ i \in 1..n
        BY <2>1, <3>3
      <4>. QED
        BY <2>2, <2>4, <3>1, <4>1 DEF ApiIInv, OrphansComeFromRaces
    <3>. QED
      BY <3>2, <3>3
  <2>. QED
    BY <2>5, <2>6, <2>a, <2>7, <2>8, <2>9 DEF ApiIInv
<1>4. ASSUME NEW r \in Requests, UpdateRow(r) PROVE ApiIInv'
  <2>1. CASE rows = <<>>
    BY <1>4, <1>t, <1>b, <1>g, <2>1, MoveStep DEF UpdateRow, Writing, At
  <2>2. CASE rows # <<>>
    <3>1. /\ Body(r) \in Config
          /\ Body(r).by = r
      BY <1>4, <1>t, <1>b DEF UpdateRow, Writing, Body, Config, At
    <3>2. /\ rows' \in Seq(Config) /\ rows' # <<>>
          /\ Len(rows') = Len(rows)
          /\ rows'[1] = Body(r)
          /\ \A i \in 2..Len(rows) : rows'[i] = rows[i]
      BY <1>4, <1>t, <2>2, <3>1, UpdatedRow DEF UpdateRow
    <3>3. /\ Writing(r)
          /\ req' \in [Requests -> [at : Phases, interval : Intervals \cup {0}]]
          /\ req'[r].at \in {"send", "done"}
          /\ req'[r].interval = req[r].interval
          /\ \A q \in Requests \ {r} : req'[q] = req[q]
          /\ UNCHANGED <<chan, failures, racing>>
      BY <1>4, <1>t, <2>2 DEF UpdateRow, Goto
    <3>a. /\ untold \subseteq untold' /\ untold' \subseteq Requests
          /\ r \in untold' \/ (Sending = {} /\ At(r, "send")')
      <4>1. untold' = IF At(r, "write") /\ Sending = {} THEN untold ELSE untold \cup {r}
        BY <1>4, <2>2 DEF UpdateRow
      <4>2. At(r, "write") => At(r, "send")'
        BY <1>4, <1>t, <2>2 DEF UpdateRow, Goto, At
      <4>. QED
        BY <1>t, <4>1, <4>2
    <3>4. ApiTypeOK'
      BY <3>2, <3>3, <3>a DEF ApiIInv, ApiTypeOK
    <3>b. SendersServe' /\ ToldOfServed'
      <4>1. Body(r) \in Served' /\ Body(r)' = Body(r)
        BY <3>2, <3>3 DEF Served, Body
      <4>2. \A q \in Sending' : q = r \/ q \in Sending
        BY <3>3 DEF Sending, At
      <4>3. SendersServe'
        BY <3>1, <3>a, <4>1, <4>2 DEF SendersServe
      <4>4. ToldOfServed'
        BY <3>1, <3>a, <4>1 DEF ToldOfServed
      <4>. QED
        BY <4>3, <4>4
    <3>5. BodyOK' /\ SentHasRow' /\ RacersKnown'
      BY <1>b, <2>2, <3>2, <3>3 DEF ApiIInv, BodyOK, SentHasRow, RacersKnown, At, Inserting, Writing
    <3>6. WritersGone'
      <4>. SUFFICES ASSUME NEW i \in 1..Len(rows)
                    PROVE  req'[rows'[i].by].at \in {"send", "done"}
        BY <3>2 DEF WritersGone
      <4>1. CASE i = 1
        BY <3>1, <3>2, <3>3, <4>1
      <4>2. CASE i # 1
        <5>1. i \in 2..Len(rows) /\ rows'[i] = rows[i] /\ rows[i].by \in Requests
          BY <1>t, <3>2, <4>2, WrittenByRequests
        <5>. QED
          BY <3>3, <5>1 DEF ApiIInv, WritersGone
      <4>. QED
        BY <4>1, <4>2
    <3>7. OrphansComeFromRaces'
      BY <3>2, <3>3 DEF ApiIInv, OrphansComeFromRaces
    <3>. QED
      BY <3>4, <3>5, <3>b, <3>6, <3>7 DEF ApiIInv
  <2>. QED
    BY <2>1, <2>2
<1>5. ASSUME NEW r \in Requests, SendInterval(r) PROVE ApiIInv'
  <2>1. /\ At(r, "send") /\ UNCHANGED <<rows, failures, racing, untold>>
        /\ req' \in [Requests -> [at : Phases, interval : Intervals \cup {0}]]
        /\ req'[r] = [at |-> "done", interval |-> req[r].interval]
        /\ \A q \in Requests \ {r} : req'[q] = req[q]
        /\ req[r].interval \in Intervals
    BY <1>5, <1>t, <1>b DEF SendInterval, Goto, At
  <2>2. chan' = [value |-> req[r].interval, version |-> chan.version + 1, by |-> r]
    BY <1>5 DEF SendInterval
  <2>3. ApiTypeOK'
    BY <2>1, <2>2 DEF ApiIInv, ApiTypeOK
  <2>4. BodyOK' /\ RacersKnown' /\ SentHasRow' /\ OrphansComeFromRaces'
    BY <1>b, <2>1, <2>2
       DEF ApiIInv, BodyOK, RacersKnown, SentHasRow, SendersServe, Served, Sending,
           OrphansComeFromRaces, At, Inserting
  <2>a. PICK c \in Served : c = Body(r) \/ c.by \in untold
    BY <2>1 DEF ApiIInv, SendersServe, Sending
  <2>b. ToldOfServed'
    BY <2>1, <2>2, <2>a DEF ToldOfServed, Served, Body
  <2>c. SendersServe'
    <3>1. \A q \in Sending' : q \in Sending /\ Body(q)' = Body(q)
      BY <2>1 DEF Sending, At, Body
    <3>. QED
      BY <2>1, <3>1 DEF ApiIInv, SendersServe, Served
  <2>5. WritersGone'
    <3>. SUFFICES ASSUME NEW i \in 1..Len(rows)
                  PROVE  req'[rows[i].by].at \in {"send", "done"}
      BY <2>1 DEF WritersGone
    <3>1. rows[i].by \in Requests
      BY <1>t, WrittenByRequests
    <3>. QED
      BY <2>1, <3>1 DEF ApiIInv, WritersGone
  <2>. QED
    BY <2>3, <2>4, <2>b, <2>c, <2>5 DEF ApiIInv
<1>6. ASSUME NEW r \in Requests, Abort(r) PROVE ApiIInv'
  <2>1. PICK phase \in {"insertLeft", "writeLeft", "done"} :
          /\ Goto(r, phase)
          /\ phase = "insertLeft" => At(r, "insert")
          /\ phase = "writeLeft" => At(r, "write")
    BY <1>6 DEF Abort, StatementFails, Disconnect
  <2>2. /\ req[r].at \notin {"new", "done"}
        /\ UNCHANGED <<rows, chan, racing>>
        /\ untold \subseteq untold' /\ untold' \subseteq Requests
        /\ At(r, "send") => r \in untold'
        /\ failures < MaxFailures /\ failures' = failures + 1
    BY <1>6, <1>t DEF Abort, StatementFails, Disconnect, At, Inserting, Writing, Fail
  <2>3. failures' \in 0..MaxFailures
    BY <2>2, <1>t, FailuresAssumption
  <2>. QED
    BY <2>1, <2>2, <2>3, <1>t, <1>b, <1>g, MoveStep DEF At, Inserting
<1>7. CASE UNCHANGED apiVars
  BY <1>7 DEF apiVars, ApiIInv, ApiTypeOK, BodyOK, RacersKnown, WritersGone, SentHasRow,
              SendersServe, ToldOfServed, OrphansComeFromRaces, At, Inserting, Sending,
              Served, Body
<1>. QED
  BY <1>1, <1>2, <1>3, <1>4, <1>5, <1>6, <1>7 DEF ApiNext, Handle

-----------------------------------------------------------------------------
(* The handlers: theorems. *)

\* The table, the handlers and the channel keep the inductive invariant.
THEOREM ApiInductive == ApiSpec => []ApiIInv
BY ApiInitIInv, ApiStep, PTL DEF ApiSpec

\* A row nobody reads was inserted by a POST that raced with the first one.
THEOREM NoOrphanWithoutRace == ApiSpec => []OrphansComeFromRaces
<1>1. ApiIInv => OrphansComeFromRaces
  BY DEF ApiIInv
<1>. QED
  BY <1>1, ApiInductive, PTL

\* The last interval that was sent is that of the served configuration, unless
\* the PUT that wrote it is about to send, or is one the worker may not hear of.
THEOREM OnlyServedIsTold == ApiSpec => []ToldOfServed
<1>1. ApiIInv => ToldOfServed
  BY DEF ApiIInv
<1>. QED
  BY <1>1, ApiInductive, PTL

\* No interleaving lets a POST replace what a PUT wrote.
LEMMA ServedChange ==
  ApiIInv /\ [ApiNext]_apiVars =>
    [\A c \in Served : c \notin Served' =>
       \E r \in Requests : Writing(r) /\ ~ Writing(r)' /\ Body(r) \in Served']_apiVars
<1>. SUFFICES ASSUME ApiIInv, [ApiNext]_apiVars,
                     NEW c \in Served, c \notin Served'
              PROVE  \E r \in Requests : Writing(r) /\ ~ Writing(r)' /\ Body(r) \in Served'
  OBVIOUS
<1>1. rows \in Seq(Config) /\ rows # <<>> /\ rows' # rows
  BY DEF ApiIInv, ApiTypeOK, Served
<1>2. 1 \in 1..Len(rows) /\ Served = {rows[1]}
  BY <1>1, ServedRow
<1>3. PICK r \in Requests : InsertRow(r) \/ UpdateRow(r)
  BY <1>1 DEF apiVars, ApiNext, Begin, BeginPost, BeginPut, Handle, CheckRow,
              SendInterval, Abort, StatementFails, Disconnect
<1>4. /\ req \in [Requests -> [at : Phases, interval : Intervals \cup {0}]]
      /\ At(r, "new") \/ req[r].interval \in Intervals
  BY DEF ApiIInv, ApiTypeOK, BodyOK
<1>5. Body(r) \in Config
  BY <1>3, <1>4 DEF InsertRow, UpdateRow, Inserting, Writing, Body, Config, At
<1>6. CASE InsertRow(r)
  <2>1. rows' # <<>> /\ rows'[1] = rows[1]
    BY <1>1, <1>2, <1>5, <1>6, InsertedRow DEF InsertRow
  <2>. QED
    BY <1>2, <2>1 DEF Served
<1>7. CASE UpdateRow(r)
  <2>1. rows' # <<>> /\ rows'[1] = Body(r)
    BY <1>1, <1>5, <1>7, UpdatedRow DEF UpdateRow
  <2>2. Writing(r) /\ ~ Writing(r)'
    BY <1>1, <1>4, <1>7 DEF UpdateRow, Goto, Writing, At
  <2>. QED
    BY <2>1, <2>2 DEF Served
<1>. QED
  BY <1>3, <1>6, <1>7

\* A served configuration is only ever replaced by that of a PUT.
THEOREM PutSurvives == ApiSpec => PutNotUndone
BY ServedChange, ApiInductive, PTL DEF ApiSpec, PutNotUndone

-----------------------------------------------------------------------------
(* The loop: its initial states. *)

LEMMA LoopInit == Init => LoopIInv
<1>. SUFFICES ASSUME Init PROVE LoopIInv
  OBVIOUS
<1>1. ApiIInv
  BY ApiInitIInv DEF Init
<1>2. ApiTypeOK /\ chan.version = 0
  BY <1>1 DEF ApiIInv, Init, ApiInit
<1>3. TypeOK
  BY <1>2, TimeAssumption DEF Init, TypeOK
<1>4. PeriodPositive /\ DeadlineOK
  BY DEF Init, PeriodPositive, DeadlineOK
<1>. QED
  BY <1>1, <1>3, <1>4 DEF LoopIInv

-----------------------------------------------------------------------------
(* The loop: the handlers' invariant is kept by the worker and by a restart. *)

\* A restart drops the handlers under way, empties the channel and leaves the
\* table as it is.
LEMMA RestartKeepsApi ==
  ASSUME ApiIInv, Restart PROVE ApiIInv'
<1>t. /\ rows \in Seq(Config)
      /\ req \in [Requests -> [at : Phases, interval : Intervals \cup {0}]]
  BY DEF ApiIInv, ApiTypeOK
<1>1. /\ UNCHANGED <<rows, failures, racing>> /\ untold' = {}
      /\ chan' = [value |-> 0, version |-> 0, by |-> None]
      /\ req' = [r \in Requests |-> IF r \in Unfinished THEN [req[r] EXCEPT !.at = "done"]
                                    ELSE req[r]]
  BY DEF Restart
<1>2. ASSUME NEW r \in Requests
      PROVE  /\ req'[r] \in [at : Phases, interval : Intervals \cup {0}]
             /\ req'[r].interval = req[r].interval
             /\ req'[r].at = IF req[r].at = "new" THEN "new" ELSE "done"
  BY <1>t, <1>1 DEF Unfinished, Phases
<1>3. req' \in [Requests -> [at : Phases, interval : Intervals \cup {0}]]
  BY <1>1, <1>2
<1>4. ApiTypeOK'
  BY <1>1, <1>3 DEF ApiIInv, ApiTypeOK
<1>5. BodyOK' /\ RacersKnown' /\ SentHasRow' /\ OrphansComeFromRaces'
  BY <1>1, <1>2
     DEF ApiIInv, BodyOK, RacersKnown, SentHasRow, OrphansComeFromRaces, At, Inserting
<1>a. SendersServe' /\ ToldOfServed'
  <2>1. Sending' = {}
    BY <1>2 DEF Sending, At
  <2>2. ~ (chan'.version > 0)
    BY <1>1
  <2>. QED
    BY <2>1, <2>2 DEF SendersServe, ToldOfServed
<1>6. WritersGone'
  BY <1>t, <1>1, <1>2, WrittenByRequests DEF ApiIInv, WritersGone
<1>. QED
  BY <1>4, <1>5, <1>a, <1>6 DEF ApiIInv

\* A failed load only counts as a failure.
LEMMA FailedLoadKeepsApi ==
  ASSUME ApiIInv, LoadIntervalFails PROVE ApiIInv'
<1>1. failures' \in 0..MaxFailures
  BY FailuresAssumption DEF LoadIntervalFails, Fail, ApiIInv, ApiTypeOK
<1>. QED
  BY <1>1 DEF LoadIntervalFails, ApiIInv, ApiTypeOK, BodyOK, RacersKnown, WritersGone,
              SentHasRow, SendersServe, ToldOfServed, OrphansComeFromRaces, At, Inserting,
              Sending, Served, Body

LEMMA LoopKeepsApi == LoopIInv /\ [Next]_vars => ApiIInv'
<1>. SUFFICES ASSUME LoopIInv, [Next]_vars PROVE ApiIInv'
  OBVIOUS
<1>1. ApiIInv
  BY DEF LoopIInv
<1>2. CASE Api
  BY <1>1, <1>2, ApiStep DEF Api, ApiNext
<1>3. CASE LoadIntervalFails
  BY <1>1, <1>3, FailedLoadKeepsApi
<1>4. CASE Restart
  BY <1>1, <1>4, RestartKeepsApi
<1>5. CASE UNCHANGED apiVars
  BY <1>1, <1>5, ApiStep
<1>. QED
  BY <1>2, <1>3, <1>4, <1>5
     DEF Next, Worker, Process, LoadInterval, StartCycle, EndCycle, Tick, SeeInterval,
         SeeShutdown, Pass, Signal, NotifyWorker, Exit, vars

-----------------------------------------------------------------------------
(* The loop: the worker. *)

\* A handler never takes a version back.
LEMMA VersionGrows ==
  ASSUME ApiTypeOK, Api
  PROVE  chan'.version \in Nat /\ chan.version \in Nat /\ chan.version <= chan'.version
BY DEF ApiTypeOK, Api, Begin, BeginPost, BeginPut, Handle, CheckRow, InsertRow, UpdateRow,
       SendInterval, Abort, StatementFails, Disconnect

LEMMA LoopStep == LoopIInv /\ [Next]_vars => LoopIInv'
<1>. SUFFICES ASSUME LoopIInv, [Next]_vars PROVE LoopIInv'
  OBVIOUS
<1>a. ApiIInv' /\ ApiTypeOK'
  BY LoopKeepsApi DEF ApiIInv
<1>t. /\ ApiTypeOK /\ ApiIInv
      /\ pc \in {"load", "top", "cycle", "wait", "stopped"}
      /\ interval_secs \in Intervals \cup {0, DefaultInterval}
      /\ interval_secs \in Nat
      /\ loaded \in Requests \cup {None}
      /\ seen \in 0..chan.version /\ chan.version \in Nat
      /\ elapsed \in Nat /\ deadline \in Nat /\ ready \in 0..elapsed
      /\ process \in {"serving", "draining", "notified", "exited"}
      /\ restarts \in 0..MaxRestarts
  BY IntervalsAssumption, TimeAssumption DEF LoopIInv, TypeOK, ApiTypeOK
<1>1. CASE Api
  <2>1. UNCHANGED <<pc, interval_secs, loaded, seen, elapsed, deadline, ready, process, restarts>>
    BY <1>1 DEF Api, loopVars
  <2>2. seen \in 0..chan'.version
    BY <1>1, <1>t, VersionGrows
  <2>3. TypeOK'
    BY <1>a, <1>t, <2>1, <2>2 DEF TypeOK
  <2>4. PeriodPositive' /\ DeadlineOK'
    BY <2>1 DEF LoopIInv, PeriodPositive, DeadlineOK
  <2>. QED
    BY <1>a, <2>3, <2>4 DEF LoopIInv
<1>2. CASE LoadInterval
  <2>1. /\ interval_secs' \in Intervals \cup {DefaultInterval}
        /\ loaded' \in Requests \cup {None}
    <3>1. CASE Served = {}
      BY <1>2, <3>1 DEF LoadInterval
    <3>2. CASE Served # {}
      <4>1. rows \in Seq(Config) /\ rows # <<>>
        BY <1>t, <3>2 DEF ApiTypeOK, Served
      <4>2. Served \subseteq Config
        BY <4>1, ServedRow
      <4>. QED
        BY <1>2, <3>2, <4>2 DEF LoadInterval, Config
    <3>. QED
      BY <3>1, <3>2
  <2>2. interval_secs' > 0
    BY <2>1, IntervalsAssumption, TimeAssumption
  <2>. QED
    BY <1>2, <1>a, <1>t, <2>1, <2>2
       DEF LoadInterval, LoopIInv, TypeOK, PeriodPositive, DeadlineOK, apiVars
<1>3. CASE LoadIntervalFails
  BY <1>3, <1>a, <1>t, TimeAssumption
     DEF LoadIntervalFails, LoopIInv, TypeOK, PeriodPositive, DeadlineOK
<1>4. CASE StartCycle
  BY <1>4, <1>a, <1>t
     DEF StartCycle, LoopIInv, TypeOK, PeriodPositive, DeadlineOK, apiVars
<1>5. CASE EndCycle
  BY <1>5, <1>a, <1>t
     DEF EndCycle, LoopIInv, TypeOK, PeriodPositive, DeadlineOK, apiVars
<1>6. CASE Tick
  BY <1>6, <1>a, <1>t
     DEF Tick, TickReady, LoopIInv, TypeOK, PeriodPositive, DeadlineOK, apiVars
<1>7. CASE SeeInterval
  <2>1. pc = "wait" /\ chan.version > 0
    BY <1>7, <1>t DEF SeeInterval, IntervalReady
  <2>2. interval_secs' \in Intervals
    BY <1>7, <1>t, <2>1 DEF SeeInterval, ApiIInv, SentHasRow
  <2>3. interval_secs' \in Nat /\ interval_secs' > 0
    BY <2>2, IntervalsAssumption
  <2>. QED
    BY <1>7, <1>a, <1>t, <2>2, <2>3
       DEF SeeInterval, LoopIInv, TypeOK, PeriodPositive, DeadlineOK, apiVars
<1>8. CASE SeeShutdown
  BY <1>8, <1>a, <1>t
     DEF SeeShutdown, ShutdownReady, LoopIInv, TypeOK, PeriodPositive, DeadlineOK, apiVars
<1>9. CASE Pass
  BY <1>9, <1>a, <1>t
     DEF Pass, TickReady, LoopIInv, TypeOK, PeriodPositive, DeadlineOK, apiVars
<1>10. CASE Signal \/ NotifyWorker \/ Exit
  BY <1>10, <1>a, <1>t
     DEF Signal, NotifyWorker, Exit, LoopIInv, TypeOK, PeriodPositive, DeadlineOK, apiVars,
         loopVars
<1>11. CASE Restart
  BY <1>11, <1>a, <1>t, TimeAssumption
     DEF Restart, LoopIInv, TypeOK, PeriodPositive, DeadlineOK
<1>12. CASE UNCHANGED vars
  BY <1>12, <1>a, <1>t
     DEF vars, apiVars, loopVars, LoopIInv, TypeOK, PeriodPositive, DeadlineOK
<1>. QED
  BY <1>1, <1>2, <1>3, <1>4, <1>5, <1>6, <1>7, <1>8, <1>9, <1>10, <1>11, <1>12
     DEF Next, Worker, Process

-----------------------------------------------------------------------------
(* The loop: theorems. *)

\* The loop, the handlers and the process keep the inductive invariant.
THEOREM LoopInductive == Spec => []LoopIInv
BY LoopInit, LoopStep, PTL DEF Spec

\* The state of the loop always has its type.
THEOREM LoopTypeCorrect == Spec => []TypeOK
<1>1. LoopIInv => TypeOK
  BY DEF LoopIInv
<1>. QED
  BY <1>1, LoopInductive, PTL

\* time::interval is never made with a period of zero, at which it panics.
THEOREM PeriodNeverZero == Spec => []PeriodPositive
<1>1. LoopIInv => PeriodPositive
  BY DEF LoopIInv
<1>. QED
  BY <1>1, LoopInductive, PTL

\* Beside the worker and across restarts the races of handlers leave no other
\* orphans, and the channel holds the interval of the served configuration.
THEOREM NoOrphanAfterRestart == Spec => [](OrphansComeFromRaces /\ ToldOfServed)
<1>1. LoopIInv => OrphansComeFromRaces /\ ToldOfServed
  BY DEF LoopIInv, ApiIInv
<1>. QED
  BY <1>1, LoopInductive, PTL

\* No wait ends early or late, however the interval changed in it.
THEOREM WaitsArePunctual == Spec => Punctual
<1>1. LoopIInv /\ [Next]_vars =>
        [pc = "wait" /\ pc' = "top" =>
           elapsed = IF ready > interval_secs THEN ready ELSE interval_secs]_vars
  <2>. SUFFICES ASSUME LoopIInv, [Next]_vars, pc = "wait", pc' = "top"
                PROVE  elapsed = IF ready > interval_secs THEN ready ELSE interval_secs
    OBVIOUS
  <2>1. Tick
    BY DEF Next, Api, Worker, Process, LoadInterval, LoadIntervalFails, StartCycle, EndCycle,
           SeeInterval, SeeShutdown, Pass, Signal, NotifyWorker, Exit, Restart, vars, loopVars
  <2>2. /\ elapsed \in Nat /\ ready \in 0..elapsed /\ interval_secs \in Nat
        /\ deadline = interval_secs
        /\ elapsed = ready \/ elapsed <= deadline
    BY IntervalsAssumption, TimeAssumption DEF LoopIInv, TypeOK, DeadlineOK
  <2>. QED
    BY <2>1, <2>2 DEF Tick, TickReady
<1>. QED
  BY <1>1, LoopInductive, PTL DEF Spec, Punctual

\* No POST undoes a PUT beside the worker and across restarts either: neither
\* of them writes the table.
THEOREM PutSurvivesRestarts == Spec => PutNotUndone
<1>1. LoopIInv /\ [Next]_vars =>
        [\A c \in Served : c \notin Served' =>
           \E r \in Requests : Writing(r) /\ ~ Writing(r)' /\ Body(r) \in Served']_apiVars
  <2>. SUFFICES ASSUME LoopIInv, [Next]_vars
                PROVE  [\A c \in Served : c \notin Served' =>
                          \E r \in Requests : Writing(r) /\ ~ Writing(r)'
                                                /\ Body(r) \in Served']_apiVars
    OBVIOUS
  <2>1. CASE Api
    BY <2>1, ServedChange DEF Api, ApiNext, LoopIInv
  <2>2. CASE UNCHANGED rows
    BY <2>2 DEF Served
  <2>. QED
    BY <2>1, <2>2
       DEF Next, Worker, Process, LoadInterval, LoadIntervalFails, StartCycle, EndCycle,
           Tick, SeeInterval, SeeShutdown, Pass, Signal, NotifyWorker, Exit, Restart,
           vars, apiVars
<1>. QED
  BY <1>1, LoopInductive, PTL DEF Spec, PutNotUndone
=============================================================================
