----------------------------- MODULE ConfigApi -----------------------------
(***************************************************************************)
(* POST and PUT /api/dyndns (src/src/api/dyndns.rs) on the dyndns table    *)
(* (src/src/db/models.rs), with the watch channel that tells the worker of *)
(* a new interval.  Handlers run concurrently: every await, where another  *)
(* handler may run, ends a step.  Neither check-then-insert of POST nor    *)
(* write-then-send of PUT is atomic, a statement may fail, and a client    *)
(* that disconnects has its handler dropped at the await it is in.  The    *)
(* statement of a dropped handler is with a blocking thread already and    *)
(* runs all the same, some time later.                                     *)
(*                                                                         *)
(* Of a configuration the model keeps the interval and, as `by`, which     *)
(* request wrote it; GET only reads.  A body with interval 0 is rejected   *)
(* before the handler runs; one that does not fit an i64 fails its         *)
(* statement.                                                              *)
(***************************************************************************)
EXTENDS Naturals, Sequences

CONSTANTS
  Requests,      \* the POST and PUT requests that are made, each once
  Intervals,     \* the values of sleep_interval they carry
  None,          \* no request
  MaxFailures    \* bound: statements that fail, clients that disconnect

ASSUME IntervalsAssumption == Intervals \subseteq Nat \ {0}
ASSUME RequestsAssumption == None \notin Requests
ASSUME FailuresAssumption == MaxFailures \in Nat

VARIABLES
  rows,          \* the dyndns table in the order of its ids, which start at 1
  req,           \* where each handler is, and the interval of its body
  chan,          \* watch::channel(0u64): the value, its version, who sent it
  failures,      \* counter of the bound
  racing,        \* history variable: the POSTs that had found no row when the
                 \* first one was inserted
  untold         \* history variable: the PUTs the worker may not hear of, since
                 \* their client left before the send, or since they wrote
                 \* while another PUT had written and not sent yet

apiVars == <<rows, req, chan, failures, racing, untold>>

Config == [interval : Intervals, by : Requests]

\* "insertLeft" and "writeLeft": the statement is under way, its handler gone.
Phases == {"new", "check", "insert", "insertLeft", "write", "writeLeft", "send", "done"}

ApiInit ==
  /\ rows = <<>>
  /\ req = [r \in Requests |-> [at |-> "new", interval |-> 0]]
  /\ chan = [value |-> 0, version |-> 0, by |-> None]
  /\ failures = 0
  /\ racing = {}
  /\ untold = {}

\* DynDNS::get and get_option: the first row, none when the table is empty.
Served == IF rows = <<>> THEN {} ELSE {rows[1]}

At(r, phase) == req[r].at = phase
Goto(r, phase) == req' = [req EXCEPT ![r].at = phase]
Body(r) == [interval |-> req[r].interval, by |-> r]

Inserting(r) == req[r].at \in {"insert", "insertLeft"}
Writing(r) == req[r].at \in {"write", "writeLeft"}
Sending == {r \in Requests : At(r, "send")}

Fail == failures < MaxFailures /\ failures' = failures + 1

-----------------------------------------------------------------------------
(* create_dyndns *)

BeginPost(r) ==
  /\ At(r, "new")
  /\ \E i \in Intervals : req' = [req EXCEPT ![r] = [at |-> "check", interval |-> i]]
  /\ UNCHANGED <<rows, chan, failures, racing, untold>>

\* MUTANT of CheckRow: the row that is there is not looked for.
CheckNothing(r) ==
  /\ At(r, "check")
  /\ Goto(r, "insert")
  /\ UNCHANGED <<rows, chan, failures, racing, untold>>

\* get_option: with a row the answer is that row and nothing is written.
CheckRow(r) ==
  /\ At(r, "check")
  /\ Goto(r, IF Served = {} THEN "insert" ELSE "done")
  /\ UNCHANGED <<rows, chan, failures, racing, untold>>

\* MUTANT of InsertRow: the row is inserted with the id that PUT updates.
ReplaceFirstRow(r) ==
  /\ Inserting(r)
  /\ rows' = <<Body(r)>>
  /\ racing' = IF rows = <<>> THEN {p \in Requests : Inserting(p)} ELSE racing
  /\ Goto(r, "done")
  /\ UNCHANGED <<chan, failures, untold>>

\* DynDNS::create: replace_into without an id takes the next one, so that it
\* never replaces a row; the worker is not told.
InsertRow(r) ==
  /\ Inserting(r)
  /\ rows' = Append(rows, Body(r))
  /\ racing' = IF rows = <<>> THEN {p \in Requests : Inserting(p)} ELSE racing
  /\ Goto(r, "done")
  /\ UNCHANGED <<chan, failures, untold>>

-----------------------------------------------------------------------------
(* update_dyndns *)

BeginPut(r) ==
  /\ At(r, "new")
  /\ \E i \in Intervals : req' = [req EXCEPT ![r] = [at |-> "write", interval |-> i]]
  /\ UNCHANGED <<rows, chan, failures, racing, untold>>

\* DynDNS::update filters on id 1; without that row the handler answers
\* NotFound and sends nothing.
UpdateRow(r) ==
  /\ Writing(r)
  /\ \/ /\ rows = <<>>
        /\ Goto(r, "done")
        /\ UNCHANGED <<rows, untold>>
     \/ /\ rows # <<>>
        /\ rows' = [rows EXCEPT ![1] = Body(r)]
        /\ Goto(r, IF At(r, "write") THEN "send" ELSE "done")
        /\ untold' = IF At(r, "write") /\ Sending = {} THEN untold ELSE untold \cup {r}
  /\ UNCHANGED <<chan, failures, racing>>

\* interval_tx.send_replace
SendInterval(r) ==
  /\ At(r, "send")
  /\ chan' = [value |-> req[r].interval, version |-> chan.version + 1, by |-> r]
  /\ Goto(r, "done")
  /\ UNCHANGED <<rows, failures, racing, untold>>

-----------------------------------------------------------------------------
\* MUTANT of StatementFails: update's error is returned after the send.
StatementFailsTold(r) ==
  /\ At(r, "check") \/ Inserting(r) \/ Writing(r)
  /\ Fail
  /\ Goto(r, IF At(r, "write") THEN "send" ELSE "done")
  /\ UNCHANGED <<rows, chan, racing, untold>>

\* A statement fails, or the connection for it cannot be had.
StatementFails(r) ==
  /\ At(r, "check") \/ Inserting(r) \/ Writing(r)
  /\ Fail
  /\ Goto(r, "done")
  /\ UNCHANGED <<rows, chan, racing, untold>>

\* The client goes away: a write that is awaited is left behind, and after it
\* ran nothing is sent.
Disconnect(r) ==
  /\ Fail
  /\ \/ At(r, "insert") /\ Goto(r, "insertLeft") /\ UNCHANGED untold
     \/ At(r, "write") /\ Goto(r, "writeLeft") /\ UNCHANGED untold
     \/ At(r, "check") /\ Goto(r, "done") /\ UNCHANGED untold
     \/ At(r, "send") /\ Goto(r, "done") /\ untold' = untold \cup {r}
  /\ UNCHANGED <<rows, chan, racing>>

Begin(r) == BeginPost(r) \/ BeginPut(r)
Handle(r) == CheckRow(r) \/ InsertRow(r) \/ UpdateRow(r) \/ SendInterval(r)
Abort(r) == StatementFails(r) \/ Disconnect(r)

ApiNext == \E r \in Requests : Begin(r) \/ Handle(r) \/ Abort(r)

ApiSpec == ApiInit /\ [][ApiNext]_apiVars

-----------------------------------------------------------------------------
(* Properties. *)

\* The type invariant of the table, the handlers and the channel.
ApiTypeOK ==
  /\ rows \in Seq(Config)
  /\ req \in [Requests -> [at : Phases, interval : Intervals \cup {0}]]
  /\ chan \in [value : Intervals \cup {0}, version : Nat, by : Requests \cup {None}]
  /\ failures \in 0..MaxFailures
  /\ racing \in SUBSET Requests
  /\ untold \in SUBSET Requests

\* A POST never undoes a PUT, however long it took since it found no row, or
\* since its client left: a configuration that is served is only ever replaced
\* by that of a PUT.
PutNotUndone ==
  [][\A c \in Served : c \notin Served' =>
       \E r \in Requests : Writing(r) /\ ~ Writing(r)' /\ Body(r) \in Served']_apiVars

\* A second row comes only from a POST that had found no row before the first
\* one was inserted, so clients that do not race never make one.
OrphansComeFromRaces ==
  \A i \in 2..Len(rows) : rows[i].by \in racing

\* The last interval that was sent is the served configuration's, sent by the
\* PUT that wrote it: no failed or overtaken PUT leaves the worker with an
\* interval the table does not have.  It differs only until the PUT that wrote
\* the row sends its own, or when that PUT's client left or it crossed another.
ToldOfServed ==
  chan.version > 0 =>
    \E c \in Served : \/ chan.by = c.by /\ chan.value = c.interval
                     \/ At(c.by, "send")
                     \/ c.by \in untold

\* A handler past its validation has the interval of its body.
BodyOK == \A r \in Requests : At(r, "new") \/ req[r].interval \in Intervals

\* Once there is a row, the POSTs that still insert are the racing ones.
RacersKnown == rows # <<>> => \A r \in Requests : Inserting(r) => r \in racing

\* Whoever wrote a row only has its value to send, or has answered.
WritersGone == \A i \in 1..Len(rows) : req[rows[i].by].at \in {"send", "done"}

\* A PUT that is about to send is served, or one the worker may not hear of.
SendersServe ==
  \A r \in Sending : \E c \in Served : c = Body(r) \/ c.by \in untold

\* A value is sent only when there is a row.
SentHasRow ==
  chan.version > 0 => rows # <<>> /\ chan.value \in Intervals

\* The inductive invariant of the handlers: they keep the properties above
\* whatever the order of their steps.
ApiIInv ==
  /\ ApiTypeOK /\ BodyOK /\ RacersKnown /\ WritersGone /\ SentHasRow
  /\ SendersServe /\ ToldOfServed /\ OrphansComeFromRaces
=============================================================================
