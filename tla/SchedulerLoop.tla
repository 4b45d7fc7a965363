--------------------------- MODULE SchedulerLoop ---------------------------
(***************************************************************************)
(* The worker's loop (DynDnsScheduler::new, run and wait of                *)
(* src/src/dyndns/scheduler.rs) and the process around it (main.rs), with  *)
(* the API handlers of ConfigApi changing the interval at any moment: the  *)
(* interval is loaded once, then follows the watch channel; a cycle begins *)
(* one interval after the one before it began; a signal drains the         *)
(* handlers, then stops the worker between two cycles.                     *)
(*                                                                         *)
(* Time is whole seconds since the current cycle began. In a wait it does  *)
(* not pass while a branch of a select is ready: the runtime polls a task  *)
(* that was woken within the second.                                       *)
(***************************************************************************)
EXTENDS ConfigApi

CONSTANTS
  DefaultInterval,   \* of load_interval_seconds, 10 in the code
  CycleTime,     \* the longest time a cycle takes
  MaxRestarts    \* bound: how often the process dies and is started again

ASSUME TimeAssumption ==
  DefaultInterval \in Nat \ {0} /\ CycleTime \in Nat /\ MaxRestarts \in Nat

VARIABLES
  pc,            \* "load", "top", "cycle", "wait", "stopped"
  interval_secs,
  loaded,        \* who wrote the row interval_secs was loaded from, or None
  seen,          \* the version interval_rx has seen
  elapsed,       \* time since start_time
  deadline,      \* what interval.tick() waits for, since start_time
  ready,         \* history variable: when the deadline was set, or the wait began
  process,       \* "serving", "draining", "notified", "exited"
  restarts

loopVars == <<pc, interval_secs, loaded, seen, elapsed, deadline, ready>>
vars == <<apiVars, loopVars, process, restarts>>

Init ==
  /\ ApiInit
  /\ pc = "load" /\ interval_secs = 0 /\ loaded = None
  /\ seen = 0 /\ elapsed = 0 /\ deadline = 0 /\ ready = 0
  /\ process = "serving" /\ restarts = 0

Unfinished == {r \in Requests : req[r].at \notin {"new", "done"}}
InFlight == {r \in Unfinished : req[r].at \notin {"insertLeft", "writeLeft"}}

\* Handlers begin while the server accepts requests and end while it drains; it
\* does not wait for a statement whose handler is gone.
Api ==
  /\ \/ process = "serving" /\ \E r \in Requests : Begin(r)
     \/ process # "exited" /\ \E r \in Requests : Handle(r) \/ Abort(r)
  /\ UNCHANGED <<loopVars, process, restarts>>

-----------------------------------------------------------------------------
(* The worker. *)

\* MUTANT of LoadInterval: with no row the value of the channel is taken.
LoadIntervalOrChannel ==
  /\ pc = "load"
  /\ pc' = "top"
  /\ \/ /\ Served = {}
        /\ interval_secs' = chan.value
        /\ loaded' = None
     \/ \E c \in Served : interval_secs' = c.interval /\ loaded' = c.by
  /\ UNCHANGED <<apiVars, seen, elapsed, deadline, ready, process, restarts>>

\* load_interval_seconds: with no row, DynDNS::get_sleep_interval is NotFound.
LoadInterval ==
  /\ pc = "load"
  /\ pc' = "top"
  /\ \/ /\ Served = {}
        /\ interval_secs' = DefaultInterval
        /\ loaded' = None
     \/ \E c \in Served : interval_secs' = c.interval /\ loaded' = c.by
  /\ UNCHANGED <<apiVars, seen, elapsed, deadline, ready, process, restarts>>

\* A failed statement leaves the worker with the default, row or not.
LoadIntervalFails ==
  /\ pc = "load"
  /\ Fail
  /\ pc' = "top"
  /\ interval_secs' = DefaultInterval
  /\ loaded' = None
  /\ UNCHANGED <<rows, req, chan, racing, untold, seen, elapsed, deadline, ready, process, restarts>>

\* MUTANT of StartCycle: what was sent so far counts as seen.
StartCycleSeeingAll ==
  /\ pc = "top"
  /\ pc' = "cycle"
  /\ elapsed' = 0 /\ deadline' = interval_secs /\ ready' = 0
  /\ seen' = chan.version
  /\ UNCHANGED <<apiVars, interval_secs, loaded, process, restarts>>

\* run: time::interval ticks at once, and that instant is start_time.
StartCycle ==
  /\ pc = "top"
  /\ pc' = "cycle"
  /\ elapsed' = 0 /\ deadline' = interval_secs /\ ready' = 0
  /\ UNCHANGED <<apiVars, interval_secs, loaded, seen, process, restarts>>

\* MUTANT of EndCycle: an error of execute_cycle ends run.
EndCycleOrStop ==
  /\ pc = "cycle"
  /\ pc' \in {"wait", "stopped"}
  /\ ready' = elapsed
  /\ UNCHANGED <<apiVars, interval_secs, loaded, seen, elapsed, deadline, process, restarts>>

\* execute_cycle returns; the two selects are polled from here on.
EndCycle ==
  /\ pc = "cycle"
  /\ pc' = "wait"
  /\ ready' = elapsed
  /\ UNCHANGED <<apiVars, interval_secs, loaded, seen, elapsed, deadline, process, restarts>>

\* The branches of the selects in run and wait; when several are ready the
\* macro picks one at random.
TickReady == pc = "wait" /\ elapsed >= deadline
IntervalReady == pc = "wait" /\ chan.version # seen
ShutdownReady == pc = "wait" /\ process = "notified"

Tick ==
  /\ TickReady
  /\ pc' = "top"
  /\ UNCHANGED <<apiVars, interval_secs, loaded, seen, elapsed, deadline, ready, process, restarts>>

\* MUTANT of SeeInterval: the new interval begins now.
SeeIntervalFromNow ==
  /\ IntervalReady
  /\ interval_secs' = chan.value /\ seen' = chan.version
  /\ deadline' = elapsed + interval_secs'
  /\ ready' = elapsed
  /\ UNCHANGED <<apiVars, pc, loaded, elapsed, process, restarts>>

\* interval_rx.changed(): the new interval counts from start_time, and its
\* first tick, which is at start_time, is taken.
SeeInterval ==
  /\ IntervalReady
  /\ interval_secs' = chan.value /\ seen' = chan.version
  /\ deadline' = interval_secs'
  /\ ready' = elapsed
  /\ UNCHANGED <<apiVars, pc, loaded, elapsed, process, restarts>>

\* MUTANT of SeeShutdown: the select prefers the tick.
SeeShutdownLast ==
  /\ ShutdownReady /\ ~TickReady
  /\ pc' = "stopped"
  /\ UNCHANGED <<apiVars, interval_secs, loaded, seen, elapsed, deadline, ready, process, restarts>>

\* shutdown.changed() on a fresh clone of shutdown_rx, which never saw a value.
SeeShutdown ==
  /\ ShutdownReady
  /\ pc' = "stopped"
  /\ UNCHANGED <<apiVars, interval_secs, loaded, seen, elapsed, deadline, ready, process, restarts>>

\* A second passes.
Pass ==
  /\ \/ pc = "cycle" /\ elapsed < CycleTime
     \/ pc = "wait" /\ ~ (TickReady \/ IntervalReady \/ ShutdownReady)
  /\ elapsed' = elapsed + 1
  /\ UNCHANGED <<apiVars, pc, interval_secs, loaded, seen, deadline, ready, process, restarts>>

-----------------------------------------------------------------------------
(* The process. *)

\* SIGINT or SIGTERM: axum accepts no more requests.
Signal ==
  /\ process = "serving"
  /\ process' = "draining"
  /\ UNCHANGED <<apiVars, loopVars, restarts>>

\* The server has stopped; shutdown_tx.send(true).
NotifyWorker ==
  /\ process = "draining" /\ InFlight = {}
  /\ process' = "notified"
  /\ UNCHANGED <<apiVars, loopVars, restarts>>

\* worker.await returns and main ends.
Exit ==
  /\ process = "notified" /\ pc = "stopped"
  /\ process' = "exited"
  /\ UNCHANGED <<apiVars, loopVars, restarts>>

\* The process dies, or has exited, and is started again with the table.
Restart ==
  /\ restarts < MaxRestarts
  /\ restarts' = restarts + 1
  /\ req' = [r \in Requests |-> IF r \in Unfinished THEN [req[r] EXCEPT !.at = "done"] ELSE req[r]]
  /\ chan' = [value |-> 0, version |-> 0, by |-> None] /\ untold' = {}
  /\ pc' = "load" /\ interval_secs' = 0 /\ loaded' = None
  /\ seen' = 0 /\ elapsed' = 0 /\ deadline' = 0 /\ ready' = 0
  /\ process' = "serving"
  /\ UNCHANGED <<rows, failures, racing>>

-----------------------------------------------------------------------------
Worker == LoadInterval \/ LoadIntervalFails \/ StartCycle \/ EndCycle \/ Tick
            \/ SeeInterval \/ SeeShutdown \/ Pass
Process == Signal \/ NotifyWorker \/ Exit \/ Restart

Next == Api \/ Worker \/ Process

Spec == Init /\ [][Next]_vars

\* The worker's task, its timer and the handlers are polled; a cycle ends
\* (UpdateCycle); a select whose branch is ready time and again picks it.
\* Nothing makes a request or a signal come.
Fairness ==
  /\ WF_vars(LoadInterval)
  /\ WF_vars(StartCycle) /\ WF_vars(EndCycle)
  /\ WF_vars(pc = "wait" /\ (Tick \/ SeeInterval \/ SeeShutdown \/ Pass))
  /\ SF_vars(SeeInterval) /\ SF_vars(SeeShutdown)
  /\ WF_vars(NotifyWorker) /\ WF_vars(Exit)
  /\ \A r \in Requests :
       WF_vars(Handle(r) /\ UNCHANGED <<loopVars, process, restarts>>)

FairSpec == Spec /\ Fairness

-----------------------------------------------------------------------------
(* Properties. *)

\* The type invariant of the worker and the process.
TypeOK ==
  /\ ApiTypeOK
  /\ pc \in {"load", "top", "cycle", "wait", "stopped"}
  /\ interval_secs \in Intervals \cup {0, DefaultInterval}
  /\ loaded \in Requests \cup {None}
  /\ seen \in 0..chan.version
  /\ elapsed \in Nat /\ deadline \in Nat /\ ready \in 0..elapsed
  /\ process \in {"serving", "draining", "notified", "exited"}
  /\ restarts \in 0..MaxRestarts

\* time::interval panics on a period of zero, which the channel holds until
\* the first PUT: the worker never takes that value.
PeriodPositive ==
  pc # "load" => interval_secs > 0

\* A wait ends exactly one interval after start_time, or as soon as the cycle
\* or a shorter interval let it: no series of PUTs puts a cycle off, or makes
\* it early.
Punctual ==
  [][pc = "wait" /\ pc' = "top" =>
       elapsed = IF ready > interval_secs THEN ready ELSE interval_secs]_vars

\* The worker was told of the configuration that is served: it loaded it at
\* launch, or the last value sent is that of the PUT that wrote it.
Told == \A c \in Served : c.by = IF chan.version > 0 THEN chan.by ELSE loaded

\* A worker that was told follows the table: no change is missed, not one
\* sent before the worker loaded its interval, nor one sent during a cycle.
FollowsTable ==
  <>[](Served # {} /\ Told /\ pc # "stopped") =>
    <>[](\A c \in Served : interval_secs = c.interval)

\* After a signal the worker stops and the process exits, whatever the worker
\* was doing when it was told (unless the process is started anew).
ShutsDown == process # "serving" ~> process \in {"exited", "serving"}

\* Until it is stopped the worker never stops beginning cycles.
KeepsCycling == []<>(pc = "cycle") \/ <>(process # "serving")

\* The deadline is one interval after start_time, and a wait is over once
\* the deadline has been reached.
DeadlineOK ==
  /\ pc \in {"cycle", "wait"} => deadline = interval_secs
  /\ pc = "wait" => elapsed = ready \/ elapsed <= deadline

\* The inductive invariant of the loop.
LoopIInv == TypeOK /\ ApiIInv /\ PeriodPositive /\ DeadlineOK
=============================================================================
