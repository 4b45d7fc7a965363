------------------------------- MODULE Dyndns -------------------------------
(***************************************************************************)
(* The whole worker in its process: the loop of SchedulerLoop, with the    *)
(* handlers that write the configuration, runs the cycles of UpdateCycle   *)
(* (C) on the row those handlers wrote.  What UpdateCycle leaves to its    *)
(* environment is decided here: a cycle starts when the loop is at its     *)
(* top, the configuration changes when a handler writes it, and a cycle is *)
(* cut off only when the process dies.                                     *)
(***************************************************************************)
EXTENDS SchedulerLoop

CONSTANTS
  Settings,      \* what the body of each request says beside the interval
  V4, V6, Hosts, \* see UpdateCycle
  MaxAttempts,
  MaxChanges,    \* bound: changes of the network
  MaxFaults      \* bound: faults of a cycle, restarts within one among them

VARIABLES
  hist4, hist6, ext4, iface6, dns4, dns6,
  step,          \* where the task is within execute_cycle
  pc4, pc6, cfg, prev4, snap6, res4, res6, attempt, ahead4, ahead6, changes, faults,
  unrecorded     \* history variable: for how long the latest IPv4 row has not
                 \* been the host's address, nothing else having gone wrong

\* The row the worker is served, without its interval.
conf == IF rows = <<>> THEN None ELSE Settings[rows[1].by]

C == INSTANCE UpdateCycle WITH pc <- step

netVars   == <<ext4, iface6>>
cycleVars == <<hist4, hist6, dns4, dns6, step, pc4, pc6, cfg, prev4, snap6, res4, res6,
               attempt, ahead4, ahead6>>
countVars == <<changes, faults>>
allVars   == <<vars, netVars, cycleVars, countVars, unrecorded>>

ASSUME SettingsAssumption == Settings \in [Requests -> C!Config]
ASSUME CycleAssumption ==
  /\ None \notin V4 /\ None \notin V6
  /\ MaxAttempts \in Nat \ {0} /\ MaxChanges \in Nat /\ MaxFaults \in Nat

Wanted == conf # None /\ C!RunsV4(conf)

\* The time counts from the last change or failure that concerns the address.
Count(passed) ==
  unrecorded' =
    IF \/ C!Latest4' = ext4' \/ ~ Wanted'
       \/ <<ext4, conf, interval_secs, faults, restarts>>' # <<ext4, conf, interval_secs, faults, restarts>>
    THEN 0 ELSE unrecorded + passed

DyndnsInit == Init /\ C!Init /\ unrecorded = 0

-----------------------------------------------------------------------------
Network ==
  /\ UNCHANGED vars
  /\ C!ChangeExt4 \/ C!ChangeIface6
  /\ Count(0)

Handlers ==
  /\ Api
  /\ UNCHANGED <<netVars, cycleVars, countVars>>
  /\ Count(0)

Main ==
  /\ Signal \/ NotifyWorker \/ Exit
  /\ UNCHANGED <<netVars, cycleVars, countVars>>
  /\ Count(0)

\* The worker beside its cycle: its timer and the channel.
Loop ==
  /\ LoadInterval \/ LoadIntervalFails \/ Tick \/ SeeInterval
  /\ UNCHANGED <<netVars, cycleVars, countVars>>
  /\ Count(0)

\* MUTANT of Stop: the select has the cycle as well.
StopAtOnce ==
  /\ process = "notified" /\ pc \in {"cycle", "wait"}
  /\ pc' = "stopped"
  /\ UNCHANGED <<apiVars, interval_secs, loaded, seen, elapsed, deadline, ready, process, restarts>>
  /\ UNCHANGED <<netVars, cycleVars, countVars>>
  /\ Count(0)

\* The shutdown is seen in the select, which execute_cycle is no part of.
Stop ==
  /\ SeeShutdown
  /\ UNCHANGED <<netVars, cycleVars, countVars>>
  /\ Count(0)

Second ==
  /\ Pass
  /\ UNCHANGED <<netVars, cycleVars, countVars>>
  /\ Count(1)

\* self.execute_cycle()
CallCycle ==
  /\ StartCycle /\ C!StartCycle
  /\ Count(0)

Cycle ==
  /\ pc = "cycle"
  /\ UNCHANGED vars
  /\ C!LoadConfig \/ C!LoadIpv4History \/ C!LoadIpv6History \/ C!Check \/ C!Update
  /\ Count(0)

CycleFails ==
  /\ pc = "cycle"
  /\ UNCHANGED vars
  /\ C!DatabaseError \/ C!Ipv4LookupFails \/ C!RequestFails \/ C!AnswerNotGood
  /\ Count(0)

\* MUTANT of CycleReturns: the timer is made after the cycle.
CycleReturnsToNewTimer ==
  /\ step = "idle"
  /\ pc = "cycle" /\ pc' = "wait"
  /\ ready' = elapsed /\ deadline' = elapsed + interval_secs
  /\ UNCHANGED <<apiVars, interval_secs, loaded, seen, elapsed, process, restarts>>
  /\ UNCHANGED <<netVars, cycleVars, countVars>>
  /\ Count(0)

\* MUTANT of CycleReturns: an error of the cycle is returned by run.
CycleReturnsOrEndsRun ==
  /\ step = "idle"
  /\ EndCycleOrStop
  /\ UNCHANGED <<netVars, cycleVars, countVars>>
  /\ Count(0)

\* It has returned, with an error or without.
CycleReturns ==
  /\ step = "idle"
  /\ EndCycle
  /\ UNCHANGED <<netVars, cycleVars, countVars>>
  /\ Count(0)

\* The process dies and is started again, in a cycle or not.
StartAgain ==
  /\ Restart
  /\ \/ step # "idle" /\ C!Crash
     \/ step = "idle" /\ UNCHANGED <<netVars, cycleVars, countVars>>
  /\ Count(0)

DyndnsNext == Network \/ Handlers \/ Main \/ Loop \/ Stop \/ Second
                \/ CallCycle \/ Cycle \/ CycleFails \/ CycleReturns \/ StartAgain

DyndnsSpec == DyndnsInit /\ [][DyndnsNext]_allVars

\* The runtime polls the task when it is ready and time passes while it waits.
\* That a cycle begins again and again is no assumption here.
DyndnsFairness ==
  /\ WF_allVars(Loop \/ CallCycle \/ CycleReturns \/ (pc = "wait" /\ Second))
  /\ WF_allVars(Cycle)

DyndnsFairSpec == DyndnsSpec /\ DyndnsFairness

-----------------------------------------------------------------------------
(* Properties. *)

\* A shutdown never cuts a cycle off: what a process that was only ever asked
\* to stop has published, it has recorded before it exits.
GracefulExit ==
  process = "exited" /\ faults = 0 => step = "idle" /\ ~ ahead4 /\ ~ ahead6

\* Between the beginnings of two cycles.
Longest == IF interval_secs > CycleTime THEN interval_secs ELSE CycleTime

\* A change of the host's address, of the interval or of the configuration is
\* published and recorded within one interval and the time of a cycle, or within
\* two cycles if those take longer; after a failure it is within the same time.
Fresh == unrecorded <= CycleTime + Longest

\* As long as the process serves, a configuration that stays gets the host's
\* address recorded, whichever requests came before.
EndToEnd ==
  <>[](process = "serving") /\ <>[]Wanted => <>[](C!Latest4 = ext4)

-----------------------------------------------------------------------------
(* The inductive invariant behind the two safety properties. *)

\* The task is in execute_cycle when the loop has called it, and the process
\* ends with its loop.
CallsOK ==
  /\ step # "idle" => pc = "cycle"
  /\ process = "exited" => pc = "stopped"

\* With no fault so far, an address that was published and has no row is in the
\* result that the cycle is about to record.
DueOK ==
  faults = 0 =>
    /\ ahead4 => step = "persist4" /\ res4.current # None
    /\ ahead6 => step \in {"persist4", "persist6"} /\ res6.current # {}

\* The cycle is one that records the host's address before it ends.
OnItsWay ==
  /\ step \notin {"idle", "persist6"}
  /\ step # "config" => cfg = conf
  /\ step \in {"check", "update", "persist4"} /\ pc4 = "done" => res4.current = ext4

\* An address is unrecorded since before the cycle began only while the cycle is
\* on its way to record it; after a cycle it is since that cycle's time.
UnrecordedOK ==
  /\ unrecorded \in Nat
  /\ unrecorded > 0 => Wanted /\ C!Latest4 # ext4
  /\ pc = "load" => unrecorded = 0
  /\ pc \in {"top", "stopped"} => unrecorded <= Longest
  /\ pc = "cycle" =>
       /\ elapsed <= CycleTime /\ unrecorded <= elapsed + Longest
       /\ unrecorded > elapsed => OnItsWay
  /\ pc = "wait" => unrecorded <= elapsed /\ (unrecorded > 0 => elapsed <= Longest)

DyndnsIInv ==
  /\ LoopIInv
  /\ C!IInv
  /\ CallsOK
  /\ DueOK
  /\ UnrecordedOK
=============================================================================
