---------------------------- MODULE DyndnsProofs ----------------------------
(***************************************************************************)
(* Proofs about Dyndns, for every set of requests, intervals, addresses    *)
(* and targets and every bound: the worker in its process is a loop as     *)
(* SchedulerLoop has it, its cycles keep in it the invariant that          *)
(* UpdateCycle has alone and implement Publisher there, a shutdown cuts no *)
(* cycle off, and a change of the host's address is recorded in time.      *)
(*                                                                         *)
(* The lemmas on the cycle are those of UpdateCycleProofs, instantiated as *)
(* U with what Dyndns substitutes for the configuration and the position.  *)
(***************************************************************************)
EXTENDS Dyndns, SchedulerLoopProofs

U == INSTANCE UpdateCycleProofs WITH pc <- step

-----------------------------------------------------------------------------
(* U is C with its lemmas. *)

LEMMA SameState ==
  /\ C!vars = U!vars
  /\ C!Init <=> U!Init
BY DEF C!vars, C!dbVars, C!netVars, C!dnsVars, C!loadVars, C!checkVars,
       U!vars, U!dbVars, U!netVars, U!dnsVars, U!loadVars, U!checkVars,
       C!Init, C!Config, C!IpVersion, C!EmptyRow, C!DefaultResult4, C!DefaultResult6, C!CheckResult,
       U!Init, U!Config, U!IpVersion, U!EmptyRow, U!DefaultResult4, U!DefaultResult6, U!CheckResult

LEMMA SameEnvironment == C!Environment <=> U!Environment
BY DEF C!Environment, C!ChangeExt4, C!ChangeIface6, C!WriteConfig, C!Change,
       U!Environment, U!ChangeExt4, U!ChangeIface6, U!WriteConfig, U!Change,
       C!dbVars, C!netVars, C!dnsVars, C!loadVars, C!checkVars,
       U!dbVars, U!netVars, U!dnsVars, U!loadVars, U!checkVars,
       C!Config, C!IpVersion, U!Config, U!IpVersion

LEMMA SameEnd == C!EndCycle <=> U!EndCycle
BY DEF C!EndCycle, C!EmptyRow, C!DefaultResult4, C!DefaultResult6, C!CheckResult,
       U!EndCycle, U!EmptyRow, U!DefaultResult4, U!DefaultResult6, U!CheckResult

LEMMA SameLoad == C!Load <=> U!Load
<1>. USE DEF C!dbVars, C!netVars, C!dnsVars, C!loadVars, C!checkVars,
             U!dbVars, U!netVars, U!dnsVars, U!loadVars, U!checkVars
<1>1. C!StartCycle <=> U!StartCycle
  BY DEF C!StartCycle, U!StartCycle
<1>2. C!LoadConfig <=> U!LoadConfig
  BY SameEnd DEF C!LoadConfig, U!LoadConfig
<1>3. C!LoadIpv4History <=> U!LoadIpv4History
  BY DEF C!LoadIpv4History, U!LoadIpv4History, C!Latest4, U!Latest4, C!Last, U!Last
<1>4. C!LoadIpv6History <=> U!LoadIpv6History
  BY DEF C!LoadIpv6History, C!Latest6, C!Last, C!EmptyRow, C!RunsV4, C!RunsV6,
         U!LoadIpv6History, U!Latest6, U!Last, U!EmptyRow, U!RunsV4, U!RunsV6
<1>. QED
  BY <1>1, <1>2, <1>3, <1>4 DEF C!Load, U!Load

LEMMA SameUpdate == C!Update <=> U!Update
BY SameEnd
   DEF C!Update, C!StartUpdate, C!AnswerGood, C!PersistIpv4, C!PersistIpv6, C!Apply,
       U!Update, U!StartUpdate, U!AnswerGood, U!PersistIpv4, U!PersistIpv6, U!Apply,
       C!dbVars, C!netVars, C!dnsVars, C!loadVars, C!checkVars,
       U!dbVars, U!netVars, U!dnsVars, U!loadVars, U!checkVars

LEMMA SameCheck == C!Check <=> U!Check
BY DEF C!Check, C!Ipv4Lookup, C!LocalIpv6Lookup, C!ExternalIpv6Lookup, C!Ipv6LookupFails,
       U!Check, U!Ipv4Lookup, U!LocalIpv6Lookup, U!ExternalIpv6Lookup, U!Ipv6LookupFails,
       C!dbVars, C!netVars, C!dnsVars, C!loadVars,
       U!dbVars, U!netVars, U!dnsVars, U!loadVars,
       C!CheckIpv4, C!DiffIpv6, C!NeedsExternal, C!PreviousIpv6, C!Retained, C!Unseen,
       U!CheckIpv4, U!DiffIpv6, U!NeedsExternal, U!PreviousIpv6, U!Retained, U!Unseen,
       C!KnownAddresses, C!OnlyAddress, C!DefaultResult4, C!DefaultResult6, C!CheckResult,
       U!KnownAddresses, U!OnlyAddress, U!DefaultResult4, U!DefaultResult6, U!CheckResult

LEMMA SameFailure == C!Failure <=> U!Failure
<1>. USE DEF C!dbVars, C!netVars, C!dnsVars, C!loadVars, C!checkVars, C!Fault, C!Apply,
             U!dbVars, U!netVars, U!dnsVars, U!loadVars, U!checkVars, U!Fault, U!Apply
<1>1. /\ C!DatabaseError <=> U!DatabaseError
      /\ C!Crash <=> U!Crash
  BY SameEnd DEF C!DatabaseError, C!Crash, U!DatabaseError, U!Crash
<1>2. C!Ipv4LookupFails <=> U!Ipv4LookupFails
  BY DEF C!Ipv4LookupFails, C!DefaultResult4, C!CheckResult,
         U!Ipv4LookupFails, U!DefaultResult4, U!CheckResult
<1>3. /\ C!RequestFails <=> U!RequestFails
      /\ C!AnswerNotGood <=> U!AnswerNotGood
  BY SameEnd DEF C!RequestFails, C!AnswerNotGood, U!RequestFails, U!AnswerNotGood
<1>. QED
  BY <1>1, <1>2, <1>3 DEF C!Failure, U!Failure

LEMMA SameNext == C!Next <=> U!Next
BY SameEnvironment, SameLoad, SameCheck, SameUpdate, SameFailure DEF C!Next, U!Next

LEMMA SameInvariant == C!IInv <=> U!IInv
BY DEF C!IInv, U!IInv, C!TypeOK, U!TypeOK, C!SnapshotFresh, U!SnapshotFresh,
   C!PhaseOK, U!PhaseOK, C!Result4OK, U!Result4OK, C!Result6OK, U!Result6OK,
   C!Published, U!Published, C!History4Chain, U!History4Chain,
   C!History6Chain, U!History6Chain, C!MirrorsProvider, U!MirrorsProvider,
   C!Row4, U!Row4, C!Row6, U!Row6, C!Config, U!Config, C!IpVersion, U!IpVersion,
   C!Result4, U!Result4, C!Result6, U!Result6, C!Latest4, U!Latest4, C!Latest6, U!Latest6,
   C!EmptyRow, U!EmptyRow, C!DefaultResult4, U!DefaultResult4, C!CheckResult, U!CheckResult,
   C!Listed, U!Listed, C!NeedsExternal, U!NeedsExternal, C!Last, U!Last

-----------------------------------------------------------------------------
(* The worker is a loop, and what it runs are cycles. *)

\* The network and the steps of a cycle leave the loop alone; every other step
\* is one of the loop.
LEMMA LoopView == DyndnsNext => [Next]_vars
<1>1. Network \/ Cycle \/ CycleFails => UNCHANGED vars
  BY DEF Network, Cycle, CycleFails
<1>2. Handlers => Api
  BY DEF Handlers
<1>3. Loop \/ Stop \/ Second \/ CallCycle \/ CycleReturns => Worker
  BY DEF Loop, Stop, Second, CallCycle, CycleReturns, Worker
<1>4. Main \/ StartAgain => Process
  BY DEF Main, StartAgain, Process
<1>. QED
  BY <1>1, <1>2, <1>3, <1>4 DEF DyndnsNext, Next

\* The row that the worker is served is one that a request wrote.
LEMMA ConfType == LoopIInv => conf \in C!Config \cup {None}
<1>. SUFFICES ASSUME LoopIInv, rows # <<>> PROVE conf \in C!Config
  BY DEF conf
<1>1. rows \in Seq(Config)
  BY DEF LoopIInv, ApiIInv, ApiTypeOK
<1>2. rows[1] \in Config
  BY <1>1
<1>3. rows[1].by \in Requests
  BY <1>2 DEF Config
<1>. QED
  BY <1>3, SettingsAssumption DEF conf

\* Every step is a step of a cycle, or leaves all but the configuration alone.
LEMMA CycleView ==
  DyndnsNext => C!Next \/ UNCHANGED <<netVars, cycleVars, countVars>>
<1>1. Network => C!Environment
  BY DEF Network, C!Environment
<1>2. CallCycle => C!Load
  BY DEF CallCycle, C!Load
<1>3. Cycle => C!Load \/ C!Check \/ C!Update
  BY DEF Cycle, C!Load
<1>4. CycleFails \/ (StartAgain /\ step # "idle") => C!Failure
  BY DEF CycleFails, StartAgain, C!Failure
<1>5. Handlers \/ Main \/ Loop \/ Stop \/ Second \/ CycleReturns \/ (StartAgain /\ step = "idle")
        => UNCHANGED <<netVars, cycleVars, countVars>>
  BY DEF Handlers, Main, Loop, Stop, Second, CycleReturns, StartAgain
<1>. QED
  BY <1>1, <1>2, <1>3, <1>4, <1>5 DEF DyndnsNext, C!Next

\* A write of the configuration disturbs no cycle: each works with the one it
\* has loaded.
LEMMA ConfChangeKeeps ==
  ASSUME C!IInv, conf' \in C!Config \cup {None}, UNCHANGED <<netVars, cycleVars, countVars>>
  PROVE  C!IInv'
<1>1. /\ UNCHANGED <<hist4, hist6, ext4, iface6, dns4, dns6, step, pc4, pc6, cfg, prev4, snap6>>
      /\ UNCHANGED <<res4, res6, attempt, ahead4, ahead6, changes, faults>>
  BY DEF netVars, cycleVars, countVars
<1>2. C!TypeOK'
  BY <1>1 DEF C!IInv, C!TypeOK
<1>3. C!Latest4' = C!Latest4 /\ C!Latest6' = C!Latest6
  BY <1>1 DEF C!Latest4, C!Latest6
<1>4. C!SnapshotFresh' /\ C!PhaseOK'
  BY <1>1, <1>3 DEF C!IInv, C!SnapshotFresh, C!PhaseOK
<1>5. C!Result4OK' /\ C!Result6OK' /\ C!Published'
  BY <1>1 DEF C!IInv, C!Result4OK, C!Result6OK, C!Published
<1>6. C!History4Chain' /\ C!History6Chain' /\ C!MirrorsProvider'
  BY <1>1 DEF C!IInv, C!History4Chain, C!History6Chain, C!MirrorsProvider
<1>. QED
  BY <1>2, <1>4, <1>5, <1>6 DEF C!IInv

\* The lemmas on the steps of a cycle, taken together.
LEMMA CycleStep ==
  ASSUME C!IInv, C!Next
  PROVE  C!IInv'
<1>1. U!IInv /\ [U!Next]_(U!vars)
  BY SameInvariant, SameNext
<1>2. /\ U!TypeOK /\ U!SnapshotFresh /\ U!PhaseOK /\ U!Result4OK /\ U!Result6OK
      /\ U!Published /\ U!History4Chain /\ U!History6Chain /\ U!MirrorsProvider
  BY <1>1 DEF U!IInv
<1>3. /\ U!TypeOK' /\ U!PhaseOK'
  BY <1>1, <1>2, CycleAssumption, U!TypeStep
<1>4. /\ U!SnapshotFresh'
  BY <1>1, <1>2, CycleAssumption, U!SnapshotStep
<1>5. /\ U!Result4OK'
  BY <1>1, <1>2, CycleAssumption, U!Result4Step
<1>6. /\ U!Result6OK'
  BY <1>1, <1>2, CycleAssumption, U!Result6Step
<1>7. /\ U!Published'
  BY <1>1, <1>2, CycleAssumption, U!PublishedStep
<1>8. /\ U!History4Chain'
  BY <1>1, <1>2, CycleAssumption, U!Chain4Step
<1>9. /\ U!History6Chain'
  BY <1>1, <1>2, CycleAssumption, U!Chain6Step
<1>10. /\ U!MirrorsProvider'
  BY <1>1, <1>2, CycleAssumption, U!MirrorsStep
<1>11. U!IInv'
  BY <1>3, <1>4, <1>5, <1>6, <1>7, <1>8, <1>9, <1>10 DEF U!IInv
<1>. QED
  BY <1>11, SameInvariant, PTL

\* The worker with its handlers, cycles and process is the loop: whatever is
\* proved of SchedulerLoop holds of it.
THEOREM WorkerIsALoop == DyndnsSpec => Spec
<1>1. DyndnsInit => Init
  BY DEF DyndnsInit
<1>2. [DyndnsNext]_allVars => [Next]_vars
  BY LoopView DEF allVars
<1>. QED
  BY <1>1, <1>2, PTL DEF DyndnsSpec, Spec

LEMMA InvariantsInit == DyndnsInit => LoopIInv /\ C!IInv
<1>. SUFFICES ASSUME DyndnsInit PROVE LoopIInv /\ C!IInv
  OBVIOUS
<1>1. LoopIInv
  BY LoopInit DEF DyndnsInit
<1>2. U!Init
  BY SameState DEF DyndnsInit
<1>3. U!TypeOK /\ U!PhaseOK
  BY <1>2, CycleAssumption, U!TypeInit
<1>4. U!SnapshotFresh /\ U!Result4OK /\ U!Published
  BY <1>2 DEF U!Init, U!SnapshotFresh, U!Result4OK, U!Published
<1>5. U!Result6OK
  BY <1>2 DEF U!Init, U!Result6OK, U!DefaultResult6, U!CheckResult
<1>6. U!History4Chain /\ U!History6Chain /\ U!MirrorsProvider
  BY <1>2 DEF U!Init, U!History4Chain, U!History6Chain, U!MirrorsProvider
<1>7. U!IInv
  BY <1>3, <1>4, <1>5, <1>6 DEF U!IInv
<1>. QED
  BY <1>1, <1>7, SameInvariant

LEMMA InvariantsStep ==
  LoopIInv /\ C!IInv /\ [DyndnsNext]_allVars => (LoopIInv /\ C!IInv)'
<1>. SUFFICES ASSUME LoopIInv, C!IInv, [DyndnsNext]_allVars PROVE (LoopIInv /\ C!IInv)'
  OBVIOUS
<1>1. LoopIInv'
  BY LoopView, LoopStep DEF allVars
<1>2. (conf \in C!Config \cup {None})'
  BY <1>1, ConfType, PTL
<1>3. C!IInv'
  BY <1>2, CycleView, CycleStep, ConfChangeKeeps DEF allVars
<1>. QED
  BY <1>1, <1>3

-----------------------------------------------------------------------------
(* The refinement: what the worker does in its process is what Publisher    *)
(* promises.                                                                *)

LEMMA SamePublisher ==
  /\ C!P!Init <=> U!P!Init
  /\ C!P!Next <=> U!P!Next
  /\ C!P!vars = U!P!vars
<1>. USE DEF C!P!Nothing, U!P!Nothing, C!P!Due, U!P!Due, C!P!Current4, U!P!Current4,
             C!P!Known6, U!P!Known6, C!P!Last, U!P!Last
<1>1. C!Acknowledged = U!Acknowledged
  BY DEF C!Acknowledged, U!Acknowledged
<1>2. (C!Acknowledged = U!Acknowledged)'
  BY <1>1, PTL
<1>3. C!P!vars = U!P!vars
  BY <1>1 DEF C!P!vars, U!P!vars
<1>4. C!P!Init <=> U!P!Init
  BY <1>1 DEF C!P!Init, U!P!Init
<1>5. C!P!Lose <=> U!P!Lose
  BY <1>1, <1>2 DEF C!P!Lose, U!P!Lose
<1>6. C!P!Log4 <=> U!P!Log4
  BY <1>1, <1>2 DEF C!P!Log4, U!P!Log4
<1>7. C!P!Log6 <=> U!P!Log6
  BY <1>1, <1>2 DEF C!P!Log6, U!P!Log6
<1>8. C!P!PublishChange <=> U!P!PublishChange
  BY <1>1, <1>2 DEF C!P!PublishChange, U!P!PublishChange, C!P!Publish, U!P!Publish,
                    C!P!ToTell, U!P!ToTell
<1>. QED
  BY <1>3, <1>4, <1>5, <1>6, <1>7, <1>8 DEF C!P!Next, U!P!Next

LEMMA PublisherView ==
  C!IInv /\ [DyndnsNext]_allVars => [C!P!Next]_(C!P!vars)
<1>. SUFFICES ASSUME C!IInv, [DyndnsNext]_allVars PROVE [C!P!Next]_(C!P!vars)
  OBVIOUS
<1>1. CASE C!Next
  <2>1. U!IInv /\ [U!Next]_(U!vars)
    BY <1>1, SameInvariant, SameNext
  <2>2. [U!P!Next]_(U!P!vars)
    BY <2>1, CycleAssumption, U!PublisherStep
  <2>3. (C!P!vars = U!P!vars)'
    BY SamePublisher, PTL
  <2>. QED
    BY <2>2, <2>3, SamePublisher
<1>2. CASE UNCHANGED <<netVars, cycleVars, countVars>>
  <2>1. UNCHANGED <<hist4, hist6, dns4, dns6, step, res4, res6, cfg>>
    BY <1>2 DEF cycleVars
  <2>2. C!Acknowledged' = C!Acknowledged
    BY <2>1 DEF C!Acknowledged
  <2>. QED
    BY <2>1, <2>2 DEF C!P!vars
<1>. QED
  BY <1>1, <1>2, CycleView DEF allVars

-----------------------------------------------------------------------------
(* A shutdown cuts no cycle off. *)

\* The task is in a cycle when the loop has called it, and the process ends with
\* its loop.
LEMMA CallsStep ==
  CallsOK /\ [DyndnsNext]_allVars => CallsOK'
<1>. SUFFICES ASSUME CallsOK, [DyndnsNext]_allVars PROVE CallsOK'
  OBVIOUS
<1>. USE DEF CallsOK
<1>1. CASE Network
  <2>1. step' = step
    BY <1>1 DEF Network, C!ChangeExt4, C!ChangeIface6
  <2>. QED
    BY <1>1, <2>1 DEF Network, vars, loopVars
<1>2. CASE Handlers
  BY <1>2 DEF Handlers, Api, loopVars, cycleVars
<1>3. CASE Main
  BY <1>3 DEF Main, Signal, NotifyWorker, Exit, loopVars, cycleVars
<1>4. CASE Loop \/ Stop
  BY <1>4 DEF Loop, LoadInterval, LoadIntervalFails, Tick, SeeInterval, Stop, SeeShutdown,
     TickReady, IntervalReady, ShutdownReady, cycleVars
<1>5. CASE Second \/ CycleReturns
  BY <1>5 DEF Second, Pass, CycleReturns, EndCycle, cycleVars
<1>6. CASE CallCycle
  BY <1>6 DEF CallCycle, StartCycle
<1>7. CASE Cycle \/ CycleFails
  BY <1>7 DEF Cycle, CycleFails, vars, loopVars
<1>8. CASE StartAgain
  BY <1>8 DEF StartAgain, Restart, C!Crash, C!EndCycle, cycleVars
<1>9. CASE UNCHANGED allVars
  BY <1>9 DEF allVars, vars, loopVars, cycleVars
<1>. QED
  BY <1>1, <1>2, <1>3, <1>4, <1>5, <1>6, <1>7, <1>8, <1>9 DEF DyndnsNext

\* Only a good answer publishes without a fault, and what it publishes is what
\* the two inserts record.
LEMMA DueStep ==
  C!IInv /\ DueOK /\ [DyndnsNext]_allVars => DueOK'
<1>. SUFFICES ASSUME C!IInv, DueOK, [DyndnsNext]_allVars, faults' = 0 PROVE DueOK'
  BY DEF DueOK
<1>. USE DEF DueOK
<1>f. faults \in Nat
  BY CycleAssumption DEF C!IInv, C!TypeOK
<1>1. CASE UNCHANGED <<netVars, cycleVars, countVars>>
  BY <1>1 DEF cycleVars, countVars
<1>2. CASE C!Failure
  BY <1>2, <1>f DEF C!Failure, C!DatabaseError, C!Ipv4LookupFails, C!RequestFails,
     C!AnswerNotGood, C!Crash, C!Fault
<1>3. CASE C!Environment
  BY <1>3 DEF C!Environment, C!ChangeExt4, C!ChangeIface6, C!WriteConfig,
     C!dnsVars, C!checkVars
<1>4. CASE C!Load \/ C!StartUpdate
  <2>1. UNCHANGED <<ahead4, ahead6, faults>> /\ step \notin {"persist4", "persist6"}
    BY <1>4 DEF C!Load, C!StartCycle, C!LoadConfig, C!LoadIpv4History, C!LoadIpv6History,
       C!StartUpdate, C!dnsVars
  <2>. QED
    BY <2>1
<1>5. CASE C!Check
  <2>1. UNCHANGED <<ahead4, ahead6, faults>> /\ step = "check"
    BY <1>5 DEF C!IInv, C!PhaseOK, C!Check, C!Ipv4Lookup, C!LocalIpv6Lookup, C!ExternalIpv6Lookup,
       C!Ipv6LookupFails, C!dnsVars
  <2>. QED
    BY <2>1
<1>6. CASE C!AnswerGood
  <2>1. /\ step = "update" /\ step' = "persist4" /\ faults' = faults
        /\ res4' = res4 /\ res6' = res6
        /\ ahead4' = (ahead4 \/ res4.external # None)
        /\ ahead6' = (ahead6 \/ res6.external # None)
    BY <1>6 DEF C!AnswerGood, C!Apply, C!checkVars
  <2>2. res4.external # None => res4.current # None
    BY DEF C!IInv, C!Result4OK, C!DefaultResult4, C!CheckResult
  <2>3. res6.external # None => res6.current # {}
    BY DEF C!IInv, C!Result6OK
  <2>. QED
    BY <2>1, <2>2, <2>3
<1>7. CASE C!PersistIpv4
  BY <1>7 DEF C!PersistIpv4, C!checkVars
<1>8. CASE C!PersistIpv6
  BY <1>8 DEF C!PersistIpv6
<1>. QED
  BY <1>1, <1>2, <1>3, <1>4, <1>5, <1>6, <1>7, <1>8, CycleView
     DEF C!Next, C!Update, allVars

-----------------------------------------------------------------------------
(* A change of the host's address is recorded in time. *)

LEMMA LongestType ==
  LoopIInv => /\ CycleTime \in Nat /\ interval_secs \in Nat /\ Longest \in Nat
              /\ CycleTime <= Longest /\ interval_secs <= Longest
              /\ elapsed \in Nat /\ deadline \in Nat /\ ready \in 0..elapsed
BY IntervalsAssumption, TimeAssumption DEF LoopIInv, TypeOK, Longest

\* The count starts anew, or nothing that concerns the address has happened;
\* it goes on by a second when one passes.
LEMMA Counts ==
  ASSUME UnrecordedOK, [DyndnsNext]_allVars
  PROVE  \/ unrecorded' = 0
         \/ /\ unrecorded' = unrecorded \/ (unrecorded' = unrecorded + 1 /\ Second)
            /\ C!Latest4' # ext4' /\ Wanted'
            /\ UNCHANGED <<ext4, conf, interval_secs, faults, restarts>>
<1>1. ASSUME NEW passed \in {0, 1}, Count(passed)
      PROVE  \/ unrecorded' = 0
             \/ /\ unrecorded' = unrecorded + passed
                /\ C!Latest4' # ext4' /\ Wanted'
                /\ UNCHANGED <<ext4, conf, interval_secs, faults, restarts>>
  BY <1>1 DEF Count
<1>2. CASE Second
  BY <1>1, <1>2 DEF Second
<1>3. CASE DyndnsNext /\ ~ Second
  <2>1. Count(0)
    BY <1>3 DEF DyndnsNext, Network, Handlers, Main, Loop, Stop, CallCycle, Cycle, CycleFails,
       CycleReturns, StartAgain
  <2>2. unrecorded + 0 = unrecorded
    BY DEF UnrecordedOK
  <2>. QED
    BY <1>1, <2>1, <2>2
<1>4. CASE UNCHANGED allVars
  <2>1. UNCHANGED <<unrecorded, hist4, ext4, rows, interval_secs, faults, restarts>>
    BY <1>4 DEF allVars, vars, apiVars, loopVars, netVars, cycleVars, countVars
  <2>2. UNCHANGED <<conf, C!Latest4>>
    BY <2>1 DEF conf, C!Latest4
  <2>3. CASE unrecorded = 0
    BY <2>1, <2>3
  <2>4. CASE unrecorded > 0
    BY <2>1, <2>2, <2>4 DEF UnrecordedOK, Wanted, C!RunsV4
  <2>. QED
    BY <2>3, <2>4 DEF UnrecordedOK
<1>. QED
  BY <1>2, <1>3, <1>4

\* A cycle on its way to record the address stays on it, unless the address, the
\* configuration or a failure comes in between, until it is recorded.
LEMMA OnItsWayStep ==
  ASSUME C!IInv, C!IInv', OnItsWay, C!Next, Wanted, C!Latest4 # ext4, C!Latest4' # ext4',
         UNCHANGED <<ext4, conf, faults>>
  PROVE  OnItsWay'
<1>. USE DEF OnItsWay
<1>t. /\ ext4 \in V4 /\ ext4 # None /\ faults \in Nat
      /\ step # "check" => pc4 = "done"
  BY CycleAssumption DEF C!IInv, C!TypeOK, C!PhaseOK
<1>1. CASE C!Failure
  BY <1>1, <1>t DEF C!Failure, C!DatabaseError, C!Ipv4LookupFails, C!RequestFails,
     C!AnswerNotGood, C!Crash, C!Fault
<1>2. CASE C!Environment
  BY <1>2 DEF C!Environment, C!ChangeExt4, C!ChangeIface6, C!WriteConfig,
     C!loadVars, C!checkVars
<1>3. CASE C!Load
  <2>1. ~ C!StartCycle
    BY DEF C!StartCycle
  <2>2. CASE C!LoadConfig
    BY <2>2 DEF C!LoadConfig, Wanted
  <2>3. CASE C!LoadIpv4History
    BY <2>3 DEF C!LoadIpv4History
  <2>4. CASE C!LoadIpv6History
    BY <2>4 DEF C!LoadIpv6History, Wanted
  <2>. QED
    BY <1>3, <2>1, <2>2, <2>3, <2>4 DEF C!Load
<1>4. CASE C!Check
  <2>1. step = "check" /\ step' = step /\ cfg' = cfg
    BY <1>4 DEF C!IInv, C!PhaseOK, C!Check, C!Ipv4Lookup, C!LocalIpv6Lookup,
       C!ExternalIpv6Lookup, C!Ipv6LookupFails, C!loadVars
  <2>2. CASE C!Ipv4Lookup
    <3>1. prev4 # ext4
      BY <2>1 DEF C!IInv, C!SnapshotFresh
    <3>2. res4'.current = ext4
      BY <2>2, <3>1 DEF C!Ipv4Lookup, C!CheckIpv4, C!CheckResult
    <3>. QED
      BY <2>1, <3>2
  <2>3. CASE ~ C!Ipv4Lookup
    BY <1>4, <2>1, <2>3 DEF C!Check, C!LocalIpv6Lookup, C!ExternalIpv6Lookup, C!Ipv6LookupFails
  <2>. QED
    BY <2>2, <2>3
<1>5. CASE C!StartUpdate
  <2>1. res4.external # None
    BY <1>5, <1>t DEF C!StartUpdate, C!IInv, C!Result4OK, C!DefaultResult4, C!CheckResult
  <2>. QED
    BY <1>5, <2>1 DEF C!StartUpdate, C!loadVars, C!checkVars
<1>6. CASE C!AnswerGood
  BY <1>6, <1>t DEF C!AnswerGood, C!loadVars, C!checkVars
<1>7. CASE C!PersistIpv4
  <2>1. step = "persist4" /\ step' = "persist6" /\ res4' = res4
    BY <1>7 DEF C!PersistIpv4, C!checkVars
  <2>2. res4'.current = ext4 /\ C!Latest4' = res4'.current
    BY <1>t, <2>1 DEF C!IInv, C!SnapshotFresh
  <2>. QED
    BY <2>2
<1>8. CASE C!PersistIpv6
  BY <1>8 DEF C!PersistIpv6
<1>. QED
  BY <1>1, <1>2, <1>3, <1>4, <1>5, <1>6, <1>7, <1>8 DEF C!Next, C!Update

\* A cycle takes no longer than it may.
LEMMA CycleTimeStep ==
  ASSUME LoopIInv, [DyndnsNext]_allVars, pc = "cycle" => elapsed <= CycleTime
  PROVE  pc' = "cycle" => elapsed' <= CycleTime
<1>1. [Next]_vars
  BY LoopView DEF allVars
<1>2. CASE Second
  BY <1>2, LongestType DEF Second, Pass
<1>3. CASE StartCycle
  BY <1>3, TimeAssumption DEF StartCycle
<1>4. CASE UNCHANGED <<pc, elapsed>> \/ pc' # "cycle"
  BY <1>4
<1>. QED
  BY <1>2, <1>3, <1>4
     DEF DyndnsNext, Network, Handlers, Api, Main, Signal, NotifyWorker, Exit, Loop, LoadInterval,
         LoadIntervalFails, Tick, SeeInterval, Stop, SeeShutdown, CallCycle, Cycle, CycleFails,
         CycleReturns, EndCycle, StartAgain, Restart, allVars, vars, loopVars

\* The bounds on the count, where it goes on.
LEMMA UnrecordedGoesOn ==
  ASSUME LoopIInv, LoopIInv', C!IInv, C!IInv', UnrecordedOK, DyndnsNext,
         unrecorded' = unrecorded \/ (unrecorded' = unrecorded + 1 /\ Second),
         C!Latest4' # ext4', Wanted', unrecorded' # 0,
         UNCHANGED <<ext4, conf, interval_secs, faults, restarts>>,
         pc' = "cycle" => elapsed' <= CycleTime
  PROVE  UnrecordedOK'
<1>t. /\ CycleTime \in Nat /\ Longest \in Nat /\ CycleTime <= Longest
      /\ interval_secs <= Longest /\ interval_secs \in Nat
      /\ elapsed \in Nat /\ deadline \in Nat /\ Longest' = Longest
      /\ unrecorded \in Nat /\ unrecorded' \in Nat
  BY LongestType DEF UnrecordedOK, Longest
<1>. SUFFICES
       /\ pc' = "load" => unrecorded' = 0
       /\ pc' \in {"top", "stopped"} => unrecorded' <= Longest
       /\ pc' = "cycle" =>
            /\ unrecorded' <= elapsed' + Longest
            /\ unrecorded' > elapsed' => OnItsWay'
       /\ pc' = "wait" => unrecorded' <= elapsed' /\ (unrecorded' > 0 => elapsed' <= Longest)
  BY <1>t DEF UnrecordedOK
<1>. USE DEF UnrecordedOK
<1>n. ~ Second => unrecorded' = unrecorded
  OBVIOUS
<1>w. unrecorded > 0 => Wanted /\ C!Latest4 # ext4
  OBVIOUS
<1>1. CASE Network \/ Cycle \/ CycleFails
  <2>1. C!Next
    <3>1. Network => C!Environment
      BY DEF Network, C!Environment
    <3>2. Cycle => C!Load \/ C!Check \/ C!Update
      BY DEF Cycle, C!Load
    <3>3. CycleFails => C!Failure
      BY DEF CycleFails, C!Failure
    <3>. QED
      BY <1>1, <3>1, <3>2, <3>3 DEF C!Next
  <2>2. UNCHANGED <<pc, elapsed>>
    BY <1>1 DEF Network, Cycle, CycleFails, vars, loopVars
  <2>3. unrecorded' = unrecorded
    BY <1>t, <2>2, LongestType DEF Second, Pass
  <2>4. unrecorded > elapsed /\ pc = "cycle" => OnItsWay'
    BY <1>t, <1>w, <2>1, OnItsWayStep
  <2>. QED
    BY <1>t, <2>2, <2>3, <2>4
<1>2. CASE Handlers \/ Main
  <2>1. UNCHANGED <<pc, elapsed, step, cfg, pc4, res4>>
    BY <1>2 DEF Handlers, Api, Main, Signal, NotifyWorker, Exit, loopVars, cycleVars
  <2>2. unrecorded' = unrecorded
    BY <1>t, <2>1 DEF Second, Pass
  <2>3. OnItsWay => OnItsWay'
    BY <2>1 DEF OnItsWay
  <2>. QED
    BY <1>t, <2>1, <2>2, <2>3
<1>3. CASE Loop
  <2>1. CASE LoadInterval \/ LoadIntervalFails
    <3>1. pc = "load" /\ pc' = "top"
      BY <2>1 DEF LoadInterval, LoadIntervalFails
    <3>. QED
      BY <3>1, <1>t DEF Second, Pass
  <2>2. CASE Tick
    <3>1. pc = "wait" /\ pc' = "top" /\ elapsed' = elapsed
      BY <2>2 DEF Tick, TickReady
    <3>2. unrecorded' = unrecorded
      BY <3>1, <1>t DEF Second, Pass
    <3>. QED
      BY <3>1, <3>2, <1>t
  <2>3. CASE SeeInterval
    <3>1. pc = "wait" /\ pc' = "wait" /\ elapsed' = elapsed
      BY <2>3 DEF SeeInterval, IntervalReady
    <3>2. unrecorded' = unrecorded
      BY <3>1, <1>t DEF Second, Pass
    <3>. QED
      BY <3>1, <3>2, <1>t
  <2>. QED
    BY <1>3, <2>1, <2>2, <2>3 DEF Loop
<1>4. CASE Stop
  <2>1. pc = "wait" /\ pc' = "stopped" /\ elapsed' = elapsed
    BY <1>4 DEF Stop, SeeShutdown, ShutdownReady
  <2>2. unrecorded' = unrecorded
    BY <2>1, <1>t DEF Second, Pass
  <2>. QED
    BY <2>1, <2>2, <1>t
<1>5. CASE Second
  <2>1. /\ UNCHANGED <<pc, step, cfg, pc4, res4>> /\ elapsed' = elapsed + 1
        /\ pc = "cycle" \/ (pc = "wait" /\ elapsed < deadline)
    BY <1>5, <1>t DEF Second, Pass, TickReady, cycleVars
  <2>2. OnItsWay => OnItsWay'
    BY <2>1 DEF OnItsWay
  <2>3. CASE pc = "cycle"
    BY <1>t, <2>1, <2>2, <2>3
  <2>4. CASE pc = "wait" /\ elapsed < deadline
    <3>1. deadline = interval_secs
      BY <2>4 DEF LoopIInv, DeadlineOK
    <3>. QED
      BY <1>t, <2>1, <2>4, <3>1
  <2>. QED
    BY <2>1, <2>3, <2>4
<1>6. CASE CallCycle
  <2>1. pc = "top" /\ pc' = "cycle" /\ elapsed' = 0 /\ step' = "config"
    BY <1>6 DEF CallCycle, StartCycle, C!StartCycle
  <2>2. unrecorded' = unrecorded
    BY <1>t, <2>1 DEF Second, Pass
  <2>3. OnItsWay'
    BY <2>1 DEF OnItsWay
  <2>. QED
    BY <1>t, <2>1, <2>2, <2>3
<1>7. CASE CycleReturns
  <2>1. pc = "cycle" /\ pc' = "wait" /\ elapsed' = elapsed /\ step = "idle"
    BY <1>7 DEF CycleReturns, EndCycle
  <2>2. unrecorded' = unrecorded
    BY <1>t, <2>1 DEF Second, Pass
  <2>3. unrecorded <= elapsed
    BY <1>t, <2>1 DEF OnItsWay
  <2>. QED
    BY <1>t, <2>1, <2>2, <2>3
<1>8. CASE StartAgain
  BY <1>8 DEF StartAgain, Restart, LoopIInv, TypeOK
<1>. QED
  BY <1>1, <1>2, <1>3, <1>4, <1>5, <1>6, <1>7, <1>8 DEF DyndnsNext

LEMMA UnrecordedStep ==
  ASSUME LoopIInv, LoopIInv', C!IInv, C!IInv', UnrecordedOK, [DyndnsNext]_allVars
  PROVE  UnrecordedOK'
<1>1. pc' = "cycle" => elapsed' <= CycleTime
  BY CycleTimeStep DEF UnrecordedOK
<1>2. /\ elapsed' \in Nat /\ Longest' \in Nat /\ CycleTime \in Nat
  BY IntervalsAssumption, TimeAssumption DEF LoopIInv, TypeOK, Longest
<1>3. CASE unrecorded' = 0
  <2>1. ASSUME NEW e \in Nat, NEW l \in Nat
        PROVE  /\ 0 <= l /\ 0 <= e /\ 0 <= e + l
               /\ ~ (0 > 0) /\ ~ (0 > e) /\ 0 \in Nat
    OBVIOUS
  <2>. QED
    BY <1>1, <1>2, <1>3, <2>1, Zenon DEF UnrecordedOK
<1>4. CASE UNCHANGED allVars
  <2>1. UNCHANGED <<unrecorded, pc, elapsed, rows, interval_secs, hist4, ext4>>
    BY <1>4 DEF allVars, vars, apiVars, loopVars, netVars, cycleVars
  <2>2. UNCHANGED <<step, cfg, pc4, res4>>
    BY <1>4 DEF allVars, cycleVars
  <2>3. UNCHANGED <<conf, C!Latest4, Longest>>
    BY <2>1 DEF conf, C!Latest4, Longest
  <2>4. Wanted' = Wanted /\ OnItsWay' = OnItsWay
    BY <2>1, <2>2, <2>3 DEF Wanted, OnItsWay, C!RunsV4
  <2>. QED
    BY <2>1, <2>3, <2>4 DEF UnrecordedOK
<1>5. CASE DyndnsNext /\ unrecorded' # 0
  BY <1>1, <1>5, Counts, UnrecordedGoesOn
<1>. QED
  BY <1>3, <1>4, <1>5

-----------------------------------------------------------------------------
(* The theorems. *)

\* The inductive invariant of the whole worker: that of the loop with its
\* handlers, that of the cycle, and what relates the two.
THEOREM WorkerInductive == DyndnsSpec => []DyndnsIInv
<1>1. DyndnsInit => DyndnsIInv
  <2>. SUFFICES ASSUME DyndnsInit PROVE DyndnsIInv
    OBVIOUS
  <2>1. LoopIInv /\ C!IInv
    BY InvariantsInit
  <2>2. CallsOK /\ DueOK
    BY DEF DyndnsInit, Init, C!Init, CallsOK, DueOK
  <2>3. UnrecordedOK
    BY DEF DyndnsInit, Init, UnrecordedOK
  <2>. QED
    BY <2>1, <2>2, <2>3 DEF DyndnsIInv
<1>2. DyndnsIInv /\ [DyndnsNext]_allVars => DyndnsIInv'
  BY InvariantsStep, CallsStep, DueStep, UnrecordedStep DEF DyndnsIInv
<1>. QED
  BY <1>1, <1>2, PTL DEF DyndnsSpec

\* What the cycle's invariant says of the tables and the provider's record holds
\* while handlers, shutdown and restarts go on around it.
THEOREM CycleInvariantInProcess == DyndnsSpec => []C!IInv
<1>1. DyndnsIInv => C!IInv
  BY DEF DyndnsIInv
<1>. QED
  BY <1>1, WorkerInductive, PTL

\* The worker in its process implements Publisher: whenever handlers write the
\* configuration and the process stops or dies, only changes are published and
\* only what was acknowledged is recorded.
THEOREM WorkerPublishes == DyndnsSpec => C!Publishes
<1>1. DyndnsInit => C!P!Init
  BY DEF DyndnsInit, C!Init, C!P!Init, C!Acknowledged, C!P!Nothing
<1>2. DyndnsIInv /\ [DyndnsNext]_allVars => [C!P!Next]_(C!P!vars)
  BY PublisherView DEF DyndnsIInv
<1>. QED
  BY <1>1, <1>2, WorkerInductive, PTL DEF DyndnsSpec, C!Publishes, C!P!Spec

\* A process that was asked to stop exits with no cycle under way and, if nothing
\* failed, with a row for all that it published.
THEOREM ShutdownIsGraceful == DyndnsSpec => []GracefulExit
<1>1. DyndnsIInv => GracefulExit
  BY DEF DyndnsIInv, CallsOK, DueOK, GracefulExit
<1>. QED
  BY <1>1, WorkerInductive, PTL

\* A change of the host's address is recorded within one interval and the time of
\* a cycle, or two cycles, whatever was requested, restarted or failed before.
THEOREM RecordedInTime == DyndnsSpec => []Fresh
<1>1. DyndnsIInv => Fresh
  <2>. SUFFICES ASSUME DyndnsIInv PROVE Fresh
    OBVIOUS
  <2>1. /\ CycleTime \in Nat /\ Longest \in Nat /\ elapsed \in Nat
        /\ UnrecordedOK /\ pc \in {"load", "top", "cycle", "wait", "stopped"}
    BY LongestType DEF DyndnsIInv, LoopIInv, TypeOK
  <2>. QED
    BY <2>1 DEF UnrecordedOK, Fresh
<1>. QED
  BY <1>1, WorkerInductive, PTL
=============================================================================
