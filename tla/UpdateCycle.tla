---------------------------- MODULE UpdateCycle ----------------------------
(***************************************************************************)
(* The worker's update cycle: DynDnsScheduler::execute_cycle of            *)
(* src/src/dyndns/scheduler.rs with the checkers, the updater, the HTTP    *)
(* client's retries and the history table it drives, against a changing    *)
(* network, a provider that may apply an update whose answer is lost, a    *)
(* database that may refuse any statement, a configuration that the API    *)
(* replaces at any moment, and a process that may die between two steps.   *)
(*                                                                         *)
(* Every step is what the task does between two awaits.  The timer that    *)
(* starts a cycle is left to the scheduler's loop.                         *)
(***************************************************************************)
EXTENDS Naturals, SequencesExt

CONSTANTS
  V4, V6,        \* the addresses the host may have
  Hosts,         \* update targets: server, account and hostname of a config
  None,          \* an Option that is None
  MaxAttempts,   \* HttpClient::new(3, ..): requests one send_async may make
  MaxChanges,    \* bound: changes of the network and of the configuration
  MaxFaults      \* bound: failed statements, lookups and requests, crashes

ASSUME NoneAssumption ==
  None \notin V4 /\ None \notin V6
ASSUME BoundsAssumption ==
  MaxAttempts \in Nat \ {0} /\ MaxChanges \in Nat /\ MaxFaults \in Nat

INSTANCE IpCheckers

VARIABLES
  conf,          \* the dyndns row, or None
  hist4, hist6,  \* the history rows of each family, oldest first
  ext4,          \* the address the IPv4 echo service sees
  iface6,        \* the interface's IPv6 addresses, link-local ones left out
  dns4, dns6,    \* the provider's record of every host
  pc,            \* where the task is between two awaits
  pc4, pc6,      \* where the two joined checkers are
  cfg,           \* the configuration execute_cycle loaded
  prev4, snap6,  \* the history it loaded
  res4, res6,    \* the results of the checkers
  attempt,       \* the request send_async is making to the provider
  ahead4, ahead6,    \* history variables: the provider applied an address
                     \* since this family's last history row was written
  changes, faults    \* counters of the bounds

dbVars    == <<conf, hist4, hist6>>
netVars   == <<ext4, iface6>>
dnsVars   == <<dns4, dns6, ahead4, ahead6>>
loadVars  == <<cfg, prev4, snap6>>
checkVars == <<pc4, res4, pc6, res6>>
vars == <<dbVars, netVars, dnsVars, pc, loadVars, checkVars, attempt,
          changes, faults>>

-----------------------------------------------------------------------------
IpVersion == {"V4", "V6", "ALL"}
Config == [ip : IpVersion, host : Hosts]

\* A history row; host is no column, it records where the row's update went.
Row4 == [old : V4 \cup {None}, new : V4, host : Hosts]
Row6 == [old : SUBSET V6, new : SUBSET V6, host : Hosts]

RunsV4(c) == c.ip \in {"V4", "ALL"}
RunsV6(c) == c.ip \in {"V6", "ALL"}

\* History::get_v4 and History::get_v6: the row with the largest id.
Latest4 == IF hist4 = <<>> THEN None ELSE Last(hist4).new
Latest6 == IF hist6 = <<>> THEN EmptyRow
           ELSE [old |-> Last(hist6).old, new |-> Last(hist6).new]

Init ==
  /\ conf \in Config \cup {None}
  /\ hist4 = <<>> /\ hist6 = <<>>
  /\ ext4 \in V4 /\ iface6 \in SUBSET V6
  /\ dns4 = [h \in Hosts |-> None] /\ dns6 = [h \in Hosts |-> None]
  /\ pc = "idle" /\ pc4 = "done" /\ pc6 = "done"
  /\ cfg = None /\ prev4 = None /\ snap6 = EmptyRow
  /\ res4 = DefaultResult4 /\ res6 = DefaultResult6
  /\ attempt = 0
  /\ ahead4 = FALSE /\ ahead6 = FALSE
  /\ changes = 0 /\ faults = 0

\* execute_cycle returns, or the process dies: what it had loaded is dropped.
EndCycle ==
  /\ pc' = "idle" /\ pc4' = "done" /\ pc6' = "done"
  /\ cfg' = None /\ prev4' = None /\ snap6' = EmptyRow
  /\ res4' = DefaultResult4 /\ res6' = DefaultResult6
  /\ attempt' = 0

Fault == faults < MaxFaults /\ faults' = faults + 1

-----------------------------------------------------------------------------
(* The environment: the network and the API's writes of the dyndns row. *)

Change == changes < MaxChanges /\ changes' = changes + 1

ChangeExt4 ==
  /\ Change
  /\ ext4' \in V4 \ {ext4}
  /\ UNCHANGED <<dbVars, iface6, dnsVars, pc, loadVars, checkVars, attempt, faults>>

ChangeIface6 ==
  /\ Change
  /\ iface6' \in SUBSET V6 \ {iface6}
  /\ UNCHANGED <<dbVars, ext4, dnsVars, pc, loadVars, checkVars, attempt, faults>>

\* DynDNS::create when there is no row, DynDNS::update when there is one.
WriteConfig ==
  /\ Change
  /\ conf' \in Config \ {conf}
  /\ UNCHANGED <<hist4, hist6, netVars, dnsVars, pc, loadVars, checkVars, attempt, faults>>

-----------------------------------------------------------------------------
(* Loading. *)

StartCycle ==
  /\ pc = "idle"
  /\ pc' = "config"
  /\ UNCHANGED <<dbVars, netVars, dnsVars, loadVars, checkVars, attempt, changes, faults>>

\* load_config; with no row DynDNS::get answers NotFound and the cycle is over.
LoadConfig ==
  /\ pc = "config"
  /\ \/ /\ conf # None
        /\ cfg' = conf
        /\ pc' = "hist4"
        /\ UNCHANGED <<prev4, snap6, checkVars, attempt>>
     \/ conf = None /\ EndCycle
  /\ UNCHANGED <<dbVars, netVars, dnsVars, changes, faults>>

LoadIpv4History ==
  /\ pc = "hist4"
  /\ prev4' = Latest4
  /\ pc' = "hist6"
  /\ UNCHANGED <<dbVars, netVars, dnsVars, cfg, snap6, checkVars, attempt, changes, faults>>

\* MUTANT of LoadIpv6History: the old_ip column is not read.
LoadIpv6HistoryNewOnly ==
  /\ pc = "hist6"
  /\ snap6' = [old |-> {}, new |-> Latest6.new]
  /\ pc' = "check"
  /\ pc4' = IF RunsV4(cfg) THEN "lookup" ELSE "done"
  /\ pc6' = IF RunsV6(cfg) THEN "local" ELSE "done"
  /\ UNCHANGED <<dbVars, netVars, dnsVars, cfg, prev4, res4, res6, attempt, changes, faults>>

\* load_ipv6_history, and the start of the checkers the configuration asks for.
LoadIpv6History ==
  /\ pc = "hist6"
  /\ snap6' = Latest6
  /\ pc' = "check"
  /\ pc4' = IF RunsV4(cfg) THEN "lookup" ELSE "done"
  /\ pc6' = IF RunsV6(cfg) THEN "local" ELSE "done"
  /\ UNCHANGED <<dbVars, netVars, dnsVars, cfg, prev4, res4, res6, attempt, changes, faults>>

\* MUTANT of DatabaseError: persist_history goes on after a failed IPv4 insert.
DatabaseErrorIgnored ==
  /\ pc \in {"config", "hist4", "hist6", "persist4", "persist6"}
  /\ Fault
  /\ IF pc = "persist4" THEN pc' = "persist6" /\ UNCHANGED <<loadVars, checkVars, attempt>>
     ELSE EndCycle
  /\ UNCHANGED <<dbVars, netVars, dnsVars, changes>>

\* Any statement, or taking a connection for it, may fail; ? ends the cycle.
DatabaseError ==
  /\ pc \in {"config", "hist4", "hist6", "persist4", "persist6"}
  /\ Fault
  /\ EndCycle
  /\ UNCHANGED <<dbVars, netVars, dnsVars, changes>>

-----------------------------------------------------------------------------
(* The checkers, joined: their steps interleave. *)

Ipv4Lookup ==
  /\ pc4 = "lookup"
  /\ res4' = CheckIpv4(prev4, ext4)
  /\ pc4' = "done"
  /\ UNCHANGED <<dbVars, netVars, dnsVars, pc, loadVars, pc6, res6, attempt, changes, faults>>

\* All attempts failed, or the answer did not parse: run_checker's default.
Ipv4LookupFails ==
  /\ pc4 = "lookup"
  /\ Fault
  /\ res4' = DefaultResult4
  /\ pc4' = "done"
  /\ UNCHANGED <<dbVars, netVars, dnsVars, pc, loadVars, pc6, res6, attempt, changes>>

LocalIpv6Lookup ==
  /\ pc6 = "local"
  /\ iface6 # {}
  /\ res6' = DiffIpv6(snap6, iface6)
  /\ pc6' = IF NeedsExternal(res6') THEN "external" ELSE "done"
  /\ UNCHANGED <<dbVars, netVars, dnsVars, pc, loadVars, pc4, res4, attempt, changes, faults>>

\* The echo service answers with one of the addresses the interface has now.
ExternalIpv6Lookup ==
  /\ pc6 = "external"
  /\ \E a \in iface6 : res6' = [res6 EXCEPT !.external = a]
  /\ pc6' = "done"
  /\ UNCHANGED <<dbVars, netVars, dnsVars, pc, loadVars, pc4, res4, attempt, changes, faults>>

\* An interface without IPv6 address, a failed lookup: not counted as a fault,
\* a host may never have IPv6.
Ipv6LookupFails ==
  /\ pc6 \in {"local", "external"}
  /\ res6' = DefaultResult6
  /\ pc6' = "done"
  /\ UNCHANGED <<dbVars, netVars, dnsVars, pc, loadVars, pc4, res4, attempt, changes, faults>>

-----------------------------------------------------------------------------
(* The update request. *)

\* The provider stores the addresses that the request carries.
Apply ==
  /\ dns4' = IF res4.external = None THEN dns4
             ELSE [dns4 EXCEPT ![cfg.host] = res4.external]
  /\ dns6' = IF res6.external = None THEN dns6
             ELSE [dns6 EXCEPT ![cfg.host] = res6.external]
  /\ ahead4' = (ahead4 \/ res4.external # None)
  /\ ahead6' = (ahead6 \/ res6.external # None)

\* MUTANT of StartUpdate: with nothing to tell the checkers run once more.
StartUpdateOrCheckAgain ==
  /\ pc = "check" /\ pc4 = "done" /\ pc6 = "done"
  /\ \/ /\ res4.external = None /\ res6.external = None
        /\ pc4' = IF RunsV4(cfg) THEN "lookup" ELSE "done"
        /\ pc6' = IF RunsV6(cfg) THEN "local" ELSE "done"
        /\ UNCHANGED <<pc, loadVars, res4, res6, attempt>>
     \/ /\ res4.external # None \/ res6.external # None
        /\ pc' = "update"
        /\ attempt' = 1
        /\ UNCHANGED <<loadVars, checkVars>>
  /\ UNCHANGED <<dbVars, netVars, dnsVars, changes, faults>>

\* DynDnsUpdater::apply on the two results: nothing to tell, or first request.
StartUpdate ==
  /\ pc = "check" /\ pc4 = "done" /\ pc6 = "done"
  /\ \/ /\ res4.external = None /\ res6.external = None
        /\ EndCycle
     \/ /\ res4.external # None \/ res6.external # None
        /\ pc' = "update"
        /\ attempt' = 1
        /\ UNCHANGED <<loadVars, checkVars>>
  /\ UNCHANGED <<dbVars, netVars, dnsVars, changes, faults>>

\* No answer: send_async tries again until its last attempt; the request may
\* have been applied all the same.
RequestFails ==
  /\ pc = "update"
  /\ Fault
  /\ Apply \/ UNCHANGED dnsVars
  /\ \/ /\ attempt < MaxAttempts
        /\ attempt' = attempt + 1
        /\ UNCHANGED <<pc, loadVars, checkVars>>
     \/ attempt = MaxAttempts /\ EndCycle
  /\ UNCHANGED <<dbVars, netVars, changes>>

\* MUTANT of AnswerNotGood: every answer counts as "good".
AnswerTakenAsGood ==
  /\ pc = "update"
  /\ Fault
  /\ Apply \/ UNCHANGED dnsVars
  /\ pc' = "persist4"
  /\ UNCHANGED <<dbVars, netVars, loadVars, checkVars, attempt, changes>>

\* An answer that cannot be read, or is not a success that says "good", is
\* never tried again in this cycle, whatever the provider did.
AnswerNotGood ==
  /\ pc = "update"
  /\ Fault
  /\ Apply \/ UNCHANGED dnsVars
  /\ EndCycle
  /\ UNCHANGED <<dbVars, netVars, changes>>

AnswerGood ==
  /\ pc = "update"
  /\ Apply
  /\ pc' = "persist4"
  /\ UNCHANGED <<dbVars, netVars, loadVars, checkVars, attempt, changes, faults>>

-----------------------------------------------------------------------------
(* persist_history: the two inserts, in this order, without a transaction. *)

\* MUTANT of PersistIpv4: only a change of a recorded address makes a row.
PersistIpv4Change ==
  /\ pc = "persist4"
  /\ pc' = "persist6"
  /\ \/ (res4.current = None \/ res4.previous = None) /\ UNCHANGED <<hist4, ahead4>>
     \/ /\ res4.current # None /\ res4.previous # None
        /\ hist4' = Append(hist4, [old |-> res4.previous, new |-> res4.current,
                                   host |-> cfg.host])
        /\ ahead4' = FALSE
  /\ UNCHANGED <<conf, hist6, netVars, dns4, dns6, ahead6, loadVars, checkVars,
                 attempt, changes, faults>>

PersistIpv4 ==
  /\ pc = "persist4"
  /\ pc' = "persist6"
  /\ \/ res4.current = None /\ UNCHANGED <<hist4, ahead4>>
     \/ /\ res4.current # None
        /\ hist4' = Append(hist4, [old |-> res4.previous, new |-> res4.current,
                                   host |-> cfg.host])
        /\ ahead4' = FALSE
  /\ UNCHANGED <<conf, hist6, netVars, dns4, dns6, ahead6, loadVars, checkVars,
                 attempt, changes, faults>>

PersistIpv6 ==
  /\ pc = "persist6"
  /\ EndCycle
  /\ \/ res6.current = {} /\ UNCHANGED <<hist6, ahead6>>
     \/ /\ res6.current # {}
        /\ hist6' = Append(hist6, [old |-> res6.previous, new |-> res6.current,
                                   host |-> cfg.host])
        /\ ahead6' = FALSE
  /\ UNCHANGED <<conf, hist4, netVars, dns4, dns6, ahead4, changes, faults>>

\* The process dies and is started again: only the database survives.
Crash ==
  /\ pc # "idle"
  /\ Fault
  /\ EndCycle
  /\ UNCHANGED <<dbVars, netVars, dnsVars, changes>>

-----------------------------------------------------------------------------
Environment == ChangeExt4 \/ ChangeIface6 \/ WriteConfig

Load   == StartCycle \/ LoadConfig \/ LoadIpv4History \/ LoadIpv6History
Check  == Ipv4Lookup \/ LocalIpv6Lookup \/ ExternalIpv6Lookup \/ Ipv6LookupFails
Update == StartUpdate \/ AnswerGood \/ PersistIpv4 \/ PersistIpv6
Failure == DatabaseError \/ Ipv4LookupFails \/ RequestFails \/ AnswerNotGood \/ Crash

Next == Environment \/ Load \/ Check \/ Update \/ Failure

Spec == Init /\ [][Next]_vars

\* The runtime polls a task that is ready; the last resort against a failure
\* is that failures do not go on for ever (MaxFaults).
Fairness == WF_vars(Load \/ Check \/ Update)

FairSpec == Spec /\ Fairness

\* A lookup of the IPv6 addresses that is made again and again succeeds again
\* and again: the host has IPv6.
Ipv6Fairness == SF_vars(LocalIpv6Lookup) /\ SF_vars(ExternalIpv6Lookup)

-----------------------------------------------------------------------------
(* Properties. *)

Result4 == [previous : V4 \cup {None}, current : V4 \cup {None},
            external : V4 \cup {None}]
Result6 == [previous : SUBSET V6, current : SUBSET V6, external : V6 \cup {None}]

\* All addresses of an IPv6 row, in either column.
Listed(row) == row.old \cup row.new

\* The type invariant of the task, the database, the network and the provider.
TypeOK ==
  /\ conf \in Config \cup {None}
  /\ hist4 \in Seq(Row4) /\ hist6 \in Seq(Row6)
  /\ ext4 \in V4 /\ iface6 \in SUBSET V6
  /\ dns4 \in [Hosts -> V4 \cup {None}] /\ dns6 \in [Hosts -> V6 \cup {None}]
  /\ pc \in {"idle", "config", "hist4", "hist6", "check", "update", "persist4", "persist6"}
  /\ pc4 \in {"lookup", "done"} /\ pc6 \in {"local", "external", "done"}
  /\ cfg \in Config \cup {None}
  /\ prev4 \in V4 \cup {None} /\ snap6 \in [old : SUBSET V6, new : SUBSET V6]
  /\ res4 \in Result4 /\ res6 \in Result6
  /\ attempt \in 0..MaxAttempts
  /\ ahead4 \in BOOLEAN /\ ahead6 \in BOOLEAN
  /\ changes \in 0..MaxChanges /\ faults \in 0..MaxFaults

\* The IPv4 history is a chain of real changes whatever failed or crashed in
\* between: a row's old_ip is the new_ip of the row before it, and differs
\* from its own new_ip, so no address is recorded twice in a row.
History4Chain ==
  \A i \in 1..Len(hist4) :
    /\ hist4[i].new # hist4[i].old
    /\ hist4[i].old = IF i = 1 THEN None ELSE hist4[i - 1].new

\* An IPv6 row lists at least one new address, none of which the row before
\* it already had in either column, and keeps as old_ip a non-empty part of
\* what that row had.
History6Chain ==
  \A i \in 1..Len(hist6) :
    /\ hist6[i].new # {}
    /\ i = 1 => hist6[i].old = {}
    /\ i > 1 => /\ hist6[i].old # {}
                /\ hist6[i].new \cap Listed(hist6[i - 1]) = {}
                /\ hist6[i].old \subseteq Listed(hist6[i - 1])

\* Unless the provider applied an update that never became a row (a lost
\* answer, a crash, a failed insert), what the history says was published
\* last is the provider's record of the host it went to.  For IPv6 the row
\* names the published address only when it lists a single one.
MirrorsProvider ==
  /\ hist4 # <<>> /\ ~ahead4 => dns4[Last(hist4).host] = Last(hist4).new
  /\ hist6 # <<>> /\ ~ahead6 =>
       /\ dns6[Last(hist6).host] # None
       /\ \A a \in V6 : Last(hist6).new = {a} => dns6[Last(hist6).host] = a

\* An update is sent only for a family whose addresses differ from what the
\* history has as current at that very moment, not only when it was loaded.
UpdateOnlyOnChange ==
  pc = "update" =>
    /\ res4.external # None \/ res6.external # None
    /\ res4.external # None => res4.external # Latest4
    /\ res6.external # None =>
         /\ res6.current # {}
         /\ res6.current \cap Listed(Latest6) = {}

\* A cycle that published both families never leaves the IPv6 row without the
\* IPv4 row: when the second insert is made the first is in the table.
Ipv4RecordedFirst ==
  [][hist6' # hist6 /\ res4.current # None => Latest4 = res4.current]_vars

\* What the provider acknowledged and the cycle has still to record.
Acknowledged ==
  LET ip4 == IF pc = "persist4" THEN res4.current ELSE None
      ip6 == IF pc \in {"persist4", "persist6"} THEN res6.current ELSE {}
  IN  [ip4 |-> ip4, ip6 |-> ip6,
       host |-> IF ip4 = None /\ ip6 = {} THEN None ELSE cfg.host]

P == INSTANCE Publisher WITH log4 <- hist4, log6 <- hist6, told4 <- dns4, told6 <- dns6,
                             due <- Acknowledged

\* The cycle implements Publisher: whatever is lost, refused or changed on the
\* way, only changes are published, and only what was acknowledged is recorded.
Publishes == P!Spec

-----------------------------------------------------------------------------
(* The inductive invariant behind the safety properties. *)

\* What the cycle loaded is still the end of the history when it is used: the
\* worker is the only writer of the history.
SnapshotFresh ==
  /\ pc \in {"hist6", "check", "update", "persist4"} => prev4 = Latest4
  /\ pc \in {"check", "update", "persist4", "persist6"} => snap6 = Latest6
  /\ pc = "persist6" /\ res4.current # None => Latest4 = res4.current

\* The configuration is loaded, and the checkers are at rest, where the task's
\* position says so.
PhaseOK ==
  /\ pc \notin {"idle", "config"} => cfg \in Config
  /\ pc # "check" => pc4 = "done" /\ pc6 = "done"

\* An IPv4 result is the default, or a change of the loaded address.
Result4OK ==
  res4 # DefaultResult4 =>
    /\ pc \in {"check", "update", "persist4", "persist6"}
    /\ res4.current # None /\ res4.external = res4.current
    /\ res4.previous = prev4 /\ res4.current # prev4

\* An IPv6 result names new addresses and what to publish for them, or
\* nothing: addresses the loaded row does not list, with a part of those it
\* does. Only the external lookup of several new addresses leaves it unnamed.
Result6OK ==
  /\ pc6 = "external" => NeedsExternal(res6)
  /\ res6.current = {} => res6.external = None
  /\ res6.current # {} =>
       /\ pc \in {"check", "update", "persist4", "persist6"}
       /\ res6.current \cap Listed(snap6) = {}
       /\ res6.previous \subseteq Listed(snap6)
       /\ snap6.new # {} <=> res6.previous # {}
       /\ pc6 = "done" => res6.external # None
       /\ \A a \in V6 : res6.current = {a} => res6.external = a

\* A request carries an address; after "good" the provider's record is what
\* the cycle is about to record.
Published ==
  /\ pc = "update" => res4.external # None \/ res6.external # None
  /\ pc = "persist4" /\ res4.external # None => dns4[cfg.host] = res4.external
  /\ pc \in {"persist4", "persist6"} /\ res6.external # None =>
       dns6[cfg.host] = res6.external

IInv ==
  /\ TypeOK
  /\ SnapshotFresh
  /\ PhaseOK
  /\ Result4OK
  /\ Result6OK
  /\ Published
  /\ History4Chain
  /\ History6Chain
  /\ MirrorsProvider

-----------------------------------------------------------------------------
\* When changes and faults are over the IPv4 history ends at the address the
\* echo service sees, even if every IPv6 lookup fails for ever.
Ipv4Recorded ==
  <>[](conf # None /\ RunsV4(conf)) => <>[](Latest4 = ext4)

\* With one target the provider's record ends at that address too, except
\* after an update that was applied and never recorded.
Ipv4Published ==
  <>[](conf # None /\ RunsV4(conf)) =>
    <>[](ahead4 \/ \A h \in Hosts : dns4[h] = ext4)

\* On a host with IPv6 every address of the interface ends up in the latest
\* IPv6 row.
Ipv6Recorded ==
  Ipv6Fairness /\ <>[](conf # None /\ RunsV6(conf)) => <>[](iface6 \subseteq Listed(Latest6))

\* A cycle always comes to its end, so the worker gets back to its timer and
\* to the shutdown signal.
CycleEnds == pc # "idle" ~> pc = "idle"
=============================================================================
