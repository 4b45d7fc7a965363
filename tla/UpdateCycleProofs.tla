------------------------- MODULE UpdateCycleProofs -------------------------
(***************************************************************************)
(* Proofs about UpdateCycle, for every set of addresses and targets and    *)
(* every bound.                                                            *)
(***************************************************************************)
EXTENDS UpdateCycle, SequenceTheorems, TLAPS

-----------------------------------------------------------------------------
(* Lemmas about the operators of the model. *)

\* What appending a row to a table does to its last row and to its others.
LEMMA LastOfAppend ==
  ASSUME NEW S, NEW s \in Seq(S), NEW e \in S
  PROVE  /\ Append(s, e) \in Seq(S)
         /\ Append(s, e) # <<>>
         /\ Last(Append(s, e)) = e
         /\ Len(Append(s, e)) = Len(s) + 1
         /\ Append(s, e)[Len(s) + 1] = e
         /\ \A i \in 1..Len(s) : Append(s, e)[i] = s[i]
BY DEF Last

\* The last row of a table that is not empty is a row of it.
LEMMA LastOfNonEmpty ==
  ASSUME NEW S, NEW s \in Seq(S), s # <<>>
  PROVE  /\ Len(s) \in Nat \ {0}
         /\ Last(s) = s[Len(s)]
         /\ Last(s) \in S
BY DEF Last

\* The IPv4 checker answers nothing or a change of the loaded address.
LEMMA CheckIpv4Type ==
  ASSUME NEW p \in V4 \cup {None}, NEW a \in V4
  PROVE  /\ CheckIpv4(p, a) \in Result4
         /\ CheckIpv4(p, a) # DefaultResult4 =>
              /\ CheckIpv4(p, a).current # None
              /\ CheckIpv4(p, a).external = CheckIpv4(p, a).current
              /\ CheckIpv4(p, a).previous = p
              /\ CheckIpv4(p, a).current # p
BY NoneAssumption DEF CheckIpv4, DefaultResult4, CheckResult, Result4

LEMMA OnlyAddressType ==
  ASSUME NEW S \in SUBSET V6
  PROVE  /\ OnlyAddress(S) \in V6 \cup {None}
         /\ S = {} => OnlyAddress(S) = None
         /\ \A a \in V6 : S = {a} => OnlyAddress(S) = a
<1>1. CASE \E a \in S : S = {a}
  <2>1. PICK a \in S : S = {a}
    BY <1>1
  <2>2. OnlyAddress(S) = a
    BY <1>1, <2>1 DEF OnlyAddress
  <2>. QED
    BY <2>1, <2>2
<1>2. CASE ~ \E a \in S : S = {a}
  BY <1>2 DEF OnlyAddress
<1>. QED
  BY <1>1, <1>2

\* The IPv6 checker answers addresses its row does not list, with some of
\* those that it does; with a row that has a latest list, never none of them.
LEMMA DiffIpv6Type ==
  ASSUME NEW row \in [old : SUBSET V6, new : SUBSET V6], NEW S \in SUBSET V6
  PROVE  /\ DiffIpv6(row, S) \in Result6
         /\ DiffIpv6(row, S).current \cap Listed(row) = {}
         /\ DiffIpv6(row, S).previous \subseteq Listed(row)
         /\ (row.new = {} => row.old = {}) =>
              (row.new # {} <=> DiffIpv6(row, S).previous # {})
         /\ DiffIpv6(row, S).current = {} => DiffIpv6(row, S).external = None
         /\ \A a \in V6 : DiffIpv6(row, S).current = {a} =>
                            DiffIpv6(row, S).external = a
<1>. DEFINE r == DiffIpv6(row, S)
<1>1. /\ r.previous = PreviousIpv6(row, S)
      /\ r.current = Unseen(row, S)
      /\ r.external = OnlyAddress(Unseen(row, S))
      /\ r = [previous |-> r.previous, current |-> r.current, external |-> r.external]
  BY DEF DiffIpv6, CheckResult
<1>2. Unseen(row, S) \in SUBSET V6 /\ Unseen(row, S) \cap Listed(row) = {}
  BY DEF Unseen, KnownAddresses, Listed
<1>3. /\ PreviousIpv6(row, S) \in SUBSET V6
      /\ PreviousIpv6(row, S) \subseteq Listed(row)
      /\ (row.new = {} => row.old = {}) =>
           (row.new # {} <=> PreviousIpv6(row, S) # {})
  BY DEF PreviousIpv6, Retained, KnownAddresses, Listed
<1>4. r \in Result6
  BY <1>1, <1>2, <1>3, OnlyAddressType DEF Result6
<1>. HIDE DEF r
<1>. QED
  BY <1>1, <1>2, <1>3, <1>4, OnlyAddressType DEF r

\* A cycle that ends leaves the task as it was before it began.
LEMMA EndCycleClears ==
  ASSUME EndCycle
  PROVE  /\ pc' = "idle" /\ pc4' = "done" /\ pc6' = "done"
         /\ cfg' = None /\ prev4' = None /\ snap6' = EmptyRow
         /\ res4' = DefaultResult4 /\ res6' = DefaultResult6
         /\ attempt' = 0 /\ attempt' \in 0..MaxAttempts
         /\ snap6' \in [old : SUBSET V6, new : SUBSET V6]
         /\ res4' \in Result4 /\ res6' \in Result6
         /\ res4'.current = None /\ res4'.external = None
         /\ res6'.current = {} /\ res6'.external = None
BY BoundsAssumption
   DEF EndCycle, EmptyRow, DefaultResult4, DefaultResult6, CheckResult, Result4, Result6

\* The rows a cycle reads as the latest ones have the right type.
LEMMA LatestType ==
  ASSUME hist4 \in Seq(Row4), hist6 \in Seq(Row6)
  PROVE  /\ Latest4 \in V4 \cup {None}
         /\ Latest6 \in [old : SUBSET V6, new : SUBSET V6]
<1>1. hist4 # <<>> => Last(hist4) \in Row4
  BY LastOfNonEmpty
<1>2. hist6 # <<>> => Last(hist6) \in Row6
  BY LastOfNonEmpty
<1>. QED
  BY <1>1, <1>2 DEF Latest4, Latest6, Row4, Row6, EmptyRow

\* What the provider may do with a request keeps the records well typed.
LEMMA ApplyType ==
  ASSUME TypeOK, cfg \in Config, Apply \/ UNCHANGED dnsVars
  PROVE  /\ dns4' \in [Hosts -> V4 \cup {None}]
         /\ dns6' \in [Hosts -> V6 \cup {None}]
         /\ ahead4' \in BOOLEAN /\ ahead6' \in BOOLEAN
BY DEF TypeOK, Apply, dnsVars, Config, Result4, Result6

-----------------------------------------------------------------------------
(* Type correctness, with the two facts on the task's phases it needs: rows *)
(* and records are written for the host of a configuration that was loaded. *)

LEMMA TypeInit == Init => TypeOK /\ PhaseOK
<1>. SUFFICES ASSUME Init PROVE TypeOK /\ PhaseOK
  OBVIOUS
<1>1. res4 \in Result4 /\ res6 \in Result6
  BY DEF Init, Result4, Result6, DefaultResult4, DefaultResult6, CheckResult
<1>2. /\ dns4 \in [Hosts -> V4 \cup {None}] /\ dns6 \in [Hosts -> V6 \cup {None}]
      /\ snap6 \in [old : SUBSET V6, new : SUBSET V6]
  BY DEF Init, EmptyRow
<1>3. hist4 \in Seq(Row4) /\ hist6 \in Seq(Row6)
  BY DEF Init
<1>4. ahead4 \in BOOLEAN /\ ahead6 \in BOOLEAN
  BY DEF Init
<1>5. attempt \in 0..MaxAttempts /\ changes \in 0..MaxChanges /\ faults \in 0..MaxFaults
  BY BoundsAssumption DEF Init
<1>. QED
  BY <1>1, <1>2, <1>3, <1>4, <1>5 DEF Init, TypeOK, PhaseOK

LEMMA TypeStep ==
  ASSUME TypeOK, PhaseOK, [Next]_vars
  PROVE  TypeOK' /\ PhaseOK'
<1>. USE BoundsAssumption DEF TypeOK, PhaseOK
<1>1. CASE Environment
  BY <1>1 DEF Environment, ChangeExt4, ChangeIface6, WriteConfig, Change,
     dbVars, netVars, dnsVars, loadVars, checkVars
<1>2. CASE StartCycle
  BY <1>2 DEF StartCycle, dbVars, netVars, dnsVars, loadVars, checkVars
<1>3. CASE LoadConfig
  BY <1>3, EndCycleClears DEF LoadConfig, dbVars, netVars, dnsVars, checkVars
<1>4. CASE LoadIpv4History
  BY <1>4, LatestType DEF LoadIpv4History, dbVars, netVars, dnsVars, checkVars
<1>5. CASE LoadIpv6History
  BY <1>5, LatestType DEF LoadIpv6History, dbVars, netVars, dnsVars
<1>6. CASE DatabaseError \/ Crash
  BY <1>6, EndCycleClears DEF DatabaseError, Crash, Fault, dbVars, netVars, dnsVars
<1>7. CASE Ipv4Lookup \/ Ipv4LookupFails
  <2>1. DefaultResult4 \in Result4
    BY DEF DefaultResult4, CheckResult, Result4
  <2>2. CheckIpv4(prev4, ext4) \in Result4
    BY CheckIpv4Type
  <2>. QED
    BY <1>7, <2>1, <2>2
       DEF Ipv4Lookup, Ipv4LookupFails, Fault, dbVars, netVars, dnsVars, loadVars
<1>8. CASE LocalIpv6Lookup
  BY <1>8, DiffIpv6Type DEF LocalIpv6Lookup, dbVars, netVars, dnsVars, loadVars
<1>9. CASE ExternalIpv6Lookup \/ Ipv6LookupFails
  BY <1>9 DEF ExternalIpv6Lookup, Ipv6LookupFails, DefaultResult6, CheckResult, Result6,
     dbVars, netVars, dnsVars, loadVars
<1>10. CASE StartUpdate
  BY <1>10, EndCycleClears DEF StartUpdate, dbVars, netVars, dnsVars, loadVars, checkVars
<1>11. CASE RequestFails \/ AnswerNotGood \/ AnswerGood
  BY <1>11, ApplyType, EndCycleClears
     DEF RequestFails, AnswerNotGood, AnswerGood, Fault, dbVars, netVars, loadVars, checkVars
<1>12. CASE PersistIpv4
  <2>. DEFINE row == [old |-> res4.previous, new |-> res4.current, host |-> cfg.host]
  <2>1. CASE res4.current # None
    <3>1. row \in Row4
      BY <1>12, <2>1 DEF PersistIpv4, Result4, Row4, Config
    <3>2. hist4' = Append(hist4, row) /\ ahead4' = FALSE
      BY <1>12, <2>1 DEF PersistIpv4
    <3>3. hist4' \in Seq(Row4)
      BY <3>1, <3>2, LastOfAppend
    <3>. QED
      BY <1>12, <3>2, <3>3 DEF PersistIpv4, netVars, loadVars, checkVars
  <2>2. CASE res4.current = None
    BY <1>12, <2>2 DEF PersistIpv4, netVars, loadVars, checkVars
  <2>. QED
    BY <2>1, <2>2
<1>13. CASE PersistIpv6
  <2>. DEFINE row == [old |-> res6.previous, new |-> res6.current, host |-> cfg.host]
  <2>1. row \in Row6
    BY <1>13 DEF PersistIpv6, Result6, Row6, Config
  <2>2. CASE res6.current # {}
    <3>1. hist6' = Append(hist6, row) /\ ahead6' = FALSE
      BY <1>13, <2>2 DEF PersistIpv6
    <3>2. hist6' \in Seq(Row6)
      BY <2>1, <3>1, LastOfAppend
    <3>. QED
      BY <1>13, <3>1, <3>2, EndCycleClears DEF PersistIpv6, netVars
  <2>3. CASE res6.current = {}
    BY <1>13, <2>3, EndCycleClears DEF PersistIpv6, netVars
  <2>. QED
    BY <2>2, <2>3
<1>14. CASE UNCHANGED vars
  BY <1>14 DEF vars, dbVars, netVars, dnsVars, loadVars, checkVars
<1>. QED
  BY <1>1, <1>2, <1>3, <1>4, <1>5, <1>6, <1>7, <1>8, <1>9, <1>10, <1>11, <1>12,
     <1>13, <1>14 DEF Next, Load, Check, Update, Failure

\* The state always has its type: rows, records, results and positions.
THEOREM TypeCorrect == Spec => []TypeOK
<1>1. Init => TypeOK /\ PhaseOK
  BY TypeInit
<1>2. TypeOK /\ PhaseOK /\ [Next]_vars => (TypeOK /\ PhaseOK)'
  BY TypeStep
<1>. QED
  BY <1>1, <1>2, PTL DEF Spec

-----------------------------------------------------------------------------
(* The inductive invariant, one conjunct at a time.                         *)

\* The latest rows change only with their tables.
LEMMA LatestFrame ==
  /\ UNCHANGED hist4 => UNCHANGED Latest4
  /\ UNCHANGED hist6 => UNCHANGED Latest6
BY DEF Latest4, Latest6

\* After an insert the latest row is the inserted one.
LEMMA LatestAppend4 ==
  ASSUME hist4 \in Seq(Row4), NEW row \in Row4, hist4' = Append(hist4, row)
  PROVE  Latest4' = row.new
BY LastOfAppend DEF Latest4

\* Each of the two inserts appends the cycle's result as a row of its table.
LEMMA InsertedRow4 ==
  ASSUME TypeOK, PhaseOK, PersistIpv4, res4.current # None
  PROVE  LET row == [old |-> res4.previous, new |-> res4.current, host |-> cfg.host]
         IN  /\ row \in Row4 /\ hist4 \in Seq(Row4) /\ hist4' = Append(hist4, row)
             /\ Last(hist4') = row
<1>. DEFINE row == [old |-> res4.previous, new |-> res4.current, host |-> cfg.host]
<1>1. row \in Row4 /\ hist4 \in Seq(Row4) /\ hist4' = Append(hist4, row)
  BY DEF PersistIpv4, PhaseOK, TypeOK, Config, Result4, Row4
<1>. QED
  BY <1>1, LastOfAppend

LEMMA InsertedRow6 ==
  ASSUME TypeOK, PhaseOK, PersistIpv6, res6.current # {}
  PROVE  LET row == [old |-> res6.previous, new |-> res6.current, host |-> cfg.host]
         IN  /\ row \in Row6 /\ hist6 \in Seq(Row6) /\ hist6' = Append(hist6, row)
             /\ Last(hist6') = row
<1>. DEFINE row == [old |-> res6.previous, new |-> res6.current, host |-> cfg.host]
<1>1. row \in Row6 /\ hist6 \in Seq(Row6) /\ hist6' = Append(hist6, row)
  BY DEF PersistIpv6, PhaseOK, TypeOK, Config, Result6, Row6
<1>. QED
  BY <1>1, LastOfAppend

\* What the cycle loaded stays the end of the history.
LEMMA SnapshotStep ==
  ASSUME TypeOK, PhaseOK, SnapshotFresh, [Next]_vars
  PROVE  SnapshotFresh'
<1>. USE DEF SnapshotFresh
<1>1. CASE Environment \/ StartCycle \/ LoadConfig
  BY <1>1, LatestFrame, EndCycleClears
     DEF Environment, ChangeExt4, ChangeIface6, WriteConfig, StartCycle, LoadConfig,
         dbVars, loadVars, checkVars
<1>2. CASE LoadIpv4History \/ LoadIpv6History
  <2>1. res4' = res4 /\ UNCHANGED <<Latest4, Latest6>>
    BY <1>2, LatestFrame DEF LoadIpv4History, LoadIpv6History, dbVars, checkVars
  <2>. QED
    BY <1>2, <2>1 DEF LoadIpv4History, LoadIpv6History
<1>3. CASE Check \/ Ipv4LookupFails
  <2>1. pc = "check" /\ pc' = pc /\ UNCHANGED <<loadVars, Latest4, Latest6>>
    BY <1>3, LatestFrame DEF Check, Ipv4Lookup, Ipv4LookupFails, LocalIpv6Lookup,
       ExternalIpv6Lookup, Ipv6LookupFails, dbVars, PhaseOK
  <2>. QED
    BY <2>1 DEF loadVars
<1>4. CASE StartUpdate \/ RequestFails \/ AnswerNotGood \/ AnswerGood
  <2>1. UNCHANGED <<Latest4, Latest6>>
    BY <1>4, LatestFrame DEF StartUpdate, RequestFails, AnswerNotGood, AnswerGood, dbVars
  <2>2. pc' = "idle" \/ (pc \in {"check", "update"} /\ pc' \in {"update", "persist4"}
                          /\ UNCHANGED <<loadVars, checkVars>>)
    BY <1>4, EndCycleClears DEF StartUpdate, RequestFails, AnswerNotGood, AnswerGood
  <2>. QED
    BY <2>1, <2>2 DEF loadVars, checkVars
<1>5. CASE PersistIpv4
  <2>1. pc = "persist4" /\ pc' = "persist6" /\ UNCHANGED <<loadVars, res4, Latest6>>
    BY <1>5, LatestFrame DEF PersistIpv4, checkVars
  <2>2. res4.current # None => Latest4' = res4.current
    BY <1>5, InsertedRow4, LatestAppend4
  <2>. QED
    BY <2>1, <2>2 DEF loadVars
<1>6. CASE PersistIpv6 \/ DatabaseError \/ Crash
  BY <1>6, EndCycleClears DEF PersistIpv6, DatabaseError, Crash
<1>7. CASE UNCHANGED vars
  BY <1>7, LatestFrame DEF vars, dbVars, loadVars, checkVars
<1>. QED
  BY <1>1, <1>2, <1>3, <1>4, <1>5, <1>6, <1>7 DEF Next, Load, Update, Failure

\* An IPv4 result stays a change of the loaded address until it is recorded.
LEMMA Result4Step ==
  ASSUME TypeOK, PhaseOK, Result4OK, [Next]_vars
  PROVE  Result4OK'
<1>. USE DEF Result4OK
<1>1. CASE Environment \/ StartCycle \/ LoadConfig \/ LoadIpv4History \/ LoadIpv6History
  BY <1>1, EndCycleClears
     DEF Environment, ChangeExt4, ChangeIface6, WriteConfig, StartCycle, LoadConfig,
         LoadIpv4History, LoadIpv6History, loadVars, checkVars
<1>2. CASE Ipv4Lookup
  <2>1. pc = "check" /\ pc' = pc /\ prev4' = prev4 /\ res4' = CheckIpv4(prev4, ext4)
    BY <1>2 DEF Ipv4Lookup, PhaseOK, loadVars
  <2>2. prev4 \in V4 \cup {None} /\ ext4 \in V4
    BY DEF TypeOK
  <2>. QED
    BY <2>1, <2>2, CheckIpv4Type
<1>3. CASE LocalIpv6Lookup \/ ExternalIpv6Lookup \/ Ipv6LookupFails
  BY <1>3 DEF LocalIpv6Lookup, ExternalIpv6Lookup, Ipv6LookupFails, loadVars
<1>4. CASE StartUpdate \/ RequestFails \/ AnswerNotGood \/ AnswerGood
  <2>1. res4' = DefaultResult4
        \/ (pc' \in {"update", "persist4"} /\ UNCHANGED <<loadVars, checkVars>>)
    BY <1>4, EndCycleClears DEF StartUpdate, RequestFails, AnswerNotGood, AnswerGood
  <2>. QED
    BY <2>1 DEF loadVars, checkVars
<1>5. CASE PersistIpv4
  BY <1>5 DEF PersistIpv4, loadVars, checkVars
<1>6. CASE PersistIpv6 \/ DatabaseError \/ Ipv4LookupFails \/ Crash
  BY <1>6, EndCycleClears DEF PersistIpv6, DatabaseError, Ipv4LookupFails, Crash
<1>7. CASE UNCHANGED vars
  BY <1>7 DEF vars, loadVars, checkVars
<1>. QED
  BY <1>1, <1>2, <1>3, <1>4, <1>5, <1>6, <1>7 DEF Next, Load, Check, Update, Failure

\* The latest IPv6 row lists something, unless there is no row.
LEMMA LatestRow6 ==
  ASSUME TypeOK, History6Chain
  PROVE  /\ Latest6.new = {} => Latest6.old = {} /\ hist6 = <<>>
         /\ hist6 # <<>> => /\ Len(hist6) \in Nat \ {0}
                            /\ Latest6.new # {}
                            /\ Listed(Latest6) = Listed(hist6[Len(hist6)])
<1>1. CASE hist6 = <<>>
  BY <1>1 DEF Latest6, EmptyRow
<1>2. CASE hist6 # <<>>
  <2>1. Len(hist6) \in Nat \ {0} /\ Last(hist6) = hist6[Len(hist6)]
    BY <1>2, LastOfNonEmpty DEF TypeOK
  <2>2. hist6[Len(hist6)].new # {}
    BY <2>1 DEF History6Chain
  <2>. QED
    BY <1>2, <2>1, <2>2 DEF Latest6, Listed
<1>. QED
  BY <1>1, <1>2

\* An IPv6 result stays new addresses, and part of the loaded ones, until it
\* is recorded.
LEMMA Result6Step ==
  ASSUME TypeOK, PhaseOK, SnapshotFresh, History6Chain, Result6OK, [Next]_vars
  PROVE  Result6OK'
<1>. USE DEF Result6OK
<1>1. CASE Environment \/ StartCycle \/ LoadConfig \/ LoadIpv4History \/ LoadIpv6History
  BY <1>1, EndCycleClears
     DEF Environment, ChangeExt4, ChangeIface6, WriteConfig, StartCycle, LoadConfig,
         LoadIpv4History, LoadIpv6History, loadVars, checkVars
<1>2. CASE LocalIpv6Lookup
  <2>1. /\ pc = "check" /\ pc' = pc /\ snap6' = snap6 /\ iface6 \in SUBSET V6
        /\ res6' = DiffIpv6(snap6, iface6)
        /\ pc6' = IF NeedsExternal(res6') THEN "external" ELSE "done"
    BY <1>2 DEF LocalIpv6Lookup, PhaseOK, TypeOK, loadVars
  <2>2. snap6.new = {} => snap6.old = {}
    BY <2>1, LatestRow6 DEF SnapshotFresh
  <2>3. snap6 \in [old : SUBSET V6, new : SUBSET V6]
    BY DEF TypeOK
  <2>4. /\ res6'.current \cap Listed(snap6) = {}
        /\ res6'.previous \subseteq Listed(snap6)
        /\ snap6.new # {} <=> res6'.previous # {}
        /\ res6'.current = {} => res6'.external = None
        /\ \A a \in V6 : res6'.current = {a} => res6'.external = a
    BY <2>1, <2>2, <2>3, DiffIpv6Type
  <2>. QED
    BY <2>1, <2>4 DEF NeedsExternal
<1>3. CASE ExternalIpv6Lookup
  <2>1. /\ pc = "check" /\ pc' = pc /\ snap6' = snap6 /\ pc6' = "done"
        /\ res6.current # {} /\ res6.external = None
    BY <1>3 DEF ExternalIpv6Lookup, PhaseOK, loadVars, NeedsExternal
  <2>2. PICK a \in iface6 : res6' = [res6 EXCEPT !.external = a]
    BY <1>3 DEF ExternalIpv6Lookup
  <2>3. a \in V6 /\ a # None
    BY NoneAssumption DEF TypeOK
  <2>4. /\ res6'.current = res6.current /\ res6'.previous = res6.previous
        /\ res6'.external = a
    BY <2>2 DEF TypeOK, Result6
  <2>5. \A b \in V6 : res6.current # {b}
    BY <2>1, NoneAssumption
  <2>. QED
    BY <2>1, <2>3, <2>4, <2>5
<1>4. CASE Ipv4Lookup \/ Ipv4LookupFails
  BY <1>4 DEF Ipv4Lookup, Ipv4LookupFails, loadVars
<1>5. CASE Ipv6LookupFails
  BY <1>5 DEF Ipv6LookupFails, DefaultResult6, CheckResult
<1>6. CASE StartUpdate \/ RequestFails \/ AnswerNotGood \/ AnswerGood
  <2>1. (res6'.current = {} /\ res6'.external = None /\ pc6' = "done")
        \/ (pc \in {"check", "update"} /\ pc' \in {"update", "persist4"}
              /\ UNCHANGED <<loadVars, checkVars>>)
    BY <1>6, EndCycleClears DEF StartUpdate, RequestFails, AnswerNotGood, AnswerGood
  <2>. QED
    BY <2>1 DEF loadVars, checkVars
<1>7. CASE PersistIpv4
  BY <1>7 DEF PersistIpv4, loadVars, checkVars
<1>8. CASE PersistIpv6 \/ DatabaseError \/ Crash
  BY <1>8, EndCycleClears DEF PersistIpv6, DatabaseError, Crash
<1>9. CASE UNCHANGED vars
  BY <1>9 DEF vars, loadVars, checkVars
<1>. QED
  BY <1>1, <1>2, <1>3, <1>4, <1>5, <1>6, <1>7, <1>8, <1>9
     DEF Next, Load, Check, Update, Failure

\* What the provider applied on "good" stays its record until it is recorded.
LEMMA PublishedStep ==
  ASSUME TypeOK, PhaseOK, Published, [Next]_vars
  PROVE  Published'
<1>. USE DEF Published
<1>1. CASE Environment \/ Load
  BY <1>1, EndCycleClears
     DEF Environment, ChangeExt4, ChangeIface6, WriteConfig, Load, StartCycle, LoadConfig,
         LoadIpv4History, LoadIpv6History, dnsVars, loadVars, checkVars
<1>2. CASE Check \/ Ipv4LookupFails
  BY <1>2 DEF Check, Ipv4Lookup, Ipv4LookupFails, LocalIpv6Lookup,
     ExternalIpv6Lookup, Ipv6LookupFails, PhaseOK
<1>3. CASE StartUpdate \/ RequestFails \/ AnswerNotGood
  BY <1>3, EndCycleClears DEF StartUpdate, RequestFails, AnswerNotGood, checkVars
<1>4. CASE AnswerGood
  <2>1. cfg.host \in Hosts /\ dns4 \in [Hosts -> V4 \cup {None}]
        /\ dns6 \in [Hosts -> V6 \cup {None}]
    BY <1>4 DEF AnswerGood, PhaseOK, Config, TypeOK
  <2>. QED
    BY <1>4, <2>1 DEF AnswerGood, Apply, loadVars, checkVars
<1>5. CASE PersistIpv4
  BY <1>5 DEF PersistIpv4, loadVars, checkVars
<1>6. CASE PersistIpv6 \/ DatabaseError \/ Crash
  BY <1>6, EndCycleClears DEF PersistIpv6, DatabaseError, Crash
<1>7. CASE UNCHANGED vars
  BY <1>7 DEF vars, dnsVars, loadVars, checkVars
<1>. QED
  BY <1>1, <1>2, <1>3, <1>4, <1>5, <1>6, <1>7 DEF Next, Update, Failure

-----------------------------------------------------------------------------
(* The tables. *)

\* Only PersistIpv4 and PersistIpv6 write history.
LEMMA HistoryWriters ==
  ASSUME PhaseOK, [Next]_vars
  PROVE  /\ UNCHANGED hist4 \/ (PersistIpv4 /\ res4.current # None)
         /\ UNCHANGED hist6 \/ (PersistIpv6 /\ res6.current # {})
BY DEF Next, Environment, ChangeExt4, ChangeIface6, WriteConfig, Load, StartCycle,
   LoadConfig, LoadIpv4History, LoadIpv6History, Check, Ipv4Lookup, Ipv4LookupFails,
   LocalIpv6Lookup, ExternalIpv6Lookup, Ipv6LookupFails, Update, StartUpdate,
   RequestFails, AnswerNotGood, AnswerGood, PersistIpv4, PersistIpv6, Failure,
   DatabaseError, Crash, vars, dbVars

\* The chain of IPv4 rows grows by a change of its last address.
LEMMA Chain4Step ==
  ASSUME TypeOK, PhaseOK, SnapshotFresh, Result4OK, History4Chain, [Next]_vars
  PROVE  History4Chain'
<1>1. CASE UNCHANGED hist4
  BY <1>1 DEF History4Chain
<1>2. CASE PersistIpv4 /\ res4.current # None
  <2>. DEFINE row == [old |-> res4.previous, new |-> res4.current, host |-> cfg.host]
  <2>1. hist4' = Append(hist4, row) /\ row \in Row4 /\ hist4 \in Seq(Row4)
    BY <1>2, InsertedRow4
  <2>2. row.new # row.old /\ row.old = Latest4
    <3>1. pc = "persist4" /\ res4 # DefaultResult4
      BY <1>2 DEF PersistIpv4, DefaultResult4, CheckResult
    <3>. QED
      BY <3>1 DEF Result4OK, SnapshotFresh
  <2>3. Latest4 = IF Len(hist4) = 0 THEN None ELSE hist4[Len(hist4)].new
    BY <2>1, LastOfNonEmpty DEF Latest4
  <2>4. /\ Len(hist4') = Len(hist4) + 1
        /\ hist4'[Len(hist4) + 1] = row
        /\ \A i \in 1..Len(hist4) : hist4'[i] = hist4[i]
    BY <2>1, LastOfAppend
  <2>5. Len(hist4) \in Nat
    BY <2>1
  <2>. SUFFICES ASSUME NEW i \in 1..Len(hist4')
                PROVE  /\ hist4'[i].new # hist4'[i].old
                       /\ hist4'[i].old = IF i = 1 THEN None ELSE hist4'[i - 1].new
    BY DEF History4Chain
  <2>. HIDE DEF row
  <2>6. CASE i = Len(hist4) + 1
    BY <2>2, <2>3, <2>4, <2>5, <2>6
  <2>7. CASE i \in 1..Len(hist4)
    <3>1. hist4'[i] = hist4[i] /\ (i # 1 => hist4'[i - 1] = hist4[i - 1])
      BY <2>4, <2>5, <2>7
    <3>. QED
      BY <2>7, <3>1 DEF History4Chain
  <2>. QED
    BY <2>4, <2>5, <2>6, <2>7
<1>. QED
  BY <1>1, <1>2, HistoryWriters

\* A new IPv6 row lists something the row before it did not.
LEMMA Chain6Step ==
  ASSUME TypeOK, PhaseOK, SnapshotFresh, Result6OK, History6Chain, [Next]_vars
  PROVE  History6Chain'
<1>1. CASE UNCHANGED hist6
  BY <1>1 DEF History6Chain
<1>2. CASE PersistIpv6 /\ res6.current # {}
  <2>. DEFINE row == [old |-> res6.previous, new |-> res6.current, host |-> cfg.host]
  <2>1. hist6' = Append(hist6, row) /\ row \in Row6 /\ hist6 \in Seq(Row6)
    BY <1>2, InsertedRow6
  <2>2. /\ row.new # {} /\ row.new \cap Listed(Latest6) = {}
        /\ row.old \subseteq Listed(Latest6)
        /\ Latest6.new # {} <=> row.old # {}
    <3>1. pc = "persist6" /\ snap6 = Latest6
      BY <1>2 DEF PersistIpv6, SnapshotFresh
    <3>. QED
      BY <1>2, <3>1 DEF Result6OK
  <2>3. /\ Len(hist6) = 0 => Latest6.new = {}
        /\ Len(hist6) # 0 => Latest6.new # {} /\ Listed(Latest6) = Listed(hist6[Len(hist6)])
    BY <2>1, LatestRow6 DEF Latest6, EmptyRow
  <2>4. /\ Len(hist6') = Len(hist6) + 1
        /\ hist6'[Len(hist6) + 1] = row
        /\ \A i \in 1..Len(hist6) : hist6'[i] = hist6[i]
    BY <2>1, LastOfAppend
  <2>5. Len(hist6) \in Nat
    BY <2>1
  <2>. SUFFICES ASSUME NEW i \in 1..Len(hist6')
                PROVE  /\ hist6'[i].new # {}
                       /\ i = 1 => hist6'[i].old = {}
                       /\ i > 1 => /\ hist6'[i].old # {}
                                   /\ hist6'[i].new \cap Listed(hist6'[i - 1]) = {}
                                   /\ hist6'[i].old \subseteq Listed(hist6'[i - 1])
    BY DEF History6Chain
  <2>. HIDE DEF row
  <2>6. CASE i = Len(hist6) + 1
    <3>1. i > 1 => hist6'[i - 1] = hist6[Len(hist6)] /\ Len(hist6) # 0
      BY <2>4, <2>5, <2>6
    <3>2. i = 1 => Len(hist6) = 0
      BY <2>5, <2>6
    <3>. QED
      BY <2>2, <2>3, <2>4, <2>6, <3>1, <3>2
  <2>7. CASE i \in 1..Len(hist6)
    <3>1. hist6'[i] = hist6[i] /\ (i > 1 => hist6'[i - 1] = hist6[i - 1])
      BY <2>4, <2>5, <2>7
    <3>. QED
      BY <2>7, <3>1 DEF History6Chain
  <2>. QED
    BY <2>4, <2>5, <2>6, <2>7
<1>. QED
  BY <1>1, <1>2, HistoryWriters

\* The records of the provider agree with the tables, or an address went out
\* that has no row.
LEMMA MirrorsStep ==
  ASSUME TypeOK, PhaseOK, Result4OK, Result6OK, Published, MirrorsProvider, [Next]_vars
  PROVE  MirrorsProvider'
<1>. USE DEF MirrorsProvider
<1>1. CASE UNCHANGED <<hist4, hist6, dns4, dns6, ahead4, ahead6>>
  BY <1>1
<1>2. CASE RequestFails \/ AnswerNotGood \/ AnswerGood
  <2>1. UNCHANGED <<hist4, hist6>> /\ (Apply \/ UNCHANGED <<dns4, dns6, ahead4, ahead6>>)
    BY <1>2 DEF RequestFails, AnswerNotGood, AnswerGood, dbVars, dnsVars
  <2>2. ASSUME Apply PROVE MirrorsProvider'
    <3>1. ~ ahead4' => ~ ahead4 /\ dns4' = dns4
      BY <2>2 DEF Apply
    <3>2. ~ ahead6' => ~ ahead6 /\ dns6' = dns6
      BY <2>2 DEF Apply
    <3>. QED
      BY <2>1, <3>1, <3>2
  <2>. QED
    BY <2>1, <2>2
<1>3. CASE PersistIpv4 /\ res4.current # None
  <2>1. /\ pc = "persist4" /\ UNCHANGED <<hist6, dns4, dns6, ahead6>>
        /\ res4 # DefaultResult4
    BY <1>3 DEF PersistIpv4, DefaultResult4, CheckResult
  <2>2. dns4[cfg.host] = res4.current
    BY <1>3, <2>1 DEF Result4OK, Published
  <2>3. Last(hist4').host = cfg.host /\ Last(hist4').new = res4.current
    BY <1>3, InsertedRow4
  <2>. QED
    BY <2>1, <2>2, <2>3
<1>4. CASE PersistIpv6 /\ res6.current # {}
  <2>1. pc = "persist6" /\ pc6 = "done" /\ UNCHANGED <<hist4, dns4, dns6, ahead4>>
    BY <1>4 DEF PersistIpv6, PhaseOK
  <2>2. /\ res6.external # None /\ dns6[cfg.host] = res6.external
        /\ \A a \in V6 : res6.current = {a} => res6.external = a
    BY <1>4, <2>1 DEF Result6OK, Published
  <2>3. Last(hist6').host = cfg.host /\ Last(hist6').new = res6.current
    BY <1>4, InsertedRow6
  <2>. QED
    BY <2>1, <2>2, <2>3
<1>. QED
  BY <1>1, <1>2, <1>3, <1>4
     DEF Next, Environment, ChangeExt4, ChangeIface6, WriteConfig, Load, StartCycle,
     LoadConfig, LoadIpv4History, LoadIpv6History, Check, Ipv4Lookup, Ipv4LookupFails,
     LocalIpv6Lookup, ExternalIpv6Lookup, Ipv6LookupFails, Update, StartUpdate,
     PersistIpv4, PersistIpv6, Failure, DatabaseError, Crash, vars, dbVars, dnsVars

-----------------------------------------------------------------------------
(* The theorems. *)

\* The inductive invariant holds at the start and every step keeps it.
THEOREM Inductive == Spec => []IInv
<1>1. Init => IInv
  <2>. SUFFICES ASSUME Init PROVE IInv
    OBVIOUS
  <2>1. TypeOK /\ PhaseOK
    BY TypeInit
  <2>2. SnapshotFresh /\ Result4OK /\ Published
    BY DEF Init, SnapshotFresh, Result4OK, Published
  <2>3. Result6OK
    BY DEF Init, Result6OK, DefaultResult6, CheckResult
  <2>4. History4Chain /\ History6Chain /\ MirrorsProvider
    BY DEF Init, History4Chain, History6Chain, MirrorsProvider
  <2>. QED
    BY <2>1, <2>2, <2>3, <2>4 DEF IInv
<1>2. IInv /\ [Next]_vars => IInv'
  BY TypeStep, SnapshotStep, Result4Step, Result6Step, PublishedStep, Chain4Step,
     Chain6Step, MirrorsStep DEF IInv
<1>. QED
  BY <1>1, <1>2, PTL DEF Spec

\* No address is recorded twice in a row, and every row starts where the one
\* before it ended.
THEOREM Ipv4HistoryIsAChain == Spec => []History4Chain
<1>1. IInv => History4Chain
  BY DEF IInv
<1>. QED
  BY <1>1, Inductive, PTL

\* No IPv6 row lists as new what the row before it already had.
THEOREM Ipv6HistoryIsAChain == Spec => []History6Chain
<1>1. IInv => History6Chain
  BY DEF IInv
<1>. QED
  BY <1>1, Inductive, PTL

\* What history says was published last is the provider's record, unless an
\* update was applied that has no row.
THEOREM HistoryMirrorsProvider == Spec => []MirrorsProvider
<1>1. IInv => MirrorsProvider
  BY DEF IInv
<1>. QED
  BY <1>1, Inductive, PTL

\* An update is never sent for addresses the history already has.
THEOREM NoUpdateWithoutChange == Spec => []UpdateOnlyOnChange
<1>1. IInv => UpdateOnlyOnChange
  <2>. SUFFICES ASSUME IInv, pc = "update" PROVE UpdateOnlyOnChange
    BY DEF UpdateOnlyOnChange
  <2>1. prev4 = Latest4 /\ snap6 = Latest6 /\ pc6 = "done"
    BY DEF IInv, SnapshotFresh, PhaseOK
  <2>2. res4.external # None => res4.external # Latest4
    BY <2>1 DEF IInv, Result4OK, DefaultResult4, CheckResult
  <2>3. res6.external # None => res6.current # {} /\ res6.current \cap Listed(Latest6) = {}
    BY <2>1 DEF IInv, Result6OK
  <2>4. res4.external # None \/ res6.external # None
    BY DEF IInv, Published
  <2>. QED
    BY <2>2, <2>3, <2>4 DEF UpdateOnlyOnChange
<1>. QED
  BY <1>1, Inductive, PTL

\* The IPv6 row of a cycle is never written before its IPv4 row.
THEOREM Ipv4RowComesFirst == Spec => Ipv4RecordedFirst
<1>1. IInv /\ [Next]_vars =>
        [hist6' # hist6 /\ res4.current # None => Latest4 = res4.current]_vars
  <2>. SUFFICES ASSUME IInv, [Next]_vars, hist6' # hist6, res4.current # None
                PROVE  Latest4 = res4.current
    OBVIOUS
  <2>1. PersistIpv6
    BY HistoryWriters DEF IInv
  <2>. QED
    BY <2>1 DEF PersistIpv6, IInv, SnapshotFresh
<1>. QED
  BY <1>1, Inductive, PTL DEF Spec, Ipv4RecordedFirst

-----------------------------------------------------------------------------
(* The refinement: the cycle implements Publisher. *)

\* Outside the two inserts the cycle has nothing to record; on the way into
\* them it has its two results.
LEMMA AcknowledgedIs ==
  /\ pc \notin {"persist4", "persist6"} => Acknowledged = P!Nothing
  /\ pc = "persist4" => Acknowledged = P!Due(res4.current, res6.current, cfg.host)
  /\ pc = "persist6" => Acknowledged = P!Due(None, res6.current, cfg.host)
BY DEF Acknowledged, P!Nothing, P!Due

\* Both specifications read the end of the log alike.
LEMMA LogEnds ==
  P!Current4 = Latest4 /\ P!Known6 = Listed(Latest6)
BY DEF P!Current4, P!Known6, P!Last, Last, Latest4, Latest6, Listed, EmptyRow

\* A step that writes neither table nor record, and drops or keeps what the
\* cycle has to record, is no more than a loss.
LEMMA QuietStep ==
  ASSUME UNCHANGED <<hist4, hist6, dns4, dns6>>,
         Acknowledged' = Acknowledged \/ pc' \notin {"persist4", "persist6"}
  PROVE  [P!Next]_(P!vars)
<1>1. pc' \notin {"persist4", "persist6"} => Acknowledged' = P!Nothing
  BY DEF Acknowledged, P!Nothing
<1>. QED
  BY <1>1 DEF P!Next, P!Lose, P!vars

\* The request carries changes only, so what the provider applies is a
\* publication, whether its answer arrives or not.
LEMMA PublicationStep ==
  ASSUME IInv, pc = "update", Apply, UNCHANGED <<hist4, hist6>>,
         \/ pc' = "persist4" /\ UNCHANGED <<loadVars, checkVars>>
         \/ pc' \notin {"persist4", "persist6"}
  PROVE  P!PublishChange
<1>. DEFINE a == res4.external
            s == res6.current
            b == res6.external
            h == cfg.host
<1>1. Acknowledged = P!Nothing
  BY AcknowledgedIs
<1>2. h \in Hosts /\ pc6 = "done" /\ prev4 = Latest4 /\ snap6 = Latest6
  BY DEF IInv, PhaseOK, Config, SnapshotFresh
<1>3. a = res4.current /\ a \in (V4 \ {P!Current4}) \cup {None}
  <2>1. a \in V4 \cup {None} /\ (res4 = DefaultResult4 => a = None /\ res4.current = None)
    BY DEF IInv, TypeOK, Result4, DefaultResult4, CheckResult
  <2>2. res4 # DefaultResult4 => a = res4.current /\ a # Latest4
    BY <1>2 DEF IInv, Result4OK
  <2>. QED
    BY <2>1, <2>2, LogEnds
<1>4. s \in SUBSET (V6 \ P!Known6)
  BY <1>2, LogEnds DEF IInv, TypeOK, Result6, Result6OK
<1>5. b \in P!ToTell(s)
  <2>1. b \in V6 \cup {None} /\ s \in SUBSET V6
    BY DEF IInv, TypeOK, Result6
  <2>2. s = {} => b = None
    BY DEF IInv, Result6OK
  <2>3. s # {} => b \in V6 /\ \A x \in s : s = {x} => b = x
    BY <1>2, <2>1 DEF IInv, Result6OK
  <2>. QED
    BY <2>2, <2>3 DEF P!ToTell
<1>6. a # None \/ b # None
  BY DEF IInv, Published
<1>7. Acknowledged' \in {P!Nothing, P!Due(a, s, h)}
  <2>1. CASE pc' = "persist4" /\ UNCHANGED <<loadVars, checkVars>>
    <3>1. res4' = res4 /\ res6' = res6 /\ cfg' = cfg
      BY <2>1 DEF loadVars, checkVars
    <3>2. Acknowledged' = P!Due(res4.current, s, h)
      BY <2>1, <3>1 DEF Acknowledged, P!Nothing, P!Due
    <3>. QED
      BY <3>2, <1>3
  <2>2. CASE pc' \notin {"persist4", "persist6"}
    BY <2>2 DEF Acknowledged, P!Nothing
  <2>. QED
    BY <2>1, <2>2
<1>8. P!Publish(h, a, s, b)
  BY <1>6, <1>7 DEF P!Publish, Apply
<1>. HIDE DEF a, s, b, h
<1>. QED
  BY <1>1, <1>2, <1>3, <1>4, <1>5, <1>8 DEF P!PublishChange

\* The insert of the IPv4 row logs the address that is due, if one is.
LEMMA Log4Step ==
  ASSUME IInv, PersistIpv4
  PROVE  [P!Next]_(P!vars)
<1>1. /\ pc = "persist4" /\ pc' = "persist6"
      /\ UNCHANGED <<hist6, dns4, dns6, res6, cfg>>
  BY DEF PersistIpv4, loadVars, checkVars
<1>2. /\ Acknowledged = P!Due(res4.current, res6.current, cfg.host)
      /\ Acknowledged' = P!Due(None, res6.current, cfg.host)
  BY <1>1 DEF Acknowledged, P!Nothing, P!Due
<1>3. CASE res4.current = None
  <2>1. UNCHANGED hist4 /\ Acknowledged' = Acknowledged
    BY <1>2, <1>3 DEF PersistIpv4
  <2>. QED
    BY <1>1, <2>1, QuietStep
<1>4. CASE res4.current # None
  <2>1. /\ Acknowledged.ip4 = res4.current /\ Acknowledged.ip6 = res6.current
        /\ Acknowledged.host = cfg.host
    BY <1>2, <1>4 DEF P!Due
  <2>2. res4.previous = P!Current4
    BY <1>1, <1>4, LogEnds
       DEF IInv, Result4OK, SnapshotFresh, DefaultResult4, CheckResult
  <2>3. hist4' = Append(hist4, [old |-> P!Current4, new |-> Acknowledged.ip4,
                                host |-> Acknowledged.host])
    BY <1>4, <2>1, <2>2 DEF PersistIpv4
  <2>4. P!Log4
    BY <1>1, <1>2, <1>4, <2>1, <2>3 DEF P!Log4
  <2>. QED
    BY <2>4 DEF P!Next
<1>. QED
  BY <1>3, <1>4

\* The insert of the IPv6 row logs the addresses that are due, if any are.
LEMMA Log6Step ==
  ASSUME IInv, PersistIpv6
  PROVE  [P!Next]_(P!vars)
<1>1. pc = "persist6" /\ pc' = "idle" /\ UNCHANGED <<hist4, dns4, dns6>>
  BY EndCycleClears DEF PersistIpv6
<1>2. CASE res6.current = {}
  <2>1. UNCHANGED hist6
    BY <1>2 DEF PersistIpv6
  <2>. QED
    BY <1>1, <2>1, QuietStep
<1>3. CASE res6.current # {}
  <2>1. /\ Acknowledged.ip4 = None /\ Acknowledged.ip6 = res6.current
        /\ Acknowledged.host = cfg.host
    BY <1>1, <1>3, AcknowledgedIs DEF P!Due
  <2>2. snap6 = Latest6
    BY <1>1 DEF IInv, SnapshotFresh
  <2>3. res6.previous \in SUBSET P!Known6 /\ (Latest6.new # {} <=> res6.previous # {})
    BY <1>3, <2>2, LogEnds DEF IInv, Result6OK
  <2>4. res6.previous = {} <=> hist6 = <<>>
    BY <2>3, LatestRow6 DEF IInv, Latest6, EmptyRow
  <2>5. hist6' = Append(hist6, [old |-> res6.previous, new |-> Acknowledged.ip6,
                                host |-> Acknowledged.host])
    BY <1>3, <2>1 DEF PersistIpv6
  <2>6. Acknowledged' = P!Nothing
    BY <1>1 DEF Acknowledged, P!Nothing
  <2>7. P!Log6
    BY <1>1, <1>3, <2>1, <2>3, <2>4, <2>5, <2>6 DEF P!Log6
  <2>. QED
    BY <2>7 DEF P!Next
<1>. QED
  BY <1>2, <1>3

\* Every step of the cycle is a step of Publisher or changes nothing of it.
LEMMA PublisherStep ==
  ASSUME IInv, [Next]_vars
  PROVE  [P!Next]_(P!vars)
<1>1. CASE Environment \/ UNCHANGED vars
  <2>1. UNCHANGED <<hist4, hist6, dns4, dns6, pc, res4, res6, cfg>>
    BY <1>1 DEF Environment, ChangeExt4, ChangeIface6, WriteConfig,
       vars, dbVars, dnsVars, loadVars, checkVars
  <2>2. Acknowledged' = Acknowledged
    BY <2>1 DEF Acknowledged
  <2>. QED
    BY <2>1, <2>2, QuietStep
<1>2. CASE Load \/ Check \/ Ipv4LookupFails \/ StartUpdate \/ DatabaseError \/ Crash
  <2>1. UNCHANGED <<hist4, hist6, dns4, dns6>>
    BY <1>2 DEF Load, StartCycle, LoadConfig, LoadIpv4History, LoadIpv6History, Check,
       Ipv4Lookup, Ipv4LookupFails, LocalIpv6Lookup, ExternalIpv6Lookup, Ipv6LookupFails,
       StartUpdate, DatabaseError, Crash, dbVars, dnsVars
  <2>2. pc' \notin {"persist4", "persist6"}
    BY <1>2, EndCycleClears DEF IInv, PhaseOK, Load, StartCycle, LoadConfig,
       LoadIpv4History, LoadIpv6History, Check, Ipv4Lookup, Ipv4LookupFails,
       LocalIpv6Lookup, ExternalIpv6Lookup, Ipv6LookupFails, StartUpdate, DatabaseError, Crash
  <2>. QED
    BY <2>1, <2>2, QuietStep
<1>3. CASE RequestFails \/ AnswerNotGood \/ AnswerGood
  <2>1. /\ pc = "update" /\ UNCHANGED <<hist4, hist6>>
        /\ Apply \/ (UNCHANGED <<dns4, dns6>> /\ ~ AnswerGood)
    BY <1>3 DEF RequestFails, AnswerNotGood, AnswerGood, dbVars, dnsVars
  <2>2. \/ AnswerGood /\ pc' = "persist4" /\ UNCHANGED <<loadVars, checkVars>>
        \/ pc' \notin {"persist4", "persist6"}
    BY <1>3, <2>1, EndCycleClears DEF RequestFails, AnswerNotGood, AnswerGood
  <2>3. CASE Apply
    BY <2>1, <2>2, <2>3, PublicationStep DEF P!Next
  <2>4. CASE UNCHANGED <<dns4, dns6>> /\ ~ AnswerGood
    BY <2>1, <2>2, <2>4, QuietStep
  <2>. QED
    BY <2>1, <2>3, <2>4
<1>4. CASE PersistIpv4 \/ PersistIpv6
  BY <1>4, Log4Step, Log6Step
<1>. QED
  BY <1>1, <1>2, <1>3, <1>4 DEF Next, Update, Failure

\* The cycle implements Publisher for every set of addresses and targets and
\* whatever fails: the provider is told of changes only, and the history gets
\* nothing but what the provider has just acknowledged.
THEOREM CycleImplementsPublisher == Spec => Publishes
<1>1. Init => P!Init
  BY DEF Init, P!Init, Acknowledged, P!Nothing
<1>2. IInv /\ [Next]_vars => [P!Next]_(P!vars)
  BY PublisherStep
<1>. QED
  BY <1>1, <1>2, Inductive, PTL DEF Spec, Publishes, P!Spec
=============================================================================
