----------------------------- MODULE Publisher ------------------------------
(***************************************************************************)
(* What the worker promises of the addresses it publishes, whatever its    *)
(* lookups, requests and statements do: the provider is only told of a     *)
(* change of what the log has, and the log only gets what the provider has *)
(* just acknowledged, both families of one publication in order, each row  *)
(* following on the one before it.  An acknowledgement, or what is to be   *)
(* logged after it, may be lost; the next publication then starts from the *)
(* log again.                                                              *)
(***************************************************************************)
EXTENDS SequencesExt

CONSTANTS V4, V6, Hosts, None

VARIABLES
  log4, log6,    \* what was logged, oldest first
  told4, told6,  \* what each host's record at the provider is
  due            \* acknowledged and not yet logged

vars == <<log4, log6, told4, told6, due>>

\* The address and the new IPv6 addresses to log, for the host they went to.
Nothing == [ip4 |-> None, ip6 |-> {}, host |-> None]
Due(a, s, h) == IF a = None /\ s = {} THEN Nothing ELSE [ip4 |-> a, ip6 |-> s, host |-> h]

Current4 == IF log4 = <<>> THEN None ELSE Last(log4).new
Known6 == IF log6 = <<>> THEN {} ELSE Last(log6).old \cup Last(log6).new

Init ==
  /\ log4 = <<>> /\ log6 = <<>>
  /\ told4 = [h \in Hosts |-> None] /\ told6 = [h \in Hosts |-> None]
  /\ due = Nothing

\* The IPv6 address that is told for the new ones: itself if there is one only.
ToTell(s) == IF s = {} THEN {None} ELSE {b \in V6 : \A x \in s : s = {x} => b = x}

\* The addresses that changed are told to the provider, which may acknowledge it.
Publish(h, a, s, b) ==
  /\ a # None \/ b # None
  /\ told4' = IF a = None THEN told4 ELSE [told4 EXCEPT ![h] = a]
  /\ told6' = IF b = None THEN told6 ELSE [told6 EXCEPT ![h] = b]
  /\ due' \in {Nothing, Due(a, s, h)}
  /\ UNCHANGED <<log4, log6>>

PublishChange ==
  /\ due = Nothing
  /\ \E h \in Hosts, a \in (V4 \ {Current4}) \cup {None}, s \in SUBSET (V6 \ Known6) :
       \E b \in ToTell(s) : Publish(h, a, s, b)

Log4 ==
  /\ due.ip4 # None
  /\ log4' = Append(log4, [old |-> Current4, new |-> due.ip4, host |-> due.host])
  /\ due' = Due(None, due.ip6, due.host)
  /\ UNCHANGED <<log6, told4, told6>>

\* The row keeps some of what the one before it had.
Log6 ==
  /\ due.ip4 = None /\ due.ip6 # {}
  /\ \E kept \in SUBSET Known6 :
       /\ kept = {} <=> log6 = <<>>
       /\ log6' = Append(log6, [old |-> kept, new |-> due.ip6, host |-> due.host])
  /\ due' = Nothing
  /\ UNCHANGED <<log4, told4, told6>>

\* What is due is lost, or nothing happens.
Lose ==
  /\ due' = Nothing
  /\ UNCHANGED <<log4, log6, told4, told6>>

Next == Lose \/ Log4 \/ Log6 \/ PublishChange

Spec == Init /\ [][Next]_vars
=============================================================================
