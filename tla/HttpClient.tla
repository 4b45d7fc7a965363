----------------------------- MODULE HttpClient -----------------------------
(***************************************************************************)
(* One exchange with a peer, an echo service or the DynDNS provider:       *)
(* HttpClient::send_async (src/src/dyndns/http_client.rs) with its         *)
(* attempts and delays, and the reading of the body that its two callers   *)
(* do (lookup/http.rs, updater.rs).                                        *)
(*                                                                         *)
(* A peer may refuse, not be reached, accept and fall silent, break off or *)
(* answer.  The client bounds the time it takes to be connected and no     *)
(* other.  UpdateCycle has an exchange as one step per attempt.            *)
(***************************************************************************)
EXTENDS Naturals

CONSTANTS
  Attempts,         \* the values of HttpClient::new's max_attempts
  Delays,           \* and of its initial_delay, in units of time
  ConnectTimeout,   \* connect_timeout, in units of time
  MaxDelay          \* Duration::MAX

ASSUME ArgumentsAssumption ==
  /\ Attempts \subseteq Nat /\ ConnectTimeout \in Nat
  /\ MaxDelay \in Nat /\ Delays \subseteq 0..MaxDelay

VARIABLES
  max_attempts,
  initial_delay,
  attempt,       \* the request that is made, counted from 1
  delay,         \* the pause after it, should it fail
  phase,         \* "connect", "await", "pause", "body"; it ends "read", when the
                 \* body is lost "unread", without a response "exhausted"
  timer,         \* time since the phase began
  waited         \* history variable: time in which no peer owed an answer

vars == <<max_attempts, initial_delay, attempt, delay, phase, timer, waited>>

\* Duration::saturating_mul stops at the largest duration.
Bounded(d) == IF d > MaxDelay THEN MaxDelay ELSE d

\* HttpClient::new, and the request is made.
Init ==
  /\ \E n \in Attempts : max_attempts = IF n = 0 THEN 1 ELSE n
  /\ initial_delay \in Delays
  /\ attempt = 1 /\ delay = initial_delay
  /\ phase = "connect" /\ timer = 0 /\ waited = 0

Enter(p) == phase' = p /\ timer' = 0

-----------------------------------------------------------------------------
\* MUTANT of Retry: the pause doubles before it is made.
RetryLater ==
  /\ attempt < max_attempts
  /\ \/ delay = 0 /\ Enter("connect") /\ attempt' = attempt + 1 /\ UNCHANGED delay
     \/ delay > 0 /\ Enter("pause") /\ delay' = Bounded(2 * delay) /\ UNCHANGED attempt

\* After a failed attempt in the loop: the next one, after a pause unless the
\* initial delay is zero.
Retry ==
  /\ attempt < max_attempts
  /\ \/ delay = 0 /\ Enter("connect") /\ attempt' = attempt + 1
     \/ delay > 0 /\ Enter("pause") /\ UNCHANGED attempt
  /\ UNCHANGED delay

\* MUTANT of GiveUp: the loop makes all attempts and one more follows it.
GiveUpOnceMore ==
  /\ attempt >= max_attempts
  /\ \/ attempt = max_attempts /\ Enter("connect") /\ attempt' = attempt + 1
     \/ attempt > max_attempts /\ Enter("exhausted") /\ UNCHANGED attempt
  /\ UNCHANGED delay

\* The attempt behind the loop has failed.
GiveUp ==
  /\ attempt = max_attempts
  /\ Enter("exhausted")
  /\ UNCHANGED <<attempt, delay>>

\* MUTANT of CannotConnect: the client has no connect timeout.
CannotConnectEver ==
  /\ phase = "connect" /\ timer < ConnectTimeout
  /\ Retry \/ GiveUp
  /\ UNCHANGED <<max_attempts, initial_delay, waited>>

\* No such host, refused, no TLS, or not connected in time.
CannotConnect ==
  /\ phase = "connect"
  /\ Retry \/ GiveUp
  /\ UNCHANGED <<max_attempts, initial_delay, waited>>

Connect ==
  /\ phase = "connect" /\ timer < ConnectTimeout
  /\ Enter("await")
  /\ UNCHANGED <<max_attempts, initial_delay, attempt, delay, waited>>

\* The connection is lost before the head of the response is there.
BreakOff ==
  /\ phase = "await"
  /\ Retry \/ GiveUp
  /\ UNCHANGED <<max_attempts, initial_delay, waited>>

\* Any response, whatever its status, is the last one: send_async returns.
Respond ==
  /\ phase = "await"
  /\ Enter("body")
  /\ UNCHANGED <<max_attempts, initial_delay, attempt, delay, waited>>

\* response.text(): the body is read, or lost; the caller does not try again.
ReadBody ==
  /\ phase = "body"
  /\ Enter("read") \/ Enter("unread")
  /\ UNCHANGED <<max_attempts, initial_delay, attempt, delay, waited>>

\* tokio::time::sleep is over.
Wake ==
  /\ phase = "pause" /\ timer = delay
  /\ Enter("connect")
  /\ attempt' = attempt + 1
  /\ delay' = Bounded(2 * delay)
  /\ UNCHANGED <<max_attempts, initial_delay, waited>>

Pass ==
  /\ \/ phase = "connect" /\ timer < ConnectTimeout
     \/ phase = "pause" /\ timer < delay
  /\ timer' = timer + 1 /\ waited' = waited + 1
  /\ UNCHANGED <<max_attempts, initial_delay, attempt, delay, phase>>

-----------------------------------------------------------------------------
Next == CannotConnect \/ Connect \/ BreakOff \/ Respond \/ ReadBody \/ Wake \/ Pass

\* Time passes, and the client's own timers fire.  No peer is fair.
Fairness ==
  WF_vars(Pass) /\ WF_vars(Wake) /\ WF_vars(CannotConnect /\ timer = ConnectTimeout)

Spec == Init /\ [][Next]_vars /\ Fairness

-----------------------------------------------------------------------------
(* Properties. *)

Ended == {"read", "unread", "exhausted"}

\* What k pauses add up to: the j-th is the initial delay, d, times 2 ^ (j - 1), or
\* the largest duration.
Power2[j \in Nat] == IF j = 0 THEN 1 ELSE 2 * Power2[j - 1]
Pauses(d) ==
  LET sum[k \in Nat] == IF k = 0 THEN 0 ELSE sum[k - 1] + Bounded(d * Power2[k - 1])
  IN  sum

\* An exchange leaves the peer the pauses it should between two attempts, and
\* takes no longer than those and the connect timeout of every attempt, but for
\* the time in which a peer that accepted it owes an answer.
BacksOff ==
  LET pauses == Pauses(initial_delay)[attempt - 1] + (IF phase = "pause" THEN timer ELSE 0) IN
  /\ pauses <= waited
  /\ waited <= pauses + attempt * ConnectTimeout

\* An exchange is given up after as many attempts as were asked for, neither
\* fewer nor more, also when none or a single one was.
EveryAttemptMade ==
  /\ attempt <= max_attempts
  /\ phase = "exhausted" => attempt = max_attempts

\* Nothing but a peer that has accepted a request and keeps silent, before its
\* response or within the body, holds an exchange for ever.
OnlySilenceHolds ==
  <>(phase \in Ended) \/ <>[](phase \in {"await", "body"})

-----------------------------------------------------------------------------
(* The inductive invariant behind the first two. *)

TypeOK ==
  /\ max_attempts \in Nat \ {0} /\ attempt \in 1..max_attempts
  /\ initial_delay \in 0..MaxDelay
  /\ phase \in {"connect", "await", "pause", "body"} \cup Ended
  /\ timer \in Nat /\ waited \in Nat

\* The delay that the loop doubles and bounds step by step is the one of the
\* closed form.
DelayOK == delay = Bounded(initial_delay * Power2[attempt - 1])

\* No pause is longer than it should be, none follows the last attempt, and with
\* no initial delay there is none.
PhaseOK ==
  /\ phase = "connect" => timer <= ConnectTimeout
  /\ phase = "pause" => attempt < max_attempts /\ delay > 0 /\ timer <= delay
  /\ phase = "exhausted" => attempt = max_attempts

\* BacksOff at each place of an attempt: the pauses are over or at the timer, and
\* the rest of the time went into the connections, the last of which is settled
\* or at the timer.
WaitedOK ==
  LET pauses == Pauses(initial_delay)[attempt - 1] + (IF phase = "pause" THEN timer ELSE 0)
      connecting == IF phase = "connect" THEN timer ELSE 0
  IN  /\ pauses + connecting <= waited
      /\ waited <= pauses + (attempt - 1) * ConnectTimeout
                     + (IF phase = "connect" THEN timer ELSE ConnectTimeout)

IInv == TypeOK /\ DelayOK /\ PhaseOK /\ WaitedOK
=============================================================================
