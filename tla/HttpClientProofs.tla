-------------------------- MODULE HttpClientProofs --------------------------
(***************************************************************************)
(* Proofs about HttpClient, for every number of attempts, every delay and  *)
(* every bound on the time to be connected: how many attempts are made,    *)
(* and how long an exchange takes beside the time a peer owes an answer.   *)
(*                                                                         *)
(* BacksOff compares what the loop has doubled step by step with powers    *)
(* and a sum, which are recursive functions.  What those compute is shown  *)
(* by induction, in a form that speaks of sets: a set of numbers that has  *)
(* 0, and n + 1 with every n, has all of them.                             *)
(***************************************************************************)
EXTENDS HttpClient, WellFoundedInduction, TLAPS

-----------------------------------------------------------------------------
(* Induction and recursion on the natural numbers. *)

LEMMA Least ==
  ASSUME NEW T \in SUBSET Nat, T # {}
  PROVE  \E n \in T : \A m \in T : n <= m
<1>. DEFINE R == OpToRel(<, Nat)
<1>1. IsWellFoundedOn(R, Nat)
  BY NatLessThanWellFounded
<1>2. \A m, n \in Nat : <<m, n>> \in R <=> m < n
  BY DEF OpToRel
<1>. HIDE DEF R
<1>3. PICK n \in T : \A m \in T : ~ (<<m, n>> \in R)
  BY <1>1, WFMin
<1>4. \A m \in T : ~ (m < n)
  BY <1>2, <1>3
<1>. QED
  BY <1>4

LEMMA Induction ==
  ASSUME NEW T, 0 \in T, \A n \in Nat : n \in T => n + 1 \in T
  PROVE  Nat \subseteq T
<1>. SUFFICES ASSUME Nat \ T # {} PROVE FALSE
  OBVIOUS
<1>1. PICK n \in Nat \ T : \A m \in Nat \ T : n <= m
  BY Least
<1>2. n # 0 /\ n - 1 \in Nat
  BY <1>1
<1>3. n - 1 \in T
  BY <1>1, <1>2
<1>. QED
  BY <1>1, <1>2, <1>3

\* A function of the natural numbers that begins with a and goes on by h.
Rules(S) == [Nat -> [S -> S]]
Follows(f, S, a, h) ==
  f \in [Nat -> S] /\ f[0] = a /\ \A n \in Nat : f[n + 1] = h[n][f[n]]

\* There is one: for every n there are functions that do so up to n, and any two
\* of them agree that far.
LEMMA Recursion ==
  ASSUME NEW S, NEW a \in S, NEW h \in Rules(S)
  PROVE  \E f : Follows(f, S, a, h)
<1>. USE DEF Rules
<1>. DEFINE Upto(n) ==
       {g \in [Nat -> S] : g[0] = a /\ \A i \in Nat : i < n => g[i + 1] = h[i][g[i]]}
<1>1. \A n \in Nat : Upto(n) # {}
  <2>. DEFINE T == {n \in Nat : Upto(n) # {}}
  <2>1. 0 \in T
    <3>1. [i \in Nat |-> a] \in Upto(0)
      OBVIOUS
    <3>. QED
      BY <3>1
  <2>2. ASSUME NEW n \in Nat, n \in T PROVE n + 1 \in T
    <3>1. PICK g \in Upto(n) : TRUE
      BY <2>2
    <3>. DEFINE k == [g EXCEPT ![n + 1] = h[n][g[n]]]
    <3>2. k \in [Nat -> S] /\ k[0] = a
      OBVIOUS
    <3>3. ASSUME NEW i \in Nat, i < n + 1 PROVE k[i + 1] = h[i][k[i]]
      <4>1. CASE i = n
        BY <4>1
      <4>2. CASE i < n
        <5>1. k[i + 1] = g[i + 1] /\ k[i] = g[i]
          BY <4>2
        <5>. QED
          BY <4>2, <5>1
      <4>. QED
        BY <3>3, <4>1, <4>2
    <3>4. k \in Upto(n + 1)
      BY <3>2, <3>3
    <3>. HIDE DEF k, Upto
    <3>5. Upto(n + 1) # {} /\ n + 1 \in Nat
      BY <3>4
    <3>. QED
      BY <3>5
  <2>. HIDE DEF T
  <2>3. Nat \subseteq T
    BY <2>1, <2>2, Induction
  <2>. QED
    BY <2>3 DEF T
<1>2. ASSUME NEW n \in Nat, NEW m \in Nat, n <= m, NEW g \in Upto(n), NEW k \in Upto(m)
      PROVE  g[n] = k[n]
  <2>. DEFINE T == {i \in Nat : i <= n => g[i] = k[i]}
  <2>1. 0 \in T
    OBVIOUS
  <2>2. ASSUME NEW i \in Nat, i \in T PROVE i + 1 \in T
    <3>1. CASE i < n
      <4>1. g[i] = k[i]
        BY <2>2, <3>1
      <4>2. g[i + 1] = h[i][g[i]] /\ k[i + 1] = h[i][k[i]]
        BY <1>2, <3>1
      <4>. QED
        BY <4>1, <4>2
    <3>2. CASE ~ (i < n)
      BY <3>2
    <3>. QED
      BY <3>1, <3>2
  <2>. HIDE DEF T
  <2>3. Nat \subseteq T
    BY <2>1, <2>2, Induction
  <2>. QED
    BY <2>3 DEF T
<1>. DEFINE f == [n \in Nat |-> (CHOOSE g \in Upto(n) : TRUE)[n]]
<1>3. ASSUME NEW n \in Nat PROVE \E g \in Upto(n) : g[n] = f[n]
  <2>1. (CHOOSE g \in Upto(n) : TRUE) \in Upto(n)
    BY <1>1
  <2>. QED
    BY <2>1
<1>4. f[0] = a
  BY <1>3
<1>5. f \in [Nat -> S]
  BY <1>3
<1>. HIDE DEF f
<1>6. ASSUME NEW n \in Nat PROVE f[n + 1] = h[n][f[n]]
  <2>1. PICK g \in Upto(n) : g[n] = f[n]
    BY <1>3
  <2>2. n + 1 \in Nat /\ n <= n + 1
    OBVIOUS
  <2>3. PICK k \in Upto(n + 1) : k[n + 1] = f[n + 1]
    <3>. HIDE DEF Upto
    <3>. QED
      BY <1>3, <2>2
  <2>4. g[n] = k[n]
    <3>. HIDE DEF Upto
    <3>. QED
      BY <1>2, <2>2
  <2>5. k[n + 1] = h[n][k[n]]
    OBVIOUS
  <2>. QED
    BY <2>1, <2>3, <2>4, <2>5
<1>. QED
  BY <1>4, <1>5, <1>6 DEF Follows

-----------------------------------------------------------------------------
(* What the closed form computes. *)

LEMMA Power2Is ==
  Power2 \in [Nat -> Nat] /\ Power2[0] = 1 /\ \A n \in Nat : Power2[n + 1] = 2 * Power2[n]
<1>. DEFINE h == [n \in Nat |-> [x \in Nat |-> 2 * x]]
<1>1. h \in Rules(Nat) /\ 1 \in Nat
  BY DEF Rules
<1>2. \A n, x \in Nat : h[n][x] = 2 * x
  OBVIOUS
<1>. HIDE DEF h
<1>3. PICK f : Follows(f, Nat, 1, h)
  BY <1>1, Recursion
<1>4. f \in [Nat -> Nat] /\ f[0] = 1 /\ \A n \in Nat : f[n + 1] = 2 * f[n]
  BY <1>2, <1>3 DEF Follows
<1>5. ASSUME NEW j \in Nat PROVE f[j] = IF j = 0 THEN 1 ELSE 2 * f[j - 1]
  <2>1. CASE j = 0
    BY <1>4, <2>1
  <2>2. CASE j # 0
    <3>1. j - 1 \in Nat /\ (j - 1) + 1 = j
      BY <2>2
    <3>. QED
      BY <1>4, <2>2, <3>1
  <2>. QED
    BY <2>1, <2>2
<1>6. f = [j \in Nat |-> IF j = 0 THEN 1 ELSE 2 * f[j - 1]]
  BY <1>4, <1>5
<1>7. Power2 = [j \in Nat |-> IF j = 0 THEN 1 ELSE 2 * Power2[j - 1]]
  BY <1>6 DEF Power2
<1>8. Power2[0] = 1 /\ \A n \in Nat : Power2[n + 1] = 2 * Power2[n]
  BY <1>7
<1>. DEFINE T == {n \in Nat : Power2[n] \in Nat}
<1>9. 0 \in T /\ \A n \in Nat : n \in T => n + 1 \in T
  BY <1>8
<1>10. Nat \subseteq T
  <2>. HIDE DEF T
  <2>. QED
    BY <1>9, Induction
<1>11. Power2 = [j \in Nat |-> Power2[j]]
  BY <1>7
<1>. QED
  BY <1>8, <1>10, <1>11

LEMMA PausesIs ==
  ASSUME NEW d \in Nat
  PROVE  /\ Pauses(d) \in [Nat -> Nat] /\ Pauses(d)[0] = 0
         /\ \A k \in Nat : Pauses(d)[k + 1] = Pauses(d)[k] + Bounded(d * Power2[k])
<1>. DEFINE h == [n \in Nat |-> [x \in Nat |-> x + Bounded(d * Power2[n])]]
<1>1. \A n \in Nat : Bounded(d * Power2[n]) \in Nat
  BY Power2Is, ArgumentsAssumption DEF Bounded
<1>2. h \in Rules(Nat) /\ 0 \in Nat
  BY <1>1 DEF Rules
<1>3. \A n, x \in Nat : h[n][x] = x + Bounded(d * Power2[n])
  OBVIOUS
<1>. HIDE DEF h
<1>4. PICK f : Follows(f, Nat, 0, h)
  BY <1>2, Recursion
<1>5. /\ f \in [Nat -> Nat] /\ f[0] = 0
      /\ \A n \in Nat : f[n + 1] = f[n] + Bounded(d * Power2[n])
  BY <1>3, <1>4 DEF Follows
<1>6. ASSUME NEW k \in Nat
      PROVE  f[k] = IF k = 0 THEN 0 ELSE f[k - 1] + Bounded(d * Power2[k - 1])
  <2>1. CASE k = 0
    BY <1>5, <2>1
  <2>2. CASE k # 0
    <3>1. k - 1 \in Nat /\ (k - 1) + 1 = k
      BY <2>2
    <3>. QED
      BY <1>5, <2>2, <3>1
  <2>. QED
    BY <2>1, <2>2
<1>7. f = [k \in Nat |-> IF k = 0 THEN 0 ELSE f[k - 1] + Bounded(d * Power2[k - 1])]
  BY <1>5, <1>6
<1>8. Pauses(d) =
        [k \in Nat |-> IF k = 0 THEN 0 ELSE Pauses(d)[k - 1] + Bounded(d * Power2[k - 1])]
  BY <1>7 DEF Pauses
<1>9. /\ Pauses(d)[0] = 0
      /\ \A k \in Nat : Pauses(d)[k + 1] = Pauses(d)[k] + Bounded(d * Power2[k])
  BY <1>8
<1>. DEFINE T == {k \in Nat : Pauses(d)[k] \in Nat}
<1>10. 0 \in T /\ \A k \in Nat : k \in T => k + 1 \in T
  BY <1>1, <1>9
<1>11. Nat \subseteq T
  <2>. HIDE DEF T
  <2>. QED
    BY <1>10, Induction
<1>12. Pauses(d) = [k \in Nat |-> Pauses(d)[k]]
  BY <1>8
<1>. QED
  BY <1>9, <1>11, <1>12

\* Doubling what was bounded and bounding it again is doubling and bounding once:
\* the loop's next delay is the next of the closed form.
LEMMA NextDelay ==
  ASSUME NEW d \in Nat, NEW k \in Nat
  PROVE  Bounded(2 * Bounded(d * Power2[k])) = Bounded(d * Power2[k + 1])
<1>1. Power2[k] \in Nat /\ Power2[k + 1] = 2 * Power2[k]
  BY Power2Is
<1>2. d * Power2[k + 1] = 2 * (d * Power2[k]) /\ d * Power2[k] \in Nat
  BY <1>1
<1>. DEFINE x == d * Power2[k]
<1>. HIDE DEF x
<1>3. x \in Nat => Bounded(2 * Bounded(x)) = Bounded(2 * x)
  BY ArgumentsAssumption DEF Bounded
<1>. QED
  BY <1>2, <1>3 DEF x

-----------------------------------------------------------------------------
(* The steps of an exchange. *)

\* One more attempt may take one more connect timeout.
LEMMA OneMore ==
  ASSUME NEW n \in Nat \ {0}
  PROVE  /\ (n - 1) * ConnectTimeout \in Nat
         /\ (n + 1 - 1) * ConnectTimeout = (n - 1) * ConnectTimeout + ConnectTimeout
BY ArgumentsAssumption

LEMMA AttemptTypes ==
  ASSUME TypeOK, DelayOK
  PROVE  /\ max_attempts \in Nat \ {0} /\ attempt \in 1..max_attempts /\ attempt - 1 \in Nat
         /\ initial_delay \in Nat /\ delay \in Nat /\ ConnectTimeout \in Nat
         /\ timer \in Nat /\ waited \in Nat /\ Pauses(initial_delay)[attempt - 1] \in Nat
<1>1. /\ max_attempts \in Nat \ {0} /\ attempt \in 1..max_attempts /\ attempt - 1 \in Nat
      /\ initial_delay \in Nat /\ timer \in Nat /\ waited \in Nat
  BY ArgumentsAssumption DEF TypeOK
<1>2. initial_delay * Power2[attempt - 1] \in Nat
  BY <1>1, Power2Is
<1>3. delay \in Nat
  BY <1>2, ArgumentsAssumption DEF DelayOK, Bounded
<1>. QED
  BY <1>1, <1>3, PausesIs, ArgumentsAssumption

\* What a failed attempt leads to: the next one at once or after a pause, or,
\* after the last, the end.
LEMMA AfterFailure ==
  ASSUME IInv, Retry \/ GiveUp
  PROVE  /\ timer' = 0 /\ delay' = delay
         /\ \/ phase' = "connect" /\ attempt < max_attempts /\ attempt' = attempt + 1 /\ delay = 0
            \/ phase' = "pause" /\ attempt < max_attempts /\ attempt' = attempt /\ delay > 0
            \/ phase' = "exhausted" /\ attempt = max_attempts /\ attempt' = attempt
BY DEF Retry, GiveUp, Enter

LEMMA InitIInv == Init => IInv
<1>. SUFFICES ASSUME Init PROVE IInv
  OBVIOUS
<1>. USE ArgumentsAssumption
<1>1. /\ max_attempts \in Nat \ {0} /\ initial_delay \in 0..MaxDelay
      /\ attempt = 1 /\ delay = initial_delay /\ phase = "connect" /\ timer = 0 /\ waited = 0
  BY DEF Init
<1>2. TypeOK /\ PhaseOK
  BY <1>1 DEF TypeOK, PhaseOK
<1>3. DelayOK
  <2>1. Power2[1 - 1] = 1
    BY Power2Is
  <2>2. Bounded(initial_delay * 1) = initial_delay
    BY <1>1 DEF Bounded
  <2>. QED
    BY <1>1, <2>1, <2>2 DEF DelayOK
<1>4. (1 - 1) * ConnectTimeout = 0 /\ Pauses(initial_delay)[1 - 1] = 0
  BY <1>1, PausesIs
<1>5. WaitedOK
  BY <1>1, <1>4 DEF WaitedOK
<1>. QED
  BY <1>2, <1>3, <1>5 DEF IInv

\* With the next attempt come the next delay and the pause of this one.
LEMMA Onwards ==
  ASSUME IInv, initial_delay' = initial_delay, attempt' = attempt + 1
  PROVE  /\ Bounded(2 * delay) = Bounded(initial_delay' * Power2[attempt' - 1])
         /\ delay = 0 => Bounded(2 * delay) = 0
         /\ Pauses(initial_delay')[attempt' - 1] = Pauses(initial_delay)[attempt - 1] + delay
<1>1. initial_delay \in Nat /\ attempt - 1 \in Nat /\ attempt' - 1 = (attempt - 1) + 1
  BY AttemptTypes DEF IInv
<1>2. delay = Bounded(initial_delay * Power2[attempt - 1])
  BY DEF IInv, DelayOK
<1>3. Bounded(2 * 0) = 0
  BY ArgumentsAssumption DEF Bounded
<1>. QED
  BY <1>1, <1>2, <1>3, NextDelay, PausesIs

\* Where a phase ends the time it took is settled: that of a connection within
\* its timeout, that of a pause in the sum of the next attempt.
LEMMA Step == IInv /\ [Next]_vars => IInv'
<1>. SUFFICES ASSUME IInv, [Next]_vars PROVE IInv'
  OBVIOUS
<1>. DEFINE pauses == Pauses(initial_delay)[attempt - 1]
            timeouts == (attempt - 1) * ConnectTimeout
<1>i. TypeOK /\ DelayOK /\ PhaseOK /\ WaitedOK
  BY DEF IInv
<1>t. /\ max_attempts \in Nat \ {0} /\ attempt \in 1..max_attempts /\ initial_delay \in 0..MaxDelay
      /\ delay \in Nat /\ timer \in Nat /\ waited \in Nat /\ ConnectTimeout \in Nat
      /\ pauses \in Nat /\ timeouts \in Nat
  BY <1>i, AttemptTypes, OneMore DEF TypeOK
<1>a. UNCHANGED <<initial_delay, attempt>> => pauses' = pauses /\ timeouts' = timeouts
  OBVIOUS
<1>b. initial_delay' = initial_delay /\ attempt' = attempt + 1 =>
        pauses' = pauses + delay /\ timeouts' = timeouts + ConnectTimeout
  BY <1>t, Onwards, OneMore
<1>w. /\ pauses + (IF phase = "pause" THEN timer ELSE 0) + (IF phase = "connect" THEN timer ELSE 0)
           <= waited
      /\ waited <= pauses + (IF phase = "pause" THEN timer ELSE 0) + timeouts
                    + (IF phase = "connect" THEN timer ELSE ConnectTimeout)
  BY <1>i DEF WaitedOK
<1>z. ASSUME /\ pauses' + (IF phase' = "pause" THEN timer' ELSE 0)
                  + (IF phase' = "connect" THEN timer' ELSE 0) <= waited'
             /\ waited' <= pauses' + (IF phase' = "pause" THEN timer' ELSE 0) + timeouts'
                            + (IF phase' = "connect" THEN timer' ELSE ConnectTimeout)
      PROVE  WaitedOK'
  BY <1>z DEF WaitedOK
<1>. HIDE DEF pauses, timeouts
<1>1. CASE CannotConnect \/ BreakOff
  <2>1. /\ phase \in {"connect", "await"} /\ (Retry \/ GiveUp)
        /\ UNCHANGED <<max_attempts, initial_delay, waited>>
    BY <1>1 DEF CannotConnect, BreakOff
  <2>2. /\ timer' = 0 /\ delay' = delay
        /\ \/ phase' = "connect" /\ attempt < max_attempts /\ attempt' = attempt + 1 /\ delay = 0
           \/ phase' = "pause" /\ attempt < max_attempts /\ attempt' = attempt /\ delay > 0
           \/ phase' = "exhausted" /\ attempt = max_attempts /\ attempt' = attempt
    BY <2>1, AfterFailure
  <2>3. TypeOK' /\ PhaseOK'
    BY <1>i, <1>t, <2>1, <2>2 DEF TypeOK, PhaseOK, Ended
  <2>4. DelayOK'
    <3>1. CASE attempt' = attempt
      BY <1>i, <2>1, <2>2, <3>1 DEF DelayOK
    <3>2. CASE attempt' = attempt + 1
      <4>1. delay = 0
        BY <1>t, <2>2, <3>2
      <4>. QED
        BY <2>1, <2>2, <3>2, <4>1, Onwards DEF DelayOK
    <3>. QED
      BY <2>2, <3>1, <3>2
  <2>5. pauses <= waited /\ waited <= pauses + timeouts + ConnectTimeout
    BY <1>i, <1>t, <1>w, <2>1 DEF PhaseOK
  <2>6. WaitedOK'
    BY <1>t, <1>a, <1>b, <1>z, <2>1, <2>2, <2>5
  <2>. QED
    BY <2>3, <2>4, <2>6 DEF IInv
<1>2. CASE Connect \/ Respond \/ ReadBody
  <2>1. /\ phase \in {"connect", "await", "body"} /\ phase' \in {"await", "body", "read", "unread"}
        /\ timer' = 0 /\ UNCHANGED <<max_attempts, initial_delay, attempt, delay, waited>>
    BY <1>2 DEF Connect, Respond, ReadBody, Enter
  <2>2. TypeOK' /\ PhaseOK' /\ DelayOK'
    BY <1>i, <2>1 DEF TypeOK, PhaseOK, DelayOK, Ended
  <2>3. pauses <= waited /\ waited <= pauses + timeouts + ConnectTimeout
    BY <1>i, <1>t, <1>w, <2>1 DEF PhaseOK
  <2>4. WaitedOK'
    BY <1>t, <1>a, <1>z, <2>1, <2>3
  <2>. QED
    BY <2>2, <2>4 DEF IInv
<1>3. CASE Wake
  <2>1. /\ phase = "pause" /\ timer = delay /\ phase' = "connect" /\ timer' = 0
        /\ attempt' = attempt + 1 /\ delay' = Bounded(2 * delay)
        /\ UNCHANGED <<max_attempts, initial_delay, waited>>
    BY <1>3 DEF Wake, Enter
  <2>2. TypeOK' /\ PhaseOK'
    BY <1>i, <1>t, <2>1 DEF TypeOK, PhaseOK
  <2>3. DelayOK'
    BY <2>1, Onwards DEF DelayOK
  <2>4. WaitedOK'
    BY <1>t, <1>b, <1>w, <1>z, <2>1
  <2>. QED
    BY <2>2, <2>3, <2>4 DEF IInv
<1>4. CASE Pass
  <2>1. /\ \/ phase = "connect" /\ timer < ConnectTimeout
           \/ phase = "pause" /\ timer < delay
        /\ timer' = timer + 1 /\ waited' = waited + 1
        /\ UNCHANGED <<max_attempts, initial_delay, attempt, delay, phase>>
    BY <1>4 DEF Pass
  <2>2. TypeOK' /\ PhaseOK' /\ DelayOK'
    BY <1>i, <1>t, <2>1 DEF TypeOK, PhaseOK, DelayOK
  <2>3. WaitedOK'
    BY <1>t, <1>a, <1>w, <1>z, <2>1
  <2>. QED
    BY <2>2, <2>3 DEF IInv
<1>5. CASE UNCHANGED vars
  BY <1>5 DEF vars, IInv, TypeOK, DelayOK, PhaseOK, WaitedOK
<1>. QED
  BY <1>1, <1>2, <1>3, <1>4, <1>5 DEF Next

-----------------------------------------------------------------------------
(* The theorems. *)

\* An attempt has its number, its delay and its share of the time.
THEOREM Inductive == Spec => []IInv
BY InitIInv, Step, PTL DEF Spec

\* An exchange is given up after exactly as many attempts as were asked for, one
\* if none was.
THEOREM AttemptsAsAsked == Spec => []EveryAttemptMade
<1>1. IInv => EveryAttemptMade
  BY DEF IInv, TypeOK, PhaseOK, EveryAttemptMade
<1>. QED
  BY <1>1, Inductive, PTL

\* The pauses of an exchange double from the initial delay to the largest, and no
\* time is spent but in them, in being connected, and in waiting for a peer.
THEOREM PausesDouble == Spec => []BacksOff
<1>1. ASSUME IInv PROVE BacksOff
  <2>1. /\ attempt - 1 \in Nat /\ attempt \in Nat /\ timer \in Nat /\ waited \in Nat
        /\ ConnectTimeout \in Nat /\ Pauses(initial_delay)[attempt - 1] \in Nat
    BY <1>1, AttemptTypes DEF IInv
  <2>2. attempt * ConnectTimeout = (attempt - 1) * ConnectTimeout + ConnectTimeout
    BY <2>1
  <2>3. (attempt - 1) * ConnectTimeout \in Nat /\ attempt * ConnectTimeout \in Nat
    BY <2>1
  <2>. QED
    BY <1>1, <2>1, <2>2, <2>3 DEF IInv, PhaseOK, WaitedOK, BacksOff
<1>. QED
  BY <1>1, Inductive, PTL
=============================================================================
