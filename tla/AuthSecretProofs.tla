-------------------------- MODULE AuthSecretProofs -------------------------
(***************************************************************************)
(* Proofs about AuthSecret, for every set of processes and secrets: the    *)
(* argument is that nobody is past load_or_create without the stored       *)
(* secret, and that the insert writes over none.                           *)
(***************************************************************************)
EXTENDS AuthSecret, TLAPS

LEMMA InitIInv == Init => IInv
BY DEF Init, IInv, TypeOK

\* The stored secret is written once.
LEMMA SecretStep ==
  ASSUME IInv, [Next]_vars, auth_secrets # None PROVE auth_secrets' = auth_secrets
BY DEF Next, Start, LoadSecret, DrawSecret, InsertSecret, InsertConflicts, Serve, Sign, Die, vars

LEMMA IInvStep == IInv /\ [Next]_vars => IInv'
<1>. SUFFICES ASSUME IInv, [Next]_vars PROVE IInv'
  OBVIOUS
<1>. USE NoneAssumption DEF IInv, TypeOK, Goto
<1>1. ASSUME NEW p \in Processes, Start(p) PROVE IInv'
  BY <1>1 DEF Start
<1>2. ASSUME NEW p \in Processes, LoadSecret(p) PROVE IInv'
  BY <1>2 DEF LoadSecret
<1>3. ASSUME NEW p \in Processes, DrawSecret(p) PROVE IInv'
  BY <1>3 DEF DrawSecret
<1>4. ASSUME NEW p \in Processes, InsertSecret(p) PROVE IInv'
  <2>1. secret[p] \in Secrets /\ signed = {}
    BY <1>4 DEF InsertSecret
  <2>2. \A q \in Processes : at[q] \notin {"bind", "serve"}
    BY <1>4 DEF InsertSecret
  <2>. QED
    BY <1>4, <2>1, <2>2 DEF InsertSecret
<1>5. ASSUME NEW p \in Processes, InsertConflicts(p) \/ Die(p) PROVE IInv'
  BY <1>5 DEF InsertConflicts, Die
<1>6. ASSUME NEW p \in Processes, Serve(p) PROVE IInv'
  BY <1>6 DEF Serve
<1>7. ASSUME NEW p \in Processes, Sign(p) PROVE IInv'
  <2>1. secret[p] = auth_secrets /\ auth_secrets \in Secrets
    BY <1>7 DEF Sign
  <2>. QED
    BY <1>7, <2>1 DEF Sign
<1>8. CASE UNCHANGED vars
  BY <1>8 DEF vars
<1>. QED
  BY <1>1, <1>2, <1>3, <1>4, <1>5, <1>6, <1>7, <1>8 DEF Next

-----------------------------------------------------------------------------
(* Theorems. *)

\* The row and the processes keep the inductive invariant.
THEOREM SecretInductive == Spec => []IInv
BY InitIInv, IInvStep, PTL DEF Spec

\* A token signed by any process is accepted by every one that serves.
THEOREM SignaturesAlwaysLast == Spec => []SignaturesLast
<1>1. IInv => SignaturesLast
  BY DEF IInv, SignaturesLast
<1>. QED
  BY <1>1, SecretInductive, PTL

\* The stored secret is never replaced.
THEOREM SecretAlwaysKept == Spec => SecretKept
<1>1. IInv /\ [Next]_vars => [auth_secrets # None => auth_secrets' = auth_secrets]_vars
  BY SecretStep
<1>. QED
  BY <1>1, SecretInductive, PTL DEF Spec, SecretKept
=============================================================================
