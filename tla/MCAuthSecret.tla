---------------------------- MODULE MCAuthSecret ---------------------------
(* The instance of AuthSecret for TLC: processes and secrets are alike. *)
EXTENDS AuthSecret, TLC

Symmetry == Permutations(Processes) \cup Permutations(Secrets)
=============================================================================
