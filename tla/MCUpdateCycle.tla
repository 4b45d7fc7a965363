--------------------------- MODULE MCUpdateCycle ---------------------------
(* Instances of UpdateCycle for TLC. *)
EXTENDS UpdateCycle, TLC

\* Addresses and hosts are only compared for equality.
Symmetry == Permutations(V4) \cup Permutations(V6) \cup Permutations(Hosts)
=============================================================================
