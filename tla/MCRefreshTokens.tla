-------------------------- MODULE MCRefreshTokens --------------------------
(* The instance of RefreshTokens for TLC: requests and selectors are alike. *)
EXTENDS RefreshTokens, TLC

Symmetry == Permutations(Requests) \cup Permutations(Selectors)
=============================================================================
