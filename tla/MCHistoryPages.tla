--------------------------- MODULE MCHistoryPages --------------------------
(* The instance of HistoryPages for TLC. *)
EXTENDS HistoryPages
=============================================================================
