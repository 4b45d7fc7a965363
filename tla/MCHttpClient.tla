---------------------------- MODULE MCHttpClient ---------------------------
(* The instance of HttpClient for TLC. *)
EXTENDS HttpClient
=============================================================================
