------------------------------ MODULE MCDyndns -----------------------------
(* The instance of Dyndns for TLC: the first request asks for IPv4, the others *)
(* for both families. *)
EXTENDS Dyndns

CONSTANT r1

RequestSettings ==
  [r \in Requests |-> [ip |-> IF r = r1 THEN "V4" ELSE "ALL", host |-> CHOOSE h \in Hosts : TRUE]]
=============================================================================
