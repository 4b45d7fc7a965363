----------------------------- MODULE IpCheckers -----------------------------
(***************************************************************************)
(* What the two address checkers of src/src/dyndns/checker compute once    *)
(* their lookups have answered.  A Vec of IPv6 addresses is a set here:    *)
(* the code only tests membership, emptiness and "exactly one element".    *)
(* An Option of an address that is None is the constant None; an Option of *)
(* a Vec that is None is the empty set, since the code never makes a Some  *)
(* of an empty Vec.                                                        *)
(***************************************************************************)
CONSTANT None

CheckResult(p, c, e) == [previous |-> p, current |-> c, external |-> e]

\* CheckResult::default(), "nothing to do": also what run_checker makes of an
\* error.
DefaultResult4 == CheckResult(None, None, None)
DefaultResult6 == CheckResult({}, {}, None)

\* MUTANT of CheckIpv4: the loaded address is not compared.
CheckIpv4Always(previous, ip) == CheckResult(previous, ip, ip)

\* Ipv4Checker::check after its lookup returned ip.
CheckIpv4(previous, ip) ==
  IF previous = ip THEN DefaultResult4 ELSE CheckResult(previous, ip, ip)

-----------------------------------------------------------------------------
(***************************************************************************)
(* Ipv6Checker::check.  A row is the latest IPv6 history row with its two  *)
(* columns parsed into sets: row.old is `previous` and row.new is `latest` *)
(* of Ipv6HistorySnapshot.  An empty table reads as EmptyRow, for which    *)
(* the formulas below give what the code's else branch does.               *)
(***************************************************************************)
EmptyRow == [old |-> {}, new |-> {}]

\* MUTANT of KnownAddresses: only the latest list is known.
KnownLatestOnly(row) == row.new

\* known_addresses: everything the row lists counts as handled.
KnownAddresses(row) == row.new \cup row.old

\* MUTANT of Unseen: one address that is still there hides the new ones.
UnseenIfNoneRetained(row, addrs) ==
  IF addrs \cap KnownAddresses(row) = {} THEN addrs ELSE {}

\* The two halves of the partition: `current` and `retained`.
Unseen(row, addrs) == addrs \ KnownAddresses(row)
Retained(row, addrs) == addrs \cap KnownAddresses(row)

\* MUTANT of PreviousIpv6: no fallback to the latest list.
RetainedOnly(row, addrs) == Retained(row, addrs)

PreviousIpv6(row, addrs) ==
  IF Retained(row, addrs) = {} THEN row.new ELSE Retained(row, addrs)

\* One new address is published as it is; several need the external lookup,
\* which fills in the external field later.
OnlyAddress(current) ==
  IF \E a \in current : current = {a} THEN CHOOSE a \in current : TRUE
  ELSE None

DiffIpv6(row, addrs) ==
  CheckResult(PreviousIpv6(row, addrs), Unseen(row, addrs),
              OnlyAddress(Unseen(row, addrs)))

NeedsExternal(result) == result.current # {} /\ result.external = None
=============================================================================
