\* Two IPv4 addresses and two update targets.
CONSTANTS
  V4 = {a1, a2}
  V6 = {x1}
  Hosts = {h1, h2}
  None = None
  MaxAttempts = 3
  MaxChanges = 3
  MaxFaults = 3
SYMMETRY Symmetry
SPECIFICATION Spec
INVARIANTS History4Chain MirrorsProvider
PROPERTIES Ipv4RecordedFirst Publishes
