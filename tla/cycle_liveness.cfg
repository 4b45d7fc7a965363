\* One update target; several attempts fail in a row.
CONSTANTS
  V4 = {a1, a2}
  V6 = {x1, x2}
  Hosts = {h1}
  None = None
  MaxAttempts = 2
  MaxChanges = 2
  MaxFaults = 2
SPECIFICATION FairSpec
PROPERTIES Ipv4Recorded Ipv4Published CycleEnds Ipv6Recorded
