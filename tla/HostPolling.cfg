SPECIFICATION Spec
CONSTANTS
  h1 = h1
  h2 = h2
  relay = relay
  lan = lan
  Hosts = {h1, h2}
  Addresses = {relay, lan}
  Leases <- MCLeases
  NoAddress = NoAddress
  MaxWork = 5
INVARIANTS
  PollingInv
PROPERTIES
  LeasedHostAppears
  QuitEnds
CHECK_DEADLOCK FALSE
