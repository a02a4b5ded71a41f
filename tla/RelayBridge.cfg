SPECIFICATION Spec
CONSTANTS
  Offsets = {o1, o2}
  Watched = o1
  MaxPorts = 2
  MaxPending = 2
  MaxStarts = 2
  MaxData = 4
  MaxFaults = 2
INVARIANTS
  BridgeInv
  QueueInv
PROPERTY
  UdpFlows
CHECK_DEADLOCK FALSE
