\* One VM, two users, two handlers at a time.
CONSTANTS
  NumVMs = 1
  Owner = {o1, o2}
  Device = {d1}
  LeaseId = {i1, i2, i3}
  TTL = 2
  Addr = {a1}
  NoAddr = NoAddr
  Port = {1}
  Configs <- OneVM
  Slot = {s1, s2}
  NoClient = NoClient
  CloseTicks = 1
  PairTicks = 2
  DialTicks = 1
  CheckTicks = 1
SPECIFICATION CSpec
SYMMETRY Symmetry
INVARIANT CoordinatorInv
PROPERTY KickHitsOnlyItsLease
