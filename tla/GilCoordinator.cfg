\* Release build: one account, two leases.
SPECIFICATION FairSpec
CONSTANTS
  Account = {a}
  LeaseId = {l1, l2}
  Slot = {s1, s2}
  Login = {n1}
  MaxViews = 2
  None = None
INVARIANT ClientInv
PROPERTY BusyEndsOutsideRace
