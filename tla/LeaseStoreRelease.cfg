\* What a release acknowledgement is worth after a crash.
CONSTANTS
  NumVMs = 1
  Owner = {o1, o2}
  Device = {d1}
  LeaseId = {i1, i2, i3}
  TTL = 2
  Addr = {a1}
  NoAddr = NoAddr
  Port = {1}
  Configs <- OneVMConfigs
SPECIFICATION Spec
INVARIANT ReleasedStaysReleased
