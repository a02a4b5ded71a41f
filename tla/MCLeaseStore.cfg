\* Two clients, two VMs, three configurations, every operation and failure.
CONSTANTS
  NumVMs = 2
  Owner = {o1, o2}
  Device = {d1}
  LeaseId = {i1, i2, i3}
  TTL = 2
  Addr = {a1}
  NoAddr = NoAddr
  Port = {1}
  Configs <- MCConfigs
SPECIFICATION FairSpec
INVARIANTS StoreInv Durable PromiseKept
PROPERTIES ImplementsPool NoStarvation
