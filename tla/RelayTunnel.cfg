SPECIFICATION Spec
CONSTANTS
  MaxReq = 2
  MaxRsp = 2
  MaxPending = 1
  Window = 1
INVARIANTS
  TunnelInv
  EofIsComplete
PROPERTY
  TunnelEnds
CHECK_DEADLOCK FALSE
