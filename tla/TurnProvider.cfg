SPECIFICATION TurnSpec
CONSTANTS
  TTL = 12
  Advance = 6
  MinValidity = 2
  RetryDelay = 1
  MinDelay = 1
  Timeout = 1
  MaxTime = 40
INVARIANTS
  CredentialsInv
  LapseNeedsFailures
CHECK_DEADLOCK FALSE
