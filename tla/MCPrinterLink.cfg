SPECIFICATION LinkSpec
CONSTANTS
  QueueSize = 2
  TransferSize = 1
  WriteMax = 1
  MaxBytes = 4
  MaxMounts = 1
  MaxResets = 1
  Reserve = 1
  Depth = 2
  MaxSwitches = 1
  Cores <- PlainCores
INVARIANTS PrintedOnce ReserveHolds CoreChanges
CHECK_DEADLOCK FALSE
