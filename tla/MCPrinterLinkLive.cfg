SPECIFICATION LinkFairSpec
CONSTANTS
  QueueSize = 2
  TransferSize = 1
  WriteMax = 1
  MaxBytes = 1
  MaxMounts = 1
  MaxResets = 1
  Reserve = 1
  Depth = 1
  MaxSwitches = 1
  Cores <- PrinterCore
PROPERTY BusyClears
CHECK_DEADLOCK FALSE
