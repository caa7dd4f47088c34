SPECIFICATION FairSpec
CONSTANTS
  QueueSize = 2
  TransferSize = 2
  WriteMax = 2
  MaxBytes = 3
  MaxMounts = 2
  MaxResets = 1
INVARIANTS Conservation DeliveryKnown
PROPERTIES StreamSpec Finishes
CHECK_DEADLOCK FALSE
