SPECIFICATION FairSpec
CONSTANTS
  Asked <- TwoSectors
  WriteData <- New
  Mounts <- AnyMounts
  Prompt = TRUE
  MaxRequests = 2
  MaxRepeats = 3
  MaxFaults = 2
  MaxCuts = 1
PROPERTIES SectorsMoveRight Answered Synced
CHECK_DEADLOCK FALSE
