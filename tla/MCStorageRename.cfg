SPECIFICATION FileSpec
CONSTANTS
  None = None
  NoFile = NoFile
  Slot <- MCSlot
  Value = {0, 1}
  Default = 0
  UserFile <- MCOne
  Faults = {"rename"}
  MaxFaults = 1
  MaxChanges = 2
  LastSector = 1
  Datum = {0, 1}
  MaxCount = 2
  MscCards = {1, 2}
  First <- FirstData
INVARIANT
  NothingLost
