SPECIFICATION StorageSpec
CONSTANTS
  None = None
  NoFile = NoFile
  Slot <- MCSlot
  Value = {0, 1}
  Default = 0
  UserFile <- MCUserFile
  Faults = {"read", "create", "write", "remove", "rename"}
  MaxFaults = 2
  MaxChanges = 2
  LastSector = 1
  Datum = {0, 1}
  MaxCount = 2
  MscCards = {1, 2}
  First <- FirstData
INVARIANTS FileKept KnownTrue CardAndMscRight
PROPERTIES StorageEnds
CHECK_DEADLOCK FALSE
