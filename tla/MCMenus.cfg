SPECIFICATION Spec
CONSTANTS
  Chars = {"/", ".", " ", "a", "b"}
  MaxName = 5
  MaxWidth = 8
  SomeExts <- ExtLists
  CoreFiles <- AllFiles
  MenuFiles <- Menus
  MaxItems = 4
  MaxOptions = 2
  FileSlots = 2
  NoSwitch = 255
  RomHeader = 2
  WORD = 5
  PhysDrives = {"p0"}
  Hotkeys = {1, 3}
  Coincidences = {}
  LoaderFormats = {"kgo1", "kgo2"}
  CutInSave = FALSE
  Cores <- ThreeCores
  AutoloadCore = "b"
  FtPage = 2
  OsdPage = 2
  Countdown = 2
  MaxList = 6
  VideoModes = {0, 1, 2}
  BadModes = {2}
INVARIANTS FilesRight CoreMenuRight BrowseRight SettingsHonest
PROPERTIES AutoloadIsChosen
CHECK_DEADLOCK FALSE
