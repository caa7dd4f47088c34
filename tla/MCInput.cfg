SPECIFICATION Spec
CONSTANTS
  KeyReports <- FourReports
  JoyStates = {"none", "hotkey"}
  EventQueue = 2
  MaxReports = 3
  MaxJoy = 2
  MaxLoads = 1
  MaxInputs = 4
  Mods <- OneMod
  Keys = {1, 2, 8, 9}
  Pause = 8
  Unsent = {9}
  MaxKeyReports = 3
  MaxRepeats = 2
  Debounce = 2
  HoldTimes = {0, 3}
  BtnActions = {"core", "none", "osd", "menu"}
  MaxTurns = 14
  Width = 4
  Deltas <- SomeMoves
  ByteRange = 16
  Speeds = {2, 3}
  MaxMouseReports = 3
  MaxMouseKeys = 1
INVARIANTS KeysRight ButtonsRight PointerRight
PROPERTIES InputRight
CHECK_DEADLOCK FALSE
