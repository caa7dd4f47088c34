SPECIFICATION Spec
CONSTANTS
  PadModels = {"p", "q"}
  Mappable = {"p"}
  OwnFile <- TwoPads
  DriverFiles = {1, 2, 3}
  HidIndex = {0, 1}
  XPads = {0}
  AutoMaps = 1
  MaxDrivers = 2
  MaxBackups = 1
  MaxDriverOps = 1
  MaxPlugs = 3
  MaxPadReports = 2
  LearnCases <- Learnings
  DescCases <- Descriptors
  AxisCases <- AxisReadings
  SegaCases <- SegaReadings
  RestMargin = 24
  AxisMin = 48
  MaxUsages = 16
  MaxReportIds = 8
  MaxPush = 4
  MaxFields = 24
  LearnPads = {"p", "q"}
  LearnIndex = {1, 2}
  HeldOnPad = {"rest", "a"}
  LearnButtons = 2
  ReportIds = {1}
  LearnScreens = {"text", "graphic"}
  MaxFeeds = 4
  MaxLearnKeys = 4
  MaxSwaps = 1
  MaxLate = 2
  MaxPorts = 1
INVARIANTS PadsRight MapsRight LearnRight
CHECK_DEADLOCK FALSE
