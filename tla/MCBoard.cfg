SPECIFICATION BoardSpec
CONSTANTS
  Games = {g1, g2}
  None = None
  MaxChanges = 2
  MaxFails = 1
  FloppySlots = {0, 1}
  Spellings = {"code"}
  MaxSav = 2
  Volumes <- Vols
  SavSizes = {1, 2}
  Capacity = 5
  MaxDigit = 2
  Cell = {c1, c2}
  Value = {0, 1}
  Erased = 0
  Core = {k1, k2}
  Kgo2 = {k2}
  Bk = {k1}
  Quiet = 1
  MaxAge = 3
  Gap = 2
  Faults = {"refused"}
  ClockCores <- RtcCores
  FirstTime <- BoardTime
  WrittenDays = {10, 31, 40}
  WrittenRegBs = {"bin", "bin_set", "bcd"}
  MaxRtcWrites = 2
  MaxRtcLoads = 1
  MaxSets = 1
  MaxSeconds = 1
  MatrixCores <- SomeMatrixCores
  MxButtons = {1, 2}
  ScrollSteps = 1
  MaxMxLoads = 2
  MaxMxEdits = 1
  MaxPresses = 2
  MaxDraws = 1
  KG_MATRIX_W = 6
  KG_MATRIX_H = 8
  PongRow = 2
  ServeSpeeds = {1}
  Slope = 1
  Spins <- BothSpins
  ServeWait = 2
  LifeW = 3
  LifeH = 3
  MaxStill = 3
  MaxLife = 6
  TailLength = 3
  Drives = {0, 1}
  LedSteps = 2
  HoldFrames = 3
  FallFrames = 3
  SomePeaks = {200, 20000}
  MaxAccesses = 3
  MaxRaises = 2
  VideoModes = {"640", "800"}
  Pages <- SomePages
  FifoWords = 64
  TextLen = 5
  MaxPages = 1
  MaxStarts = 2
  MaxBadTries = 6
  MaxHeldUp = 5
  StartCores <- SomeStartCores
  ChunkLen = 2
  FifoLen = 1
  BufLen = 4
  BurstLen = 2
  BankLen = 4
  QueryRounds = 3
  OSD_SIZE_X = 6
  OSD_SIZE_Y = 4
  MaxCoreStarts = 2
  MaxReadFails = 1
  MaxNotReady = 1
  MaxScreens = 2
INVARIANTS SaveRight DiskRight DirtyCounts SavedInTime
  BoardRight
PROPERTIES NothingWaits 
CHECK_DEADLOCK FALSE
