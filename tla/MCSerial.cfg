SPECIFICATION Spec
CONSTANTS
  RxSize = 1
  TxSize = 2
  Divisors <- SomeDivisors
  MaxAdapters = 2
  MaxUartBytes = 3
  MaxBauds = 1
  Cins = {4, 5, 9, 12, 15}
  MidiQueue = 3
  SEQ = 8
  MaxMidi = 2
  MaxPackets = 3
  MaxMidiLoads = 1
  Prefix <- AT
  Typed = {"A", "T", "e", "cr", "lf"}
  MaxArg = 1
  MaxTyped = 6
  MaxAdapterTurns = 1
  MaxCoreLoads = 1
  Networks = {"n1", "n2"}
  Modules <- SomeModules
  Strengths = {1}
  MaxLateLines = 1
  MaxScan = 2
  OpenNets = {"n1"}
  ApMax = 2
  ListRows = 1
  EchoTries = 2
  MaxWifiKeys = 4
  ModNames = {"ctrl", "shift"}
  KeyNames = {"a", "b"}
  Lines <- InjectLines
  InjectN = 4
  MaxLines = 4
  SsidChars = {"q", "b", ",", "1", "a", "-", ")"}
  MaxSsid = 4
  UpdTimes = {0, 999, 1000, 8000, 9999, 10000, 15000, 20000, 30000, 400000}
  Zones = {0, 1}
  TimeTries = 2
  MaxClockKeys = 4
  MaxMinutes = 1
  FirstDay <- Dec1999
  LastYear = 2099
  Masks <- FieldMasks
  DayTimes = {0, 700, 1439}
  MaxRealReports = 2
INVARIANTS SerialRight WifiAndTexts TimeRight
CHECK_DEADLOCK FALSE
