SPECIFICATION FairSpec
CONSTANTS
  Task = {APP, INPUT}
  App = APP
  None = None
  QueueSize = 2
  MaxFrames = 4
  MaxLoads = 1
INVARIANTS BusRight
PROPERTIES FramesRight CallsAndFramesEnd
