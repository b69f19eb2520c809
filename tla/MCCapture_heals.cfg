SPECIFICATION FairSpec
CONSTANTS
  Cams = {c1}
  Users = {u1}
  Watch = watch
  Reshape = reshape
  Clear = clear
  None = None
  MaxFaults = 2
  MaxCommands = 3
INVARIANTS OneCapture RemovedStaysOff
PROPERTIES RecordingHeals
