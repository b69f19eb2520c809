SPECIFICATION Spec
CONSTANTS
  Events = {e1, e2}
  NoEvent = NoEvent
  Labels = {person}
  NoLabel = NoLabel
  MaxScore = 1
  Sensitivity = 1
  OpenBar = 1
  MinFrames = 1
  StillFrames = 1
  AbsenceFrames = 1
  CapSecs = 1
  WindowSecs = 1
  Scenes = {"busy"}
  RequireObject = {TRUE, FALSE}
  KeepAlives = TRUE
  Faults = TRUE
  MaxBoots = 1
SYMMETRY EventSymmetry
INVARIANTS LiveRowUntouched OpenRowsInProgress GroupedRowsComplete
PROPERTIES ConfirmedNeverDropped ImplementsEventLog
CHECK_DEADLOCK FALSE
