SPECIFICATION FairSpec
CONSTANTS
  Events = {e1, e2}
  NoEvent = NoEvent
  Labels = {person}
  NoLabel = NoLabel
  MaxScore = 1
  Sensitivity = 1
  OpenBar = 1
  MinFrames = 1
  StillFrames = 1
  AbsenceFrames = 1
  CapSecs = 0
  WindowSecs = 1
  Scenes = {"busy", "parked"}
  RequireObject = {FALSE}
  KeepAlives = FALSE
  Faults = FALSE
  MaxBoots = 0
PROPERTIES ParkedSceneSettles KeptEventsGrouped
CHECK_DEADLOCK FALSE
