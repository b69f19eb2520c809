SPECIFICATION FairSpec
CONSTANTS
  Cams = {c1, c2}
  Mics = {mic}
  MicOf <- OneMic
  Buffering = {c1}
  Tasks = {t1, t2}
  MaxSound = 2
  None = None
  MaxActs = 3
  MaxPolls = 1
INVARIANTS OneListener OpenSoundsOwned AlertedOnce OneInstall
PROPERTIES StoppedSoundEnds UpdateLands
CHECK_DEADLOCK FALSE
