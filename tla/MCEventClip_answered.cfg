SPECIFICATION FairSpec
CONSTANTS
  Viewers = {v1}
  Keeper = keeper
  Segments = 3
  Cap = 2
  KeepClips = TRUE
  Commands = {"delete", "range", "history", "purge"}
  BadClips = TRUE
PROPERTIES RequestsEnd DeletedClipGone
CHECK_DEADLOCK FALSE
