SPECIFICATION Spec
CONSTANTS
  Viewers = {v1, v2, v3}
  Keeper = keeper
  Segments = 3
  Cap = 2
  KeepClips = TRUE
  Commands = {"delete"}
  BadClips = FALSE
SYMMETRY ViewerSymmetry
INVARIANTS CachedClipFinal KeptMoments NoOrphanClip
PROPERTIES ImplementsClipStore
CHECK_DEADLOCK FALSE
