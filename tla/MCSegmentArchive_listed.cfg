SPECIFICATION FairSpec
CONSTANTS
  MaxSegments = 2
  Commands = {"clear", "range"}
  Watchdog = FALSE
  Locks = TRUE
  Faults = TRUE
  MaxBoots = 1
INVARIANTS ListingMatchesDisk
PROPERTIES ReadableKept ClearedGone SegmentsSettle
CHECK_DEADLOCK FALSE
