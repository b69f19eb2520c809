SPECIFICATION Spec
CONSTANTS
  Events = {e1, e2, e3}
  Lanes = {yard}
  MaxTime = 1
  Gap = 1
  Cap = 2
  MinWindow = 1
  RepairCap = 2
  ShortEvents = FALSE
  OpenUpserts = FALSE
  Reanalysis = FALSE
  Deletions = TRUE
  Contention = TRUE
  Rebuilds = TRUE
  MaxBoots = 1
SYMMETRY ReviewSymmetry
INVARIANTS NoDanglingMembers ClosedEventsGrouped
PROPERTIES ImplementsReviewFeed
CHECK_DEADLOCK FALSE
