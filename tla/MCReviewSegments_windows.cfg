SPECIFICATION Spec
CONSTANTS
  Events = {e1, e2, e3}
  Lanes = {yard}
  MaxTime = 3
  Gap = 1
  Cap = 2
  MinWindow = 1
  RepairCap = 3
  ShortEvents = TRUE
  OpenUpserts = FALSE
  Reanalysis = TRUE
  Deletions = FALSE
  Contention = TRUE
  Rebuilds = FALSE
  MaxBoots = 0
SYMMETRY ReviewSymmetry
INVARIANTS OneCardPerEvent CardsDisjoint CardCoversEvent
PROPERTIES CardsOnlyWiden
CHECK_DEADLOCK FALSE
