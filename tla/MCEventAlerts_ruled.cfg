SPECIFICATION Spec
CONSTANTS
  MaxEvent = 2
  Cycle = cycle
  Backfill = backfill
  Mids = {}
  Prefs <- Thresholds
  NoPrefs = NoPrefs
  CycleBatch = 1
  BackfillBatch = 2
  Rules = {FALSE, TRUE}
  Verdicts = {0, 1, 2, 3}
  MaxBoots = 0
INVARIANTS RuledAlertsSent
CHECK_DEADLOCK FALSE
