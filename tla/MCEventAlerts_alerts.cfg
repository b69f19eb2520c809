SPECIFICATION FairSpec
CONSTANTS
  MaxEvent = 1
  Cycle = cycle
  Backfill = backfill
  Mids = {m1}
  Prefs <- Offered
  NoPrefs = NoPrefs
  CycleBatch = 1
  BackfillBatch = 1
  Rules = {FALSE, TRUE}
  Verdicts = {3}
  MaxBoots = 1
INVARIANTS OneAlertPerLoop
PROPERTIES ImplementsAlertBook ClosedEventsAnalysed UnansweredEscalates
CHECK_DEADLOCK FALSE
