SPECIFICATION FairSpec
CONSTANTS
  MaxQueries = 3
  MaxRows = 4
  MaxConv = 2
  None = None
CHECK_DEADLOCK FALSE
INVARIANTS BusyWhileTaken
PROPERTIES SaysNeverOverwritten TurnsStartUncancelled AcceptedSayRuns CancelReleases
