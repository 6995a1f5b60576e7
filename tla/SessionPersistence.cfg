SPECIFICATION FairSpec
CONSTANTS
  Conv = {c1, c2}
  MaxRows = 3
  MaxMinted = 3
  MaxMixed = 2
  MaxSaves = 2
  MaxCrashes = 1
INVARIANTS RowsSound PublishedAtHome TipAnswered
PROPERTIES LoopComesBack
CHECK_DEADLOCK FALSE
