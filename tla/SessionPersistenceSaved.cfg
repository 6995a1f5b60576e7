SPECIFICATION Spec
CONSTANTS
  Conv = {c1}
  MaxRows = 3
  MaxMinted = 3
  MaxMixed = 2
  MaxSaves = 2
  MaxCrashes = 0
PROPERTIES SavedStaysSaved
CHECK_DEADLOCK FALSE
