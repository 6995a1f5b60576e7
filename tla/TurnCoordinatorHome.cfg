SPECIFICATION Spec
CONSTANTS
  MaxQueries = 2
  MaxRows = 4
  MaxConv = 2
  None = None
PROPERTY OutputStaysHome
CHECK_DEADLOCK FALSE
