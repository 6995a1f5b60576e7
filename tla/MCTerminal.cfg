CONSTANTS
  Alphabet = {"a", "_", "W", "m", "r"}
  ColsSet = {2, 3}
  Prefix = 1
  Window = 2
  MaxUnits = 3
  MaxEvents = 2
  Items = {p, q}
  MaxReads = 2
  MaxAdds = 3
  Convs = {c1, c2}
  Start = c1
  None = None
  MaxChanges = 1
  MaxRefreshes = 2
  MaxTools = 2
  MaxBlocks = 3
  PageBlocks = 2
  PageLines = 2
  Extents = {0, 1, 3}
  LineStep = 2
  Totals = {0, 1, 3, 4, 6, 8}
  Visibles = {0, 1, 3}
  Widths = {1, 2}
SPECIFICATION Spec
INVARIANTS TerminalSound
PROPERTIES ViewKeepsUp TextIsFlat
CHECK_DEADLOCK FALSE
