CONSTANTS
  Dirs = {"d1", "d2"}
  Home = "home"
  Contents <- SomeContents
  Additive = {}
  Defaults <- SomeDefaults
  Overrides = {"none", "m3"}
  Lists <- SomeLists
  MaxLeaves = 4
  FileTexts <- SomeTexts
  Insertions <- SomeInsertions
  Needles <- SomeNeedles
  Patterns <- SomePatterns
  Replacements <- SomeReplacements
  CONTEXT = 1
  MaxEdits = 2
  MaxEntries = 7
  MaxLine = 3
  Raws <- SomeSections
  DefaultRules <- BuiltIn
  Commands <- SomeCommands
  Sessions = {"c1", "c2"}
  Cwd = "o"
  Layouts <- SomeLayouts
  Matrices <- SomeMatrices
  ToolOperations <- SomeOperations
  WorkspaceTools = {"EditFile", "DeleteFile"}
  Frictionless = {"WriteMemory"}
  Calls <- SomeCalls
  MaxMoves = 1
  MaxHops = 4
SPECIFICATION Spec
INVARIANTS CommandsSound CallsStayWithin
PROPERTIES NobodyWaits
CHECK_DEADLOCK FALSE
