CONSTANTS
  Convs = {"c1", "c2"}
  Dirs = {"d1", "d2"}
  Unsaid = "unsaid"
  Detached = "detached"
  Sizes = {1, 2}
  MaxResizes = 3
  MaxChanges = 2
  Askers = {1, 2, 3}
  MaxFailures = 2
  Files = {"f"}
  Skills = {"s1"}
  MaxTouches = 3
  Tools = {"Skill", "Edit", "AzCli"}
  Stranger = "ghost"
  Accounted = {"AzCli"}
  Required = {"s1", "s2"}
  Configs <- SomeConfigs
  MaxCalls = 3
  MaxReloads = 1
  Options <- SomeOptions
  Conversations <- SomeConversations
  TsTools = {"diagnostics", "hover"}
  FileOf <- SameFile
  Requests <- SomeRequests
  MaxBlocks = 2
  MaxMishaps = 1
  Callers = {c1, c2}
  Lifetimes = {4, 6}
  Fallback = 4
  MaxNow = 3
  MaxLogins = 3
SPECIFICATION Spec
INVARIANTS ProcessSound CallsSound RequestsSound
PROPERTIES ProcessSettles
CHECK_DEADLOCK FALSE
