CONSTANTS
  Files <- SomeFiles
  Starts <- SomeStarts
  Growths = {1}
  Models <- SomeModels
  MaxReplies = 2
  PeekLimit = 2
  Keys = {0, 1}
  MaxTurns = 3
  MaxRuns = 2
  Processes = {p1, p2}
  Texts <- SomeTexts
  MaxMessages = 3
  MaxFaults = 1
  MaxOverlaps = 1
  BatchSize = 2
  ShingleSize = 2
  HashCount = 2
  Bands = 2
  Threshold = 1
  HashOf <- SomeHash
  Openers = {o1, o2}
  MaxFailures = 1
  Types = {t1, t2}
  Words = {w1, w2}
  Conversations = {c1, c2}
  Directories = {d1, d2}
  MaxWrites = 2
  MaxLog = 3
  FirstYear = 2023
  Years = 3
  Zones <- SomeZones
  Nows <- SomeNows
  ConversationOf <- SomeTurns
  Instants <- SomeInstants
  MaxRows = 3
  MaxWindow = 1
SPECIFICATION Spec
INVARIANTS RecordsAgree StoresHold
PROPERTIES EverythingIsSwept
CHECK_DEADLOCK FALSE
