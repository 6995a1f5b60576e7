CONSTANTS
  Replies <- TwoReplies
  MaxDeltas = 1
  Growths = {0}
  MaxTurns = 2
  MaxNotices = 1
  Frames <- SomeFrames
  MaxFrames = 2
  Subs = {1, 2}
  MaxSends = 3
  MaxDrains = 2
  MaxTime = 4
  Messages <- SomeMessages
  MaxMessages = 3
  MAX_RETRIES = 10
  BASE_DELAY_MS = 500
  MAX_DELAY_MS = 32000
  STREAM_INTERRUPT_MAX_RETRIES = 2
  STREAM_INTERRUPT_DELAY_MS = 30000
  RETRY_AFTER_CAP_MS = 60000
  ACCOUNT_LIMIT_BUDGET_MS = 600000
  Errors <- SomeErrors
  RequestTimes <- Times
  Jitters = {100}
  MaxSeen = 12
  ToolId = {t1, t2}
  NoAsk = NoAsk
SPECIFICATION Spec
INVARIANTS ReplySound Delivered TimesAreTrue RetriesBounded AsksSound
PROPERTIES NoRequestAfterAbort WaitsEnd
CHECK_DEADLOCK FALSE
