CONSTANTS
  ToolId = {t1, t2}
  Inputs = {"array", "none"}
  CompactModes = {"no", "pause"}
  CompactEnabled = {TRUE, FALSE}
  MaxLen = 4
  MaxTyped = 3
SPECIFICATION Spec
CHECK_DEADLOCK FALSE
INVARIANTS ConversationSound TypedTextKept
PROPERTIES PrefixIsStable KeepsLog
