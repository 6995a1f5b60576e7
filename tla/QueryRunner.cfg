CONSTANTS
  ToolId = {t1, t2}
  ApprovalModes = {TRUE, FALSE}
  Hanging = {t1, t2}
  MaxEmptyRetries = 2
  MaxLen = 6
SPECIFICATION FairSpec
INVARIANTS RequestsWellFormed CancelDrainsApprovals SecondCancelEscalates RunsAreReported
PROPERTIES NoRequestAfterCancel ImplementsLog CancelEndsQuery
