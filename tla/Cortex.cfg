SPECIFICATION FairSpec
CONSTANTS
  Uses = {u}
  None = None
  Outputs <- MCOutputs
  Awaited = {u}
  Lossy = TRUE
  MaxRequests = 2
  MaxStops = 2
INVARIANTS CompletedLogIsConclusive LiveLogHasOwner AnswerIsRecorded
PROPERTIES RunOnce ClaimedUseCompletes ShutdownEnds
CHECK_DEADLOCK FALSE
