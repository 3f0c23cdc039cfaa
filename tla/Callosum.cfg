SPECIFICATION FairSpec
CONSTANTS
  a = a
  b = b
  Clients = {a, b}
  SendMax = 2
  BroadcastMax = 1
  MaxEmits <- OneSender
  MaxConns = 3
  MaxFaults = 2
  None = None
INVARIANTS SentOnceInOrder
PROPERTIES OneOrderForAll QueuedIsHeard ClientReconnects
CHECK_DEADLOCK FALSE
