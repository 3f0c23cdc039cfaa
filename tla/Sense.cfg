SPECIFICATION FairSpec
CONSTANTS
  s1 = s1
  s2 = s2
  k1 = k1
  k2 = k2
  f1 = f1
  f2 = f2
  f3 = f3
  f4 = f4
  transcribe = transcribe
  describe = describe
  None = None
  Segs = {s1, s2}
  Keys = {k1, k2}
  KeyOf <- OwnName
  Files = {f1, f2, f3, f4}
  FilesOf <- MCFilesOf
  Handlers = {transcribe, describe}
  HandlerOf <- MCHandlerOf
  Batch = {s2}
  Workers <- MCWorkers
  Retries = {transcribe}
  MaxVanish = 1
  MaxUntouched = 1
INVARIANTS ObservedAfterLastFile EventIsFaithful ThroughIsMarked
PROPERTIES AnnouncedIsObserved StopReturns
CHECK_DEADLOCK FALSE
