SPECIFICATION Spec
CONSTANTS
  Days <- MCOneDay
  OldDays <- MCOneDay
  None = None
  Threshold = 2
  MaxDelay = 1
  Delays <- MCOneDelay
  MaxUpdated = 1
  MaxNews = 1
  MaxFailures = 1
  MaxStops = 1
  MaxFaults = 1
  MaxHeld = 1
CONSTRAINT MCNewsOrFault
INVARIANTS OneNoticePerEpisode MissesAreAttempts ActiveHasAttempt
