SPECIFICATION FairSpec
CONSTANTS
  Days <- MCOneDay
  OldDays <- MCNoDays
  None = None
  Threshold = 2
  MaxDelay = 1
  Delays <- MCOneDelay
  MaxUpdated = 1
  MaxNews = 1
  MaxFailures = 1
  MaxStops = 1
  MaxFaults = 0
  MaxHeld = 0
PROPERTIES PendingDayCompletes
