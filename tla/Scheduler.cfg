CONSTANTS
    daily = daily
    minutes = minutes
    heartbeat = heartbeat
    cadence = cadence
    None = None
    Coarse <- MCCoarse
    Interval <- MCInterval
    Partition <- MCApart
    Extra <- MCExtra
    MaxMark = 2
    MaxRequests = 2
    MaxExtra = 1
    MaxFaults = 1
SPECIFICATION FairSpec
INVARIANTS OverdueIsAccountedFor
PROPERTIES RecordsAreKept IntervalEntryRuns OverdueIsCaughtUp
CHECK_DEADLOCK FALSE
