CONSTANTS
    convey = convey
    server = server
    None = None
    Service = {convey, server}
    Local = server
    MaxEvents = 4
SPECIFICATION FairSpec
INVARIANTS ChildrenAreWatched ServiceIsKept OneChildPerService StopLeavesNothing
PROPERTIES ServiceComesBack
CHECK_DEADLOCK FALSE
