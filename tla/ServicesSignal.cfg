CONSTANTS
    convey = convey
    server = server
    None = None
    Service = {convey, server}
    Local = server
    MaxEvents = 1
SPECIFICATION FairSpec
PROPERTIES
    SignalStops
CHECK_DEADLOCK FALSE
