SPECIFICATION FairSpec
CONSTANTS
    Callers = {c1, c2}
    Connector = c1
    MaxApps = 1
    MaxEvents = 1
    MaxFrames = 1
    MaxCalls = 3
PROPERTIES
    CallsReturn
