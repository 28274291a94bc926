SPECIFICATION FairSpec
CONSTANTS
    MaxApps = 1
    MaxPools = 0
    MaxSerial = 3
    SLOTS = 2
    SocketCap = 3
    MaxSize = 0
    PollCap = 1
    Keyboards = {2}
    Pointers = {1, 2}
    Touchscreens = {}
    MaxConfigures = 0
    MaxPings = 0
    MaxSeatEvents = 3
    MaxSeats = 2
    MaxTouch = 0
    Closable = {}
    MayCrash = FALSE
    MaxStarts = 1
INVARIANTS
    InputInOrder
    DevicesAsked
PROPERTIES
    InputPolled
    DevicesTaken
