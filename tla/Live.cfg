SPECIFICATION FairSpec
CONSTANTS
    MaxApps = 1
    MaxPools = 1
    MaxSerial = 1
    SLOTS = 2
    SocketCap = 1
    MaxSize = 1
    PollCap = 1
    Keyboards = {}
    Pointers = {}
    Touchscreens = {}
    MaxConfigures = 1
    MaxPings = 1
    MaxSeatEvents = 0
    MaxSeats = 0
    MaxTouch = 0
    Closable = {1}
    MayCrash = TRUE
    MaxStarts = 1
INVARIANTS
    PingNotLost
PROPERTIES
    GetsConfigured
    SlotComesBack
    PingAnswered
    CloseReported
    LossNoticed
