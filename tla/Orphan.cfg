SPECIFICATION Spec
CONSTANTS
    MaxApps = 2
    MaxPools = 0
    MaxSerial = 1
    SLOTS = 2
    SocketCap = 1
    MaxSize = 0
    PollCap = 1
    Keyboards = {}
    Pointers = {}
    Touchscreens = {}
    MaxConfigures = 1
    MaxPings = 0
    MaxSeatEvents = 0
    MaxSeats = 0
    MaxTouch = 0
    Closable = {}
    MayCrash = FALSE
    MaxStarts = 1
INVARIANTS
    NoOrphan
