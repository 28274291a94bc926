SPECIFICATION Spec
CONSTANTS
    MaxApps = 2
    MaxPools = 2
    MaxSerial = 1
    SLOTS = 1
    SocketCap = 3
    MaxSize = 1
    PollCap = 1
    Keyboards = {}
    Pointers = {}
    Touchscreens = {}
    MaxConfigures = 1
    MaxPings = 0
    MaxSeatEvents = 0
    MaxSeats = 0
    MaxTouch = 0
    Closable = {1}
    MayCrash = FALSE
    MaxStarts = 2
INVARIANTS
    SlotSafety
    ConfigureComes
    CloseNotLost
PROPERTIES
    HandlesNeverReused
