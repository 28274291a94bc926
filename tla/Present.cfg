SPECIFICATION Spec
CONSTANTS
    MaxApps = 1
    MaxPools = 2
    MaxSerial = 2
    SLOTS = 2
    SocketCap = 3
    MaxSize = 2
    PollCap = 1
    Keyboards = {}
    Pointers = {}
    Touchscreens = {}
    MaxConfigures = 2
    MaxPings = 0
    MaxSeatEvents = 0
    MaxSeats = 0
    MaxTouch = 0
    Closable = {}
    MayCrash = TRUE
    MaxStarts = 1
INVARIANTS
    TypeOK
    ExclusiveUse
    NoSlotLeak
    NoProtocolError
    NoStaleRelease
    NeverStarved
PROPERTIES
    LendsBuffers
