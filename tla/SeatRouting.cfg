SPECIFICATION Spec
CONSTANTS
    MaxApps = 2
    MaxPools = 0
    MaxSerial = 4
    SLOTS = 2
    SocketCap = 6
    MaxSize = 0
    PollCap = 2
    Keyboards = {}
    Pointers = {1}
    Touchscreens = {1}
    MaxConfigures = 0
    MaxPings = 0
    MaxSeatEvents = 4
    MaxSeats = 1
    MaxTouch = 2
    Closable = {}
    MayCrash = FALSE
    MaxStarts = 1
INVARIANTS
    RoutedToTarget
