SPECIFICATION ShimsSpec
CONSTANTS
    Callers = {c1, c2}
    Connector = c1
    MaxApps = 2
    MaxEvents = 1
    MaxFrames = 1
    MaxCalls = 3
    MaxServices = 2
    MaxSessions = 3
    Requests = {r1, r2}
INVARIANTS
    TypeOK
    CoreAliveWhenUsed
    DisplaysAreBridged
    PumpGoesOn
    OnePump
    NothingLeftBehind
    ShutdownLetsGo
    CaptureIsVisible
    AnsweredOnce
PROPERTIES
    AcceptedCallsReturn
    EndedSessionsLetGo
    StopDisconnects
