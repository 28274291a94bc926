SPECIFICATION Spec
CONSTANTS
    Threads = {t1, t2}
    Nested = {"wayland-1", "wayland-2"}
    Ambient = "wayland-0"
    Unnamed = ""
    Bases = {0, 1}
    Attempts = 2
    Left = {1}
    MaxStarts = 2
    MaxHandles = 2
    MaxFiles = 2
INVARIANT ReachesNamed
