SPECIFICATION Spec
CONSTANTS
    Word = 256
    BPP = 4
    SLOTS = 2
    Frames <- MCFrames
INVARIANTS
    PackedWhole
    BuffersInPool
