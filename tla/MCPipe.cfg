SPECIFICATION Spec
CONSTANTS
    Entries = 3
    Modules = 5
    Sizes <- GrowingSizes
    InitSize = 0
    Focus = 2
    Important = 5
    Refreshed = {1, 3}
    Buffers = {b1, b2, b3}
    AllocFails = FALSE
    MaxVersion = 3
    Raw = Raw
    NoBuf = NoBuf
    NoHash = NoHash
    Garbage = Garbage
SYMMETRY Symmetry
INVARIANTS AgeProtectsInput FocusSpared OutputFits LinesOwnBuffers
CHECK_DEADLOCK FALSE
