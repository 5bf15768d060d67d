SPECIFICATION Spec
CONSTANTS
    Fanout = 2
    Depth = 2
    Base = 2
    Size = 4
    Floor = 1
    Frames = {f1, f2, f3, f4, f5}
    Ranges = {r1}
    Bindings = {b1, b2}
    o1 = o1
    o2 = o2
    Buffers = {o1, o2}
    Length <- MCLength
    Requests <- MCRequests
    MaxCached = 2
    None = None
INVARIANTS TranslationHeld SpaceExact ResetNeverStuck
SYMMETRY MCSymmetry
CHECK_DEADLOCK FALSE
