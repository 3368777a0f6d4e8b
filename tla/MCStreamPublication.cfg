SPECIFICATION ReadSpec
CONSTANTS
    c1 = c1
    c2 = c2
    small = small
    large = large
    whole = whole
    inset = inset
    Consumers = {c1}
    Closers = {d1}
    Faults = {f1}
    NoFault = NoFault
    NoFrame = NoFrame
    NoPublication = NoPublication
    Shapes = {small, large}
    Placements = {whole, inset}
    Scales <- MCScales
    MaxEpoch = 1
    MaxSequence = 3
    MaxGeometry = 1
    MaxDrops = 2

CHECK_DEADLOCK FALSE

INVARIANTS
    CountersExact

PROPERTIES
    LogSpec
    WaitersUnwind
