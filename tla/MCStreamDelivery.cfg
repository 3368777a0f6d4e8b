SPECIFICATION Spec
CONSTANTS
    c1 = c1
    c2 = c2
    small = small
    large = large
    whole = whole
    inset = inset
    Consumers = {c1, c2}
    Closers = {d1}
    Faults = {f1, f2}
    NoFault = NoFault
    NoFrame = NoFrame
    NoPublication = NoPublication
    Shapes = {small}
    Placements = {whole}
    Scales <- MCScales
    MaxEpoch = 0
    MaxSequence = 1
    MaxGeometry = 0
    MaxDrops = 0
SYMMETRY ConsumersSymmetry

CHECK_DEADLOCK FALSE

INVARIANTS
    DrainSettled

PROPERTIES
    NewerIsNewer
    EndIsCommon
