SPECIFICATION AdapterSpec

CONSTANTS
    None = None
    Sessions = {s1, s2}
    Callbacks = {k1, k2}
    Workers = {w1}
    Closers = {d1}
    Permits = 2
    MaxEvents = 5
    Callers = {c1, c2}
    MaxFrames = 3
    MaxCalls = 2
    NoFrame = NoFrame

CHECK_DEADLOCK FALSE

INVARIANTS
    OwnedOnce
    InSourceOrder

PROPERTIES
    FramesAreMarked
    TeardownSettles
    AnswersAreRight
    RequestsAnswered
