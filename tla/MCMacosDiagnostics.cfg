SPECIFICATION PartSpec

CONSTANTS
    None = None
    e1 = e1
    e2 = e2
    s1 = s1
    s2 = s2
    Emitters = {e1, e2}
    Sinks = {s1, s2}
    Engine = s1
    Of <- MCOf
    Detached = Detached
    Levels = {"normal", "debug"}
    Capacity = 2
    MaxPending = 1
    MaxSequence = 2
    MaxEmissions = 3
    Reader = Reader
    Closers = {d1, d2}
    MaxEvents = 4

CHECK_DEADLOCK FALSE

INVARIANTS
    LossesExact
    ReclaimedSafely

PROPERTIES
    EndIsFinal
    ProducersSeal
    PublishesOwn
    RequestsAreTaken
    TeardownEnds
