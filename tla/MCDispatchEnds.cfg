SPECIFICATION Spec

CONSTANTS
    None = None
    Sessions = {1}
    Texts = {1}
    Templates = {}
    Home <- AllAtHome
    Workers = {w1}
    MaxFrame = 4
    View <- TwoViews
    Required <- Streak
    Skipping = {1}
    Results = {"empty", "found", "error"}
    Disturbances = {"drop", "deadline", "expire", "unmappable", "closed", "lost", "shutdown"}

CHECK_DEADLOCK FALSE

INVARIANTS
    TextEndsSound

PROPERTIES
    EndsInOrder
