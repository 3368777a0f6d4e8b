SPECIFICATION FairSpec

CONSTANTS
    None = None
    Sessions = {1}
    Texts = {1}
    Templates = {t1, t2}
    Home <- AllAtHome
    Workers = {w1, w2}
    MaxFrame = 1
    View <- OneView
    Required <- Immediate
    Skipping = {}
    Results = {"empty"}
    Disturbances = {"close", "drop"}

CHECK_DEADLOCK FALSE

INVARIANTS
    LeaseIsSound

PROPERTIES
    WorkIsServed
    SessionLeaves
