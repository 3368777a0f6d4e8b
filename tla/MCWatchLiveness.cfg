SPECIFICATION PartSpec

CONSTANTS
    None = None
    Queries = {q1}
    Attended = {q2, q3}
    Workers = {w1, w2}
    MaxFrame = 2
    View <- OneView
    Question <- SameQuestion
    Required <- Streak
    Timed = {}
    Skipping = {q1}
    Rated = {q1}
    Disturbances = {"closed", "close", "cancel"}

CHECK_DEADLOCK FALSE

PROPERTIES
    NothingWaits
    MatchNeedsCapture
    SupervisorAttends
