SPECIFICATION Spec

CONSTANTS
    None = None
    q1 = q1
    q2 = q2
    q3 = q3
    Queries = {q1, q2, q3}
    Workers = {w1, w2}
    MaxFrame = 4
    View <- TwoViews
    Question <- SameQuestion
    Required <- StreakOfFirst
    Timed = {}
    Skipping = {q1}
    Rated = {q1}
    Disturbances = {"interrupt", "cancel", "expire", "lost", "close", "shutdown"}
    SharedFrames = 1

SYMMETRY MCSymmetry
CONSTRAINT Bounded

CHECK_DEADLOCK FALSE

INVARIANTS
    MatchedIsStable
    FramesAccounted
    WorkIsSound

PROPERTIES
    AuthorityWins
