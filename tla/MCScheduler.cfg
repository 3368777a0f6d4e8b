SPECIFICATION ShareSpec

CONSTANTS
    None = None
    s1 = s1
    s2 = s2
    Sessions = {s1, s2}
    Queries = {q1, q2, q3}
    Callers = {}
    Engine = engine
    Of <- OneAndTwo
    MaxEngine = 2
    MaxSession = 1
    MaxActive = 1
    Disturbances = {"scheduler"}
    Texts = {1, 2, 3}
    Workers = {w1, w2}
    MaxFrame = 2

SYMMETRY MCSymmetry

CHECK_DEADLOCK FALSE

INVARIANT CountsExact

PROPERTY TurnsRotate
