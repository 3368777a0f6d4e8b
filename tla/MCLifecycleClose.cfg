SPECIFICATION SettingFairSpec

CONSTANTS
    s1 = s1
    q1 = q1
    Sessions = {s1}
    Queries = {q1, q2}
    Callers = {k1}
    Engine = engine
    Of <- OneSession
    MaxEngine = 2
    MaxSession = 2
    MaxActive = 1
    Disturbances = {"facade", "lost", "scheduler"}

CHECK_DEADLOCK FALSE

INVARIANTS
    ThreadServesSession

PROPERTIES
    AcquisitionFollows
    CloseReturns
