SPECIFICATION FairSpec

CONSTANTS
    None = None
    c1 = c1
    c2 = c2
    Callers = {c1, c2}
    Closers = {d1}
    Sequence <- Sequences
    Routes = 2
    MaxReleases = 1
    Platforms = {"windows", "macos"}

CHECK_DEADLOCK FALSE

INVARIANTS
    RunIsSound
    GateExact
    ClosedIsQuiet

PROPERTY
    CloseSettles
