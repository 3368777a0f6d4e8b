SPECIFICATION Spec

CONSTANTS
    None = None
    c1 = c1
    c2 = c2
    Callers = {c1}
    Closers = {d1}
    Sequence <- Sequences
    Routes = 2
    MaxReleases = 1
    Platforms = {"macos"}

CHECK_DEADLOCK FALSE

INVARIANT IncompleteIsRefused
