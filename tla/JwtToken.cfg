SPECIFICATION FairSpec
CONSTANTS
    Callers = {c1, c2, c3}
    Closers = {k1}
    Sessions = {s1, s2, s3, s4}
    NoSession = NoSession
    TTL = 1
INVARIANTS
    IInv
    LockedRefreshNeeded
PROPERTIES
    EnsureReturns
