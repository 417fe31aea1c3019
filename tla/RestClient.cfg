SPECIFICATION FairSpec
CONSTANTS
    Callers = {c1, c2}
    Closers = {k1}
    RestSessions = {s1, s2, s3, s4}
    JwtSessions = {j1, j2, j3}
    NoSession = NoSession
    TTL = 1
    MaxRetries = 2
    AuthRetryLimit = 1
INVARIANTS
    IInv
    SurvivesRevocation
    ClosedIsClosed
    
PROPERTIES
    CallsEnd
CHECK_DEADLOCK FALSE
