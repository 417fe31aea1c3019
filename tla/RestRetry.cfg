SPECIFICATION Spec
CONSTANTS
    MaxRetries = 3
    AuthRetryLimit = 1
INVARIANTS
    IInv
    AtMostOnce
    RejectedNeverExecutes
PROPERTIES
    OrderCallSpec
\* The call ends: the system stops when it has and no request is in transit.
CHECK_DEADLOCK FALSE
