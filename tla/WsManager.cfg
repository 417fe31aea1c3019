SPECIFICATION Spec
CONSTANTS
    Subs = {bars, orders}
    AutoReconnect = TRUE
INVARIANTS
    IInv
    NoOrphanConnection
PROPERTIES
    ConnectedShutdownStops
    WakingShutdownIsClean
    LifecycleSpec
\* run() ends.
CHECK_DEADLOCK FALSE
