SPECIFICATION Spec
CONSTANTS
    Subs = {bars, orders}
    AutoReconnect = TRUE
PROPERTY ShutdownStops
\* run() ends.
CHECK_DEADLOCK FALSE
