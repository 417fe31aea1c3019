SPECIFICATION Spec
CONSTANTS
    Callbacks <- MCCallbacks
    MaxMessages = 3
INVARIANTS
    DispatchInv
    Isolated
PROPERTIES
    NotStuck
