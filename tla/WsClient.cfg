SPECIFICATION Spec
CONSTANT N = 3
INVARIANTS
    IInv
    NoErrorSwallowed
    ErrorStopsAll
PROPERTIES
    ShutdownTellsAll
    ErrorSurfaces
    ManagersConform
