SPECIFICATION Spec
CONSTANTS
    Initial = {bars, orders}
    Extra = {trades}
    Calls = {u1, u2}
INVARIANTS
    IInv
    SubscribedOrReported
    UnsubscribedStaysSo
SYMMETRY Symmetry
