SPECIFICATION Spec
CONSTANTS
    Initial = {bars}
    Extra = {trades}
    Calls = {u1, u2}
INVARIANT RefusedIsInactive
