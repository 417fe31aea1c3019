SPECIFICATION Cases
CONSTANTS
    None = None
    Arguments <- MCArguments
    Ownership <- MCOwnership
    Times <- MCTimes
    Forward = 10
    Back = 20
INVARIANTS
    OrdersValidated
    RepeatableMutations
    NoneNotSent
    AccountsAttributed
    TimesConverted
\* A case is chosen, and that is all.
CHECK_DEADLOCK FALSE
