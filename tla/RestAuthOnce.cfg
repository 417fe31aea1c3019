SPECIFICATION Spec
CONSTANTS
    MaxRetries = 3
    AuthRetryLimit = 1
INVARIANT AuthErrorMeansRefreshed
CHECK_DEADLOCK FALSE
