SPECIFICATION MonitorSpec
CONSTANTS
    maxRetries = 3
    RetryDelay = 1
    CheckPeriod = 6
    MaxRetryCount = 4
    MaxOutstanding = 5
INVARIANTS
    RetriesBounded
