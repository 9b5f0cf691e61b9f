SPECIFICATION MonitorSpec
CONSTANTS
    maxRetries = 2
    RetryDelay = 1
    CheckPeriod = 3
    MaxRetryCount = 3
    MaxOutstanding = 3
INVARIANTS
    CheckedEveryPeriod
PROPERTIES
    RecoversFromOutage
