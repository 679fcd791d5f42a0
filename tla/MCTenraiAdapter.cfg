\* Three callers, so that the lock of the limiter matters; the jobs use one.
SPECIFICATION FairSpec
CONSTANTS
    c1 = c1
    c2 = c2
    c3 = c3
    Callers <- MCCallers
    Interval = 2
    MaxAttempts = 3
    Threshold = 3
    Cooldown = 3
    Backoff <- MCBackoff
    MaxRetryAfter = 3
INVARIANTS
    TenraiInv
    OutageIsCheap
PROPERTIES
    RequestsSpaced
    CallsEnd
