SPECIFICATION FairSpec
CONSTANTS
    Ids = {i1, i2}
    Workers = {w1, w2}
    EmailKeys = {}
    ForeignKeys = {f1}
    RecurringKeys = {gcjob}
    GcKey = gcjob
    None = None
    BatchSize = 1
    MaxAttempts = 2
    LeaseTTL = 2
    BackoffBase = 1
    HistoryAge = 1
    MaxDelay = 1
    MaxFaults = 1
    Prompt = TRUE
 
PROPERTY EventuallySettled
