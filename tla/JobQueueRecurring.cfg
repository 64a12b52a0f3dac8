SPECIFICATION Spec
CONSTANTS
    Ids = {i1, i2}
    Workers = {w1, w2}
    EmailKeys = {e1}
    ForeignKeys = {}
    RecurringKeys = {gcjob}
    GcKey = gcjob
    None = None
    BatchSize = 1
    MaxAttempts = 2
    LeaseTTL = 2
    BackoffBase = 1
    HistoryAge = 1
    MaxDelay = 1
    MaxFaults = 0
    Prompt = TRUE
INVARIANT RecurringStaysQueued
