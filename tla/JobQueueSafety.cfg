SPECIFICATION Spec
CONSTANTS
    Ids = {i1, i2}
    Workers = {w1, w2}
    EmailKeys = {e1}
    ForeignKeys = {}
    RecurringKeys = {gcjob}
    GcKey = gcjob
    None = None
    BatchSize = 2
    MaxAttempts = 2
    LeaseTTL = 1
    BackoffBase = 1
    HistoryAge = 1
    MaxDelay = 1
    MaxFaults = 1
    Prompt = FALSE
SYMMETRY Symmetry
INVARIANTS NothingStranded RetryWithinBudget
PROPERTIES FencedOutcome ImplementsLifecycle
