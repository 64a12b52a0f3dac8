SPECIFICATION FairSpec
CONSTANTS
    Locations = {l1}
    Proposals = {p1}
    Actors = {a1, a2}
    Contents = {c1, c2}
    Places = {x1}
    None = None
    MaxVersion = 3
INVARIANTS HistoryComplete
PROPERTIES NoLostUpdate LocksAreReleased
CHECK_DEADLOCK FALSE
