SPECIFICATION Spec
CONSTANTS
    Locations = {l1}
    Proposals = {p1, p2}
    Actors = {a1, a2}
    Contents = {c1}
    Places = {x1}
    None = None
    MaxVersion = 3
SYMMETRY Symmetry
INVARIANTS ApprovedOnItsBase
PROPERTIES ResolutionIsFinal
CHECK_DEADLOCK FALSE
