\* Requests for packs overlap across the end of a cycle; an event is bought unit by unit.
SPECIFICATION MCSpec
SYMMETRY Symmetric
CONSTANTS
    Callers = {c1, c2}
    Ids = {i1, i2}
    Offers = {o1, o2}
    Plans = {p, q}
    Versions <- TwoEntries
    Metered = {q}
    NoHandle = none
    OwnHandle <- Handle
    Cycles = {2, 3}
    DrainWindow = 1
    MaxTime = 2
    MaxMoves = 1
    Parts = 2
    MaxSafe = 6
    Events <- EveryEvent
    MaxUnits = 4
\* The meter stops at its last unit; a request and the world never stop.
INVARIANTS
    PurchaseInv
    MeterInv
PROPERTIES
    BoughtInItsCycle
    QuoteIsCurrent
CHECK_DEADLOCK FALSE
