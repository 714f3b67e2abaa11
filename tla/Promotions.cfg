\* Two tabs race for two campaigns that expire and are reopened; one sees the plan move.
SPECIFICATION MCSpec
SYMMETRY Symmetric
CONSTANTS
    t1 = t1
    t2 = t2
    c1 = c1
    c2 = c2
    p1 = p1
    p2 = p2
    None = None
    Tabs = {t1, t2}
    Campaigns = {c1, c2}
    Plans = {p1, p2}
    Target <- MCTarget
    StartsAt <- MCStartsAt
    MaxClock = 3
    MaxQuantity = 2
    MaxReopenings = 1
INVARIANTS
    PromotionInv
PROPERTIES
    LockHolds
    CreditsKept
