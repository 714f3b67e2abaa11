\* Two tabs of the settings page: the policy, retries, the features, and the shop's own moves.
SPECIFICATION MCSpec
SYMMETRY Symmetric
CONSTANTS
    t1 = t1
    t2 = t2
    d1 = d1
    f1 = f1
    f2 = f2
    Tabs = {t1, t2}
    Discounts = {d1}
    Features = {f1, f2}
    Forms = {"recovery", "ai-response-delay", "features"}
    LargeForms = {"features"}
    MaxClock = 3
    MaxSkew = 1
    MaxRequests = 3
    MaxRefreshes = 1
\* A page that stays open and has no request left to send or to answer stops.
INVARIANTS
    SettingsInv
PROPERTIES
    NoLostUpdate
    TakesEffectOnce
CHECK_DEADLOCK FALSE
