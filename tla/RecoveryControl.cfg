\* Two tabs race for the control while a reply is retried, and then several replies do.
SPECIFICATION MCSpec
CONSTANTS
    RecoveryTabs = {t1, t2}
    Calls = {c1, c2}
    MaxRevision = 2
    MaxDrafts = 2
    MaxKeys = 2
SYMMETRY Symmetry
INVARIANTS
    ControlInv
    OneCommandPerDraft
PROPERTIES
    SendsUnderHumanControl
