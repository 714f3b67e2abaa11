\* Deliveries are redelivered while Redis hangs and the shop comes and goes; bodies are scanned.
SPECIFICATION MCSpec
CONSTANTS
    r1 = r1
    r2 = r2
    e1 = e1
    e2 = e2
    e3 = e3
    e4 = e4
    e5 = e5
    e6 = e6
    e7 = e7
    o1 = o1
    None = None
    Requests = {r1, r2}
    Events = {e1, e2, e3, e4, e5, e6, e7}
    Topic <- MCTopic
    Subject <- MCSubject
    Fields <- MCFields
    Names <- MCNames
    Numbers <- MCNumbers
    Rounded <- MCRounded
    MaxMembers = 2
    MaxTries = 2
    MaxMoves = 1
    MaxCrashes = 1
\* Shopify stops delivering in the end, and a text is scanned once.
INVARIANTS
    IngressInv
    ScanInv
PROPERTIES
    RequestIsAnswered
CHECK_DEADLOCK FALSE
