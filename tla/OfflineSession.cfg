\* Two authentications race each other and the shop's lifecycle over two possible rows.
SPECIFICATION Spec
CONSTANTS
    Calls = {c1, c2}
    NoCall = noCall
    SessionIds = {s1, s2}
    NoSession = noSession
    MaxRequests = 1
    MaxTokens = 2
INVARIANTS
    OneOfflineSession
PROPERTIES
    OnlyInstallationCreates
    CredentialsMoveForward
    EventsTellTheOutcome
    EveryCallAnswers
CHECK_DEADLOCK FALSE
