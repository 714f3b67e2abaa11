\* A refresh is accepted, a second one rejected, and the SDK fails.
SPECIFICATION Spec
CONSTANTS
    Calls = {c1}
    NoCall = noCall
    SessionIds = {s1}
    NoSession = noSession
    MaxRequests = 2
    MaxTokens = 2
PROPERTIES
    AcceptedIsNotRejected
CHECK_DEADLOCK FALSE
