\* Two refund requests race each other and a reactivation over one pack.
SPECIFICATION Spec
CONSTANTS
    Purchases = {p1}
    Foreign = foreign
    Refundable = {p1}
    RequestIds = {k1, k2}
    RefundCalls = {r1, r2}
    ReactivateCalls = {a1}
    NoRefund = none
    Grant = 2
    MaxRetries = 2
    MaxVersion = 4
    EmptyWithdrawn = TRUE
INVARIANTS
    RefundInv
PROPERTIES
    StartedRefundNotCancelled
    AnswersTrue
    HoldLedger
    EveryCallAnswers
CHECK_DEADLOCK FALSE
