\* Two callbacks race each other, the merchant at Shopify and the worker.
SPECIFICATION MCSpec
CONSTANTS
  Free = Free
  Paid = {Basic}
  Odd = Odd
  None = None
  a = a
  b = b
  Calls = {a, b}
  MaxMoves = 3
  MaxCycles = 2
  TopUp = TRUE
  Worker = TRUE
SYMMETRY Twins
INVARIANTS
    SubscriptionInv
PROPERTIES
    ReturnsMoveForward
    ConfirmationIsFinal
