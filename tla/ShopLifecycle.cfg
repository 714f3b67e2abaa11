\* Two requests race each other, uninstall deliveries and the reconciliation.
SPECIFICATION Spec
CONSTANTS
    Visits = {v1, v2}
    MaxStamps = 2
    MaxRows = 2
SYMMETRY Symmetry
INVARIANTS
    LifecycleInv
PROPERTIES
    OnlyReconciliationReactivates
    RedeliveryKeepsReinstallation
