\* A form uploads files beside a web page, or three web pages move, under a plan that moves.
SPECIFICATION MCSpec
SYMMETRY Symmetric
CONSTANTS
    Sources = {s1, s2, s3}
    Assets = {a1, a2}
    Urls = {u1, u2}
    Forms = {f}
    None = None
    MaxAdmitted = 3
    MaxGeneration = 2
INVARIANTS
    KnowledgeInv
    AssetUsedOnce
    RefusedAsCounted
PROPERTIES
    AddedWithinPlan
