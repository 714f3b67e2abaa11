\* Two tabs select a category while the callback and the resumption activate one; one sees edits.
\* A merchant browses while the shop's lifecycle takes every turn.
SPECIFICATION MCSpec
SYMMETRY Symmetric
CONSTANTS
    Tabs = {t1, t2}
    Categories = {c1, c2}
    None = None
    MaxGeneration = 3
    MaxVersion = 2
    Subscriptions <- EverySubscription
    MaxHops = 2
INVARIANTS
    CategoryInv
    PagesAgree
PROPERTIES
    ConflictMeansOvertaken
    
