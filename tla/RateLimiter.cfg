SPECIFICATION Spec
CONSTANTS
    a1 = a1
    s1 = s1
    s2 = s2
    Addresses = {a1}
    Subjects = {s1, s2}
    Limit <- TheLimit
    WindowSeconds = 2
    Second = 2
    MaxBuckets = 2
    FailOpen = FALSE
    None = None
SYMMETRY Symmetry
INVARIANTS  RefusedForCause AdviceHonoured
PROPERTY ImplementsFixedWindow
