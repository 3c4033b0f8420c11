SPECIFICATION Spec
CONSTANTS
    t1 = t1
    t2 = t2
    s1 = s1
    s2 = s2
    x1 = x1
    x2 = x2
    x3 = x3
    p1 = p1
    None = None
    Thread = {t1, t2}
    Session = {s1}
    StateId = {x1, x2, x3}
    Theory = {p1}
    Line = {1}
    MaxBatch = 2
    MaxCalls = 6
SYMMETRY Symmetry
INVARIANTS
    TypeOK
    SourceOfTruth
    ClosedHoldsNothing
    CheckpointsLive
    NotFoundIsTrue
    NoUseAfterClose
    DropFailed
PROPERTIES
    TeardownOrder
    Linearizable
