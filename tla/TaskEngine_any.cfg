SPECIFICATION Spec
CONSTANTS
    PlaceholderMode = "allow"
    HighRisk <- DefaultHighRisk
    Tasks <- AllTasks
    MaxValidations = 7
    Promote = TRUE
    AllowSledgehammer = TRUE
    MaxReviews = 1
INVARIANTS
    TypeOK
    BudgetShared
    AcceptedCloses
    FirstClosingWins
    GivenUpInVain
    FallbackNeedsTimeout
    FallbackReviewed
