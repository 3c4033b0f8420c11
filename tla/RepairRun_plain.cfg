SPECIFICATION RepairSpec
CONSTANTS
    PlaceholderMode = "requires_review"
    HighRisk <- DefaultHighRisk
    Gate <- RuleGate
    AutoResolve = TRUE
    TargetBoundary = FALSE
    Target = 0
    Results <- EngineResults
    MaxSteps = 3
    MaxRuns = 1
    Theories <- Plain
    MaxDrifts = 1
INVARIANTS
    RepairTypeOK
    PatchIsValidated
    NotReportedAgain
    FinishedIsRepaired
    HeldBounded
    ExportLinked
    RiskReviewed
PROPERTIES
    AnchorOnlyExtends
