SPECIFICATION RepairSpec
CONSTANTS
    PlaceholderMode = "allow"
    HighRisk <- DefaultHighRisk
    Gate <- RuleGate
    AutoResolve = TRUE
    TargetBoundary = FALSE
    Target = 0
    Results <- EngineResults
    MaxSteps = 3
    MaxRuns = 1
    Theories <- AnyLayout
    MaxDrifts = 1
INVARIANT PatchIsValidated
