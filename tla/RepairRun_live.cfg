SPECIFICATION FairRepairSpec
CONSTANTS
    PlaceholderMode = "allow"
    HighRisk <- DefaultHighRisk
    Gate <- RuleGate
    AutoResolve = TRUE
    TargetBoundary = TRUE
    Target = 1
    Results <- EngineResults
    MaxSteps = 2
    MaxRuns = 1
    Theories <- Plain
    MaxDrifts = 1
PROPERTY SessionDestroyed
