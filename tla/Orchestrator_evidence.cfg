SPECIFICATION Spec
CONSTANTS
    PlaceholderMode = "allow"
    HighRisk <- DefaultHighRisk
    Gate <- RuleGate
    AutoResolve = TRUE
    TargetBoundary = FALSE
    Target = 0
    Results <- ProtocolResults
    MaxSteps = 2
    MaxRuns = 1
INVARIANTS
    EvidenceOrdered
