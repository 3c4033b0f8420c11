SPECIFICATION Spec
CONSTANTS
    PlaceholderMode = "allow"
    HighRisk <- DefaultHighRisk
    Gate <- AnyGate
    AutoResolve = FALSE
    TargetBoundary = FALSE
    Target = 0
    Results <- ProtocolResults
    MaxSteps = 2
    MaxRuns = 2
INVARIANTS
    ReviewPauses
PROPERTIES
    TerminalAbsorbing
