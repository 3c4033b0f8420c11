SPECIFICATION FairSpec
CONSTANTS
    PlaceholderMode = "allow"
    HighRisk <- DefaultHighRisk
    Gate <- AnyGate
    AutoResolve = TRUE
    TargetBoundary = TRUE
    Target = 2
    Results <- ProtocolResults
    MaxSteps = 2
    MaxRuns = 1
INVARIANTS
    TypeOK
    AppliedOnce
    Vetted
    AcceptedHasProvenance
    StopIsExplained
    ReviewPauses
PROPERTIES
    TerminalAbsorbing
    EveryRunReturns
