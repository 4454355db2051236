\* Two runs of shieldctl or k8s-demo beside the reconciler.
SPECIFICATION SpecWithFewFlags
CONSTANTS
    one = one
    two = two
    None = None
    Client <- TwoRuns
    Jobs <- AnyJob
    MaxFaults = 1
    Malformed = Malformed
    Outside = Outside
    Label <- Labels
    Flags <- SomeFlags
INVARIANTS
    TrafficTypeOK
    SoleBuilder
    OnlyMakersReport
    DeleteSound
    NothingFromOutside
    JustWhatWasAsked
SYMMETRY Symmetry
CHECK_DEADLOCK FALSE
