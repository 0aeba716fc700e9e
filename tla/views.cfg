SPECIFICATION Spec
CONSTANTS
    Visibilities = {"passthrough", "mediate", "hidden"}
    MaxCalls = 3
    MaxTexts = 2
    MaxPauses = 2
INVARIANTS
    WellFramed
    SpansClose
    TaskTruth
CHECK_DEADLOCK FALSE
