\* No faults, and no writer can lose CAS_MAX_ATTEMPTS races.
SPECIFICATION FairSpec
CONSTANTS
    Instances = {i1, i2}
    Facts = {f1, f2, f3}
    CAS_MAX_ATTEMPTS = 3
    EvalSupported = TRUE
    SerialRequests = TRUE
    TickInstances = {}
    Faults = {}
    MaxRev = 0
PROPERTIES
    EveryFactIsPublished
