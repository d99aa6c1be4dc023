\* One instance, overlapping requests, the tick, and every fault.
SPECIFICATION Spec
CONSTANTS
    Instances = {i1}
    Facts = {f1, f2, f3}
    CAS_MAX_ATTEMPTS = 3
    EvalSupported = TRUE
    SerialRequests = FALSE
    TickInstances = {i1}
    Faults = {"get", "eval", "status", "set", "restart"}
    MaxRev = 2
SYMMETRY Interchangeable
INVARIANTS
    PublishedStaysPublished
