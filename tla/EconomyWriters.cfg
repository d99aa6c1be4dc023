\* The store may fail to answer a GET, and cold instances write next to warm ones.
SPECIFICATION Spec
CONSTANTS
    Instances = {i1, i2}
    Facts = {f1, f2, f3}
    CAS_MAX_ATTEMPTS = 3
    EvalSupported = TRUE
    SerialRequests = TRUE
    TickInstances = {}
    Faults = {"get", "restart"}
    MaxRev = 2
SYMMETRY Interchangeable
INVARIANTS
    TypeOK
    UnflushedSurvives
    MemoryIsBacked
    PublishedStaysPublished
    OwedFlushIsRemembered
