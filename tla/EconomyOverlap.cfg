\* Requests of one instance overlap: a re-read was sent before the mutation.
SPECIFICATION Spec
CONSTANTS
    Instances = {i1}
    Facts = {f1, f2}
    CAS_MAX_ATTEMPTS = 3
    EvalSupported = TRUE
    SerialRequests = FALSE
    TickInstances = {}
    Faults = {}
    MaxRev = 0
SYMMETRY FactSymmetry
INVARIANTS
    UnflushedSurvives
