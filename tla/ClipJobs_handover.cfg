SPECIFICATION Spec
CONSTANTS
    Jobs = {j1}
    Workers = {w1, w2}
    Creators = {c1}
    Nobody = Nobody
    NoJob = NoJob
    MaxAttempts = 3
    MaxUnfinished = 1
    MaxFormats = 1
    MaxSessions = 1
    MaxLate = 1
    Events = {"crash", "timeout", "error", "delete", "cascade", "unready", "rush"}
SYMMETRY Symmetry
INVARIANTS TypeOK LeaseIffProcessing TriesLeft ReadyHasFile
PROPERTIES PromiseKept
