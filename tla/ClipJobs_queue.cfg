SPECIFICATION Spec
CONSTANTS
    Jobs = {j1, j2, j3}
    Workers = {w1}
    Creators = {c1, c2}
    Nobody = Nobody
    NoJob = NoJob
    MaxAttempts = 1
    MaxUnfinished = 2
    MaxFormats = 2
    MaxSessions = 1
    MaxLate = 0
    Events = {"error", "unready", "rush"}
SYMMETRY Symmetry
INVARIANT UnfinishedWithinLimit
