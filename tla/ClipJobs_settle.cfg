SPECIFICATION LossySpec
CONSTANTS
    Jobs = {j1}
    Workers = {w1}
    Creators = {c1}
    Nobody = Nobody
    NoJob = NoJob
    MaxAttempts = 2
    MaxUnfinished = 1
    MaxFormats = 1
    MaxSessions = 1
    MaxLate = 1
    Events = {"crash", "timeout", "error", "delete"}
PROPERTIES ClipsSettle DeletedFilesGo
