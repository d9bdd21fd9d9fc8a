SPECIFICATION FairSpec
CONSTANTS
    t1 = t1
    t2 = t2
    u1 = u1
    Nobody = Nobody
    NoUpload = NoUpload
    Tabs = {t1}
    Uploads = {u1}
    Parts = {1}
    Requests = {1, 2}
    Quota = 1
    Rounds = 2
    Events = {"cancel", "close", "leave", "lost", "crash", "error", "short", "stale", "delete"}
INVARIANTS TypeOK ReadyIsWhole
PROPERTIES UploadKeepsPromise SpaceComesFree TriesEnd
CHECK_DEADLOCK FALSE
