SPECIFICATION Spec
CONSTANTS
    t1 = t1
    t2 = t2
    u1 = u1
    Nobody = Nobody
    NoUpload = NoUpload
    Tabs = {t1, t2}
    Uploads = {u1}
    Parts = {1}
    Requests = {1, 2}
    Quota = 1
    Rounds = 2
    Events = {"lost"}
PROPERTY ForgottenLeavesNoFile
CHECK_DEADLOCK FALSE
