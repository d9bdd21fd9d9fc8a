SPECIFICATION Spec
CONSTANTS
    Panels = {p1}
    Account <- OneHost
    Devices = {d1}
    Calls = {1, 2}
    Events = {"lost", "close", "invite", "remove"}
    NoCall = NoCall
INVARIANTS TypeOK SeatHeld SeatGoesBack PanelSaysSo
PROPERTY CallsKeepPromise
CHECK_DEADLOCK FALSE
