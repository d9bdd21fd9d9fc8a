SPECIFICATION Spec
CONSTANTS
    Panels = {p1, p2}
    Account <- TwoHosts
    Devices = {d1}
    Calls = {1, 2}
    Events = {}
    NoCall = NoCall
INVARIANT AcceptedKeepsSeat
CHECK_DEADLOCK FALSE
