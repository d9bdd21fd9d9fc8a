SPECIFICATION FairSpec
CONSTANTS
    h1 = h1
    p1 = p1
    p2 = p2
    Clients <- HostAndPanelists
    Hosts <- OneHost
    Remounters = {p1}
    Hooks = {1}
    MaxShares = 2
    Events = {"stop", "error"}
INVARIANTS TypeOK PanelistsGiveWayWhenOutranked SettledRoomHasOneShare
PROPERTIES OneShareStays MutedShareEnds
CHECK_DEADLOCK FALSE
