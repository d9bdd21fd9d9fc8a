SPECIFICATION Spec
CONSTANTS
    Steppers = {p1, p2}
    Joiners = {}
    Droplets = {d1, d2}
    NoDroplet = NoDroplet
    Nobody = Nobody
    MaxFailures = 2
    MaxFaults = 3
    Events = {"error", "break", "crash", "probe", "slow", "run"}
SYMMETRY Symmetry
INVARIANTS TypeOK RowNamesDroplet OneDroplet
