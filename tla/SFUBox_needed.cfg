SPECIFICATION Spec
CONSTANTS
    Steppers = {p1}
    Joiners = {n1}
    Droplets = {d1, d2}
    NoDroplet = NoDroplet
    Nobody = Nobody
    MaxFailures = 1
    MaxFaults = 1
    Events = {"error", "break", "crash", "probe", "activity", "slow"}
SYMMETRY Symmetry
PROPERTIES DeletesUnneeded DeletesUnoccupied
