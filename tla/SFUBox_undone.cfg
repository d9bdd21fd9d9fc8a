SPECIFICATION Spec
CONSTANTS
    Steppers = {p1}
    Joiners = {n1}
    Droplets = {d1}
    NoDroplet = NoDroplet
    Nobody = Nobody
    MaxFailures = 2
    MaxFaults = 0
    Events = {}
PROPERTIES ReadyIsNotUndone
