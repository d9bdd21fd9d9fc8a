SPECIFICATION FairSpec
CONSTANTS
    Steppers = {p1}
    Joiners = {}
    Droplets = {d1}
    NoDroplet = NoDroplet
    Nobody = Nobody
    MaxFailures = 2
    MaxFaults = 2
    Events = {"error", "break", "crash", "probe", "slow"}
PROPERTIES WantedComesUp IdleGoesDown
