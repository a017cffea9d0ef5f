\* Orders up to 40 against capacities up to 60, of which quotes hold 50.
SPECIFICATION HonestSpec
CONSTANTS
    SATURATION_TOLERANCE_BPS = 1
    BPS = 10
    MAX_SATURATION_STEPS = 3
    MAX_UINT128 = 50
    Sizes <- UpTo40
    Prices = {1, 2, 3}
    Capacities <- UpTo60
    Denominators = {1, 2, 3}
INVARIANTS
    ProbesFitCapacity
    FloorsAreMet
