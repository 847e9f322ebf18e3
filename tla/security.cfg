SPECIFICATION Spec
CONSTANTS
    Tasks = {t1, t2}
    MaxFaults = 3
INVARIANTS
    LockdownIsOmega
    LimitHalts
    CountStops
CHECK_DEADLOCK FALSE
