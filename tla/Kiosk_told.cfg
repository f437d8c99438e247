SPECIFICATION KioskSpec
CONSTANTS
    None = None
    Lockers = {l1}
    Ids = {i1}
    MaxStray = 1
    Faults = {}
PROPERTIES
    HoldExpiredIsTrue
