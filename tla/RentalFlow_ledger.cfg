\* The pools of ids and the time are bounded, so a behaviour may end.
CHECK_DEADLOCK FALSE
SPECIFICATION Spec
CONSTANTS
    Locations = {site}
    Sizes = {small}
    LocationOf <- OneLocation
    SizeOf <- OneSize
    None = None
    Day = 3
    Cells = {c1, c2}
    SeededCells = {}
    Sessions = {s1, s2, s3}
    Rentals = {r1, r2, r3}
    Codes = {code1}
    Clients = {}
    HoldTTL = 2
    PayDelay = 1
    PayTTL = 1
    ClockSkew <- BehindByOne
    MaxTime = 5
    Faults = {}
INVARIANTS
    CellLedger
PROPERTIES
    ImplementsAllocation
SYMMETRY Interchangeable
