SPECIFICATION Spec
CONSTANTS
    Locations = {site}
    Sizes = {small}
    LocationOf <- OneLocation
    SizeOf <- OneSize
    None = None
    Day = 3
    Cells = {c1}
    SeededCells = {c1}
    Sessions = {s1, s2}
    Rentals = {r1, r2}
    Codes = {code1}
    Clients = {k1}
    HoldTTL = 1
    PayDelay = 1
    PayTTL = 2
    ClockSkew = 0
    MaxTime = 3
    Faults = {}
PROPERTIES
    OpensOwnCellOnly
