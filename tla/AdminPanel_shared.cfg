SPECIFICATION PanelSpec
CONSTANTS
    Locations = {site}
    Sizes = {small}
    LocationOf <- OneLocation
    SizeOf <- OneSize
    None = None
    Cells = {c1}
    SeededCells = {}
    Sessions = {s1, s2}
    Rentals = {r1, r2}
    Codes = {code1}
    Clients = {}
    HoldTTL = 1
    PayDelay = 1
    PayTTL = 1
    ClockSkew = 0
    MaxTime = 3
    Faults = {}
    Admins = {a1}
    Targets <- EveryKind
INVARIANTS
    OneRentalPerCell
SYMMETRY Interchangeable
