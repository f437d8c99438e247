SPECIFICATION Spec
CONSTANTS
    Locations = {site}
    Sizes = {small}
    LocationOf <- OneLocation
    SizeOf <- OneSize
    None = None
    Day = 3
    Cells = {c1}
    SeededCells = {c1}
    Sessions = {s1, s2}
    Rentals = {r1, r2}
    Codes = {code1}
    Clients = {k1}
    HoldTTL = 2
    PayDelay = 1
    PayTTL = 2
    ClockSkew = 0
    MaxTime = 5
    Faults = {"repeat_finish", "restart"}
INVARIANTS
    TypeOK
    NoLostCell
    BookingIsWhole
    PaidWithinWindow
    LetInOnlyIfPaid
    LetInIsInTheRevenue
PROPERTIES
    ReportsAreFinal
    ImplementsService
    SessionLifecycle
    PaymentFinal
    GrantedWhileActive
SYMMETRY Interchangeable
