SPECIFICATION FairKioskSpec
CONSTANTS
    None = None
    Lockers = {l1, l2}
    Ids = {i1}
    MaxStray = 1
    Faults = {"reload", "change_locker"}
PROPERTIES
    ButtonsComeBack
    PaymentScreenEnds
