SPECIFICATION Spec
CONSTANTS
    None = None
    Lockers = {l1, l2}
    Ids = {i1, i2}
    MaxStray = 1
    Faults = {"reload", "change_locker"}
    here = here
    there = there
    c1 = c1
    c2 = c2
    Locations = {here, there}
    CellsOf <- TwoAndNone
    Logins = {t1, t2}
    Buttons = {"login", "update"}
    Troubled = {"card"}
    Nil = Nil
INVARIANTS
    KioskTypeOK
    ScreenIsComplete
    OneHandlerAtATime
    EffectAwaitsItsOwn
    ShownIsSelected
PROPERTIES
    PaymentCompletesItsRental
    BookedWhereChosen
    WritesWhatWasShown
SYMMETRY EitherPage
