SPECIFICATION TxSpec
CONSTANTS
    Cells = {c1, c2}
    Sessions = {s1, s2}
    Txs = {t1, t2, t3}
    Place <- OneAfterTheOther
    None = None
INVARIANTS
    TxTypeOK
    NoWaitInACircle
PROPERTIES
    TxImplementAllocation
SYMMETRY Interchangeable
