SPECIFICATION Spec
CONSTANTS
    Admins = {a1}
    Desks = {d1}
    TokenTTL = 1
    Patience = 1
    Instances = {p1, p2}
    Secrets = {k1, k2}
    MaxTokens = 1
    None = None
    Lengths <- AroundTheLimits
    Numbers = {n1, n2}
    Missing = Missing
INVARIANTS
    ApiTypeOK
    SmallestThatFits
    PhonesKeepApart
PROPERTIES
    PowerEnds
    NewSecretLocksOut
SYMMETRY Interchangeable
