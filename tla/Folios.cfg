SPECIFICATION Spec
CONSTANTS
    Stays = {g1, g2}
    Folios = {f1, f2, f3}
    Charges = {c1}
    Pays = {p1}
    Amounts <- Signed
    Prices = {1}
    LateFee = 1
    None = None
    MaxChanges = 0
    MaxDepartures = 1
    MaxOps = 4
    Large = 1
SYMMETRY Symmetry
INVARIANTS
    TotalsAreTrue
    ClosedIsSettled
    MergedIsEmpty
    VoidsCancelOut
CHECK_DEADLOCK FALSE
