SPECIFICATION Spec
CONSTANTS
    Stays = {g1, g2}
    Folios = {f1, f2}
    Charges = {}
    Pays = {p1, p2, p3}
    Amounts = {1}
    Prices = {1, 2}
    LateFee = 1
    None = None
    MaxChanges = 1
    MaxDepartures = 2
    MaxOps = 4
    Large = 2
SYMMETRY Symmetry
INVARIANTS
    OneLateFee
    SettlesAsCounted
    GivenWasTaken
PROPERTIES
    NightIsCharged
CHECK_DEADLOCK FALSE
