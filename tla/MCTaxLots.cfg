SPECIFICATION MCSpec
CONSTANTS
    Rebuilders = {w1}
    a = a
    b = b
    x = x
    None = None
    Accounts = {a, b}
    Transactions <- Catalogue
    LookbackDays = 1
    Generations = {1, 2, 3, 4}
    MaxInitial = 5
    MaxChanges = 3
    MaxStored = 0
INVARIANTS
    UnitsConserved
    FifoExact
    BasisConserved
    NoBrokenLot
