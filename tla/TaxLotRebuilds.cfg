SPECIFICATION FewSpec
CONSTANTS
    Rebuilders = {w1, w2}
    a = a
    b = b
    x = x
    None = None
    Accounts = {a}
    Transactions <- Few
    LookbackDays = 1
    Generations = {1, 2, 3, 4, 5, 6, 7}
    MaxInitial = 0
    MaxChanges = 1
    MaxStored = 3

    
PROPERTIES
    StoredIsBooked
