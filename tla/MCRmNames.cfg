SPECIFICATION Spec
CONSTANTS
    MaxClients = 2
    MaxClientNames = 3
    Table = {0, 1}
    Residents = {9}
    ObjectFirst = 1
    ObjectEnd = 6
    Counts = {1, 2}
INVARIANTS NamesSpent NoOrphans
CHECK_DEADLOCK FALSE
