SPECIFICATION Spec
CONSTANTS
    Mode <- MCMode
    Source <- MCSource
    Boot = "fhd"
    Capacities <- MCCapacities
    Later <- MCLater
    MaxChanges = 1
    MaxQueries = 2
INVARIANTS
    LinkCarriesImage
    SearchBest
CHECK_DEADLOCK FALSE
