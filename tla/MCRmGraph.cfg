CONSTANT MaxEvents = 2
SPECIFICATION FairSpec
CHECK_DEADLOCK FALSE
INVARIANT BeliefSound
INVARIANT ReturnedUnused
INVARIANT EventsKept
PROPERTY BuildSettles
