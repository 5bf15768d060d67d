CONSTANTS
    Cpus = {c1, c2}
    Worker = w
    MaxRefusals = 1
    MaxSetups = 1
SPECIFICATION FairSpec
CHECK_DEADLOCK FALSE
INVARIANT EndpointGuarded
INVARIANT HonestNoFault
PROPERTY MessageDrained
PROPERTY CloseEnds
