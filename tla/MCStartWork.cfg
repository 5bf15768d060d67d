SPECIFICATION FairSpec
CONSTANTS
    SliceSteps = 2
    OwnerRetries = 2
INVARIANT PauseQuiet
PROPERTIES StopJoins MessageServed
CHECK_DEADLOCK FALSE
