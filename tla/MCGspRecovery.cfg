SPECIFICATION FairSpec
INVARIANT DmaGuarded
PROPERTIES NoWayBack Settles
CHECK_DEADLOCK FALSE
