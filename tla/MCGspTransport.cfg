CONSTANTS
    MaxElements = 2
    CmdSlots = 4
    StatSlots = 4
    SeqMod = 5
    MaxTicket = 7
    Sizes = {1, 2}
    MaxRecords = 7
    Loads <- MCLoads
SPECIFICATION FairSpec
CHECK_DEADLOCK FALSE
INVARIANT HonestPeerAccepted
PROPERTIES
    CommandFifo
    StatusFifo
    CommandsTaken
    RecordsDelivered
