CONSTANTS
    NumSeats = 2
    SmallBlind = 1
    BigBlind = 2
    StackVectors <- AnyStacks
    MaxAmount = 7
    Rankings <- AllRankings
    None = None
SPECIFICATION FairSpec
INVARIANT
    SeatLedger
PROPERTIES
    ImplementsLedger HandTerminates
CHECK_DEADLOCK FALSE
