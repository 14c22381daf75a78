CONSTANTS
    NumSeats = 2
    SmallBlind = 1
    BigBlind = 2
    StackVectors <- ShortStacks
    MaxAmount = 5
    Rankings <- ServiceRankings
    None = None
    Clients = {c1, c2}
    Requests <- AllBodies
    Seeded = TRUE
    StoreFails = FALSE
    Crashes = FALSE
SPECIFICATION LoadSpec
INVARIANT
    ReplayFaithful
CHECK_DEADLOCK FALSE
