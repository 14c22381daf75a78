CONSTANTS
    NumSeats = 3
    SmallBlind = 1
    BigBlind = 2
    StackVectors <- ThreeUneven
    MaxAmount = 7
    Rankings <- AllRankings
    None = None
SPECIFICATION Spec
INVARIANT
    ChipConservation
CHECK_DEADLOCK FALSE
