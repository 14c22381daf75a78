CONSTANTS
    NumSeats = 3
    SmallBlind = 1
    BigBlind = 2
    StackVectors <- ThreeSeats
    MaxAmount = 8
    Rankings <- AllRankings
    None = None
SPECIFICATION Spec
INVARIANTS
    TypeOK PlaysOut EndsProperly SidePotsCap FoldedNeverPaid
PROPERTIES
    RoundClosesFairly OnlyForward
CHECK_DEADLOCK FALSE
