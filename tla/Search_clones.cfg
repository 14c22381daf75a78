CONSTANTS
    NumSeats = 2
    SmallBlind = 1
    BigBlind = 2
    StackVectors <- EqualStacks
    MaxAmount = 0
    Rankings <- EitherWins
    None = None
    Reads = {}
    ShortStack = 4
    MaxSimulations = 7
SPECIFICATION SearchSpec
INVARIANT ClonesWhatIsLegal
CHECK_DEADLOCK FALSE
