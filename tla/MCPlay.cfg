CONSTANTS
    NumSeats = 2
    SmallBlind = 1
    BigBlind = 2
    StackVectors <- Stacks
    MaxAmount = 0
    Rankings <- AllRankings
    None = None
    Reads <- SomeReads
    ShortStack = 4
    MaxActions = 6
    Names = {"a", "b", "c", "d", "e"}
    Fields <- SomeFields
    HandsPerMatch = 2
    MaxSwing = 1
    NoName = "none"
    Decks <- SomeDecks
    IcmTables <- SomeIcmTables
    MostExact = 4
    Spots <- SomeSpots
    MaxRows = 3
    Utilities <- SomeUtilities
    Levels = 2
    Discounts <- SomeDiscounts
    MaxLearned = 3
    MaxCalls = 3
    Equities = {10, 40}
    Odds = 40
    MaxStreets = 4
    Positions = {"BTN", "BB"}
    WindowSize = 1
    MaxHands = 2
    MaxSeen = 4
    Batches <- SomeBatches
    MostHands = 140
    Openings <- SomeOpenings
    Minds <- SomeMinds
    Preset <- SomeBlends
    Moves <- SomeMoves
    Results <- SomeResults
    RecentMoves = 2
    BaselineMoves = 3
    SizingWindow = 3
    TrendLeast = 2
    SizingLeast = 2
    Snapshots <- SomeSnapshots
    RecentSize = 2
    BaselineSize = 4
    MostTold = 4
    MostSnapshots = 5
    MostAsked = 3
    PairPayoffs <- SomePayoffs
    MostPolicies = 4
    Rounds = 12
    Games <- SomeGames
    MostIterations = 3
    BetSizes = {33, 50, 100}
    LargestBet = 160
    Wagers <- SomeWagers
    MinBet <- SomeMinBets
    MostWagers = 4
    Params <- SomeParams
    Transitions <- SomeTransitions
    Particles = 3
    Templates <- SomeTemplates
    MaxDepth = 2
    PastLines <- SomePastLines
    Doings <- SomeDoings
    WindowLength = 2
    MaxTrain = 2
    MostObserved <- SomeObserved
SPECIFICATION PartsSpec
INVARIANTS HandsHold TournamentsHold CalculationsHold TrainingHolds CoachesAgree ProfilesHold OpponentsRead
PROPERTIES PlayOrTournamentEnds
