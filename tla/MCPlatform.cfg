CONSTANTS
    NumSeats = 2
    SmallBlind = 1
    BigBlind = 2
    StackVectors <- ShortStacks
    MaxAmount = 5
    Rankings <- ServiceRankings
    None = None
    Clients = {c1, c2}
    Requests <- AllBodies
    Seeded = TRUE
    StoreFails = TRUE
    Crashes = TRUE
    MaxNow = 4
    ClientIps = {ip1, ip2}
    Rpm = 2
    Minute = 2
    BucketTtl = 3
    CleanupInterval = 2
    Keys = {k1, k2, k3}
    Values = {1}
    MaxSize = 2
    TtlSeconds = 1
    Tasks = {t1, t2}
    Workers = {w1, w2}
    Readers = {r1}
    Nothing = Nothing
    Sockets = {s1, s2, s3}
    Broadcasts = {b1, b2}
    EventIds = {e1, e2, e3}
    Aggregates = {hand1, hand2}
    Limit = 2
    Processes = {p1, p2}
    SchemaVersion = 2
    MaxCrashes = 2
SPECIFICATION PlatformSpec
INVARIANTS
    PlatformTypeOK LoggedOnce OneAtATime OneHistory
    WindowBound LostOnlyToNewer OneOutcome
    BroadcastsReach SchemaIsWhole
PROPERTIES
    ImplementsTokenBucket ServesLive ReplayIsPrefix PlatformSettles
CHECK_DEADLOCK FALSE
