CONSTANTS
    EventIds = {e1, e2, e3}
    Aggregates = {a1, a2}
    Limit = 2
SPECIFICATION EventSpec
PROPERTY ReplaysAll
