SPECIFICATION Spec
CONSTANTS
    Events <- MCEvents
    Wanted <- MCWanted
    Since = 0
    Until = 1
    Limit = 2
    MaxTs = 2
    NoCursor = NoCursor
INVARIANTS
    TypeOK
    Ordered
    Complete
PROPERTY
    ListingEnds
