SPECIFICATION Spec
CONSTANTS
    r1 = r1
    r2 = r2
    r3 = r3
    r4 = r4
    r5 = r5
    k = k
    Requests = {r1, r2, r3, r4, r5}
    Keys = {k}
    KeyOf <- MCKeyOf
    EmptyKey = EmptyKey
    NoKey = NoKey
    NoId = NoId
    MaxFaults = 2
INVARIANTS
    TypeOK
    IdempotentAnswers
    DuplicateDurable
    RaceResolved
PROPERTY
    EveryRequestEnds
