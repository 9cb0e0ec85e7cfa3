SPECIFICATION Spec
CONSTANTS
    u = u
    s = s
    w1 = w1
    w2 = w2
    w3 = w3
    s1 = s1
    s2 = s2
    d1 = d1
    d2 = d2
    e1 = e1
    e2 = e2
    Urls = {u}
    Sources = {s}
    Posts = {w1, w2, w3, s1, s2}
    Deletes = {d1, d2}
    Ensures = {e1, e2}
    KeyOf <- MCKeyOf
    Body <- MCBody
    Loads = {{w1, w2, w3, d1}, {w1, w2, d1, d2}, {s1, s2, e1, e2}}
    NoRow = NoRow
    MaxFaults = 1
INVARIANTS
    TypeOK
    StandsUntilDeleted
    RefusedForAWinner
PROPERTIES
    RegistrationLands
    AutoRegistrationKeeps
    EveryRequestEnds
