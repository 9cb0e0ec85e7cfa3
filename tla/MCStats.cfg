SPECIFICATION Spec
CONSTANTS
    a1 = a1
    a2 = a2
    b1 = b1
    t1 = t1
    t2 = t2
    x1 = x1
    m1 = m1
    m2 = m2
    m3 = m3
    o1 = o1
    o2 = o2
    Null = Null
    Events = {a1, a2, b1, t1, t2, x1, m1, m2, m3, o1, o2}
    Loads <- MCLoads
    TypeOf <- MCTypeOf
    DataOf <- MCDataOf
    AcceptedAt <- MCAcceptedAt
    SourceOf <- MCSourceOf
    Models <- MCModels
    Filters <- MCFilters
    MaxAge = 1
    MaxTime = 3
INVARIANTS
    TypeOK
    BreakdownsKeepUp
    CountedOnce
    HealthTimely
    EveryJobCounted
    NamesAddUp
    MostSpecificPrice
PROPERTIES
    ActiveIsActive
