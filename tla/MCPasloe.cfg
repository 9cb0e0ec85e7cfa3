SPECIFICATION Spec
CONSTANTS
    p1 = p1
    p2 = p2
    s1 = s1
    h1 = h1
    k = k
    Events <- MCEvents
    Keys = {k}
    KeyOf <- MCKeyOf
    EmptyKey = EmptyKey
    NoKey = NoKey
    NoId = NoId
    Processes = {p1, p2}
    Sources = {s1}
    SourceOf <- MCSourceOf
    DomainEvents = {}
    Null = Null
    Hooks = {h1}
    Subscribes <- MCSubscribes
    Hanging = {}
    LeaseSeconds = 1
    RetryBase = 1
    RetryMax = 1
    BatchSize = 2
    MaxTries = 1
    Timeout = 1
    Backoff = 1
    Now = 2
    StallUntil = 0
    MaxTime = 4
    MaxExponent = 1
    MaxCopies = 1
    MaxFaults = 1
CHECK_DEADLOCK FALSE
INVARIANTS
    DeliveredIsVisible
    OneEventPerKey
PROPERTIES
    RefinesEventStore
    AnswersAreHonoured
