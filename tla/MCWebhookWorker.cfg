SPECIFICATION Spec
CONSTANTS
    w1 = w1
    w2 = w2
    h1 = h1
    h2 = h2
    Null = Null
    Rows <- MCRows
    Workers = {w1, w2}
    Hooks = {h1, h2}
    Subscribes <- MCSubscribes
    Registered = {h1}
    Volatile = {h2}
    Hanging = {}
    LeaseSeconds = 1
    RetryBase = 1
    RetryMax = 1
    BatchSize = 2
    MaxTries = 2
    Timeout = 1
    Backoff = 1
    Now = 2
    MaxExponent = 1
    MaxCopies = 1
    MaxFaults = 2
SYMMETRY WorkerSymmetry
INVARIANTS
    TypeOK
    DoneDelivered
PROPERTIES
    DoneForGood
    NoLeaseTheft
