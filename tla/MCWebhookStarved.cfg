SPECIFICATION LiveSpec
CONSTANTS
    w1 = w1
    h1 = h1
    h2 = h2
    Null = Null
    Rows <- MCRows
    Workers = {w1}
    Hooks = {h1, h2}
    Subscribes <- MCSubscribes
    Registered = {h1, h2}
    Volatile = {}
    Hanging = {h1}
    LeaseSeconds = 30
    RetryBase = 1
    RetryMax = 60
    BatchSize = 64
    MaxTries = 3
    Timeout = 10
    Backoff = 1
    Now = 2
    MaxExponent = 1023
    MaxCopies = 2
    MaxFaults = 0
PROPERTY
    HealthyRowsSettled
