SPECIFICATION Spec
CONSTANTS
    w1 = w1
    w2 = w2
    s1 = s1
    Null = Null
    Workers = {w1, w2}
    Sources = {s1}
    Events <- MCEvents
    SourceOf <- MCSourceOf
    DomainEvents <- MCDomainEvents
    LeaseSeconds = 1
    RetryBase = 1
    RetryMax = 1
    MaxExponent = 1
    BatchSize = 2
    MaxTime = 3
    MaxFaults = 1
SYMMETRY WorkerSymmetry
INVARIANTS
    CommitAtomic
    NoLockCycle
    IInv
PROPERTIES
    NoLeaseTheft
    RefinesEventStore
