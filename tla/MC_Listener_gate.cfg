\* Three clients, two slots, and one thread: the gate fills and refuses, and
\* admitted jobs wait in the executor's queue; one orphan at a time.
CONSTANTS
    c1 = c1
    c2 = c2
    c3 = c3
    Clients <- ThreeClients
    MaxConcurrentExtractions = 2
    PoolSize = 1
    MaxOrphans = 1
SPECIFICATION Spec
INVARIANTS
    TypeOK
    ActiveMatches
PROPERTIES
    RefusedOnlyWhenFull
    AdmittedAnswered
    KeepsPromise
