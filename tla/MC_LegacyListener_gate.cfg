\* Three clients compete for two slots.
CONSTANTS
    c1 = c1
    c2 = c2
    c3 = c3
    Clients <- ThreeClients
    MaxConcurrent = 2
SPECIFICATION Spec
INVARIANTS
    TypeOK
    SlotsExact
PROPERTIES
    AdmittedAnswered
    KeepsPromise
