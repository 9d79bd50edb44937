\* gunicorn waits for longer than an extraction may take. There are two slots, three
\* clients and a thread for each, so that nothing but the gate caps the children.
SPECIFICATION StopSpec
CONSTANTS
    c1 = c1
    c2 = c2
    c3 = c3
    Clients <- ThreeClients
    MaxConcurrentExtractions = 2
    PoolSize = 3
    MaxOrphans = 2
    ExtractTimeout = 2
    GracefulTimeout = 3
INVARIANTS
    
    ChildrenBounded
