\* All alerts over three hosts and two ports, in all modes.
CONSTANTS
    h1 = h1
    h2 = h2
    h3 = h3
    p1 = p1
    p2 = p2
    None = None
    Hosts <- ThreeHosts
    Ports <- TwoPorts
\* One filter is built per behaviour.
CHECK_DEADLOCK FALSE
SPECIFICATION Spec
INVARIANTS
    TypeOK
    FlowCovered
    RejectedIffTooBroad
    ModesNarrow
    FilterAsV1
