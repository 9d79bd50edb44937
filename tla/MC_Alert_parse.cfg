\* All that may stand in one field, two aliases deep.
CONSTANTS
    None = None
    Alerts <- Posted
    Numerals <- Texts
    Stamps <- OneStamp
    Kilo = 10
    Horizon = 20
    Hosts <- TwoHosts
    MaxPort = 3
    Now = 9
    Allowed <- Alphabet
    IdCap = 2
    PlainDigits <- Digits
    Unicode <- Letters
\* One alert is parsed per behaviour.
CHECK_DEADLOCK FALSE
SPECIFICATION Spec
INVARIANTS
    FlowFaithful
    TimeFaithful
    RejectedOnlyUnbounded
    IdKept
    AlertAsV1
