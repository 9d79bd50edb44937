\* Configured windows in range; requests with anything, once or twice.
CONSTANTS
    ClampMax = 3
    AlertTime = 10
    Defaults <- InRange
    Numbers <- Asked
    MaxGiven = 2
\* One request is resolved per behaviour.
CHECK_DEADLOCK FALSE
SPECIFICATION Spec
INVARIANTS
    WindowSane
    ModeKnown
    ParamsAsV1
