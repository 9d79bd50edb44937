\* Retention against the size checks of an extraction.
CONSTANTS
    j1 = j1
    j2 = j2
    n1 = n1
    None = None
    Jobs <- TwoJobs
    Names <- OneName
    NameOf <- Again
    Stuck <- OneName
    Creates = TRUE
    MaxConcurrentExtractions = 1
    MaxOrphans = 0
    MaxAge = 1
    MaxTotal = 0
    Horizon = 2
SPECIFICATION Spec
INVARIANTS
    OutcomeIs200
