\* The shipped limits, one extraction and no budget: an alert and the same alert
\* again, with sweeps and a crash.
CONSTANTS
    j1 = j1
    j2 = j2
    n1 = n1
    None = None
    Jobs <- TwoJobs
    Names <- OneName
    NameOf <- Again
    Stuck <- OneName
    Creates = TRUE
    MaxConcurrentExtractions = 1
    MaxOrphans = 1
    MaxAge = 1
    MaxTotal = 0
    Horizon = 2
SPECIFICATION Spec
PROPERTIES
    UrlTrueWhenSent
    CaptureKept
    KeepsListener
