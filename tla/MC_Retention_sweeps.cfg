\* Two files, a budget of one byte, one unit of age; sweeps that have the directory to
\* themselves, and sweeps during which extractions create, rewrite and remove files.
CONSTANTS
    f1 = f1
    f2 = f2
    Files <- TwoFiles
    Stuck <- NoFile
    MaxAge = 1
    MaxTotal = 1
    Horizon = 2
    MaxSize = 2
SPECIFICATION Spec
INVARIANTS
    TypeOK
    AgedPurged
    BudgetMet
    
PROPERTIES
    PolicyRespected
    AgedOnly
    AgedGoes
