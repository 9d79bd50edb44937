\* A file that cannot be removed and is aged.
CONSTANTS
    f1 = f1
    f2 = f2
    Files <- TwoFiles
    Stuck <- FirstFile
    MaxAge = 1
    MaxTotal = 2
    Horizon = 3
    MaxSize = 2
SPECIFICATION Safe
INVARIANTS
    BudgetMet
