\* Three alerts with names of their own, two at a time, with and without retention;
\* the file of one of them may fail to be removed.
CONSTANTS
    j1 = j1
    j2 = j2
    j3 = j3
    n1 = n1
    n2 = n2
    n3 = n3
    None = None
    Jobs <- ThreeJobs
    Names <- ThreeNames
    NameOf <- Distinct
    Slots = 2
    Stuck <- OneName
    Creates = FALSE
SPECIFICATION Spec
INVARIANTS
    TypeOK
    VerdictRight
PROPERTIES
    Finishes
