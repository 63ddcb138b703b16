\* Two keys, three requests (a request and its retries, or a bystander), every
\* store call may fail, the process may die once.
CONSTANTS
    Requests = {r1, r2, r3}
    Keys = {k1, k2}
    None = none
    MaxCrashes = 1
    Faults = TRUE
SPECIFICATION Spec
SYMMETRY Symmetric
INVARIANTS SingleExecution SameAnswer EventMatchesAnswer TypeOK
PROPERTIES RecordsAdvance ImplementsApi
CHECK_DEADLOCK FALSE
