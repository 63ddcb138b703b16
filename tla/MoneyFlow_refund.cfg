\* One payment, two concurrent refund calls, one restart, every call may fail.
CONSTANTS
    Payments = {p1}
    Amount <- UnitAmount
    Currency <- AllUsd
    Usd = "usd"
    Admins = {a1, a2}
    None = none
    Faults = TRUE
    Joined = {}
    MaxLog = 3
    MaxRestarts = 1
SPECIFICATION Spec
SYMMETRY Symmetric
INVARIANTS RefundedWasSettled TypeOK
PROPERTY ProcessedOnce
CHECK_DEADLOCK FALSE
