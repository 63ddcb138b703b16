\* Nothing fails and nothing restarts; two concurrent refund calls.
CONSTANTS
    Payments = {p1}
    Amount <- UnitAmount
    Currency <- AllUsd
    Usd = "usd"
    Admins = {a1, a2}
    None = none
    Faults = FALSE
    Joined = {}
    MaxLog = 2
    MaxRestarts = 0
SPECIFICATION Spec
INVARIANT RefundedOnce
CHECK_DEADLOCK FALSE
