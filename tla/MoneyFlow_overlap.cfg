\* Nothing fails and nothing restarts.
CONSTANTS
    Payments = {p1, p2}
    Amount <- UnitAmount
    Currency <- AllUsd
    Usd = "usd"
    Admins = {}
    None = none
    Faults = FALSE
    Joined = {}
    MaxLog = 3
    MaxRestarts = 0
SPECIFICATION Spec
INVARIANT SettlementPaysAttached
CHECK_DEADLOCK FALSE
