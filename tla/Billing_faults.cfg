\* Two subscriptions over two periods, two failures, one row per query;
\* port 80 passes requests on.
CONSTANTS
    Subs = {s1, s2}
    Limit = 1
    Payment = payment
    None = none
    Redirected = FALSE
    MaxPeriods = 2
    MaxFaults = 2
SPECIFICATION FairSpec
INVARIANTS OverchargesBounded PeriodsArePaid NeverAhead TypeOK
PROPERTY DueIsBilled
CHECK_DEADLOCK FALSE
