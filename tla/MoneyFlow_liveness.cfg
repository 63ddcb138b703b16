\* No call fails, one service restarts once; a consumer without an
\* offset starts at the end of the topic.
CONSTANTS
    Payments = {p1, p2}
    Amount <- UnitAmount
    Currency <- AllUsd
    Usd = "usd"
    Admins = {}
    None = none
    Faults = FALSE
    Joined = {}
    MaxLog = 2
    MaxRestarts = 1
SPECIFICATION FairSpec
PROPERTY InitiatedIsSettled
CHECK_DEADLOCK FALSE
