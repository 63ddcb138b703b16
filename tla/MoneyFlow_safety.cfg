\* Two payments, one restart of any service, every call may fail; both
\* consumers have an offset, so a restart redelivers from the first message on.
CONSTANTS
    Payments = {p1, p2}
    Amount <- UnitAmount
    Currency <- AllUsd
    Usd = "usd"
    Admins = {}
    None = none
    Faults = TRUE
    Joined = {"ledger", "settlement"}
    MaxLog = 2
    MaxRestarts = 1
SPECIFICATION Spec
SYMMETRY Symmetric
INVARIANTS SettledWasPosted NeverUnderpaid NoEmptySettlement AnnouncedWasPosted PostingsBounded
PROPERTY SettlementIdStable
CHECK_DEADLOCK FALSE
