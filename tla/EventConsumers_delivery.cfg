\* One card and a limit of one payment; handlers fail, commits and calls to
\* Redis are lost, a service restarts; one group has consumed messages before.
CONSTANTS
    Groups = {fraud, warehouse}
    Fraud = fraud
    Warehouse = warehouse
    Messages = {1, 2}
    Joined = {fraud}
    MaxLog = 2
    MaxRestarts = 1
    LossyCommit = TRUE
    HandlerMayFail = TRUE
    Tokens = {1}
    NotScored = 0
    VelocityLimit = 1
    MaxErrors = 1
SPECIFICATION MCSpec
INVARIANTS AccountedFor OffsetBehindHandler TypeOK
    EternalCountersBounded HighRiskNeedsTraffic BurstNoticed
    ArchiveLossBounded ArchiveCopiesBounded
PROPERTY EventuallyHandled
CHECK_DEADLOCK FALSE
