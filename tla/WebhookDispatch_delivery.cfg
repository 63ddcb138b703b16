\* The numbers of the code; two events, lost commits, one restart.
CONSTANTS
    Groups = {webhook}
    Dispatcher = webhook
    Messages = {m1, m2}
    Joined = {webhook}
    MaxLog = 2
    MaxRestarts = 1
    LossyCommit = TRUE
    HandlerMayFail = TRUE
    MaxRetries = 3
    Deadline = 10
    ClientTimeout = 5
SPECIFICATION DispatchFairSpec
INVARIANTS NoticesBounded HandledWasReceived HandlerTimeBounded
PROPERTIES NoThirdAfterTimeouts ImplementsConsumer
CHECK_DEADLOCK FALSE
