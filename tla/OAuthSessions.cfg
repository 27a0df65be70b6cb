SPECIFICATION FairSpec
CONSTANTS
    Browsers = {desktop, phone}
    First = desktop
    Requests = {page, socket}
    WebSockets = {socket}
    HasDump = TRUE
    AuthTtl = 1
    SessionLife = 2
    AccessLife = 2
    RefreshLife = 3
    MaxWork = 2
    MaxClock = 3
    MaxTokens = 4
    SignIns = {0, 2}
    Troubles = {2}
    MaxFaults = 1
INVARIANTS SessionKept
PROPERTIES RemovedForCause ProviderHeard
CHECK_DEADLOCK FALSE
