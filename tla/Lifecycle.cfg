SPECIFICATION FairSpec
CONSTANTS
    e1 = e1
    e2 = e2
    e3 = e3
    Main = Main
    Sched = Sched
    None = None
    Exec = {e1, e2, e3}
    MaxStarted = 1
    Scheduled = {e2}
    AutoCleanup = {e2}
    Popen = {e2, e3}
    Forking = {e2, e3}
    OutputFiles = {e1, e2, e3}
    Fallible = {e1, e3}
    Requests <- SomeRequests
INVARIANTS Consistent FiredAfterFinish FiredOnce EarlyListenersFire
PROPERTIES EarlyListenersServed MainResponsive OutputsEnd
CHECK_DEADLOCK FALSE
