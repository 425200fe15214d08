\* run() may return and callers may stop calling: the system really may stop.
CHECK_DEADLOCK FALSE
SPECIFICATION FairSpec
CONSTANTS
    Event = {e1, e2}
    NoEvent = NoEvent
    MaxTime = 2
    MaxCalls = 3
INVARIANTS
    TypeOK
    QueuedFlagAgrees
    NoMissedWakeup
    StopNotMissed
PROPERTIES
    ImplementsTimerService
    EventuallyServed
    StopTerminates
