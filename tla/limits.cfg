\* An instance of the ShipStation proxy: one place, four requests of any kind; the
\* timeout is half the refresh interval.
SPECIFICATION LiveSpec
CONSTANTS
    Limiter = {backend}
    Reservoir = 1
    MaxConcurrent = 1
    Interval = 2
    NetTimeout = 1
    Called = {"createorder", "deleteorder", "listorders"}
    MaxRequests = 4
INVARIANTS InOrder AccountLoad
PROPERTIES EveryRequestEnds
CHECK_DEADLOCK FALSE
