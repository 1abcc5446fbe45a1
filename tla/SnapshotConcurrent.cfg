CONSTANTS
    c1 = c1
    c2 = c2
    c3 = c3
    o1 = o1
    o2 = o2
    Calls = {c1, c2, c3}
    Processes = {o1, o2}
    ProcessOf <- SharedAndOwn
    Retain = 0
    MaxAttempts = 2
    MaxTime = 3
    MaxSerial = 3
    CoarseClock = TRUE
    ClockSteps = TRUE
    Faults = FALSE
    Crashes = FALSE
    PowerLosses = FALSE
SPECIFICATION Spec
CHECK_DEADLOCK FALSE
INVARIANTS TypeOK OneOwner UndoAvailable
PROPERTY NeverReplaced
