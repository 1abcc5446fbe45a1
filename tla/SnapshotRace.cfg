CONSTANTS
    c1 = c1
    c2 = c2
    c3 = c3
    o1 = o1
    o2 = o2
    Calls = {c1, c2}
    Processes = {o1, o2}
    ProcessOf <- TwoProcesses
    Retain = 1
    MaxAttempts = 2
    MaxTime = 3
    MaxSerial = 3
    CoarseClock = FALSE
    ClockSteps = FALSE
    Faults = FALSE
    Crashes = FALSE
    PowerLosses = FALSE
SPECIFICATION Spec
CHECK_DEADLOCK FALSE
INVARIANT UndoAvailable
