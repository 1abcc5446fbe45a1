CONSTANTS
    c1 = c1
    c2 = c2
    c3 = c3
    o1 = o1
    o2 = o2
    Calls = {c1}
    Processes = {o1}
    ProcessOf <- OneProcess
    Retain = 1
    MaxAttempts = 2
    MaxTime = 4
    MaxSerial = 4
    CoarseClock = FALSE
    ClockSteps = FALSE
    Faults = TRUE
    Crashes = TRUE
    PowerLosses = TRUE
SPECIFICATION Spec
CHECK_DEADLOCK FALSE
INVARIANTS FinalIsWhole UndoAvailable
PROPERTY SomeSnapshotRemains
