CONSTANTS
    Versions = {1, 2, 3}
    Bodies = {a}
    NoBody = NoBody
    NulBodies = {}
    Orphaning = {}
    Healing = {}
    MaxApp = 0
    Procs = {p1, p2}
    Timeouts = FALSE
    Faults = FALSE
    AppendOnly = TRUE
    NoImage = NoImage
    MaxEdits = 2
SPECIFICATION FairSpec
INVARIANT ReplayOrder
PROPERTIES CallsReturn JournalGetsApplied
