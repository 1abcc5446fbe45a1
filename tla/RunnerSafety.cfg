CONSTANTS
    Versions = {1, 2}
    Bodies = {a, b, n}
    NoBody = NoBody
    NulBodies = {n}
    Orphaning = {b}
    Healing = {a}
    MaxApp = 1
    Procs = {p1, p2}
    Timeouts = TRUE
    Faults = TRUE
    AppendOnly = FALSE
    NoImage = NoImage
    MaxEdits = 1
SYMMETRY Symmetry
SPECIFICATION Spec
INVARIANTS TypeOK RowsMatchRuns OkMeansRecorded ImagePrecedesBatch
PROPERTY LedgerSpec
