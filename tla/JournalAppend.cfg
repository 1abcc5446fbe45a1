CONSTANTS
    Gens = {g}
    Tables = {t, u}
    Shapes = {s1, s2}
    NoTable = NoTable
    Invalid = Invalid
    MaxVersion = 2
    Slugs = {1}
    NoFile = NoFile
    NoSum = NoSum
    MaxEdits = 1
    MaxTampers = 1
    ClockSteps = FALSE
    Faults = TRUE
SYMMETRY Symmetry
SPECIFICATION Spec
INVARIANTS TypeOK GeneratedReproduces NoDrift CheckedApplies CleanStatusVerifies
PROPERTY NewestLast
