CONSTANTS
    v = v
    w = w
    g = g
    Tables = {1, 2, 3}
    Views = {v, w}
    Triggers = {g}
    Columns = {1, 2, 3}
    Spellings = {3}
    Indexes = {1}
    Versions = {1, 2}
    NoTable = NoTable
    NoObject = NoObject
    Nothing = Nothing
    Edits <- ColumnEdits
    RowSets = {{}, {1, 3}}
    Mark = 4
SPECIFICATION Spec
CHECK_DEADLOCK FALSE
INVARIANT AddIsAccepted
