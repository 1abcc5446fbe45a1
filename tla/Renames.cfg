CONSTANTS
    a = a
    b = b
    Tables = {1, 2, 3, 4}
    Columns = {1, 2, 3, 4}
    Types = {a, b}
    Similarity <- Alike
    NoTable = NoTable
    NoColumn = NoColumn
    Edits <- AllEdits
    Modes <- AllModes
    MaxLines = 3
SPECIFICATION Spec
INVARIANTS TypeOK NothingLostUnconsented AnswersInOrder OneQuestionPerName ProposalsAreStable
PROPERTY RunEnds
