SPECIFICATION Spec
CONSTANT Budget = 4
         Placeholder <- MCPlaceholder
INVARIANTS TypeOK SentAsTheGrammarReads CommonPartAlike AddedAsWritten
