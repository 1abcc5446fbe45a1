------------------------------- MODULE Sqldef -------------------------------
(***************************************************************************)
(* sqldefDiffer.Diff (sqldefwrap/wrapper.go): the texts of one table,      *)
(* before and after, on their way through the sqldef library, whose parser *)
(* is not SQLite's.  Diff masks the expressions sqldef rejects, quotes the *)
(* names it rejects, asks sqldef, puts the expressions back and folds the  *)
(* foreign keys into the columns they belong to.                           *)
(*                                                                         *)
(* The text is written along SQLite's grammar, so that each word comes with*)
(* the role the grammar gives it; the walkers of Masker and Quoter see the *)
(* words alone and have to find the roles out.  The table is new, or the   *)
(* last of its columns are: callers ask for nothing else.                  *)
(***************************************************************************)
EXTENDS Grammar, FiniteSets, FiniteSetsExt

CONSTANTS Budget,       \* what a text may cost
          Placeholder   \* the names the masker mints

Words == {"CREATE", "TABLE", "(", ")", "comma", "plain", "name", "KEY", "glob", "space",
          "DEFAULT", "CHECK", "AS", "CONSTRAINT", "REFERENCES", "SET", "PRIMARY",
          "UNIQUE", "FOREIGN", "COLLATE"}

Q == INSTANCE Quoter
K == INSTANCE Masker

ASSUME BudgetIsNat == Budget \in Nat

(* newExprMasker looks for names that none of the texts contains.          *)
ASSUME PlaceholdersAreNew ==
    /\ Placeholder \in Seq(STRING) /\ Len(Placeholder) >= Budget
    /\ IsInjective(Placeholder)
    /\ \A i \in DOMAIN Placeholder :
          Placeholder[i] \notin Words \cup {Q!quoteIdentAt(word) : word \in Words}

VARIABLES pc,      \* "write", "diff", "ask", "answer", "done" or "refused"
          left,    \* what the text may still cost
          old,     \* how many of the text's columns the database has
          text,    \* [after, before]: the symbols of desiredDDL, currentDDL
          bodies,  \* the masker's bodies, by the number of their placeholder
          sent,    \* [after, before]: the words sqldef gets
          ddls     \* the statements on their way back

vars == <<pc, left, old, text, bodies, sent, ddls>>

(***************************************************************************)
(* What the grammar says of a text.                                        *)
(***************************************************************************)
Sides == {"after", "before"}
Neither == [side \in Sides |-> << >>]

WordsOf(symbols) == [i \in DOMAIN symbols |-> symbols[i].word]

(* Quotes round each identifier sqldef rejects.                            *)
InQuotes(symbol) ==
    IF symbol.role \in {"name", "keyname"} THEN Q!quoteIdentAt(symbol.word) ELSE symbol.word

(* A placeholder in the place of each expression sqldef rejects.           *)
Hidden(body) ==
    IF K!sqldefRejectsExpression(body) THEN <<K!placeholderFor(bodies, body)>> ELSE body

(* What sqldef should get for a symbol: an expression comes all at once,   *)
(* with the parenthesis behind it.                                         *)
Said(symbol) ==
    CASE symbol.role = "body" -> << >>
      [] symbol.role = "close" -> Hidden(symbol.body) \o <<symbol.word>>
      [] OTHER -> <<InQuotes(symbol)>>

Readable(symbols) == FlattenSeq([i \in DOMAIN symbols |-> Said(symbols[i])])

(* The columns.                                                            *)
Columns(symbols) == {symbols[i].column : i \in DOMAIN symbols}
Width(symbols) == Max({0} \cup Columns(symbols))

(* The text without the columns after the n-th; there is none without any. *)
Without(symbols, n) ==
    IF n = 0 THEN << >>
    ELSE FlattenSeq([i \in DOMAIN symbols |->
                        IF symbols[i].column > n THEN << >> ELSE <<symbols[i]>>])

Dense(words) ==
    FlattenSeq([i \in DOMAIN words |-> IF words[i] = "space" THEN << >> ELSE <<words[i]>>])

(* What a symbol of the n-th column says in its definition; in its key.    *)
Keyed(symbol) == symbol.role \in {"key", "keyname"}
Defines(symbol, n) == symbol.column = n /\ symbol.role # "end" /\ ~Keyed(symbol)
DefinitionOf(symbols, n) ==
    FlattenSeq([i \in DOMAIN symbols |->
        IF Defines(symbols[i], n) THEN Dense(Said(symbols[i])) ELSE << >>])
KeyOf(symbols, n) ==
    FlattenSeq([i \in DOMAIN symbols |->
        IF symbols[i].column = n /\ Keyed(symbols[i]) THEN Said(symbols[i]) ELSE << >>])

References(symbols, n) ==
    {i \in DOMAIN symbols : symbols[i].column = n /\ Keyed(symbols[i])
                            /\ symbols[i].word = "REFERENCES"}

Fresh == Width(text["after"]) - old

(***************************************************************************)
(* The user's schema.                                                      *)
(***************************************************************************)
Init ==
    /\ pc = "write" /\ left = Budget /\ old = 0
    /\ text = Neither /\ bodies = << >> /\ sent = Neither /\ ddls = << >>

Place(symbols) == IF symbols = << >> THEN Nothing ELSE Last(symbols)

Write ==
    /\ pc = "write"
    /\ \E arc \in Arcs(Place(text["after"])) :
          /\ arc.cost <= left
          /\ left' = left - arc.cost
          /\ text' = [text EXCEPT !["after"] = Append(@, arc.is)]
    /\ UNCHANGED <<pc, old, bodies, sent, ddls>>

(* The database has the table without its new columns, or not at all.      *)
Start ==
    /\ pc = "write" /\ Place(text["after"]).at = "ended"
    /\ \E n \in 0 .. Width(text["after"]) - 1 :
          /\ old' = n
          /\ text' = [text EXCEPT !["before"] = Without(text["after"], n)]
    /\ pc' = "diff"
    /\ UNCHANGED <<left, bodies, sent, ddls>>

(***************************************************************************)
(* Diff.                                                                   *)
(***************************************************************************)
(* The masker that has met the bodies of desiredDDL goes on to currentDDL. *)
Ask ==
    /\ pc = "diff"
    /\ LET after == K!mask(WordsOf(text["after"]), << >>)
           before == K!mask(WordsOf(text["before"]), after.bodies)
       IN  /\ bodies' = before.bodies
           /\ sent' = [after |-> Q!quoteCollidingKeywords(after.out),
                       before |-> Q!quoteCollidingKeywords(before.out)]
    /\ pc' = "ask"
    /\ UNCHANGED <<left, old, text, ddls>>

(* sqldef states the table, or each new column and then each of their      *)
(* foreign keys, of which it takes one to a column.  It may refuse.        *)
Statement(kind, n, words) == [kind |-> kind, column |-> n, words |-> words]

Answer ==
    /\ pc = "ask"
    /\ LET symbols == text["after"]
           columns == [i \in 1 .. Fresh |->
                         Statement("column", old + i, DefinitionOf(symbols, old + i))]
           keys == [i \in 1 .. Fresh |->
                      IF References(symbols, old + i) = {} THEN << >>
                      ELSE <<Statement("key", old + i, KeyOf(symbols, old + i))>>]
       IN  /\ sent["after"] = Readable(symbols)
           /\ \A i \in 1 .. Fresh : Cardinality(References(symbols, old + i)) <= 1
           /\ ddls' = IF old = 0 THEN <<Statement("table", 0, sent["after"])>>
                      ELSE columns \o FlattenSeq(keys)
    /\ pc' = "answer"
    /\ UNCHANGED <<left, old, text, bodies, sent>>

Refuse ==
    /\ pc = "ask" /\ pc' = "refused"
    /\ UNCHANGED <<left, old, text, bodies, sent, ddls>>

KeysOf(statements, s) ==
    {i \in DOMAIN statements : statements[i].kind = "key" /\ statements[i].column = s.column}

(* Mutant: the key replaces the column's definition.                       *)
FoldOver(statements) ==
    LET Folded(s) == IF KeysOf(statements, s) = {} THEN s
                     ELSE [s EXCEPT !.words = statements[Max(KeysOf(statements, s))].words]
    IN  FlattenSeq([i \in DOMAIN statements |->
            IF statements[i].kind = "key" THEN << >> ELSE <<Folded(statements[i])>>])

(* A column's definition, and the last key sqldef states for it.  Left out *)
(* are a key of a column that is not added, which is an error, and one     *)
(* parseAddForeignKey cannot read, which the code passes on as it is.      *)
foldForeignKeysIntoAddColumn(statements) ==
    LET Folded(s) == IF KeysOf(statements, s) = {} THEN s
                     ELSE [s EXCEPT !.words = @ \o statements[Max(KeysOf(statements, s))].words]
    IN  FlattenSeq([i \in DOMAIN statements |->
            IF statements[i].kind = "key" THEN << >> ELSE <<Folded(statements[i])>>])

unmask(statements) ==
    [i \in DOMAIN statements |-> [statements[i] EXCEPT !.words = K!unmaskOne(@, bodies)]]

Restore ==
    /\ pc = "answer" /\ pc' = "done"
    /\ ddls' = foldForeignKeysIntoAddColumn(unmask(ddls))
    /\ UNCHANGED <<left, old, text, bodies, sent>>

Ended == pc \in {"done", "refused"} /\ UNCHANGED vars

Next == Write \/ Start \/ Ask \/ Answer \/ Refuse \/ Restore \/ Ended

Spec == Init /\ [][Next]_vars

(***************************************************************************)
(* Properties.                                                             *)
(***************************************************************************)
(* Every variable holds what its declaration says.                         *)
TypeOK ==
    /\ pc \in {"write", "diff", "ask", "answer", "done", "refused"}
    /\ left \in 0 .. Budget /\ old \in 0 .. Budget
    /\ \A side \in Sides : \A i \in DOMAIN text[side] :
          text[side][i].word \in Words /\ text[side][i].column \in 0 .. Budget + 1
    /\ Len(bodies) <= Budget /\ IsInjective(bodies)
    /\ \A i \in DOMAIN bodies : K!sqldefRejectsExpression(bodies[i])
    /\ \A i \in DOMAIN ddls : ddls[i].kind \in {"table", "column", "key"}

(* What sqldef is sent is the text with a placeholder for exactly the      *)
(* expressions its parser rejects and quotes round exactly the identifiers *)
(* it rejects: the two walkers, which see no grammar, tell a name from a   *)
(* keyword, a list of names from an expression and a constraint of the     *)
(* table from a column wherever SQLite's grammar does.                     *)
SentAsTheGrammarReads ==
    pc = "ask" => \A side \in Sides : sent[side] = Readable(text[side])

(* sqldef sees what the two texts share in the same words: the one it gets *)
(* for the database is the one for the schema less the new columns, so no  *)
(* masked expression looks changed to it.                                  *)
CommonPartAlike ==
    pc = "ask" =>
        \E i, j \in 0 .. Len(sent["after"]) :
            sent["before"] = SubSeq(sent["after"], 1, i)
                             \o SubSeq(sent["after"], j + 1, Len(sent["after"]))

(* The words of a column: as they are written, but for quotes and space.   *)
Plain(symbols, n) ==
    LET Part(keyed) ==
            FlattenSeq([i \in DOMAIN symbols |->
                IF /\ symbols[i].column = n /\ symbols[i].role # "end"
                   /\ Keyed(symbols[i]) = keyed
                THEN <<InQuotes(symbols[i])>> ELSE << >>])
    IN  Part(FALSE) \o Part(TRUE)

(* What Diff returns says what the schema says, space aside: each new      *)
(* column with its own expressions and its foreign key, the key last, and  *)
(* no statement SQLite lacks.                                              *)
AddedAsWritten ==
    pc = "done" =>
        LET symbols == text["after"]
            Unspaced(s) == [s EXCEPT !.words = Dense(@)]
        IN  [i \in DOMAIN ddls |-> Unspaced(ddls[i])] =
                IF old = 0
                THEN <<Statement("table", 0,
                          Dense([i \in DOMAIN symbols |-> InQuotes(symbols[i])]))>>
                ELSE [i \in 1 .. Fresh |->
                        Statement("column", old + i, Dense(Plain(symbols, old + i)))]
=============================================================================
