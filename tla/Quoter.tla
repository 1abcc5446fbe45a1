------------------------------- MODULE Quoter -------------------------------
(***************************************************************************)
(* quoteCollidingKeywords (sqldefwrap/quote.go): a walk over a CREATE TABLE *)
(* that quotes the bare identifiers sqldef would take for keywords, where  *)
(* the statement's structure says that they are identifiers.               *)
(*                                                                         *)
(* An operator is named for the function it translates and says what the   *)
(* function does with a word.  A walker waits at a loop, named for the     *)
(* function, or behind a keyword, named for the keyword; "title", "keys",  *)
(* "children", "parent" and "label" are the places between these.  Where   *)
(* columnList's defStart is true the walker waits at "entry", and where    *)
(* identList's entryStart is, at "ident".                                  *)
(***************************************************************************)
EXTENDS Tokens

(* "KEY" is a keyword of sqldef's that SQLite accepts as a name.           *)
Quoted == [name |-> "'name'", KEY |-> "'KEY'"]
sqldefRejectsIdentifier(word) == word \in DOMAIN Quoted

(* at: where it waits;  depth: of the parentheses that the loop counts;    *)
(* then: where identList returns to;  out: what is written.                *)
Walker(at, depth, then, out) == [at |-> at, depth |-> depth, then |-> then, out |-> out]

Beginning == Walker("statements", 0, "", << >>)

Loop(q, at, depth, word) == Walker(at, depth, q.then, Append(q.out, word))
Past(q, at, word) == Loop(q, at, 0, word)

quoteIdentAt(word) == IF sqldefRejectsIdentifier(word) THEN Quoted[word] ELSE word

(* The entries of the column list, where none starts.                      *)
columnList(q, depth, word) ==
    LET inner == Deeper(depth, word)
    IN  CASE word = "comma" /\ depth = 1 -> Loop(q, "entry", 1, word)
          [] inner = 0 -> Past(q, "statements", word)
          [] OTHER -> Loop(q, "columnList", inner, word)

(* The rest of a column or constraint, up to the comma or parenthesis that *)
(* ends it: a REFERENCES clause outside parentheses names identifiers.     *)
columnBody(q, word) ==
    CASE q.depth = 0 /\ word \in {"comma", ")"} -> columnList(q, 1, word)
      [] q.depth = 0 /\ word = "REFERENCES" -> Past(q, "REFERENCES", word)
      [] OTHER -> Loop(q, "columnBody", Deeper(q.depth, word), word)

(* The first word of each entry of a list of columns, up to its close.     *)
identList(q, word) ==
    LET depth == Deeper(q.depth, word)
    IN  CASE q.at = "ident" /\ q.depth = 1 /\ word \notin Punctuation ->
                Loop(q, "identList", 1, quoteIdentAt(word))
          [] word = "comma" /\ q.depth = 1 -> Loop(q, "ident", 1, word)
          [] depth = 0 -> Past(q, q.then, word)
          [] OTHER -> Loop(q, q.at, depth, word)

beginList(q, then, word) == Walker("ident", 1, then, Append(q.out, word))

(* Mutant: the list of columns behind the table is left out.               *)
TargetOnly(q, word) == columnBody(q, word)

(* Behind the name of the table.                                           *)
referencesClause(q, word) ==
    IF word = "(" THEN beginList(q, "columnBody", word) ELSE columnBody(q, word)

opaqueParenClause(q, word) ==
    LET depth == Deeper(q.depth, word)
    IN  IF q.at = "CHECK" /\ word # "(" THEN columnList(q, 1, word)
        ELSE IF depth > 0 THEN Loop(q, "opaqueParenClause", depth, word)
        ELSE Loop(q, "columnList", 1, word)

(* Behind the keywords, as in foreignKey.                                  *)
primaryOrUnique(q, word) ==
    IF word = "(" THEN beginList(q, "columnBody", word) ELSE columnBody(q, word)

(* Behind the list; before it.                                             *)
foreignKeyTail(q, word) ==
    IF word = "REFERENCES" THEN Past(q, "REFERENCES", word) ELSE columnBody(q, word)
foreignKey(q, word) ==
    IF word = "(" THEN beginList(q, "children", word) ELSE foreignKeyTail(q, word)

tableConstraint(q, word) ==
    CASE word \in {"CONSTRAINT", "PRIMARY", "FOREIGN", "CHECK"} -> Past(q, word, word)
      [] word = "UNIQUE" -> Past(q, "keys", word)
      [] OTHER -> columnBody(q, word)

(* An entry of the column list.                                            *)
entry(q, word) ==
    IF isTableConstraintLead(word) THEN tableConstraint(q, word)
    ELSE Past(q, "columnBody", quoteIdentAt(word))

statements(q, word) == Past(q, IF word = "CREATE" THEN word ELSE "statements", word)

next(q, word) ==
    IF word = "space" THEN Loop(q, q.at, q.depth, word)
    ELSE CASE q.at = "statements" -> statements(q, word)
           [] q.at = "CREATE" ->
                IF word = "TABLE" THEN Past(q, word, word) ELSE statements(q, word)
           [] q.at = "TABLE" -> Past(q, "title", quoteIdentAt(word))
           [] q.at = "title" ->
                IF word = "(" THEN Loop(q, "entry", 1, word) ELSE statements(q, word)
           [] q.at = "entry" -> entry(q, word)
           [] q.at = "columnList" -> columnList(q, q.depth, word)
           [] q.at = "CONSTRAINT" -> Past(q, "label", word)
           [] q.at = "label" -> tableConstraint(q, word)
           [] q.at = "PRIMARY" ->
                IF word = "KEY" THEN Past(q, "keys", word) ELSE primaryOrUnique(q, word)
           [] q.at = "keys" -> primaryOrUnique(q, word)
           [] q.at = "FOREIGN" ->
                IF word = "KEY" THEN Past(q, "foreignKey", word) ELSE foreignKey(q, word)
           [] q.at = "foreignKey" -> foreignKey(q, word)
           [] q.at = "children" -> foreignKeyTail(q, word)
           [] q.at = "REFERENCES" -> Past(q, "parent", quoteIdentAt(word))
           [] q.at = "parent" -> referencesClause(q, word)
           [] q.at \in {"ident", "identList"} -> identList(q, word)
           [] q.at \in {"CHECK", "opaqueParenClause"} -> opaqueParenClause(q, word)
           [] OTHER -> columnBody(q, word)

(* The walker behind some words.                                           *)
walked(words) ==
    LET walk[i \in 0 .. Len(words)] ==
            IF i = 0 THEN Beginning ELSE next(walk[i - 1], words[i])
    IN  walk[Len(words)]

quoteCollidingKeywords(words) == walked(words).out
=============================================================================
