------------------------------- MODULE Masker -------------------------------
(***************************************************************************)
(* exprMasker (sqldefwrap/expr_mask.go): a walk over a CREATE TABLE that   *)
(* writes a placeholder for each body of a CHECK, DEFAULT or AS that       *)
(* sqldef's parser would reject, and the way back.  The two texts of a     *)
(* Diff share the masker, so the same body gets the same placeholder.      *)
(*                                                                         *)
(* Operators and places are named as in Quoter.                            *)
(***************************************************************************)
EXTENDS Tokens, SequencesExt

CONSTANT Placeholder    \* the names it mints, the first one first

(* sqldef's parser knows neither the operator nor a name that collides.    *)
(* (The code asks it for DEFAULT, CHECK and GENERATED apart; these make it *)
(* refuse all three.)                                                      *)
sqldefRejectsExpression(body) ==
    \E i \in DOMAIN body : body[i] \in {"glob", "name"}

(* Mutant: the placeholder minted last, whatever the body.                 *)
LastPlaceholder(bodies, body) == Placeholder[Len(bodies)]

placeholderFor(bodies, body) ==
    Placeholder[CHOOSE i \in DOMAIN bodies : bodies[i] = body]

(* Mutant: a body met before gets a placeholder all the same.              *)
AnotherBody(bodies, body) == Append(bodies, body)

WithBody(bodies, body) ==
    IF \E i \in DOMAIN bodies : bodies[i] = body THEN bodies ELSE Append(bodies, body)

(* at, depth and out are those of Quoter's walker;  then: where            *)
(* copyParenList and maskParenClause return to;  body: the words of the    *)
(* expression it is in;  bodies: those with a placeholder.                 *)
Walker(at, depth, then, out, body, bodies) ==
    [at |-> at, depth |-> depth, then |-> then, out |-> out, body |-> body, bodies |-> bodies]

Beginning(bodies) == Walker("statements", 0, "", << >>, << >>, bodies)

Calling(m, at, depth, then, word) ==
    Walker(at, depth, then, Append(m.out, word), << >>, m.bodies)
Loop(m, at, depth, word) == Calling(m, at, depth, m.then, word)
Past(m, at, word) == Loop(m, at, 0, word)

(* The entries of the column list, where none starts.                      *)
columnList(m, depth, word) ==
    LET inner == Deeper(depth, word)
    IN  CASE word = "comma" /\ depth = 1 -> Loop(m, "entry", 1, word)
          [] inner = 0 -> Past(m, "statements", word)
          [] OTHER -> Loop(m, "columnList", inner, word)

(* The rest of a column or constraint, up to the comma or parenthesis that *)
(* ends it.  Behind DEFAULT and AS too maskParenClause waits: if no        *)
(* parenthesis follows, nothing has been written that would not have been. *)
columnBody(m, word) ==
    CASE m.depth = 0 /\ word \in {"comma", ")"} -> columnList(m, 1, word)
      [] m.depth = 0 /\ word \in {"CHECK", "DEFAULT", "AS"} ->
            Calling(m, "maskParenClause", 0, "columnBody", word)
      [] OTHER -> Loop(m, "columnBody", Deeper(m.depth, word), word)

(* The words of an expression; what is written for it, and its parenthesis.*)
hideBody(m, word) ==
    Walker("body", Deeper(m.depth, word), m.then, m.out, Append(m.body, word), m.bodies)

closeBody(m, word) ==
    LET rejects == sqldefRejectsExpression(m.body)
        bodies == IF rejects THEN WithBody(m.bodies, m.body) ELSE m.bodies
        written == IF rejects THEN <<placeholderFor(bodies, m.body)>> ELSE m.body
    IN  Walker(m.then, IF m.then = "columnList" THEN 1 ELSE 0, m.then,
               Append(m.out \o written, word), << >>, bodies)

maskParenClause(m, word) ==
    IF word = "(" THEN Calling(m, "body", 1, m.then, word)
    ELSE IF m.then = "columnBody" THEN columnBody(m, word)
    ELSE columnList(m, 1, word)

copyParenList(m, word) ==
    LET depth == Deeper(m.depth, word)
    IN  Loop(m, IF depth = 0 THEN m.then ELSE "copyParenList", depth, word)

beginList(m, then, word) == Calling(m, "copyParenList", 1, then, word)

primaryOrUnique(m, word) ==
    IF word = "(" THEN beginList(m, "columnBody", word) ELSE columnBody(m, word)

(* Behind the list; before it; behind the name of the table.               *)
foreignKeyTail(m, word) ==
    IF word = "REFERENCES" THEN Past(m, word, word) ELSE columnBody(m, word)
foreignKey(m, word) ==
    IF word = "(" THEN beginList(m, "children", word) ELSE foreignKeyTail(m, word)
foreignKeyParent(m, word) ==
    IF word = "(" THEN beginList(m, "columnBody", word) ELSE columnBody(m, word)

tableConstraint(m, word) ==
    CASE word \in {"CONSTRAINT", "PRIMARY", "FOREIGN"} -> Past(m, word, word)
      [] word = "UNIQUE" -> Past(m, "keys", word)
      [] word = "CHECK" -> Calling(m, "maskParenClause", 0, "columnList", word)
      [] OTHER -> columnBody(m, word)

(* An entry of the column list.                                            *)
entry(m, word) ==
    IF isTableConstraintLead(word) THEN tableConstraint(m, word)
    ELSE Past(m, "columnBody", word)

statements(m, word) == Past(m, IF word = "CREATE" THEN word ELSE "statements", word)

next(m, word) ==
    IF m.at = "body"
    THEN IF word = ")" /\ m.depth = 1 THEN closeBody(m, word) ELSE hideBody(m, word)
    ELSE IF word = "space" THEN Loop(m, m.at, m.depth, word)
    ELSE CASE m.at = "statements" -> statements(m, word)
           [] m.at = "CREATE" ->
                IF word = "TABLE" THEN Past(m, word, word) ELSE statements(m, word)
           [] m.at = "TABLE" -> Past(m, "title", word)
           [] m.at = "title" ->
                IF word = "(" THEN Loop(m, "entry", 1, word) ELSE statements(m, word)
           [] m.at = "entry" -> entry(m, word)
           [] m.at = "columnList" -> columnList(m, m.depth, word)
           [] m.at = "CONSTRAINT" -> Past(m, "label", word)
           [] m.at = "label" -> tableConstraint(m, word)
           [] m.at = "PRIMARY" ->
                IF word = "KEY" THEN Past(m, "keys", word) ELSE primaryOrUnique(m, word)
           [] m.at = "keys" -> primaryOrUnique(m, word)
           [] m.at = "FOREIGN" ->
                IF word = "KEY" THEN Past(m, "foreignKey", word) ELSE foreignKey(m, word)
           [] m.at = "foreignKey" -> foreignKey(m, word)
           [] m.at = "children" -> foreignKeyTail(m, word)
           [] m.at = "REFERENCES" -> Past(m, "parent", word)
           [] m.at = "parent" -> foreignKeyParent(m, word)
           [] m.at = "copyParenList" -> copyParenList(m, word)
           [] m.at = "maskParenClause" -> maskParenClause(m, word)
           [] OTHER -> columnBody(m, word)

(* The walker at the end of the text: its out and its bodies.              *)
mask(words, bodies) ==
    LET walk[i \in 0 .. Len(words)] ==
            IF i = 0 THEN Beginning(bodies) ELSE next(walk[i - 1], words[i])
    IN  walk[Len(words)]

(* It is an error in the code if a placeholder is left; here none can be,  *)
(* as all of them are words of their own.                                  *)
unmaskOne(words, bodies) ==
    FlattenSeq([i \in DOMAIN words |->
        IF \E n \in DOMAIN bodies : Placeholder[n] = words[i]
        THEN bodies[CHOOSE n \in DOMAIN bodies : Placeholder[n] = words[i]]
        ELSE <<words[i]>>])
=============================================================================
