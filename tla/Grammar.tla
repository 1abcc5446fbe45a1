------------------------------- MODULE Grammar ------------------------------
(***************************************************************************)
(* SQLite's grammar of a CREATE TABLE, as far as package sqldefwrap has to *)
(* tell its words apart: what the schemas SQLite accepts can say.          *)
(*                                                                         *)
(* It is written as a transition table: a place in a statement and the     *)
(* symbols that may follow there.  A symbol is a word (see Tokens) with    *)
(* what the grammar knows of it:                                           *)
(*   role     "name" an identifier; "key" a word of a column's REFERENCES  *)
(*            clause, "keyname" an identifier there; "body" a word of an   *)
(*            expression, "close" the parenthesis behind it; "end" one that*)
(*            begins or ends an entry of the column list; or "word";       *)
(*   at       the place behind it;                                         *)
(*   deep     what each parenthesis is for that is open there;             *)
(*   column   the number of the column it belongs to, or 0;                *)
(*   body     the words of the expression so far.                          *)
(*                                                                         *)
(* Left out: a column without a type, one whose type has several words or  *)
(* parameters, as DECIMAL(10, 2), and ON CONFLICT.  So no parenthesis is   *)
(* open inside a column but for an expression or behind REFERENCES.        *)
(***************************************************************************)
EXTENDS Integers, Sequences, SequencesExt

Symbol(word, role, at, deep, column, body) ==
    [word |-> word, role |-> role, at |-> at, deep |-> deep, column |-> column, body |-> body]

Nothing == Symbol("", "word", "create", << >>, 0, << >>)

(* An arc is a symbol and what it costs: each choice but the plainest.     *)
Arc(cost, symbol) == [cost |-> cost, is |-> symbol]

(* Behind p, outside of expressions: in the same column, deeper by one     *)
(* parenthesis, or out of one.                                             *)
Goes(p, cost, word, role, at) == Arc(cost, Symbol(word, role, at, p.deep, p.column, << >>))
Opens(p, word, role, at, what) ==
    Arc(0, Symbol(word, role, at, Append(p.deep, what), p.column, << >>))
Closes(p, role, at) == Arc(0, Symbol(")", role, at, Front(p.deep), p.column, << >>))

Id(p, role, at) ==
    {Goes(p, IF word = "plain" THEN 0 ELSE 1, word, role, at) : word \in {"plain", "name", "KEY"}}

(* Words of a REFERENCES clause are a column's key.                        *)
KeyWord(p) == IF p.column = 0 THEN "word" ELSE "key"
KeyName(p) == IF p.column = 0 THEN "name" ELSE "keyname"

(* An entry of the column list.                                            *)
Ends(cost, word, at, column) == Arc(cost, Symbol(word, "end", at, << >>, column, << >>))
End(p) ==
    {Ends(1, "comma", "constraint", 0), Ends(0, ")", "options", 0)}
    \cup (IF p.column = 0 THEN {} ELSE {Ends(1, "comma", "column", p.column + 1)})

Clauses(p) ==
    IF p.column = 0 THEN {}
    ELSE {Goes(p, 1, "DEFAULT", "word", "default"), Goes(p, 1, "CHECK", "word", "expression"),
          Goes(p, 1, "AS", "word", "expression"), Goes(p, 1, "CONSTRAINT", "word", "label"),
          Goes(p, 1, "REFERENCES", "key", "parent")}

Rest(p) == Clauses(p) \cup End(p)

(* A constraint of the table.                                              *)
Constraint(p) ==
    {Goes(p, 0, "PRIMARY", "word", "primary"), Goes(p, 0, "UNIQUE", "word", "keys"),
     Goes(p, 0, "CHECK", "word", "expression"), Goes(p, 0, "FOREIGN", "word", "foreign")}

(* Words of an expression.                                                 *)
Says(p, cost, word, at, deep) ==
    Arc(cost, Symbol(word, "body", at, deep, p.column, Append(p.body, word)))

Operand(p) ==
    {Says(p, 0, "plain", "operand", p.deep), Says(p, 0, "name", "operand", p.deep),
     Says(p, 1, "plain", "function", p.deep)}

(* Behind an operand, by what the innermost parenthesis is for.            *)
Behind(p) ==
    CASE Last(p.deep) = "body" ->
            {Arc(0, Symbol(")", "close", "rest", << >>, p.column, p.body))}
      [] Last(p.deep) = "cast" -> {Says(p, 0, "AS", "cast", p.deep)}
      [] OTHER -> {Says(p, 1, "comma", "expr", p.deep), Says(p, 0, ")", "operand", Front(p.deep))}

Operator(p) == {Says(p, 1, "glob", "expr", p.deep)} \cup Behind(p)

(* Behind a name in a list of names, which may go on or end.               *)
More(p) == IF p.column = 0 THEN {Goes(p, 1, "comma", "word", "list")} ELSE {}

Listed(p) ==
    CASE Last(p.deep) = "keys" ->
            {Goes(p, 1, "COLLATE", "word", "collation"), Closes(p, "word", "rest")}
      [] Last(p.deep) = "children" -> {Closes(p, "word", "references")}
      [] OTHER -> {Closes(p, KeyWord(p), "keyed")}

Inside(p) == p.deep # << >> /\ p.deep[1] = "body"

Space(p) ==
    IF p.at \in {"create", "ended"} THEN {}
    ELSE {IF Inside(p) THEN Says(p, 3, "space", p.at, p.deep)
                       ELSE Goes(p, 3, "space", "word", p.at)}

From(p) ==
    CASE p.at = "create" -> {Goes(p, 0, "CREATE", "word", "table")}
      [] p.at = "table" -> {Goes(p, 0, "TABLE", "word", "title")}
      [] p.at = "title" -> Id(p, "name", "columns")
      [] p.at = "columns" -> {Ends(0, "(", "column", 1)}
      [] p.at = "column" -> Id(p, "name", "type")
      [] p.at = "type" -> {Goes(p, 0, "plain", "word", "rest")}
      [] p.at = "rest" -> Rest(p)
      [] p.at = "label" -> {Goes(p, 0, "name", "word", "labelled")}
      [] p.at = "labelled" -> {Goes(p, 0, "PRIMARY", "word", "inline")}
      [] p.at = "inline" -> {Goes(p, 0, "KEY", "word", "rest")}
      [] p.at = "default" ->
            {Goes(p, 0, "name", "word", "rest"), Opens(p, "(", "word", "expr", "body")}
      [] p.at = "expression" -> {Opens(p, "(", "word", "expr", "body")}
      [] p.at = "parent" -> Id(p, KeyName(p), "parented")
      [] p.at = "parented" -> {Opens(p, "(", KeyWord(p), "list", "parent")} \cup Rest(p)
      [] p.at = "keyed" -> {Goes(p, 0, "SET", KeyWord(p), "set")} \cup Rest(p)
      [] p.at = "set" -> {Goes(p, 0, "DEFAULT", KeyWord(p), "rest")}
      [] p.at = "constraint" ->
            {Goes(p, 1, "CONSTRAINT", "word", "name")} \cup Constraint(p)
      [] p.at = "name" -> {Goes(p, 0, "KEY", "word", "named")}
      [] p.at = "named" -> Constraint(p)
      [] p.at = "primary" -> {Goes(p, 0, "KEY", "word", "keys")}
      [] p.at = "keys" -> {Opens(p, "(", "word", "list", "keys")}
      [] p.at = "foreign" -> {Goes(p, 0, "KEY", "word", "children")}
      [] p.at = "children" -> {Opens(p, "(", "word", "list", "children")}
      [] p.at = "list" -> Id(p, IF Last(p.deep) = "parent" THEN KeyName(p) ELSE "name", "listed")
      [] p.at = "listed" -> More(p) \cup Listed(p)
      [] p.at = "collation" -> {Goes(p, 0, "name", "word", "listed")}
      [] p.at = "references" -> {Goes(p, 0, "REFERENCES", "word", "parent")}
      [] p.at = "expr" -> Operand(p)
      [] p.at = "operand" -> Operator(p)
      [] p.at = "function" ->
            {Says(p, 0, "(", "expr", Append(p.deep, what)) : what \in {"call", "cast"}}
      [] p.at = "cast" -> {Says(p, 0, "plain", "casted", p.deep)}
      [] p.at = "casted" -> {Says(p, 0, ")", "operand", Front(p.deep))}
      [] p.at = "options" -> {Goes(p, 0, "plain", "word", "ended")}
      [] OTHER -> {}

Arcs(p) == Space(p) \cup From(p)
=============================================================================
